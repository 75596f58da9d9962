--------------------------- MODULE Lr1110_proofs ---------------------------
(***************************************************************************)
(* The two levels of the LR1110 decoder.                                   *)
(*                                                                         *)
(* No bit of an SPI selection is lost, and a selection is reported as its  *)
(* whole bytes: proved for bytes of any length, an array of any size and   *)
(* selections as long as one likes.                                        *)
(*                                                                         *)
(* What the LR1110 decoder makes of its host's packets, proved for every   *)
(* set of commands and parameters, any number of packets and any number of *)
(* interrupts.  The argument is a table: how many packets in a row were    *)
(* taken for something else says what the decoder waits for and what the   *)
(* host is owed.                                                           *)
(***************************************************************************)
EXTENDS Lr1110Spi, Lr1110Host, TLAPS

(***************************************************************************)
(* The bits of a selection.                                                *)
(***************************************************************************)

\* The bytes and the part of a byte that a sequence of bits is cut into.
Cut(all, bytes, part) ==
  /\ Len(all) = Len(bytes) * ByteBits + Len(part)
  /\ \A n \in 1..Len(bytes) :
       bytes[n] = SubSeq(all, (n - 1) * ByteBits + 1, n * ByteBits)
  /\ part = SubSeq(all, Len(bytes) * ByteBits + 1, Len(all))

BitsOK ==
  /\ nss \in {0, 1} /\ clk \in {0, 1}
  /\ overrun \in BOOLEAN
  /\ bits \in Seq({0, 1})
  /\ accumulated \in Seq({0, 1})
  /\ array \in Seq(Seq({0, 1}))

\* While the chip is selected everything clocked is in the accumulator or in the
\* array, byte by byte; the accumulator is full only when the program has given up.
BitsKept ==
  /\ nss = 0 => Cut(bits, array, accumulated)
  /\ nss = 1 => bits = <<>>
  /\ Len(accumulated) <= ByteBits
  /\ Len(accumulated) = ByteBits <=> overrun
  /\ Len(array) <= NumberBytes
  /\ overrun => Len(array) = NumberBytes

SpiInv == BitsOK /\ BitsKept

\* No bits and no bytes.
LEMMA EmptyBits == <<>> \in Seq({0, 1}) /\ <<>> \in Seq(Seq({0, 1})) /\ Len(<<>>) = 0
OBVIOUS

\* No bits are cut into no bytes.
LEMMA NothingCut == Cut(<<>>, <<>>, <<>>)
BY SizesAssumption DEF Cut

\* Nothing has been clocked yet.
LEMMA InitSpi == SpiInit => SpiInv
<1> SUFFICES ASSUME SpiInit PROVE SpiInv
  OBVIOUS
<1>1. Len(bits) = 0 /\ Len(array) = 0 /\ Len(accumulated) = 0
  BY DEF SpiInit
<1>2. Cut(<<>>, <<>>, <<>>)
  BY NothingCut
<1>3. BitsOK
  BY EmptyBits DEF SpiInit, BitsOK
<1>4. QED
  BY <1>1, <1>2, <1>3, SizesAssumption DEF SpiInit, SpiInv, BitsKept

\* The byte in the middle of a product: k bytes of b bits end below the next byte.
LEMMA ByteOrder ==
  ASSUME NEW b \in Nat, NEW k \in Nat, NEW n \in 1..k
  PROVE  n * b <= k * b /\ (n - 1) * b \in Nat /\ n * b \in Nat /\ n * b = (n - 1) * b + b
<1>1. (k - n) * b >= 0
  OBVIOUS
<1>2. (k - n) * b = k * b - n * b
  OBVIOUS
<1>3. (n - 1) * b = n * b - b
  OBVIOUS
<1>4. (n - 1) * b \in Nat
  OBVIOUS
<1>5. QED
  BY <1>1, <1>2, <1>3, <1>4

\* What is cut from a sequence is still cut from a longer one.
LEMMA CutFromLonger ==
  ASSUME NEW S, NEW s \in Seq(S), NEW e \in S, NEW i \in Nat \ {0}, NEW j \in Nat, j <= Len(s)
  PROVE  SubSeq(Append(s, e), i, j) = SubSeq(s, i, j)
<1>1. \A m \in i..j : Append(s, e)[m] = s[m]
  OBVIOUS
<1>2. QED
  BY <1>1

\* A bit added to a sequence is added to its end.
LEMMA CutToEnd ==
  ASSUME NEW S, NEW s \in Seq(S), NEW e \in S, NEW i \in Nat \ {0}, i <= Len(s) + 1
  PROVE  SubSeq(Append(s, e), i, Len(s) + 1) = Append(SubSeq(s, i, Len(s)), e)
OBVIOUS

\* One more bit, in a byte that may now be whole but is not stored.
LEMMA CutOneMore ==
  ASSUME NEW all \in Seq({0, 1}), NEW bytes \in Seq(Seq({0, 1})),
         NEW part \in Seq({0, 1}), NEW bit \in {0, 1}, Cut(all, bytes, part)
  PROVE  Cut(Append(all, bit), bytes, Append(part, bit))
<1>1. /\ ByteBits \in Nat /\ Len(bytes) \in Nat /\ Len(bytes) * ByteBits \in Nat
      /\ Len(all) = Len(bytes) * ByteBits + Len(part)
  BY SizesAssumption DEF Cut
<1>2. Len(Append(all, bit)) = Len(all) + 1 /\ Len(Append(part, bit)) = Len(part) + 1
  OBVIOUS
<1>3. ASSUME NEW n \in 1..Len(bytes)
      PROVE  bytes[n] = SubSeq(Append(all, bit), (n - 1) * ByteBits + 1, n * ByteBits)
  <2>1. /\ n * ByteBits \in Nat /\ n * ByteBits <= Len(bytes) * ByteBits
        /\ (n - 1) * ByteBits \in Nat
    BY <1>1, ByteOrder
  <2>2. /\ n * ByteBits <= Len(all)
        /\ (n - 1) * ByteBits + 1 \in Nat \ {0}
    <3> DEFINE low == (n - 1) * ByteBits
               high == n * ByteBits
               held == Len(bytes) * ByteBits
    <3>1. high \in Nat /\ high <= held /\ low \in Nat
      BY <2>1
    <3>2. held \in Nat /\ Len(all) = held + Len(part) /\ Len(part) \in Nat
      BY <1>1
    <3> HIDE DEF low, high, held
    <3>3. high <= Len(all) /\ low + 1 \in Nat \ {0}
      BY <3>1, <3>2
    <3>4. QED
      BY <3>3 DEF low, high
  <2>3. SubSeq(Append(all, bit), (n - 1) * ByteBits + 1, n * ByteBits)
          = SubSeq(all, (n - 1) * ByteBits + 1, n * ByteBits)
    BY <2>1, <2>2, CutFromLonger
  <2>4. QED
    BY <2>3 DEF Cut
<1>4. Append(part, bit)
        = SubSeq(Append(all, bit), Len(bytes) * ByteBits + 1, Len(all) + 1)
  <2>1. Len(bytes) * ByteBits + 1 \in Nat \ {0} /\ Len(bytes) * ByteBits + 1 <= Len(all) + 1
    BY <1>1
  <2>2. QED
    BY <2>1, CutToEnd DEF Cut
<1> DEFINE more == Append(all, bit)
           byte == Append(part, bit)
<1>5. Len(more) = Len(bytes) * ByteBits + Len(byte) /\ Len(more) = Len(all) + 1
  <2>1. Len(part) \in Nat
    OBVIOUS
  <2>2. QED
    BY <1>1, <1>2, <2>1
<1> HIDE DEF more, byte
<1>6. \A n \in 1..Len(bytes) :
        bytes[n] = SubSeq(more, (n - 1) * ByteBits + 1, n * ByteBits)
  BY <1>3 DEF more
<1>7. byte = SubSeq(more, Len(bytes) * ByteBits + 1, Len(more))
  BY <1>4, <1>5 DEF more, byte
<1>8. Cut(more, bytes, byte)
  BY <1>5, <1>6, <1>7 DEF Cut
<1>9. QED
  BY <1>8 DEF more, byte

\* A whole byte moves from the accumulator to the array.
LEMMA CutWholeByte ==
  ASSUME NEW all \in Seq({0, 1}), NEW bytes \in Seq(Seq({0, 1})),
         NEW part \in Seq({0, 1}), Cut(all, bytes, part), Len(part) = ByteBits
  PROVE  Cut(all, Append(bytes, part), <<>>)
<1> DEFINE more == Append(bytes, part)
<1>1. /\ ByteBits \in Nat /\ Len(bytes) \in Nat /\ Len(all) \in Nat
      /\ Len(more) = Len(bytes) + 1
  BY SizesAssumption
<1>2. Len(more) * ByteBits = Len(bytes) * ByteBits + ByteBits
  BY <1>1
<1>3. Len(all) = Len(more) * ByteBits
  BY <1>2 DEF Cut
<1>4. ASSUME NEW n \in 1..Len(more)
      PROVE  more[n] = SubSeq(all, (n - 1) * ByteBits + 1, n * ByteBits)
  <2>1. CASE n \in 1..Len(bytes)
    BY <2>1 DEF Cut
  <2>2. CASE n = Len(bytes) + 1
    <3>1. more[n] = part /\ n * ByteBits = Len(all) /\ n - 1 = Len(bytes)
      BY <1>1, <1>3, <2>2
    <3>2. QED
      BY <3>1 DEF Cut
  <2>3. QED
    BY <1>1, <2>1, <2>2
<1>5. <<>> = SubSeq(all, Len(more) * ByteBits + 1, Len(all))
  BY <1>1, <1>3
<1> HIDE DEF more
<1>6. Cut(all, more, <<>>)
  <2>1. Len(all) = Len(more) * ByteBits + Len(<<>>)
    BY <1>1, <1>3
  <2>2. \A n \in 1..Len(more) :
          more[n] = SubSeq(all, (n - 1) * ByteBits + 1, n * ByteBits)
    BY <1>4
  <2>3. QED
    BY <1>5, <2>1, <2>2 DEF Cut
<1>7. QED
  BY <1>6 DEF more

-----------------------------------------------------------------------------
(* The steps.                                                              *)

\* What is left when a falling chip select has cleared the accumulators.
LEMMA ClearKeeps ==
  ASSUME SpiInv, NEW level \in {0, 1}, level = 0
  PROVE  /\ Cleared(level, bits) \in Seq({0, 1})
         /\ Cleared(level, accumulated) \in Seq({0, 1})
         /\ Cleared(level, array) \in Seq(Seq({0, 1}))
         /\ Cut(Cleared(level, bits), Cleared(level, array), Cleared(level, accumulated))
         /\ Len(Cleared(level, accumulated)) \in {0, Len(accumulated)}
         /\ Len(Cleared(level, array)) \in {0, Len(array)}
<1>1. CASE nss = 0
  BY <1>1 DEF Cleared, Falls, SpiInv, BitsOK, BitsKept
<1>2. CASE nss = 1
  BY <1>2, NothingCut, EmptyBits DEF Cleared, Falls
<1>3. QED
  BY <1>1, <1>2 DEF SpiInv, BitsOK

\* Deselecting leaves the accumulators for the next selection to clear.
LEMMA EndPacketKeeps ==
  ASSUME SpiInv, ~overrun, NEW level \in {0, 1}, NEW clock \in {0, 1},
         EndPacket(level, clock), nss' = level, clk' = clock
  PROVE  SpiInv'
<1>1. /\ UNCHANGED <<accumulated, array, overrun>> /\ bits' = <<>> /\ nss' = 1
  BY DEF EndPacket, Rises
<1>2. BitsOK'
  BY <1>1, EmptyBits DEF SpiInv, BitsOK
<1>3. BitsKept'
  BY <1>1 DEF SpiInv, BitsKept
<1>4. QED
  BY <1>2, <1>3 DEF SpiInv

\* A frame without a bit clears the accumulators or leaves them.
LEMMA NoBitKeeps ==
  ASSUME SpiInv, ~overrun, NEW level \in {0, 1}, NEW clock \in {0, 1},
         NoBit(level, clock), nss' = level, clk' = clock
  PROVE  SpiInv'
<1>1. CASE level = 0
  <2>1. /\ bits' = Cleared(level, bits) /\ array' = Cleared(level, array)
        /\ accumulated' = Cleared(level, accumulated) /\ overrun' = overrun
        /\ nss' = 0 /\ clk' \in {0, 1}
    BY <1>1 DEF NoBit
  <2>2. BitsOK' /\ Cut(bits', array', accumulated')
    BY <1>1, <2>1, ClearKeeps DEF SpiInv, BitsOK
  <2>3. Len(accumulated') \in {0, Len(accumulated)} /\ Len(array') \in {0, Len(array)}
    BY <1>1, <2>1, ClearKeeps
  <2>4. BitsKept'
    BY <2>1, <2>2, <2>3, SizesAssumption, SMTT(30) DEF SpiInv, BitsOK, BitsKept
  <2>5. QED
    BY <2>2, <2>4 DEF SpiInv
<1>2. CASE level = 1
  <2>1. nss = 1
    BY <1>2 DEF NoBit, Rises, SpiInv, BitsOK
  <2>2. UNCHANGED <<bits, array, accumulated, overrun>> /\ nss' = 1
    BY <1>2 DEF NoBit, Cleared, Falls
  <2>3. QED
    BY <2>1, <2>2 DEF SpiInv, BitsOK, BitsKept
<1>3. QED
  BY <1>1, <1>2

\* A bit goes to the accumulator, and a whole byte to the array.
LEMMA AddedBitKeeps ==
  ASSUME SpiInv, ~overrun, NEW level \in {0, 1}, NEW clock \in {0, 1},
         NEW mosi \in {0, 1}, AddBit(level, clock, mosi), nss' = level, clk' = clock
  PROVE  SpiInv'
<1> DEFINE all   == Cleared(level, bits)
           bytes == Cleared(level, array)
           part  == Cleared(level, accumulated)
           more  == Append(all, mosi)
           byte  == Append(part, mosi)
<1>1. level = 0 /\ nss' = 0 /\ clk' \in {0, 1} /\ bits' = more
  BY DEF AddBit, ClockBit
<1>2. /\ all \in Seq({0, 1}) /\ part \in Seq({0, 1}) /\ bytes \in Seq(Seq({0, 1}))
      /\ Cut(all, bytes, part)
      /\ Len(part) \in {0, Len(accumulated)}
      /\ Len(bytes) \in {0, Len(array)}
  BY <1>1, ClearKeeps
<1>3. /\ Len(accumulated) \in Nat /\ Len(accumulated) < ByteBits
      /\ Len(array) \in Nat /\ Len(array) <= NumberBytes
      /\ ByteBits \in Nat \ {0} /\ NumberBytes \in Nat \ {0, 1}
  BY SizesAssumption DEF SpiInv, BitsOK, BitsKept
<1>4. \/ Len(byte) < ByteBits /\ accumulated' = byte /\ array' = bytes /\ overrun' = overrun
      \/ /\ ~(Len(byte) < ByteBits) /\ Len(bytes) = NumberBytes
         /\ accumulated' = byte /\ array' = bytes /\ overrun' = TRUE
      \/ /\ ~(Len(byte) < ByteBits) /\ Len(bytes) # NumberBytes
         /\ accumulated' = <<>> /\ array' = Append(bytes, byte) /\ overrun' = overrun
  BY DEF AddBit
<1> HIDE DEF all, bytes, part
<1>5. /\ more \in Seq({0, 1}) /\ byte \in Seq({0, 1})
      /\ Len(byte) = Len(part) + 1 /\ Len(part) \in Nat /\ Len(bytes) \in Nat
  BY <1>2
<1>6. Cut(more, bytes, byte)
  BY <1>2, CutOneMore
<1> HIDE DEF more, byte
<1>7. Len(byte) <= ByteBits /\ Len(bytes) <= NumberBytes
  BY <1>2, <1>3, <1>5, SizesAssumption
<1>8. CASE accumulated' = byte /\ array' = bytes
  <2>1. BitsOK'
    BY <1>1, <1>2, <1>4, <1>5, <1>8 DEF BitsOK, SpiInv
  <2>2. overrun' <=> Len(byte) = ByteBits
    BY <1>4, <1>5, <1>7, <1>3, <1>8, EmptyBits
  <2>3. overrun' => Len(bytes) = NumberBytes
    BY <1>4, <1>8, <1>5, EmptyBits
  <2>4. BitsKept'
    BY <1>1, <1>6, <1>7, <1>8, <2>2, <2>3 DEF BitsKept
  <2>5. QED
    BY <2>1, <2>4 DEF SpiInv
<1>9. CASE /\ ~(Len(byte) < ByteBits) /\ Len(bytes) # NumberBytes
           /\ accumulated' = <<>> /\ array' = Append(bytes, byte) /\ overrun' = overrun
  <2>1. Len(byte) = ByteBits /\ Len(bytes) + 1 <= NumberBytes
    BY <1>3, <1>5, <1>7, <1>9
  <2>2. Cut(more, array', <<>>)
    BY <1>2, <1>5, <1>6, <1>9, <2>1, CutWholeByte
  <2>3. array' \in Seq(Seq({0, 1})) /\ Len(array') = Len(bytes) + 1
    BY <1>2, <1>5, <1>9
  <2>4. BitsOK'
    BY <1>1, <1>5, <1>9, <2>3, EmptyBits DEF BitsOK, SpiInv
  <2>5. BitsKept'
    BY <1>1, <1>3, <1>9, <2>1, <2>2, <2>3, EmptyBits DEF BitsKept
  <2>6. QED
    BY <2>4, <2>5 DEF SpiInv
<1>10. QED
  BY <1>4, <1>8, <1>9

\* The invariant is inductive.
LEMMA SpiStep == SpiInv /\ [SpiNext]_allSpiVars => SpiInv'
<1> SUFFICES ASSUME SpiInv, [SpiNext]_allSpiVars PROVE SpiInv'
  OBVIOUS
<1>1. ASSUME NEW level \in {0, 1}, NEW clock \in {0, 1}, NEW mosi \in {0, 1},
             ProcessFrame(level, clock, mosi)
      PROVE  SpiInv'
  <2>1. /\ ~overrun /\ nss' = level /\ clk' = clock
        /\ EndPacket(level, clock) \/ AddBit(level, clock, mosi) \/ NoBit(level, clock)
    BY <1>1 DEF ProcessFrame
  <2>2. QED
    BY <2>1, EndPacketKeeps, AddedBitKeeps, NoBitKeeps
<1>2. CASE UNCHANGED allSpiVars
  BY <1>2 DEF allSpiVars, spiVars, SpiInv, BitsOK, BitsKept
<1>3. QED
  BY <1>1, <1>2 DEF SpiNext

\* The selection so far is in the accumulators, whatever the lines do.
THEOREM SelectionKept == SpiSpec => []SpiInv
BY InitSpi, SpiStep, PTL DEF SpiSpec

\* Nothing is stored outside the array, and no bit of a selection is lost.
THEOREM NoBitLost == SpiSpec => [](SpiTypeOK /\ NothingLost)
<1>1. SpiInv => SpiTypeOK /\ NothingLost
  BY DEF SpiInv, BitsOK, BitsKept, SpiTypeOK, NothingLost, Cut
<1>2. QED
  BY <1>1, SelectionKept, PTL

-----------------------------------------------------------------------------
(* The decoder implements what an SPI listener promises.                   *)

\* Division by the length of a byte counts the bytes that are whole.
LEMMA WholeBytes ==
  ASSUME NEW b \in Nat \ {0}, NEW k \in Nat, NEW r \in Nat, r < b
  PROVE  (k * b + r) \div b = k
<1> DEFINE n == k * b + r
           q == n \div b
<1>1. n \in Nat /\ q \in Nat /\ q * b <= n /\ n < (q + 1) * b
  OBVIOUS
<1>2. (q + 1) * b = q * b + b /\ (k + 1) * b = k * b + b
  BY <1>1
<1>3. ~(q <= k - 1)
  <2>1. ASSUME q <= k - 1 PROVE (k - 1 - q) * b >= 0
    BY <1>1, <2>1
  <2>2. (k - 1 - q) * b = k * b - b - q * b
    BY <1>1
  <2>3. QED
    BY <1>1, <1>2, <2>1, <2>2
<1>4. ~(q >= k + 1)
  <2>1. ASSUME q >= k + 1 PROVE (q - k - 1) * b >= 0
    BY <1>1, <2>1
  <2>2. (q - k - 1) * b = q * b - k * b - b
    BY <1>1
  <2>3. QED
    BY <1>1, <1>2, <2>1, <2>2
<1>5. QED
  BY <1>1, <1>3, <1>4

\* A deselected chip is reported as the bytes of its selection.
LEMMA DeselectReports ==
  ASSUME SpiInv, ~overrun, NEW level \in {0, 1}, NEW clock \in {0, 1},
         EndPacket(level, clock)
  PROVE  Promise!Deselect
<1>1. /\ nss = 0 /\ bits' = <<>>
      /\ parsed' = IF Len(array) >= 2 THEN array ELSE <<>>
  BY DEF EndPacket, Rises, Parses
<1>2. /\ Cut(bits, array, accumulated) /\ Len(accumulated) < ByteBits
      /\ Len(accumulated) \in Nat /\ Len(array) \in Nat /\ array \in Seq(Seq({0, 1}))
      /\ ByteBits \in Nat \ {0}
  BY <1>1, SizesAssumption DEF SpiInv, BitsOK, BitsKept
<1>3. Promise!NumBytes = Len(array)
  BY <1>2, WholeBytes DEF Promise!NumBytes, Cut
<1>4. array = [n \in 1..Len(array) |-> Promise!ByteAt(n)]
  <2>1. array = [n \in 1..Len(array) |-> array[n]]
    BY <1>2
  <2>2. \A n \in 1..Len(array) : array[n] = Promise!ByteAt(n)
    BY <1>2 DEF Cut, Promise!ByteAt
  <2>3. QED
    BY <2>1, <2>2, Zenon
<1>5. QED
  BY <1>1, <1>3, <1>4 DEF Promise!Deselect

\* The SPI decoder implements its abstract specification.
THEOREM SpiImplementsPromise == SpiSpec => ReportsPackets
<1>1. SpiInit => Promise!Init
  BY DEF SpiInit, Promise!Init
<1>2. SpiInv /\ [SpiNext]_allSpiVars => [Promise!Next]_<<bits, parsed>>
  <2> SUFFICES ASSUME SpiInv, [SpiNext]_allSpiVars PROVE [Promise!Next]_<<bits, parsed>>
    OBVIOUS
  <2>1. ASSUME NEW level \in {0, 1}, NEW clock \in {0, 1}, NEW mosi \in {0, 1},
               ProcessFrame(level, clock, mosi)
        PROVE  Promise!Next
    <3>1. CASE EndPacket(level, clock)
      BY <2>1, <3>1, DeselectReports DEF ProcessFrame, Promise!Next
    <3>2. CASE AddBit(level, clock, mosi)
      <4>1. parsed' = <<>> /\ bits' = Append(Cleared(level, bits), mosi)
        BY <3>2 DEF AddBit
      <4>2. Append(<<>>, mosi) = <<mosi>>
        OBVIOUS
      <4>3. Promise!Bit(mosi) \/ Promise!Select(<<mosi>>)
        BY <4>1, <4>2, Zenon DEF Cleared, Promise!Bit, Promise!Select
      <4>4. QED
        BY <4>3 DEF Promise!Next
    <3>3. CASE NoBit(level, clock)
      BY <3>3 DEF NoBit, Cleared, Promise!Select, Promise!Quiet, Promise!Next
    <3>4. QED
      BY <2>1, <3>1, <3>2, <3>3 DEF ProcessFrame
  <2>2. QED
    BY <2>1 DEF SpiNext, allSpiVars, spiVars
<1>3. QED
  BY <1>1, <1>2, SelectionKept, PTL DEF SpiSpec, ReportsPackets, Promise!Spec

(***************************************************************************)
(* The commands and responses of the host.                                 *)
(***************************************************************************)

\* What the decoder waits for and what the host is owed, after so many slips.
InStep ==
  /\ slips \in {0, 1, 2}
  /\ slips = 0 => pending = owed \/ (since_bare = 0 /\ owed = Nothing)
  /\ slips = 1 => pending = Nothing
  /\ slips = 2 => pending = Nothing /\ owed = Nothing

HostInv ==
  /\ host \in Hosts
  /\ pending \in TwoPhase \cup {Nothing}
  /\ owed \in TwoPhase \cup {Nothing}
  /\ since_bare \in 0..Far
  /\ InStep
  /\ ~host.talks_over /\ slips # 0 => since_bare <= slips

\* Nothing is no command, so it is never taken for one that is answered.
LEMMA NothingIsNoCommand == Nothing \notin TwoPhase
BY DEF Nothing, TwoPhase, In

\* They start in step.
LEMMA InitHost == Init => HostInv
BY DEF Init, DecoderInit, HostInv, InStep, Far

\* A packet of the host as the decoder reads it: the pending command's response, or a
\* command.
LEMMA CommandRead ==
  ASSUME HostInv, NEW command \in host.commands, NEW arg, NEW nb, NEW flags
  PROVE  /\ Command(CommandPacket(command, arg, nb, flags)) = command
         /\ Reading(CommandPacket(command, arg, nb, flags)) =
              IF pending # Nothing
              THEN [command |-> pending, response |-> TRUE]
              ELSE [command |-> command, response |-> FALSE]
<1>1. command = [group |-> command.group, cmd |-> command.cmd]
  BY HostAssumption DEF HostInv
<1>2. Command(CommandPacket(command, arg, nb, flags)) = command
  BY <1>1 DEF Command, CommandPacket
<1>3. QED
  BY <1>2 DEF Reading

LEMMA ResponseRead ==
  ASSUME NEW arg
  PROVE  /\ Command(ResponsePacket(arg)) = Nothing
         /\ Reading(ResponsePacket(arg)) =
              IF pending # Nothing
              THEN [command |-> pending, response |-> TRUE]
              ELSE [command |-> Nothing, response |-> FALSE]
<1>1. Command(ResponsePacket(arg)) = Nothing
  BY DEF Command, Nothing, ResponsePacket
<1>2. QED
  BY <1>1 DEF Reading

\* A response is never the same as a command.
LEMMA ResponseIsNoCommand ==
  \A one, other : [command |-> one, response |-> TRUE] # [command |-> other, response |-> FALSE]
<1> SUFFICES ASSUME NEW one, NEW other
             PROVE  [command |-> one, response |-> TRUE]
                      # [command |-> other, response |-> FALSE]
  OBVIOUS
<1>1. /\ [command |-> one, response |-> TRUE].response = TRUE
      /\ [command |-> other, response |-> FALSE].response = FALSE
  OBVIOUS
<1>2. QED
  BY <1>1

\* A command: heard as one unless the decoder waits for a response.
LEMMA SendKeeps ==
  ASSUME HostInv, NEW command \in host.commands, NEW arg, NEW nb, NEW flags, NEW irqs,
         SendCommand(command, arg, nb, flags, irqs)
  PROVE  HostInv'
<1> DEFINE packet == CommandPacket(command, arg, nb, flags)
           truth  == [command |-> command, response |-> FALSE]
<1>1. /\ pending' = PendingAfter(packet)
      /\ slips' = IF Reading(packet) = truth THEN 0 ELSE slips + 1
      /\ since_bare' = IF since_bare < Far THEN since_bare + 1 ELSE Far
      /\ owed' = IF command \in TwoPhase THEN command ELSE Nothing
      /\ host' = host
      /\ owed = Nothing \/ host.talks_over
  BY DEF SendCommand, Hear, ParsePacket
<1>2. Reading(packet) =
        IF pending # Nothing THEN [command |-> pending, response |-> TRUE] ELSE truth
  BY CommandRead
<1>3. PendingAfter(packet) =
        IF pending = Nothing /\ command \in TwoPhase THEN command ELSE Nothing
  BY CommandRead DEF PendingAfter
<1>4. since_bare' \in 0..Far
  BY <1>1 DEF HostInv, Far
<1> HIDE DEF packet
<1>5. CASE pending = Nothing
  BY <1>1, <1>2, <1>3, <1>4, <1>5 DEF HostInv, InStep
<1>6. CASE pending # Nothing
  <2>1. slips = 0 /\ (host.talks_over \/ since_bare = 0)
    BY <1>1, <1>6 DEF HostInv, InStep
  <2>2. [command |-> pending, response |-> TRUE] # truth
    BY ResponseIsNoCommand
  <2>3. slips' = 1 /\ pending' = Nothing
    BY <1>1, <1>2, <1>3, <1>6, <2>1, <2>2
  <2>4. host.talks_over \/ since_bare' = 1
    BY <1>1, <2>1 DEF Far
  <2>5. host' \in Hosts /\ owed' \in TwoPhase \cup {Nothing}
    BY <1>1 DEF HostInv
  <2>6. ~host'.talks_over => since_bare' <= slips'
    BY <1>1, <2>3, <2>4
  <2>7. QED
    BY <1>4, <2>3, <2>5, <2>6 DEF HostInv, InStep
<1>7. QED
  BY <1>5, <1>6

\* A response: heard as one unless the decoder does not wait for it any more.
LEMMA ReadKeeps ==
  ASSUME HostInv, NEW arg, NEW irqs, ReadResponse(arg, irqs)
  PROVE  HostInv'
<1> DEFINE packet == ResponsePacket(arg)
           truth  == [command |-> owed, response |-> TRUE]
<1>1. /\ owed # Nothing
      /\ pending' = PendingAfter(packet)
      /\ slips' = IF Reading(packet) = truth THEN 0 ELSE slips + 1
      /\ since_bare' = IF since_bare < Far THEN since_bare + 1 ELSE Far
      /\ owed' = Nothing
      /\ host' = host
  BY DEF ReadResponse, Hear, ParsePacket
<1>2. PendingAfter(packet) = Nothing
  BY ResponseRead, NothingIsNoCommand DEF PendingAfter
<1>3. Reading(packet) = IF pending # Nothing
                        THEN [command |-> pending, response |-> TRUE]
                        ELSE [command |-> Nothing, response |-> FALSE]
  BY ResponseRead
<1>4. since_bare' \in 0..Far
  BY <1>1 DEF HostInv, Far
<1> HIDE DEF packet
<1>5. CASE pending = owed
  <2>1. slips' = 0
    BY <1>1, <1>3, <1>5
  <2>2. QED
    BY <1>1, <1>2, <1>4, <2>1 DEF HostInv, InStep
<1>6. CASE pending # owed
  <2>1. slips = 1 /\ pending = Nothing
    BY <1>1, <1>6 DEF HostInv, InStep
  <2>2. [command |-> Nothing, response |-> FALSE] # truth
    BY ResponseIsNoCommand
  <2>3. slips' = 2
    BY <1>1, <1>3, <2>1, <2>2
  <2>4. host.talks_over \/ since_bare' <= 2
    BY <1>1, <2>1 DEF HostInv, Far
  <2>5. QED
    BY <1>1, <1>2, <1>4, <2>1, <2>3, <2>4 DEF HostInv, InStep
<1>7. QED
  BY <1>5, <1>6

\* A status byte only: the host has its response, the decoder goes on waiting.
LEMMA ReadBareKeeps ==
  ASSUME HostInv, NEW arg, NEW irqs, ReadBareResponse(arg, irqs)
  PROVE  HostInv'
<1>1. /\ owed # Nothing /\ owed' = Nothing
      /\ since_bare' = 0
      /\ UNCHANGED <<host, pending, slips>>
  BY DEF ReadBareResponse, HearShort, ShortPacket
<1>2. QED
  BY <1>1 DEF HostInv, InStep, Far

\* Wake-up pulses and interrupts change nothing of it.
LEMMA OthersKeep ==
  ASSUME HostInv,
         \/ \E irqs \in AtMostOne : WakeUp(irqs)
         \/ \E irq \in host.irqs : Interrupt(irq)
         \/ UNCHANGED vars
  PROVE  HostInv'
<1>1. UNCHANGED <<host, pending, owed, slips, since_bare>>
  BY DEF WakeUp, HearShort, ShortPacket, Interrupt, IrqRise, vars, decoderVars, hostVars,
         historyVars
<1>2. QED
  BY <1>1 DEF HostInv, InStep

\* The decoder and its host keep in step, whatever the host sends and however long
\* the responses are.
THEOREM KeepsInStep == Spec => []HostInv
<1>1. HostInv /\ [Next]_vars => HostInv'
  BY SendKeeps, ReadKeeps, ReadBareKeeps, OthersKeep DEF Next
<1>2. QED
  BY InitHost, <1>1, PTL DEF Spec

\* A host that reads what it asked for is understood, but for two packets behind a
\* response that is its status byte only.
THEOREM PoliteHostUnderstood == Spec => []UnderstandsPoliteHost
<1>1. HostInv => UnderstandsPoliteHost
  BY DEF HostInv, InStep, UnderstandsPoliteHost, Far
<1>2. QED
  BY <1>1, KeepsInStep, PTL

\* A skipped response, or one that is its status byte only, costs at most two packets.
THEOREM SlipsAreShort == Spec => []BackInStep
<1>1. HostInv => BackInStep
  BY DEF HostInv, InStep, BackInStep
<1>2. QED
  BY <1>1, KeepsInStep, PTL

\* Only the packet behind a status byte is taken for the response to an older command.
THEOREM ResponsesAreFresh == Spec => []NeverStale
<1>1. HostInv => NeverStale
  BY DEF HostInv, InStep, NeverStale
<1>2. QED
  BY <1>1, KeepsInStep, PTL

-----------------------------------------------------------------------------

\* What a packet leaves in the variables the decoder keeps from packet to packet.
LEMMA WhatIsKept ==
  ASSUME NEW packet, ParsePacket(packet)
  PROVE  /\ pld_len_in_bytes' \in {pld_len_in_bytes, packet.arg}
         /\ payload_length' \in {payload_length, packet.arg}
         /\ nb_results' \in {nb_results, packet.nb}
         /\ format' \in {format, packet.arg}
         /\ exited' \in {"no", "unhandled", "format", "frequency"}
BY DEF ParsePacket, LengthAfter, SizeAfter, NbResultsAfter, FormatAfter, Outcome

KeptTyped ==
  /\ pld_len_in_bytes \in Args \cup {0} /\ payload_length \in Args \cup {0}
  /\ nb_results \in Args \cup {0} /\ format \in Args \cup {0}
  /\ exited \in {"no", "unhandled", "format", "frequency"}

\* The decoder's variables keep to the values a packet can carry.
THEOREM HostTyped == Spec => []TypeOK
<1>1. Init => KeptTyped
  BY DEF Init, DecoderInit, KeptTyped
<1>2. KeptTyped /\ [Next]_vars => KeptTyped'
  <2> SUFFICES ASSUME KeptTyped, [Next]_vars PROVE KeptTyped'
    OBVIOUS
  <2>1. ASSUME NEW packet, packet.arg \in Args \cup {0}, packet.nb \in Args \cup {0},
               ParsePacket(packet)
        PROVE  KeptTyped'
    BY <2>1, WhatIsKept DEF KeptTyped
  <2>2. ASSUME NEW command, NEW irqs, NEW arg \in ArgsOf(command),
               NEW nb \in NbsOf(command), NEW flags,
               SendCommand(command, arg, nb, flags, irqs)
        PROVE  KeptTyped'
    <3>1. arg \in Args \cup {0} /\ nb \in Args \cup {0}
      BY DEF ArgsOf, NbsOf
    <3>2. QED
      BY <2>1, <2>2, <3>1 DEF SendCommand, Hear, CommandPacket
  <2>3. ASSUME NEW arg \in Args, NEW irqs, ReadResponse(arg, irqs) PROVE KeptTyped'
    BY <2>1, <2>3 DEF ReadResponse, Hear, ResponsePacket
  <2>4. ASSUME NEW arg, NEW irqs, WakeUp(irqs) \/ ReadBareResponse(arg, irqs)
        PROVE  KeptTyped'
    BY <2>4 DEF WakeUp, ReadBareResponse, HearShort, ShortPacket, KeptTyped
  <2>5. ASSUME NEW irq, Interrupt(irq) PROVE KeptTyped'
    BY <2>5 DEF Interrupt, IrqRise, decoderVars, KeptTyped
  <2>6. CASE UNCHANGED vars
    BY <2>6 DEF vars, decoderVars, KeptTyped
  <2>7. QED
    BY <2>2, <2>3, <2>4, <2>5, <2>6 DEF Next
<1>3. HostInv /\ KeptTyped => TypeOK
  BY DEF HostInv, KeptTyped, TypeOK
<1>4. QED
  BY <1>1, <1>2, <1>3, KeepsInStep, PTL DEF Spec

-----------------------------------------------------------------------------

\* The lengths the decoder keeps are those the host goes by, as far as it has heard
\* them.
LengthInv ==
  /\ status_len \in Nat /\ result_len \in Nat /\ asked \in Nat
  /\ len_heard => pld_len_in_bytes = status_len
  /\ size_heard => payload_length = result_len
  /\ pending \in WifiResults /\ pending = owed => nb_results = asked
  /\ PrintsWithinResponse

LEMMA NothingAsksNoResults == Nothing \notin WifiResults
BY DEF WifiResults, In, Nothing

\* Between the readings of a packet a command and a response are told apart.
LEMMA ReadAs ==
  ASSUME NEW packet, NEW command, NEW response \in BOOLEAN,
         Reading(packet) = [command |-> command, response |-> response]
  PROVE  \A group, cmd : \A kind \in BOOLEAN :
           Is(packet, group, cmd, kind) <=>
             command = [group |-> group, cmd |-> cmd] /\ response = kind
<1> SUFFICES ASSUME NEW group, NEW cmd, NEW kind \in BOOLEAN
             PROVE  Is(packet, group, cmd, kind) <=>
                      command = [group |-> group, cmd |-> cmd] /\ response = kind
  OBVIOUS
<1> DEFINE named == [group |-> group, cmd |-> cmd]
<1>1. Is(packet, group, cmd, kind) <=>
        [command |-> command, response |-> response] = [command |-> named, response |-> kind]
  BY DEF Is
<1> HIDE DEF named
<1>2. /\ [command |-> command, response |-> response].command = command
      /\ [command |-> command, response |-> response].response = response
      /\ [command |-> named, response |-> kind].command = named
      /\ [command |-> named, response |-> kind].response = kind
  OBVIOUS
<1>3. [command |-> command, response |-> response] = [command |-> named, response |-> kind]
        <=> command = named /\ response = kind
  BY <1>2
<1>4. QED
  BY <1>1, <1>3 DEF named

\* What has been heard of the lengths is what the packet says.
LEMMA LengthsHeard ==
  ASSUME LengthInv, NEW packet, NEW truth, Hear(packet, truth),
         status_len' = IF truth = StatusResponse THEN packet.arg ELSE status_len,
         result_len' = IF truth = SizeResponse THEN packet.arg ELSE result_len
  PROVE  /\ len_heard' => pld_len_in_bytes' = status_len'
         /\ size_heard' => payload_length' = result_len'
<1>1. /\ pld_len_in_bytes' = LengthAfter(packet) /\ payload_length' = SizeAfter(packet)
      /\ len_heard' =
           IF Reading(packet) = PacketParam \/ StatusResponse \in {Reading(packet), truth}
           THEN Reading(packet) = StatusResponse /\ truth = StatusResponse
           ELSE len_heard
      /\ size_heard' = IF SizeResponse \in {Reading(packet), truth}
                       THEN Reading(packet) = truth ELSE size_heard
  BY DEF Hear, ParsePacket
<1>2. /\ Is(packet, "RADIO", "GET_RX_BUFFER_STATUS", TRUE) <=> Reading(packet) = StatusResponse
      /\ Is(packet, "RADIO", "SET_PACKET_PARAM", FALSE) <=> Reading(packet) = PacketParam
      /\ Is(packet, "GNSS", "GET_RESULT_SIZE", TRUE) <=> Reading(packet) = SizeResponse
  BY DEF Is, StatusResponse, PacketParam, SizeResponse
<1>3. len_heard' => pld_len_in_bytes' = status_len'
  BY <1>1, <1>2 DEF LengthAfter, LengthInv
<1>4. size_heard' => payload_length' = result_len'
  BY <1>1, <1>2 DEF SizeAfter, LengthInv
<1>5. QED
  BY <1>3, <1>4

LEMMA SendKeepsLengths ==
  ASSUME HostInv, LengthInv, NEW command \in host.commands, NEW irqs,
         NEW arg \in ArgsOf(command), NEW nb \in NbsOf(command), NEW flags,
         SendCommand(command, arg, nb, flags, irqs)
  PROVE  LengthInv'
<1> DEFINE packet == CommandPacket(command, arg, nb, flags)
           truth  == [command |-> command, response |-> FALSE]
<1>1. nb \in Nat
  BY HostAssumption DEF NbsOf
<1>2. /\ Hear(packet, truth)
      /\ status_len' = status_len /\ result_len' = result_len
      /\ asked' = IF command \in WifiResults THEN nb ELSE asked
  BY DEF SendCommand
<1>3. /\ pending' = PendingAfter(packet) /\ nb_results' = NbResultsAfter(packet)
      /\ printed' = Printed(packet)
      /\ slips' = IF Reading(packet) = truth THEN 0 ELSE slips + 1
  BY <1>2 DEF Hear, ParsePacket
<1>4. truth # StatusResponse /\ truth # SizeResponse
  BY ResponseIsNoCommand DEF StatusResponse, SizeResponse
<1>5. /\ len_heard' => pld_len_in_bytes' = status_len'
      /\ size_heard' => payload_length' = result_len'
  <2> HIDE DEF packet, truth
  <2>1. QED
    BY <1>2, <1>4, LengthsHeard
<1>6. packet.nb = nb
  BY DEF CommandPacket
<1>7. Command(packet) = command /\ (pending = Nothing => Reading(packet) = truth)
  BY CommandRead
<1>8. Reading(packet) = truth => printed' = NothingPrinted
  <2> HIDE DEF packet
  <2>1. SUFFICES ASSUME Reading(packet) = truth PROVE Printed(packet) = NothingPrinted
    BY <1>3
  <2>2. ~Is(packet, "SYSTEM", "READ_BUFFER_8", TRUE) /\ ~Is(packet, "WIFI", "READ_RESULTS", TRUE)
          /\ ~Is(packet, "GNSS", "READ_RESULTS", TRUE)
    BY <2>1, ReadAs
  <2>3. QED
    BY <2>2 DEF Printed
<1> HIDE DEF packet
<1>9. pending' \in WifiResults => nb_results' = asked'
  <2> SUFFICES ASSUME pending' \in WifiResults PROVE nb_results' = asked'
    OBVIOUS
  <2>1. pending = Nothing /\ command \in WifiResults
    BY <1>3, <1>7, NothingAsksNoResults DEF PendingAfter
  <2>2. Is(packet, "WIFI", "READ_RESULTS", FALSE)
    <3>1. command = [group |-> "WIFI", cmd |-> "READ_RESULTS"]
      BY <2>1 DEF WifiResults, In
    <3>2. QED
      BY <1>7, <2>1, <3>1 DEF Is
  <2>3. QED
    BY <1>2, <1>3, <1>6, <2>1, <2>2 DEF NbResultsAfter
<1>10. PrintsWithinResponse'
  <2>1. slips' = 0 => printed' = NothingPrinted
    BY <1>3, <1>8 DEF HostInv, InStep
  <2>2. QED
    BY <2>1 DEF PrintsWithinResponse, NothingPrinted
<1>11. QED
  BY <1>1, <1>2, <1>5, <1>9, <1>10 DEF LengthInv

LEMMA ReadKeepsLengths ==
  ASSUME HostInv, LengthInv, NEW arg \in Args, NEW irqs, ReadResponse(arg, irqs)
  PROVE  LengthInv'
<1> DEFINE packet == ResponsePacket(arg)
           truth  == [command |-> owed, response |-> TRUE]
           buffer == [group |-> "SYSTEM", cmd |-> "READ_BUFFER_8"]
           wifi   == [group |-> "WIFI", cmd |-> "READ_RESULTS"]
           gnss   == [group |-> "GNSS", cmd |-> "READ_RESULTS"]
<1>1. arg \in Nat /\ asked * EntrySize \in Nat
  BY HostAssumption, EntrySizeAssumption DEF LengthInv
<1>2. /\ Hear(packet, truth) /\ packet.arg = arg
      /\ status_len' = IF StatusOwed THEN arg ELSE status_len
      /\ result_len' = IF SizeOwed THEN arg ELSE result_len
      /\ asked' = asked
  BY DEF ReadResponse, ResponsePacket
<1>3. /\ pending' = PendingAfter(packet) /\ printed' = Printed(packet)
      /\ slips' = IF Reading(packet) = truth THEN 0 ELSE slips + 1
      /\ last_count' = Due(arg) + 1
  BY <1>2 DEF Hear, ParsePacket, ResponsePacket
<1>4. pending' = Nothing
  BY <1>3, ResponseRead, NothingIsNoCommand DEF PendingAfter
<1> HIDE DEF packet
<1>5. /\ StatusOwed <=> truth = StatusResponse
      /\ SizeOwed <=> truth = SizeResponse
  <2>1. /\ truth.command = owed
        /\ StatusResponse.command = [group |-> "RADIO", cmd |-> "GET_RX_BUFFER_STATUS"]
        /\ SizeResponse.command = [group |-> "GNSS", cmd |-> "GET_RESULT_SIZE"]
    BY DEF StatusResponse, SizeResponse
  <2>2. truth = StatusResponse => StatusOwed
    BY <2>1 DEF StatusOwed, In
  <2>3. truth = SizeResponse => SizeOwed
    BY <2>1 DEF SizeOwed, In
  <2>4. QED
    BY <2>2, <2>3 DEF StatusOwed, SizeOwed, StatusResponse, SizeResponse, In
<1>6. /\ len_heard' => pld_len_in_bytes' = status_len'
      /\ size_heard' => payload_length' = result_len'
  <2> HIDE DEF truth
  <2>1. QED
    BY <1>2, <1>5, LengthsHeard
<1>7. ASSUME slips' = 0 PROVE PrintsWithinResponse'
  <2>1. Reading(packet) = truth
    BY <1>3, <1>7 DEF HostInv, InStep
  <2>2. pending = owed
    <3>1. pending # Nothing
      BY <2>1, ResponseRead, ResponseIsNoCommand DEF packet
    <3>2. Reading(packet) = [command |-> pending, response |-> TRUE]
      BY <3>1, ResponseRead DEF packet
    <3>3. [command |-> pending, response |-> TRUE].command = pending /\ truth.command = owed
      OBVIOUS
    <3>4. QED
      BY <2>1, <3>2, <3>3
  <2>3. /\ Is(packet, "SYSTEM", "READ_BUFFER_8", TRUE) <=> owed = buffer
        /\ Is(packet, "WIFI", "READ_RESULTS", TRUE) <=> owed = wifi
        /\ Is(packet, "GNSS", "READ_RESULTS", TRUE) <=> owed = gnss
    <3>1. Reading(packet) = [command |-> owed, response |-> TRUE]
      BY <2>1
    <3>2. \A group, cmd : \A kind \in BOOLEAN :
            Is(packet, group, cmd, kind) <=>
              owed = [group |-> group, cmd |-> cmd] /\ TRUE = kind
      BY <3>1, ReadAs
    <3>3. QED
      BY <3>2
  <2>4. buffer # wifi /\ buffer # gnss /\ wifi # gnss
    OBVIOUS
  <2>5. CASE owed = buffer
    <3>1. printed' = [loop |-> "payload", highest |-> pld_len_in_bytes + 1]
      BY <1>3, <2>3, <2>5 DEF Printed
    <3>2. Due(arg) = status_len
      <4>1. /\ Names(owed, "READ_BUFFER_8") /\ owed \notin WifiResults
            /\ owed \notin In("GNSS", {"READ_RESULTS"})
            /\ owed \notin In("GNSS", {"GET_SV_DETECTED"})
        BY <2>5 DEF Names, WifiResults, In
      <4>2. QED
        BY <4>1 DEF Due
    <3>3. len_heard' => len_heard
      <4>1. Reading(packet) # StatusResponse /\ Reading(packet) # PacketParam
        <5>1. truth.command = buffer /\ truth.response = TRUE
          BY <2>5
        <5>2. /\ StatusResponse.command = [group |-> "RADIO", cmd |-> "GET_RX_BUFFER_STATUS"]
              /\ PacketParam.response = FALSE
          BY DEF StatusResponse, PacketParam
        <5>3. buffer # [group |-> "RADIO", cmd |-> "GET_RX_BUFFER_STATUS"]
          OBVIOUS
        <5>4. QED
          BY <2>1, <5>1, <5>2, <5>3
      <4>2. QED
        BY <1>2, <2>1, <4>1 DEF Hear
    <3>4. QED
      BY <1>3, <3>1, <3>2, <3>3 DEF PrintsWithinResponse, LengthInv
  <2>6. CASE owed = wifi
    <3>1. printed' \in {NothingPrinted, [loop |-> "wifi", highest |-> nb_results * EntrySize]}
      BY <1>3, <2>3, <2>4, <2>6 DEF Printed
    <3>2. owed \in WifiResults /\ ~Names(owed, "READ_BUFFER_8")
      BY <2>4, <2>6 DEF WifiResults, In, Names
    <3>3. Due(arg) = asked * EntrySize
      <4>1. /\ owed \notin In("GNSS", {"READ_RESULTS"})
            /\ owed \notin In("GNSS", {"GET_SV_DETECTED"})
        BY <2>6 DEF In
      <4>2. QED
        BY <3>2, <4>1 DEF Due
    <3>4. nb_results = asked
      BY <2>2, <3>2 DEF LengthInv
    <3>5. QED
      BY <1>1, <1>3, <3>1, <3>3, <3>4 DEF PrintsWithinResponse, NothingPrinted
  <2>7. CASE owed = gnss
    <3>1. printed' = [loop |-> "gnss", highest |-> payload_length]
      BY <1>3, <2>3, <2>4, <2>7 DEF Printed
    <3>2. Due(arg) = result_len
      <4>1. /\ ~Names(owed, "READ_BUFFER_8") /\ owed \notin WifiResults
            /\ owed \in In("GNSS", {"READ_RESULTS"})
            /\ owed \notin In("GNSS", {"GET_SV_DETECTED"})
        BY <2>4, <2>7 DEF Names, WifiResults, In
      <4>2. QED
        BY <4>1 DEF Due
    <3>3. size_heard' => size_heard
      <4>1. Reading(packet) # SizeResponse
        <5>1. truth.command = gnss
          BY <2>7
        <5>2. /\ SizeResponse.command = [group |-> "GNSS", cmd |-> "GET_RESULT_SIZE"]
              /\ gnss # [group |-> "GNSS", cmd |-> "GET_RESULT_SIZE"]
          BY DEF SizeResponse
        <5>3. QED
          BY <2>1, <5>1, <5>2
      <4>2. QED
        BY <1>2, <2>1, <4>1 DEF Hear
    <3>4. QED
      BY <1>3, <3>1, <3>2, <3>3 DEF PrintsWithinResponse, LengthInv
  <2>8. CASE owed # buffer /\ owed # wifi /\ owed # gnss
    BY <1>3, <2>3, <2>8 DEF Printed, NothingPrinted, PrintsWithinResponse
  <2>9. QED
    BY <2>5, <2>6, <2>7, <2>8
<1>8. slips' # 0 => PrintsWithinResponse'
  BY DEF PrintsWithinResponse
<1>9. /\ status_len' \in Nat /\ result_len' \in Nat /\ asked' \in Nat
  BY <1>1, <1>2 DEF LengthInv
<1>10. QED
  BY <1>4, <1>6, <1>7, <1>8, <1>9, NothingAsksNoResults DEF LengthInv

\* Neither a packet too short to be looked at nor an interrupt prints anything.
LEMMA ShortKeepsLengths ==
  ASSUME LengthInv,
         \/ \E arg, irqs : ReadBareResponse(arg, irqs)
         \/ \E irqs : WakeUp(irqs)
         \/ \E irq : Interrupt(irq)
         \/ UNCHANGED vars
  PROVE  LengthInv'
<1>1. UNCHANGED <<pending, pld_len_in_bytes, payload_length, nb_results, status_len,
                  result_len, asked, len_heard, size_heard>>
  BY DEF ReadBareResponse, WakeUp, HearShort, ShortPacket, Interrupt, IrqRise, vars,
         decoderVars, hostVars, historyVars
<1>2. owed' \in {owed, Nothing}
  BY DEF ReadBareResponse, WakeUp, HearShort, ShortPacket, Interrupt, vars, hostVars
<1>3. \/ printed' = NothingPrinted
      \/ UNCHANGED <<printed, slips, last_count>>
  BY DEF ReadBareResponse, WakeUp, HearShort, ShortPacket, Interrupt, IrqRise, vars,
         decoderVars, historyVars
<1>4. PrintsWithinResponse'
  BY <1>1, <1>3 DEF LengthInv, PrintsWithinResponse, NothingPrinted
<1>5. QED
  BY <1>1, <1>2, <1>4, NothingAsksNoResults DEF LengthInv

\* What is printed of a response stays within it, but for the one byte behind a
\* payload, for lengths and numbers of any size and however the packets that carry
\* them are skipped, misread or overwritten.
THEOREM PrintsStayWithin == Spec => []PrintsWithinResponse
<1>1. Init => LengthInv
  BY NothingAsksNoResults
     DEF Init, DecoderInit, LengthInv, PrintsWithinResponse, NothingPrinted
<1>2. HostInv /\ LengthInv /\ [Next]_vars => LengthInv'
  BY ShortKeepsLengths, SendKeepsLengths, ReadKeepsLengths DEF Next
<1>3. LengthInv => PrintsWithinResponse
  BY DEF LengthInv
<1>4. QED
  BY <1>1, <1>2, <1>3, KeepsInStep, PTL DEF Spec

-----------------------------------------------------------------------------

\* The time of the last TX_DONE.
Latest(time) == time \in tx_done_at /\ \A t \in tx_done_at : t <= time

\* While TX_DONE is set the line has been up since then or since before, and since
\* then if the decoder saw it rise.
TimesInv ==
  /\ now \in Nat /\ tx_done_at \subseteq 0..now /\ irq_rise_time \in 0..now
  /\ "TX_DONE" \in raised =>
       /\ \E t \in tx_done_at : irq_rise_time <= t
       /\ ~unseen => Latest(irq_rise_time)
  /\ DelayNeverShort
  /\ DelayCountsFromTxDone

\* Interrupts set in the frame that ends a packet.
LEMMA SetBehind ==
  ASSUME TimesInv, NEW irqs, Sets(irqs, FALSE)
  PROVE  /\ now' \in Nat /\ now <= now'
         /\ tx_done_at \subseteq tx_done_at' /\ tx_done_at' \subseteq 0..now'
         /\ "TX_DONE" \in irqs => unseen' /\ now' \in tx_done_at'
         /\ "TX_DONE" \notin irqs => UNCHANGED <<tx_done_at, unseen>>
<1>1. now' \in {now, now + 1}
  BY DEF Sets
<1>2. CASE "TX_DONE" \in irqs
  <2>1. tx_done_at' = tx_done_at \cup {now'} /\ unseen' = TRUE
    BY <1>2 DEF Sets
  <2>2. now' \in Nat /\ now <= now' /\ tx_done_at' \subseteq 0..now'
    BY <1>1, <2>1 DEF TimesInv
  <2>3. QED
    BY <1>2, <2>1, <2>2
<1>3. CASE "TX_DONE" \notin irqs
  <2>1. UNCHANGED <<tx_done_at, unseen>>
    BY <1>3 DEF Sets
  <2>2. QED
    BY <1>1, <1>3, <2>1 DEF TimesInv
<1>4. QED
  BY <1>2, <1>3

\* A packet that names no interrupt leaves the times as they are.
LEMMA PacketEndKeepsTimes ==
  ASSUME TimesInv, NEW irqs, SetsBehind(irqs),
         UNCHANGED <<irq_rise_time, tx_done_irq_rise_time>>
  PROVE  TimesInv'
<1>1. /\ now' \in Nat /\ now <= now'
      /\ tx_done_at \subseteq tx_done_at' /\ tx_done_at' \subseteq 0..now'
      /\ "TX_DONE" \in irqs => unseen' /\ now' \in tx_done_at'
      /\ "TX_DONE" \notin irqs => UNCHANGED <<tx_done_at, unseen>>
  BY SetBehind DEF SetsBehind
<1>2. raised' = raised \cup irqs /\ UNCHANGED <<unread, unset>>
  BY DEF SetsBehind
<1>3. irq_rise_time' \in 0..now'
  BY <1>1 DEF TimesInv
<1>4. DelayNeverShort'
  BY <1>1, <1>2 DEF TimesInv, DelayNeverShort
<1>5. CASE "TX_DONE" \in irqs
  <2>1. irq_rise_time' <= now'
    BY <1>1, <1>3
  <2>2. QED
    BY <1>1, <1>2, <1>3, <1>4, <1>5, <2>1 DEF TimesInv, DelayCountsFromTxDone
<1>6. CASE "TX_DONE" \notin irqs
  <2>1. UNCHANGED <<tx_done_at, unseen>> /\ ("TX_DONE" \in raised' <=> "TX_DONE" \in raised)
    BY <1>1, <1>2, <1>6
  <2>2. DelayCountsFromTxDone'
    BY <1>2, <2>1 DEF TimesInv, DelayCountsFromTxDone
  <2>3. QED
    BY <1>1, <1>3, <1>4, <2>1, <2>2 DEF TimesInv, Latest
<1>7. QED
  BY <1>5, <1>6

\* The mask of a command: only three commands have one, and the decoder looks at it
\* when it takes them for what they are.
LEMMA MaskHeard ==
  ASSUME HostInv, NEW command \in host.commands, NEW arg, NEW nb,
         NEW flags \in FlagsOf(command), "TX_DONE" \in flags
  PROVE  PrintsIrq(CommandPacket(command, arg, nb, flags)) <=>
           Reading(CommandPacket(command, arg, nb, flags))
             = [command |-> command, response |-> FALSE]
<1> DEFINE packet == CommandPacket(command, arg, nb, flags)
<1>1. \E cmd \in {"CLEAR_IRQ", "GET_STATUS", "SET_DIO_IRQ_PARAMS"} :
        command = [group |-> "SYSTEM", cmd |-> cmd]
  <2>1. CASE Names(command, "GET_STATUS")
    BY <2>1 DEF Names
  <2>2. CASE Names(command, "CLEAR_IRQ")
    BY <2>2 DEF Names
  <2>3. CASE Names(command, "SET_DIO_IRQ_PARAMS")
    BY <2>3 DEF Names
  <2>4. CASE ~Names(command, "GET_STATUS") /\ ~Names(command, "CLEAR_IRQ")
               /\ ~Names(command, "SET_DIO_IRQ_PARAMS")
    <3>1. FlagsOf(command) = {{}}
      BY <2>4 DEF FlagsOf
    <3>2. QED
      BY <3>1
  <2>5. QED
    BY <2>1, <2>2, <2>3, <2>4
<1>2. Reading(packet) = IF pending # Nothing
                        THEN [command |-> pending, response |-> TRUE]
                        ELSE [command |-> command, response |-> FALSE]
  BY CommandRead
<1> HIDE DEF packet
<1>3. Reading(packet) = [command |-> command, response |-> FALSE] => PrintsIrq(packet)
  BY <1>1 DEF PrintsIrq, Is
<1>4. PrintsIrq(packet) => Reading(packet) = [command |-> command, response |-> FALSE]
  BY <1>2, ResponseIsNoCommand DEF PrintsIrq, Is
<1>5. QED
  BY <1>3, <1>4 DEF packet

LEMMA SendKeepsTimes ==
  ASSUME HostInv, TimesInv, NEW command \in host.commands, NEW arg, NEW nb,
         NEW flags \in FlagsOf(command), NEW irqs,
         SendCommand(command, arg, nb, flags, irqs)
  PROVE  TimesInv'
<1> DEFINE packet  == CommandPacket(command, arg, nb, flags)
           truth   == [command |-> command, response |-> FALSE]
           cleared == Names(command, "CLEAR_IRQ") /\ "TX_DONE" \in flags
           heard   == Reading(packet) = truth
           looks   == heard /\ "TX_DONE" \in flags
<1>1. /\ now' \in Nat /\ now <= now'
      /\ tx_done_at \subseteq tx_done_at' /\ tx_done_at' \subseteq 0..now'
      /\ "TX_DONE" \in irqs => unseen' /\ now' \in tx_done_at'
      /\ "TX_DONE" \notin irqs => UNCHANGED <<tx_done_at, unseen>>
  BY SetBehind DEF SendCommand
<1>2. irq_rise_time' = irq_rise_time /\ tx_done_irq_rise_time' = TxDoneTimeAfter(packet)
  BY DEF SendCommand, Hear, ParsePacket
<1>3. /\ "TX_DONE" \in raised' <=> ("TX_DONE" \in raised /\ ~cleared) \/ "TX_DONE" \in irqs
      /\ unread' = IF cleared /\ "TX_DONE" \in raised THEN ~heard ELSE unread
      /\ unset' = IF looks THEN "TX_DONE" \notin raised ELSE unset
  BY DEF SendCommand, Clears
<1>4. tx_done_irq_rise_time' = IF looks THEN irq_rise_time ELSE tx_done_irq_rise_time
  <2>1. packet.flags = flags
    BY DEF CommandPacket
  <2>2. "TX_DONE" \in flags => (PrintsIrq(packet) <=> heard)
    BY MaskHeard
  <2> HIDE DEF packet, heard
  <2>3. QED
    BY <1>2, <2>1, <2>2 DEF TxDoneTimeAfter
<1>5. cleared => "TX_DONE" \in flags
  OBVIOUS
<1>6. looks <=> heard /\ "TX_DONE" \in flags
  OBVIOUS
<1>7. irq_rise_time' \in 0..now'
  BY <1>1, <1>2 DEF TimesInv
<1> HIDE DEF packet, cleared, heard, looks
<1>8. DelayNeverShort'
  <2> SUFFICES ASSUME ~unset'
               PROVE  \E time \in tx_done_at' \cup {0} : tx_done_irq_rise_time' <= time
    BY DEF DelayNeverShort
  <2>1. CASE looks
    BY <1>1, <1>3, <1>4, <2>1 DEF TimesInv
  <2>2. CASE ~looks
    BY <1>1, <1>3, <1>4, <2>2 DEF TimesInv, DelayNeverShort
  <2>3. QED
    BY <2>1, <2>2
<1>9. CASE "TX_DONE" \in irqs
  <2>1. irq_rise_time' <= now'
    BY <1>1, <1>7
  <2>2. QED
    BY <1>1, <1>3, <1>7, <1>8, <1>9, <2>1 DEF TimesInv, DelayCountsFromTxDone
<1>10. CASE "TX_DONE" \notin irqs
  <2>1. UNCHANGED <<tx_done_at, unseen, irq_rise_time>>
    BY <1>1, <1>2, <1>10
  <2>2. "TX_DONE" \in raised' => "TX_DONE" \in raised
    BY <1>3, <1>10
  <2>3. DelayCountsFromTxDone'
    <3> SUFFICES ASSUME ~unseen', ~unread', ~unset', "TX_DONE" \notin raised', tx_done_at' # {}
                 PROVE  Latest(tx_done_irq_rise_time)'
      BY DEF DelayCountsFromTxDone, Latest
    <3>1. CASE "TX_DONE" \in raised
      <4>1. cleared /\ heard
        BY <1>3, <1>10, <3>1
      <4>2. tx_done_irq_rise_time' = irq_rise_time
        BY <1>4, <1>5, <1>6, <4>1
      <4>3. QED
        BY <2>1, <3>1, <4>2 DEF TimesInv, Latest
    <3>2. CASE "TX_DONE" \notin raised
      <4>1. ~looks
        BY <1>3, <3>2
      <4>2. UNCHANGED <<tx_done_irq_rise_time, unread, unset>>
        BY <1>3, <1>4, <3>2, <4>1
      <4>3. QED
        BY <2>1, <3>2, <4>2 DEF TimesInv, DelayCountsFromTxDone, Latest
    <3>3. QED
      BY <3>1, <3>2
  <2>4. QED
    BY <1>1, <1>7, <1>8, <2>1, <2>2, <2>3 DEF TimesInv, Latest
<1>11. QED
  BY <1>9, <1>10

\* A response carries no mask.
LEMMA ReadKeepsTimes ==
  ASSUME TimesInv, NEW arg, NEW irqs, ReadResponse(arg, irqs)
  PROVE  TimesInv'
<1>1. ResponsePacket(arg).flags = {}
  BY DEF ResponsePacket
<1>2. UNCHANGED <<irq_rise_time, tx_done_irq_rise_time>>
  BY <1>1 DEF ReadResponse, Hear, ParsePacket, TxDoneTimeAfter
<1>3. QED
  BY <1>2, PacketEndKeepsTimes DEF ReadResponse

\* An interrupt between packets: the line rises, or has been up already.
LEMMA InterruptKeepsTimes ==
  ASSUME TimesInv, NEW irq, Interrupt(irq)
  PROVE  TimesInv'
<1>1. /\ now' = now + 1 /\ raised' = raised \cup {irq} /\ irq \notin raised
      /\ UNCHANGED <<unread, unset>>
  BY DEF Interrupt, Sets
<1>2. /\ tx_done_irq_rise_time' = tx_done_irq_rise_time
      /\ irq_rise_time' = IF raised = {} THEN now' ELSE irq_rise_time
  BY DEF Interrupt, IrqRise, decoderVars
<1>3. now' \in Nat /\ irq_rise_time' \in 0..now'
  BY <1>1, <1>2 DEF TimesInv
<1>4. CASE irq = "TX_DONE"
  <2>1. tx_done_at' = tx_done_at \cup {now'} /\ unseen' = (raised # {})
    BY <1>4 DEF Interrupt, Sets
  <2>2. tx_done_at' \subseteq 0..now' /\ now' \in tx_done_at' /\ irq_rise_time' <= now'
    BY <1>1, <1>3, <2>1 DEF TimesInv
  <2>3. ASSUME ~unseen' PROVE Latest(irq_rise_time)'
    <3>1. irq_rise_time' = now'
      BY <1>2, <2>1, <2>3
    <3>2. irq_rise_time' \in tx_done_at' /\ \A t \in tx_done_at' : t <= irq_rise_time'
      BY <1>3, <2>2, <3>1
    <3>3. QED
      BY <3>2 DEF Latest
  <2>4. DelayNeverShort'
    BY <1>1, <1>2, <2>1 DEF TimesInv, DelayNeverShort
  <2>5. DelayCountsFromTxDone'
    BY <1>1, <1>4 DEF DelayCountsFromTxDone
  <2>6. QED
    BY <1>3, <2>2, <2>3, <2>4, <2>5 DEF TimesInv
<1>5. CASE irq # "TX_DONE"
  <2>1. UNCHANGED <<tx_done_at, unseen>>
    BY <1>5 DEF Interrupt, Sets
  <2>2. "TX_DONE" \in raised' <=> "TX_DONE" \in raised
    BY <1>1, <1>5
  <2>3. "TX_DONE" \in raised => irq_rise_time' = irq_rise_time
    BY <1>2
  <2>4. tx_done_at' \subseteq 0..now'
    BY <1>1, <2>1 DEF TimesInv
  <2>5. DelayNeverShort' /\ DelayCountsFromTxDone'
    BY <1>1, <1>2, <2>1, <2>2 DEF TimesInv, DelayNeverShort, DelayCountsFromTxDone
  <2>6. QED
    BY <1>3, <2>1, <2>2, <2>3, <2>4, <2>5 DEF TimesInv, Latest
<1>6. QED
  BY <1>4, <1>5

\* The invariant of the times, for any interrupts on the one line.
LEMMA TimesKept == Spec => []TimesInv
<1>1. Init => TimesInv
  BY DEF Init, DecoderInit, TimesInv, DelayNeverShort, DelayCountsFromTxDone
<1>2. HostInv /\ TimesInv /\ [Next]_vars => TimesInv'
  <2> SUFFICES ASSUME HostInv, TimesInv, [Next]_vars PROVE TimesInv'
    OBVIOUS
  <2>1. ASSUME NEW irqs, NEW arg, WakeUp(irqs) \/ ReadBareResponse(arg, irqs)
        PROVE  TimesInv'
    BY <2>1, PacketEndKeepsTimes DEF WakeUp, ReadBareResponse, HearShort, ShortPacket
  <2>2. CASE UNCHANGED vars
    BY <2>2 DEF vars, decoderVars, radioVars, TimesInv, DelayNeverShort,
                DelayCountsFromTxDone, Latest
  <2>3. QED
    BY <2>1, <2>2, SendKeepsTimes, ReadKeepsTimes, InterruptKeepsTimes DEF Next
<1>3. QED
  BY <1>1, <1>2, KeepsInStep, PTL DEF Spec

\* "Time since TX_DONE irq" may be longer than it was, but never shorter.
THEOREM DelayIsNeverShort == Spec => []DelayNeverShort
<1>1. TimesInv => DelayNeverShort
  BY DEF TimesInv
<1>2. QED
  BY <1>1, TimesKept, PTL

\* It is right when TX_DONE has raised the line in the decoder's sight and has been
\* cleared by a command the decoder has understood.
THEOREM DelayCounts == Spec => []DelayCountsFromTxDone
<1>1. TimesInv => DelayCountsFromTxDone
  BY DEF TimesInv
<1>2. QED
  BY <1>1, TimesKept, PTL
=============================================================================
