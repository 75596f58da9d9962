------------------------- MODULE TraceCapture_proofs -------------------------
(***************************************************************************)
(* The trace UART, its ring and the thread table of the trace printer,     *)
(* proved for words, packets, rings and tables of any size and any         *)
(* sequence of bytes.                                                      *)
(*                                                                         *)
(* The ring: what is taken from it fits in packet_buffer, and between      *)
(* bytes it never holds a whole packet, nor bytes that could be thrown     *)
(* away.  The invariant is about the place of the ring the oldest byte     *)
(* stands in, so the proof needs that a byte stored at the head leaves the *)
(* bytes between the tail and the head alone although both wrap around.    *)
(*                                                                         *)
(* The table: what makes the safety properties hold is that thread_find    *)
(* searches the whole table before it takes an entry, and that a packet    *)
(* from the ring fits the array it is copied to.                           *)
(*                                                                         *)
(* A capture is a behaviour of the ring (CaptureIsTrace), so what is       *)
(* proved of any bytes holds of noise and of a device.  Of a device more   *)
(* is true (CapturePrintsAsSent): the search of TraceFraming is followed   *)
(* through what is left of the packet the capture began in, through a      *)
(* packet that is coming in, and to its end (CaptureInv).                  *)
(***************************************************************************)
EXTENDS TraceCapture, FiniteSetTheorems, TLAPS

RingOK ==
  /\ buffer \in [0..BufferSize - 1 -> Byte]
  /\ buffer_head \in 0..Wrap - 1
  /\ buffer_tail \in 0..Wrap - 1
  /\ packet_start \in Nat
  /\ stream \in Seq(Byte)
  /\ Count <= BufferSize

RingInv ==
  /\ RingOK
  /\ RingAtRest
  /\ PacketFitsBuffer

\* The assumptions about sizes, in one place.
LEMMA Sizes ==
  /\ BufferSize \in Nat /\ BufferSize >= 2 /\ WordBytes \in Nat /\ WordBytes >= 1
  /\ PacketWords \in Nat /\ PacketWords >= 1
  /\ Wrap \in Nat /\ Wrap > BufferSize
  /\ BufferSize = WordBytes * PacketWords /\ BufferSize >= 2 * WordBytes
BY BufferAssumption, WordBytesAssumption, PacketWordsAssumption

-----------------------------------------------------------------------------
(* Counters that wrap, and the slots they name.                            *)

\* A count is a counter value.
LEMMA CountType ==
  ASSUME NEW h \in 0..Wrap - 1, NEW t \in 0..Wrap - 1
  PROVE  CountFrom(h, t) \in 0..Wrap - 1
BY Sizes DEF CountFrom

\* One byte more at the head.
LEMMA CountUp ==
  ASSUME NEW h \in 0..Wrap - 1, NEW t \in 0..Wrap - 1, CountFrom(h, t) < BufferSize
  PROVE  /\ Plus(h, 1) \in 0..Wrap - 1
         /\ CountFrom(Plus(h, 1), t) = CountFrom(h, t) + 1
BY Sizes DEF CountFrom, Plus

\* Bytes taken at the tail.
LEMMA CountDown ==
  ASSUME NEW h \in 0..Wrap - 1, NEW t \in 0..Wrap - 1, NEW n \in Nat,
         n <= CountFrom(h, t)
  PROVE  /\ Plus(t, n) \in 0..Wrap - 1
         /\ CountFrom(h, Plus(t, n)) = CountFrom(h, t) - n
BY Sizes DEF CountFrom, Plus

\* A slot is an index of the ring.
LEMMA SlotType ==
  ASSUME NEW c \in Nat
  PROVE  Slot(c) \in 0..BufferSize - 1
BY Sizes DEF Slot

\* No multiple of b lies strictly between 0 and b.
LEMMA NoMultipleBetween ==
  ASSUME NEW b \in Nat, NEW m \in Int, 0 < m * b, m * b < b
  PROVE  FALSE
<1>1. CASE m <= 0
  <2>1. (0 - m) * b >= 0
    BY <1>1
  <2>2. (0 - m) * b = 0 - m * b
    OBVIOUS
  <2>3. QED
    BY <2>1, <2>2
<1>2. CASE m >= 1
  <2>1. (m - 1) * b >= 0
    BY <1>2
  <2>2. (m - 1) * b = m * b - b
    OBVIOUS
  <2>3. QED
    BY <2>1, <2>2
<1>3. QED
  BY <1>1, <1>2

\* Quotient and remainder.
LEMMA Divided ==
  ASSUME NEW n \in Nat, NEW b \in Nat \ {0}
  PROVE  /\ n \div b \in Nat
         /\ n = (n \div b) * b + (n % b)
OBVIOUS

\* Fewer bytes than the ring has slots between two counters: they name other slots.
LEMMA SlotsDiffer ==
  ASSUME NEW h \in 0..Wrap - 1, NEW t \in 0..Wrap - 1,
         CountFrom(h, t) > 0, CountFrom(h, t) < BufferSize
  PROVE  Slot(h) # Slot(t)
<1> DEFINE b == BufferSize
           d == CountFrom(h, t)
           qh == h \div b
           qt == t \div b
           qw == Wrap \div b
<1>1. b \in Nat \ {0} /\ h \in Nat /\ t \in Nat /\ Wrap \in Nat
  BY Sizes
<1>2. /\ h = qh * b + (h % b) /\ t = qt * b + (t % b) /\ Wrap = qw * b
      /\ qh \in Nat /\ qt \in Nat /\ qw \in Nat
  <2>1. h = qh * b + (h % b) /\ qh \in Nat
    BY <1>1, Divided
  <2>2. t = qt * b + (t % b) /\ qt \in Nat
    BY <1>1, Divided
  <2>3. Wrap = qw * b + (Wrap % b) /\ qw \in Nat
    BY <1>1, Divided
  <2>4. Wrap % b = 0
    BY BufferAssumption
  <2> HIDE DEF qh, qt, qw, b
  <2>5. qw * b \in Nat
    BY <1>1, <2>3
  <2>6. QED
    BY <2>1, <2>2, <2>3, <2>4, <2>5
<1>3. d = h - t \/ d = h - t + Wrap
  BY DEF CountFrom
<1>4. d \in Int /\ 0 < d /\ d < b
  BY CountType
<1>5. (qh - qt) * b = qh * b - qt * b /\ (qh - qt + qw) * b = qh * b - qt * b + qw * b
  BY <1>1, <1>2
<1> HIDE DEF d, qh, qt, qw, b
<1>6. SUFFICES ASSUME h % b = t % b PROVE FALSE
  BY DEF Slot, b
<1>7. d = qh * b - qt * b \/ d = qh * b - qt * b + qw * b
  BY <1>1, <1>2, <1>3, <1>6
<1>8. d = (qh - qt) * b \/ d = (qh - qt + qw) * b
  BY <1>5, <1>7
<1>9. qh - qt \in Int /\ qh - qt + qw \in Int
  BY <1>2
<1>10. QED
  BY <1>1, <1>4, <1>8, <1>9, NoMultipleBetween

-----------------------------------------------------------------------------
(* What a stored byte leaves alone.                                        *)

\* The bytes still in the ring are not overwritten.
LEMMA WindowKept ==
  ASSUME RingOK, NEW byte \in Byte, Count < BufferSize, NEW n \in Nat, n <= Count
  PROVE  Window(Stored(byte), buffer_tail, n) = Window(buffer, buffer_tail, n)
<1>1. ASSUME NEW i \in 1..n
      PROVE  Stored(byte)[Slot(Plus(buffer_tail, i - 1))]
               = buffer[Slot(Plus(buffer_tail, i - 1))]
  <2> DEFINE c == Plus(buffer_tail, i - 1)
  <2>1. Count \in Nat
    BY CountType, Sizes DEF Count, RingOK
  <2>2. i - 1 \in Nat /\ i - 1 <= Count
    BY <2>1
  <2>3. c \in 0..Wrap - 1 /\ CountFrom(buffer_head, c) = Count - (i - 1)
    BY <2>2, CountDown DEF Count, RingOK
  <2> HIDE DEF c
  <2>4. CountFrom(buffer_head, c) > 0 /\ CountFrom(buffer_head, c) < BufferSize
    BY <2>1, <2>3, Sizes
  <2>5. Slot(buffer_head) # Slot(c)
    BY <2>3, <2>4, SlotsDiffer DEF RingOK
  <2>6. Slot(c) \in 0..BufferSize - 1
    BY <2>3, SlotType, Sizes
  <2>7. Stored(byte)[Slot(c)] = buffer[Slot(c)]
    BY <2>5, <2>6 DEF Stored, RingOK
  <2>8. QED
    BY <2>7 DEF c
<1>2. QED
  BY <1>1, Zenon DEF Window

\* A stored byte leaves a ring.
LEMMA StoredType ==
  ASSUME RingOK, NEW byte \in Byte
  PROVE  Stored(byte) \in [0..BufferSize - 1 -> Byte]
BY SlotType, Sizes DEF RingOK, Stored

\* The number of data words is a byte, whatever the ring holds.
LEMMA DataWordsType ==
  ASSUME RingOK, NEW byte \in Byte
  PROVE  DataWords(Peek(byte)) \in Nat
<1>1. Plus(buffer_tail, 0) \in Nat
  BY Sizes DEF Plus, RingOK
<1>2. Stored(byte)[Slot(Plus(buffer_tail, 0))] \in Byte
  BY <1>1, SlotType, StoredType
<1>3. Peek(byte)[1] = Stored(byte)[Slot(Plus(buffer_tail, 1 - 1))]
  BY Sizes DEF Peek, Window
<1>4. QED
  <2>1. Peek(byte)[1] \in Byte
    BY <1>2, <1>3
  <2>2. QED
    BY <2>1, ByteAssumption DEF DataWords

\* The ring once a byte is stored.
LEMMA StoreStep ==
  ASSUME RingOK, NEW byte \in Byte, Store(byte)
  PROVE  /\ buffer' \in [0..BufferSize - 1 -> Byte]
         /\ buffer_head' \in 0..Wrap - 1
         /\ packet_start' \in Nat
         /\ Count \in Nat /\ Count < BufferSize
         /\ CountFrom(buffer_head', buffer_tail) = Count + 1
<1>1. Count \in Nat /\ Count < BufferSize
  BY CountType, Sizes DEF Count, RingOK, Store
<1>2. buffer_head' \in 0..Wrap - 1 /\ CountFrom(buffer_head', buffer_tail) = Count + 1
  BY <1>1, CountUp DEF Count, RingOK, Store
<1>3. packet_start' \in Nat
  BY DEF Store, RingOK
<1>4. buffer' \in [0..BufferSize - 1 -> Byte]
  BY StoredType DEF Store
<1>5. QED
  BY <1>1, <1>2, <1>3, <1>4

-----------------------------------------------------------------------------
(* The steps.                                                              *)

\* The ring starts empty.
LEMMA InitRing == Init => RingInv
<1> SUFFICES ASSUME Init PROVE RingInv
  OBVIOUS
<1>1. Count = 0 /\ 0 \in 0..Wrap - 1 /\ <<>> \in Seq(Byte)
  BY Sizes DEF Init, Count, CountFrom
<1>2. buffer \in [0..BufferSize - 1 -> Byte]
  BY ByteAssumption DEF Init
<1>3. RingOK
  BY <1>1, <1>2, Sizes DEF Init, RingOK
<1>4. RingAtRest
  BY <1>1, Sizes DEF Init, LbtraceInit, RingAtRest
<1>5. PacketFitsBuffer
  BY Sizes DEF Init, LbtraceInit, PacketFitsBuffer
<1>6. QED
  BY <1>3, <1>4, <1>5 DEF RingInv

\* A full ring ends the program as it is.
LEMMA OverflowKeeps ==
  ASSUME RingInv, Overflow
  PROVE  RingInv'
<1>1. /\ UNCHANGED <<buffer, buffer_head, buffer_tail, packet_start, stream>>
      /\ exited' = "overflow" /\ packet_buffer' = <<>> /\ Count >= BufferSize
  BY DEF Overflow, ringVars
<1>2. Count = BufferSize /\ Count' = Count
  <2>1. Count \in Nat /\ Count <= BufferSize
    BY CountType, Sizes DEF RingInv, RingOK, Count
  <2>2. Count' = Count
    BY <1>1 DEF Count
  <2>3. QED
    BY <1>1, <2>1, <2>2, Sizes
<1>3. RingOK'
  BY <1>1, <1>2 DEF RingInv, RingOK
<1>4. RingAtRest'
  BY <1>1, <1>2 DEF RingInv, RingAtRest
<1>5. PacketFitsBuffer'
  BY <1>1, Sizes DEF PacketFitsBuffer
<1>6. QED
  BY <1>3, <1>4, <1>5 DEF RingInv

\* A byte that is thrown away was not at the front of a ring with a header.
LEMMA DropKeeps ==
  ASSUME RingInv, exited = "no", NEW byte \in Byte, DropByte(byte)
  PROVE  RingInv'
<1>1. RingOK /\ Store(byte) /\ Enough(byte) /\ ~HeaderSeen(byte)
  BY DEF DropByte, RingInv
<1>2. /\ buffer_tail' = Plus(buffer_tail, 1) /\ stream' = Append(stream, byte)
      /\ packet_buffer' = <<>> /\ exited' = "no"
  BY DEF DropByte, NothingPrinted
<1>3. /\ buffer' \in [0..BufferSize - 1 -> Byte] /\ buffer_head' \in 0..Wrap - 1
      /\ packet_start' \in Nat /\ Count \in Nat /\ Count < BufferSize
      /\ CountFrom(buffer_head', buffer_tail) = Count + 1
  BY <1>1, StoreStep
<1>4. buffer_tail' \in 0..Wrap - 1 /\ CountFrom(buffer_head', buffer_tail') = Count
  BY <1>1, <1>2, <1>3, CountDown DEF RingOK
<1>5. RingOK'
  <2>1. stream' \in Seq(Byte)
    BY <1>1, <1>2 DEF RingOK
  <2>2. Count' <= BufferSize
    <3>1. Count' = Count
      BY <1>4 DEF Count
    <3>2. QED
      BY <1>3, <3>1, Sizes
  <2>3. QED
    BY <1>3, <1>4, <2>1, <2>2 DEF RingOK
<1>6. Count < 2 * WordBytes
  <2>1. SUFFICES ASSUME Count >= 2 * WordBytes PROVE FALSE
    BY <1>3, Sizes
  <2>2. IsMagic(Window(buffer, buffer_tail, WordBytes))
    BY <2>1 DEF RingInv, RingAtRest
  <2>3. Peek(byte) = Window(buffer, buffer_tail, WordBytes)
    BY <1>1, <1>3, <2>1, WindowKept, Sizes DEF Peek
  <2>4. QED
    BY <1>1, <2>2, <2>3 DEF HeaderSeen
<1>7. RingAtRest'
  BY <1>2, <1>3, <1>4, <1>6, Sizes DEF RingAtRest, Count
<1>8. PacketFitsBuffer'
  BY <1>2, Sizes DEF PacketFitsBuffer
<1>9. QED
  BY <1>5, <1>7, <1>8 DEF RingInv

\* A byte is waited for: the ring holds a header and too little, or less than one.
LEMMA AwaitKeeps ==
  ASSUME RingInv, exited = "no", NEW byte \in Byte, AwaitMore(byte)
  PROVE  RingInv'
<1>1. RingOK /\ Store(byte) /\ ~PacketSeen(byte) /\ (Enough(byte) => HeaderSeen(byte))
  BY DEF AwaitMore, RingInv
<1>2. /\ buffer_tail' = buffer_tail /\ stream' = Append(stream, byte)
      /\ packet_buffer' = <<>> /\ exited' = "no" /\ buffer' = Stored(byte)
  BY DEF AwaitMore, NothingPrinted, Store
<1>3. /\ buffer' \in [0..BufferSize - 1 -> Byte] /\ buffer_head' \in 0..Wrap - 1
      /\ packet_start' \in Nat /\ Count \in Nat /\ Count < BufferSize
      /\ CountFrom(buffer_head', buffer_tail) = Count + 1
  BY <1>1, StoreStep
<1>4. RingOK'
  <2>1. stream' \in Seq(Byte)
    BY <1>1, <1>2 DEF RingOK
  <2>2. Count' <= BufferSize
    BY <1>2, <1>3, Sizes DEF Count
  <2>3. QED
    BY <1>1, <1>2, <1>3, <2>1, <2>2 DEF RingOK
<1>5. ASSUME Count' >= 2 * WordBytes
      PROVE  LET word == Window(buffer', buffer_tail', WordBytes)
             IN  IsMagic(word) /\ Count' < PacketBytes(DataWords(word))
  <2>1. Count' = Count + 1
    BY <1>2, <1>3 DEF Count
  <2>2. HeaderSeen(byte)
    BY <1>1, <1>5, <2>1 DEF Enough
  <2>3. Window(buffer', buffer_tail', WordBytes) = Peek(byte)
    BY <1>2 DEF Peek
  <2>4. DataWords(Peek(byte)) \in Nat
    BY <1>1, DataWordsType
  <2>5. Count + 1 < PacketBytes(DataWords(Peek(byte)))
    BY <1>1, <1>3, <2>2, <2>4, Sizes DEF PacketSeen, PacketBytes
  <2>6. QED
    BY <2>1, <2>2, <2>3, <2>5 DEF HeaderSeen
<1>6. RingAtRest'
  BY <1>2, <1>5 DEF RingAtRest
<1>7. PacketFitsBuffer'
  BY <1>2, Sizes DEF PacketFitsBuffer
<1>8. QED
  BY <1>4, <1>6, <1>7 DEF RingInv

\* As many words as fit in the ring fit in a packet.
LEMMA WordsFit ==
  ASSUME NEW n \in Nat, n * WordBytes <= BufferSize
  PROVE  n <= PacketWords
<1> SUFFICES ASSUME n >= PacketWords + 1 PROVE FALSE
  BY Sizes
<1>1. (n - PacketWords - 1) * WordBytes >= 0
  BY Sizes
<1>2. (n - PacketWords - 1) * WordBytes = n * WordBytes - PacketWords * WordBytes - WordBytes
  BY Sizes
<1>3. PacketWords * WordBytes = BufferSize
  BY Sizes
<1>4. QED
  BY <1>1, <1>2, <1>3, Sizes

\* Only a buffer of more words than the guard allows is too long, and a packet is
\* printed or given up for a reason of its own.
LEMMA PacketOutcome ==
  ASSUME NEW packet, Len(packet) \in Nat, Len(packet) <= PacketWords
  PROVE  Outcome(packet) \notin {"too_long", "overflow"}
<1>1. PacketWords <= WordBytes * PacketWords
  <2>1. (WordBytes - 1) * PacketWords >= 0
    BY Sizes
  <2>2. (WordBytes - 1) * PacketWords = WordBytes * PacketWords - PacketWords
    BY Sizes
  <2>3. QED
    BY <2>1, <2>2, Sizes
<1>2. ~(Len(packet) > AddWordLimit)
  BY <1>1, Sizes DEF AddWordLimit
<1>3. QED
  BY <1>2 DEF Outcome

\* A packet ends with the last byte in the ring, for the ring is looked at after
\* each byte.
LEMMA TakesAll ==
  ASSUME RingInv, NEW byte \in Byte, Store(byte), PacketSeen(byte)
  PROVE  (DataWords(Peek(byte)) + 2) * WordBytes = Count + 1
<1> DEFINE n     == DataWords(Peek(byte)) + 2
           taken == n * WordBytes
<1>1. RingOK /\ Count \in Nat /\ Count < BufferSize
  BY StoreStep DEF RingInv
<1>2. n \in Nat /\ n >= 2 /\ PacketBytes(DataWords(Peek(byte))) = taken
  <2>1. DataWords(Peek(byte)) \in Nat
    BY <1>1, DataWordsType
  <2>2. PacketBytes(DataWords(Peek(byte))) = taken
    BY DEF PacketBytes
  <2>3. QED
    BY <2>1, <2>2
<1>3. taken <= Count + 1 /\ Count + 1 >= 2 * WordBytes
  BY <1>2 DEF PacketSeen, HeaderSeen, Enough
<1> HIDE DEF n
<1>4. taken \in Nat /\ taken >= 2 * WordBytes
  <2>1. (n - 2) * WordBytes >= 0
    BY <1>2, Sizes
  <2>2. (n - 2) * WordBytes = n * WordBytes - 2 * WordBytes
    BY <1>2, Sizes
  <2>3. n * WordBytes \in Nat
    BY <1>2, Sizes
  <2>4. QED
    BY <2>1, <2>2, <2>3, Sizes
<1> HIDE DEF taken
<1>5. CASE Count >= 2 * WordBytes
  <2>1. Count < PacketBytes(DataWords(Window(buffer, buffer_tail, WordBytes)))
    BY <1>5 DEF RingInv, RingAtRest
  <2>2. Peek(byte) = Window(buffer, buffer_tail, WordBytes)
    BY <1>1, <1>5, WindowKept, Sizes DEF Peek
  <2>3. taken = Count + 1
    BY <1>1, <1>2, <1>3, <1>4, <2>1, <2>2
  <2>4. QED
    BY <2>3 DEF taken, n
<1>6. CASE Count < 2 * WordBytes
  <2>1. taken = Count + 1
    BY <1>1, <1>3, <1>4, <1>6, Sizes
  <2>2. QED
    BY <2>1 DEF taken, n
<1>7. QED
  BY <1>1, <1>5, <1>6, Sizes

\* A packet is taken with its last byte, so the ring is empty behind it.
LEMMA TakeKeeps ==
  ASSUME RingInv, exited = "no", NEW byte \in Byte, TakePacket(byte)
  PROVE  RingInv'
<1> DEFINE n      == DataWords(Peek(byte)) + 2
           packet == Words(Stored(byte), buffer_tail, n)
           taken  == n * WordBytes
<1>1. RingOK /\ Store(byte) /\ PacketSeen(byte)
  BY DEF TakePacket, RingInv
<1>2. /\ buffer_tail' = Plus(buffer_tail, taken) /\ stream' = <<>>
      /\ packet_buffer' = packet /\ exited' = Outcome(packet)
  BY DEF TakePacket, PacketParse
<1>3. /\ buffer' \in [0..BufferSize - 1 -> Byte] /\ buffer_head' \in 0..Wrap - 1
      /\ packet_start' \in Nat /\ Count \in Nat /\ Count < BufferSize
      /\ CountFrom(buffer_head', buffer_tail) = Count + 1
  BY <1>1, StoreStep
<1>4. /\ n \in Nat /\ n >= 2 /\ Len(packet) = n
      /\ PacketBytes(DataWords(Peek(byte))) = taken
  <2>1. DataWords(Peek(byte)) \in Nat
    BY <1>1, DataWordsType
  <2>2. n \in Nat /\ n >= 2
    BY <2>1
  <2> HIDE DEF n
  <2>3. Len(packet) = n
    BY <2>2 DEF Words
  <2>4. PacketBytes(DataWords(Peek(byte))) = taken
    BY DEF PacketBytes, n
  <2>5. QED
    BY <2>2, <2>3, <2>4
<1>5. taken <= Count + 1 /\ Count + 1 >= 2 * WordBytes
  BY <1>1, <1>4 DEF PacketSeen, HeaderSeen, Enough
<1> HIDE DEF n, packet
<1>6. taken \in Nat /\ taken >= 2 * WordBytes
  <2>1. (n - 2) * WordBytes >= 0
    BY <1>4, Sizes
  <2>2. (n - 2) * WordBytes = n * WordBytes - 2 * WordBytes
    BY <1>4, Sizes
  <2>3. n * WordBytes \in Nat
    BY <1>4, Sizes
  <2>4. QED
    BY <2>1, <2>2, <2>3, Sizes
<1> HIDE DEF taken
<1>7. taken = Count + 1
  BY <1>1, TakesAll DEF taken, n
<1>8. buffer_tail' \in 0..Wrap - 1 /\ CountFrom(buffer_head', buffer_tail') = 0
  BY <1>1, <1>2, <1>3, <1>6, <1>7, CountDown DEF RingOK
<1>9. Count' = 0
  BY <1>8 DEF Count
<1>10. RingOK'
  <2>1. stream' \in Seq(Byte)
    BY <1>2
  <2>2. QED
    BY <1>3, <1>8, <1>9, <2>1, Sizes DEF RingOK
<1>11. n <= PacketWords
  BY <1>3, <1>4, <1>7, WordsFit, Sizes DEF taken
<1>12. exited' \notin {"too_long", "overflow"}
  BY <1>2, <1>4, <1>11, PacketOutcome
<1>13. RingAtRest'
  BY <1>9, <1>12, Sizes DEF RingAtRest
<1>14. PacketFitsBuffer'
  BY <1>2, <1>4, <1>11, <1>12 DEF PacketFitsBuffer
<1>15. QED
  BY <1>10, <1>13, <1>14 DEF RingInv

\* The invariant is inductive.
LEMMA RingStep == RingInv /\ [Next]_vars => RingInv'
<1> SUFFICES ASSUME RingInv, [Next]_vars PROVE RingInv'
  OBVIOUS
<1>1. ASSUME NEW byte \in Byte, AddByte(byte) PROVE RingInv'
  BY <1>1, OverflowKeeps, DropKeeps, AwaitKeeps, TakeKeeps DEF AddByte
<1>2. CASE UNCHANGED vars
  <2>1. /\ UNCHANGED <<buffer, buffer_head, buffer_tail, packet_start, stream>>
        /\ UNCHANGED <<exited, packet_buffer>>
    BY <1>2 DEF vars, ringVars, lbtraceVars
  <2>2. Count' = Count
    BY <2>1 DEF Count
  <2>3. QED
    BY <2>1, <2>2 DEF RingInv, RingOK, RingAtRest, PacketFitsBuffer
<1>3. QED
  BY <1>1, <1>2 DEF Next

\* The ring keeps its invariant, whatever bytes arrive.
THEOREM RingSafe == Spec => []RingInv
BY InitRing, RingStep, PTL DEF Spec

\* The ring's counters and bytes stay in their ranges, wrapping included.
THEOREM RingTyped == Spec => []TypeOK
<1>1. RingInv => TypeOK
  BY DEF RingInv, RingOK, TypeOK
<1>2. QED
  BY <1>1, RingSafe, PTL

\* No packet is longer than the array it is copied to.
THEOREM PacketAlwaysFits == Spec => []PacketFitsBuffer
<1>1. RingInv => PacketFitsBuffer
  BY DEF RingInv
<1>2. QED
  BY <1>1, RingSafe, PTL

\* Noise is thrown away as it comes, and only a header that announces too much
\* fills the ring.
THEOREM NoiseNeverFills == Spec => []RingAtRest
<1>1. RingInv => RingAtRest
  BY DEF RingInv
<1>2. QED
  BY <1>1, RingSafe, PTL

-----------------------------------------------------------------------------
(* The ring against the byte stream.  Dropped bytes of the stream are      *)
(* behind the tail, and no header stands at any of them; the others are in *)
(* the ring.                                                               *)

Dropped == Len(stream) - Count

MagicAt(bytes, p) == SubSeq(bytes, p + 1, p + WordBytes - 1) = Magic

\* The ring holds the last n bytes.
Holds(ring, from, n, bytes) ==
  /\ n <= Len(bytes)
  /\ \A i \in 1..n : ring[Slot(Plus(from, i - 1))] = bytes[Len(bytes) - n + i]

\* No header stands at the first n bytes.
NoneBefore(n, bytes) ==
  \A p \in 1..n : p + 2 * WordBytes - 1 <= Len(bytes) /\ ~MagicAt(bytes, p)

SearchInv ==
  /\ Holds(buffer, buffer_tail, Count, stream)
  /\ NoneBefore(Dropped, stream)
  /\ Count = 0 => stream = <<>>
  /\ stream # <<>> => packet_start = 1

\* The promise's header is a magic word with a word behind it.
LEMMA FramingHeader ==
  ASSUME NEW bytes, NEW p
  PROVE  Framing!HeaderAt(bytes, p)
           <=> p + 2 * WordBytes - 1 <= Len(bytes) /\ MagicAt(bytes, p)
BY DEF Framing!HeaderAt, MagicAt

\* Counting up from the tail one gets to the head.
LEMMA HeadIsCount ==
  ASSUME NEW h \in 0..Wrap - 1, NEW t \in 0..Wrap - 1
  PROVE  Plus(t, CountFrom(h, t)) = h
BY Sizes DEF CountFrom, Plus

\* Counting in two steps.
LEMMA PlusPlus ==
  ASSUME NEW t \in 0..Wrap - 1, NEW a \in Nat, NEW b \in Nat, a + b <= BufferSize
  PROVE  Plus(Plus(t, a), b) = Plus(t, a + b)
BY Sizes DEF Plus

\* A byte behind a piece of a sequence leaves the piece alone.
LEMMA PieceKept ==
  ASSUME NEW bytes \in Seq(Byte), NEW byte \in Byte, NEW i \in Nat, NEW j \in Nat,
         i >= 1, j <= Len(bytes)
  PROVE  SubSeq(Append(bytes, byte), i, j) = SubSeq(bytes, i, j)
<1>1. \A k \in i..j : Append(bytes, byte)[k] = bytes[k]
  OBVIOUS
<1>2. QED
  BY <1>1, SMTT(30)

\* A word in the ring is a magic word when the bytes of the stream are.
LEMMA WordIsPiece ==
  ASSUME NEW bytes \in Seq(Byte), NEW d \in Nat, NEW word \in Seq(Byte),
         Len(word) = WordBytes, d + WordBytes <= Len(bytes),
         \A i \in 1..WordBytes : word[i] = bytes[d + i]
  PROVE  IsMagic(word) <=> MagicAt(bytes, d + 1)
<1> DEFINE a == Tail(word)
           b == SubSeq(bytes, d + 2, d + WordBytes)
<1>1. a \in Seq(Byte) /\ Len(a) = WordBytes - 1
      /\ \A i \in 1..WordBytes - 1 : a[i] = bytes[d + 1 + i]
  BY Sizes
<1>2. b \in Seq(Byte) /\ Len(b) = WordBytes - 1
      /\ \A i \in 1..WordBytes - 1 : b[i] = bytes[d + 1 + i]
  BY Sizes
<1> HIDE DEF a, b
<1>3. a = b
  BY <1>1, <1>2, Sizes
<1>4. d + 1 + 1 = d + 2 /\ d + 1 + WordBytes - 1 = d + WordBytes
  BY Sizes
<1>5. QED
  BY <1>3, <1>4 DEF a, b, IsMagic, MagicAt

\* What is known when a byte has been stored.
Searched(byte, bytes, d) ==
  /\ bytes = Append(stream, byte) /\ bytes \in Seq(Byte) /\ d \in Nat
  /\ Count \in Nat /\ Len(bytes) = d + Count + 1 /\ d = Dropped
  /\ Len(bytes) - (Count + 1) = d
  /\ Holds(Stored(byte), buffer_tail, Count + 1, bytes)
  /\ NoneBefore(d, bytes)
  /\ packet_start' = 1

\* Storing a byte extends both the ring and the stream.
LEMMA StoreSearched ==
  ASSUME RingOK, SearchInv, NEW byte \in Byte, Store(byte)
  PROVE  Searched(byte, Append(stream, byte), Dropped)
<1> DEFINE bytes == Append(stream, byte)
           d == Dropped
<1>1. /\ Count \in Nat /\ Count < BufferSize /\ stream \in Seq(Byte)
      /\ buffer_tail \in 0..Wrap - 1 /\ buffer_head \in 0..Wrap - 1
      /\ buffer \in [0..BufferSize - 1 -> Byte]
  BY StoreStep DEF RingOK
<1>2. d \in Nat /\ Len(stream) = d + Count /\ Len(stream) \in Nat
  BY <1>1 DEF SearchInv, Holds, Dropped
<1>3. bytes \in Seq(Byte) /\ Len(bytes) = d + Count + 1
  BY <1>1, <1>2
<1>4. ASSUME NEW i \in 1..Count + 1
      PROVE  Stored(byte)[Slot(Plus(buffer_tail, i - 1))] = bytes[d + i]
  <2>1. CASE i <= Count
    <3>1. Count <= Count
      BY <1>1
    <3>2. Window(Stored(byte), buffer_tail, Count)[i]
            = Window(buffer, buffer_tail, Count)[i]
      BY <1>1, <3>1, WindowKept
    <3>3. Stored(byte)[Slot(Plus(buffer_tail, i - 1))]
            = buffer[Slot(Plus(buffer_tail, i - 1))]
      BY <2>1, <3>2 DEF Window
    <3>4. buffer[Slot(Plus(buffer_tail, i - 1))] = stream[d + i]
      BY <2>1, <1>2 DEF SearchInv, Holds, Dropped
    <3>5. bytes[d + i] = stream[d + i]
      BY <1>1, <1>2, <2>1
    <3>6. QED
      BY <3>3, <3>4, <3>5
  <2>2. CASE i = Count + 1
    <3>1. Plus(buffer_tail, i - 1) = buffer_head
      BY <1>1, <2>2, HeadIsCount DEF Count
    <3>2. Stored(byte)[Slot(buffer_head)] = byte
      BY <1>1, SlotType DEF Stored
    <3>3. bytes[d + i] = byte
      BY <1>1, <1>2, <2>2
    <3>4. QED
      BY <3>1, <3>2, <3>3
  <2>3. i <= Count \/ i = Count + 1
    BY <1>1
  <2>4. QED
    BY <2>1, <2>2, <2>3
<1>5. NoneBefore(d, bytes)
  <2> SUFFICES ASSUME NEW p \in 1..d
               PROVE  p + 2 * WordBytes - 1 <= Len(bytes) /\ ~MagicAt(bytes, p)
    BY DEF NoneBefore
  <2>1. p + 2 * WordBytes - 1 <= Len(stream) /\ ~MagicAt(stream, p)
    BY DEF SearchInv, NoneBefore
  <2>2. p + 1 \in Nat /\ p + WordBytes - 1 \in Nat
        /\ p + 1 >= 1 /\ p + WordBytes - 1 <= Len(stream)
    BY <1>2, <2>1, Sizes
  <2>3. SubSeq(bytes, p + 1, p + WordBytes - 1) = SubSeq(stream, p + 1, p + WordBytes - 1)
    BY <1>1, <2>2, PieceKept
  <2>4. MagicAt(bytes, p) <=> MagicAt(stream, p)
    BY <2>3 DEF MagicAt
  <2>5. QED
    BY <1>2, <1>3, <2>1, <2>4, Sizes
<1>6. packet_start' = 1
  BY <1>1, <1>2 DEF Store, SearchInv
<1>7. Len(bytes) - (Count + 1) = d
  BY <1>1, <1>2, <1>3
<1> HIDE DEF bytes
<1>8. Holds(Stored(byte), buffer_tail, Count + 1, bytes)
  BY <1>1, <1>2, <1>3, <1>4, <1>7, SMTT(30) DEF Holds
<1>9. QED
  BY <1>1, <1>2, <1>3, <1>5, <1>6, <1>7, <1>8 DEF Searched, bytes

\* What check_for_packet looks at is the first byte that has not been dropped.
LEMMA PeekIsFront ==
  ASSUME RingOK, NEW byte \in Byte, NEW bytes, NEW d, Searched(byte, bytes, d),
         Count + 1 >= WordBytes
  PROVE  /\ IsMagic(Peek(byte)) <=> MagicAt(bytes, d + 1)
         /\ DataWords(Peek(byte)) = bytes[d + 1]
<1> DEFINE word == Peek(byte)
<1>1. /\ bytes \in Seq(Byte) /\ d \in Nat /\ Count \in Nat
      /\ Len(bytes) = d + Count + 1 /\ Len(bytes) - (Count + 1) = d
  BY DEF Searched
<1>2. ASSUME NEW i \in 1..WordBytes PROVE word[i] = bytes[d + i]
  <2>1. i \in 1..Count + 1
    BY <1>1, Sizes
  <2>2. Stored(byte)[Slot(Plus(buffer_tail, i - 1))] = bytes[d + i]
    BY <1>1, <2>1 DEF Searched, Holds
  <2>3. QED
    BY <2>2 DEF Peek, Window
<1>3. word = [i \in 1..WordBytes |-> word[i]]
  BY DEF Peek, Window
<1> HIDE DEF word
<1>4. \A i \in 1..WordBytes : word[i] \in Byte
  BY <1>1, <1>2, Sizes
<1>5. word \in Seq(Byte) /\ Len(word) = WordBytes
  BY <1>3, <1>4, Sizes
<1>6. IsMagic(word) <=> MagicAt(bytes, d + 1)
  <2>1. d + WordBytes <= Len(bytes)
    BY <1>1, Sizes
  <2>2. QED
    BY <1>1, <1>2, <1>5, <2>1, WordIsPiece
<1>7. word[1] = bytes[d + 1]
  BY <1>2, Sizes
<1>8. QED
  BY <1>6, <1>7 DEF word, DataWords

\* No byte ends a packet that begins among those that were dropped.
LEMMA NoPacketBehind ==
  ASSUME NEW bytes, NEW d \in Nat, NoneBefore(d, bytes), NEW p \in 1..d
  PROVE  ~Framing!HeaderAt(bytes, p)
BY FramingHeader DEF NoneBefore

\* A byte that is not the last one of a packet is waited for.
LEMMA WaitMaps ==
  ASSUME NEW byte, NEW bytes, bytes = Append(stream, byte),
         \A p \in DOMAIN bytes : ~Framing!PacketEnds(bytes, p),
         stream' = bytes, NothingPrinted
  PROVE  Framing!Wait(byte)
BY DEF Framing!Wait, NothingPrinted

\* The byte at the front is dropped.
LEMMA DropSearches ==
  ASSUME RingInv, SearchInv, exited = "no", NEW byte \in Byte, DropByte(byte)
  PROVE  SearchInv' /\ Framing!Wait(byte)
<1> DEFINE bytes == Append(stream, byte)
           d == Dropped
<1>1. RingOK /\ Store(byte) /\ Enough(byte) /\ ~HeaderSeen(byte)
  BY DEF DropByte, RingInv
<1>2. /\ buffer_tail' = Plus(buffer_tail, 1) /\ stream' = bytes
      /\ buffer' = Stored(byte) /\ NothingPrinted
  BY DEF DropByte, Store
<1>3. Searched(byte, bytes, d)
  BY <1>1, StoreSearched
<1> HIDE DEF bytes, d
<1>4. /\ bytes \in Seq(Byte) /\ d \in Nat /\ Count \in Nat
      /\ Len(bytes) = d + Count + 1 /\ Len(bytes) - (Count + 1) = d
      /\ NoneBefore(d, bytes) /\ packet_start' = 1
  BY <1>3 DEF Searched
<1>5. Count + 1 >= 2 * WordBytes /\ Count < 2 * WordBytes
  <2>1. Count + 1 >= 2 * WordBytes
    BY <1>1 DEF Enough
  <2>2. SUFFICES ASSUME Count >= 2 * WordBytes PROVE FALSE
    BY <1>4, <2>1, Sizes
  <2>3. IsMagic(Window(buffer, buffer_tail, WordBytes))
    BY <2>2 DEF RingInv, RingAtRest
  <2>4. Peek(byte) = Window(buffer, buffer_tail, WordBytes)
    BY <1>1, <1>4, <2>2, WindowKept, Sizes DEF Peek, Store
  <2>5. QED
    BY <1>1, <2>3, <2>4 DEF HeaderSeen
<1>6. ~MagicAt(bytes, d + 1)
  <2>1. ~IsMagic(Peek(byte))
    BY <1>1 DEF HeaderSeen
  <2>2. QED
    BY <1>1, <1>3, <1>4, <1>5, <2>1, PeekIsFront, Sizes
<1>7. \A p \in DOMAIN bytes : ~Framing!PacketEnds(bytes, p)
  <2> SUFFICES ASSUME NEW p \in 1..Len(bytes) PROVE ~Framing!HeaderAt(bytes, p)
    BY <1>4 DEF Framing!PacketEnds, Framing!FirstHeader
  <2>1. CASE p \in 1..d
    BY <1>4, <2>1, NoPacketBehind
  <2>2. CASE p = d + 1
    BY <1>6, <2>2, FramingHeader
  <2>3. CASE p > d + 1
    <3>1. ~(p + 2 * WordBytes - 1 <= Len(bytes))
      BY <1>4, <1>5, <2>3, Sizes
    <3>2. QED
      BY <3>1, FramingHeader
  <2>4. QED
    BY <1>4, <2>1, <2>2, <2>3
<1>8. Framing!Wait(byte)
  BY <1>2, <1>7, WaitMaps DEF bytes
<1>9. Count' = Count
  <2>1. /\ buffer_head' \in 0..Wrap - 1 /\ buffer_tail \in 0..Wrap - 1
        /\ CountFrom(buffer_head', buffer_tail) = Count + 1
    BY <1>1, StoreStep DEF RingOK
  <2>2. CountFrom(buffer_head', Plus(buffer_tail, 1)) = Count + 1 - 1
    BY <1>4, <2>1, CountDown
  <2>3. CountFrom(buffer_head', buffer_tail') = Count
    BY <1>2, <1>4, <2>2
  <2>4. QED
    BY <2>3 DEF Count
<1>10. NoneBefore(d + 1, bytes)
  <2>1. \A p \in 1..d + 1 : p \in 1..d \/ p = d + 1
    BY <1>4
  <2>2. d + 1 + 2 * WordBytes - 1 <= Len(bytes)
    BY <1>4, <1>5, Sizes
  <2>3. QED
    BY <1>4, <1>6, <2>1, <2>2 DEF NoneBefore
<1>11. Holds(Stored(byte), Plus(buffer_tail, 1), Count, bytes)
  <2> SUFFICES ASSUME NEW i \in 1..Count
               PROVE  Stored(byte)[Slot(Plus(Plus(buffer_tail, 1), i - 1))]
                        = bytes[Len(bytes) - Count + i]
    BY <1>4 DEF Holds
  <2>1. i - 1 \in Nat /\ 1 + (i - 1) = (i + 1) - 1 /\ i + 1 \in 1..Count + 1
        /\ 1 + (i - 1) <= BufferSize
    BY <1>1, <1>4, Sizes DEF Store
  <2>2. Plus(Plus(buffer_tail, 1), i - 1) = Plus(buffer_tail, (i + 1) - 1)
    BY <1>1, <2>1, PlusPlus DEF RingOK
  <2>3. Stored(byte)[Slot(Plus(buffer_tail, (i + 1) - 1))] = bytes[d + (i + 1)]
    BY <1>3, <1>4, <2>1 DEF Searched, Holds
  <2>4. Len(bytes) - Count + i = d + (i + 1)
    BY <1>4
  <2>5. QED
    BY <2>2, <2>3, <2>4
<1>12. Len(bytes) - Count = d + 1
  BY <1>4
<1>13. SearchInv'
  <2>1. Dropped' = d + 1
    BY <1>2, <1>9, <1>12 DEF Dropped
  <2>2. Holds(buffer', buffer_tail', Count', stream')
    BY <1>2, <1>9, <1>11
  <2>3. NoneBefore(Dropped', stream')
    BY <1>2, <1>10, <2>1
  <2>4. Count' # 0
    BY <1>4, <1>5, <1>9, Sizes
  <2>5. QED
    BY <1>4, <2>2, <2>3, <2>4 DEF SearchInv
<1>14. QED
  BY <1>8, <1>13

\* A byte is kept.
LEMMA AwaitSearches ==
  ASSUME RingInv, SearchInv, exited = "no", NEW byte \in Byte, AwaitMore(byte)
  PROVE  SearchInv' /\ Framing!Wait(byte)
<1> DEFINE bytes == Append(stream, byte)
           d == Dropped
<1>1. RingOK /\ Store(byte) /\ ~PacketSeen(byte) /\ (Enough(byte) => HeaderSeen(byte))
  BY DEF AwaitMore, RingInv
<1>2. /\ buffer_tail' = buffer_tail /\ stream' = bytes
      /\ buffer' = Stored(byte) /\ NothingPrinted
  BY DEF AwaitMore, Store
<1>3. Searched(byte, bytes, d)
  BY <1>1, StoreSearched
<1> HIDE DEF bytes, d
<1>4. /\ bytes \in Seq(Byte) /\ d \in Nat /\ Count \in Nat
      /\ Len(bytes) = d + Count + 1 /\ Len(bytes) - (Count + 1) = d
      /\ NoneBefore(d, bytes) /\ packet_start' = 1
      /\ Holds(Stored(byte), buffer_tail, Count + 1, bytes)
  BY <1>3 DEF Searched
<1>5. ASSUME NEW p \in 1..Len(bytes), Framing!PacketEnds(bytes, p) PROVE FALSE
  <2>1. /\ Framing!HeaderAt(bytes, p)
        /\ \A q \in 1..p - 1 : ~Framing!HeaderAt(bytes, q)
        /\ Len(bytes) - p + 1 = (bytes[p] + 2) * WordBytes
    BY <1>5 DEF Framing!PacketEnds, Framing!FirstHeader, Framing!WordsAnnounced
  <2>2. p > d
    BY <1>4, <2>1, NoPacketBehind
  <2>3. p + 2 * WordBytes - 1 <= Len(bytes)
    BY <2>1, FramingHeader
  <2>4. Count + 1 >= 2 * WordBytes
    BY <1>4, <2>2, <2>3, Sizes
  <2>5. HeaderSeen(byte)
    BY <1>1, <2>4 DEF Enough
  <2>6. MagicAt(bytes, d + 1) /\ DataWords(Peek(byte)) = bytes[d + 1]
    BY <1>1, <1>3, <1>4, <2>4, <2>5, PeekIsFront, Sizes DEF HeaderSeen
  <2>7. d + 1 + 2 * WordBytes - 1 <= Len(bytes)
    BY <1>4, <2>4, Sizes
  <2>8. Framing!HeaderAt(bytes, d + 1)
    BY <2>6, <2>7, FramingHeader
  <2>9. p = d + 1
    BY <1>4, <2>1, <2>2, <2>8
  <2>10. Count + 1 = PacketBytes(DataWords(Peek(byte)))
    BY <1>4, <2>1, <2>6, <2>9 DEF PacketBytes
  <2>11. QED
    BY <1>1, <1>4, <2>5, <2>10 DEF PacketSeen
<1>6. Framing!Wait(byte)
  <2>1. DOMAIN bytes = 1..Len(bytes)
    BY <1>4
  <2>2. \A p \in DOMAIN bytes : ~Framing!PacketEnds(bytes, p)
    BY <1>5, <2>1
  <2>3. QED
    BY <1>2, <2>2, WaitMaps DEF bytes
<1>7. Count' = Count + 1
  BY <1>1, <1>2, StoreStep DEF Count
<1>8. SearchInv'
  <2>1. Dropped' = d
    BY <1>2, <1>4, <1>7 DEF Dropped
  <2>2. Holds(buffer', buffer_tail', Count', stream')
    BY <1>2, <1>4, <1>7
  <2>3. NoneBefore(Dropped', stream')
    BY <1>2, <1>4, <2>1
  <2>4. Count' # 0
    BY <1>4, <1>7
  <2>5. QED
    BY <1>4, <2>2, <2>3, <2>4 DEF SearchInv
<1>9. QED
  BY <1>6, <1>8

\* How the printer can end for a packet that fits.
LEMMA OutcomeValues ==
  ASSUME NEW packet, Outcome(packet) \notin {"too_long", "overflow"}
  PROVE  Outcome(packet) \in {"no", "unparsed_tag", "underrun", "no_thread", "left_over"}
BY DEF Outcome

\* The words of n * WordBytes bytes behind the first d.
Pieces(bytes, d, n) ==
  [w \in 1..n |-> SubSeq(bytes, d + 1 + (w - 1) * WordBytes, d + 1 + w * WordBytes - 1)]

\* The words taken from the ring are those of the stream.
LEMMA WordsArePieces ==
  ASSUME RingOK, NEW byte \in Byte, NEW bytes, NEW d, Searched(byte, bytes, d),
         NEW n \in Nat, n * WordBytes = Count + 1, Count < BufferSize
  PROVE  Words(Stored(byte), buffer_tail, n) = Pieces(bytes, d, n)
<1>1. /\ bytes \in Seq(Byte) /\ d \in Nat /\ Count \in Nat
      /\ Len(bytes) = d + Count + 1 /\ Len(bytes) - (Count + 1) = d
      /\ Holds(Stored(byte), buffer_tail, Count + 1, bytes)
  BY DEF Searched
<1>2. ASSUME NEW w \in 1..n
      PROVE  Window(Stored(byte), Plus(buffer_tail, (w - 1) * WordBytes), WordBytes)
               = SubSeq(bytes, d + 1 + (w - 1) * WordBytes,
                        d + 1 + w * WordBytes - 1)
  <2> DEFINE k == (w - 1) * WordBytes
             a == Window(Stored(byte), Plus(buffer_tail, k), WordBytes)
             b == SubSeq(bytes, d + 1 + k, d + 1 + w * WordBytes - 1)
  <2>1. k \in Nat /\ w * WordBytes = k + WordBytes /\ k + WordBytes <= Count + 1
    <3>1. w - 1 \in Nat /\ n - w \in Nat
      OBVIOUS
    <3>2. k \in Nat /\ (n - w) * WordBytes >= 0
      BY <3>1, Sizes
    <3>3. w * WordBytes = k + WordBytes
      BY Sizes
    <3>4. (n - w) * WordBytes = n * WordBytes - w * WordBytes
      BY Sizes
    <3> HIDE DEF k
    <3>5. w * WordBytes \in Nat
      BY <3>2, <3>3, Sizes
    <3>6. QED
      BY <1>1, <3>2, <3>3, <3>4, <3>5, Sizes
  <2> HIDE DEF k
  <2>2. ASSUME NEW i \in 1..WordBytes
        PROVE  Stored(byte)[Slot(Plus(Plus(buffer_tail, k), i - 1))] = bytes[d + k + i]
    <3>1. i - 1 \in Nat /\ k + (i - 1) = (k + i) - 1 /\ k + i \in 1..Count + 1
          /\ k + (i - 1) <= BufferSize
      BY <1>1, <2>1, Sizes
    <3>2. Plus(Plus(buffer_tail, k), i - 1) = Plus(buffer_tail, (k + i) - 1)
      BY <2>1, <3>1, PlusPlus DEF RingOK
    <3>3. Stored(byte)[Slot(Plus(buffer_tail, (k + i) - 1))] = bytes[d + (k + i)]
      BY <1>1, <3>1 DEF Holds
    <3>4. d + (k + i) = d + k + i
      BY <1>1, <2>1
    <3>5. QED
      BY <3>2, <3>3, <3>4
  <2>3. a = [i \in 1..WordBytes |-> bytes[d + k + i]]
    BY <2>2, Zenon DEF Window
  <2>4. b = [i \in 1..WordBytes |-> bytes[d + k + i]]
    <3>1. d + 1 + w * WordBytes - 1 = d + k + WordBytes
      BY <1>1, <2>1, Sizes
    <3>2. d + k + WordBytes <= Len(bytes) /\ d + 1 + k \in Nat /\ d + 1 + k >= 1
      BY <1>1, <2>1, Sizes
    <3> HIDE DEF b
    <3>3. b = SubSeq(bytes, d + 1 + k, d + k + WordBytes)
      BY <3>1 DEF b
    <3>4. b \in Seq(Byte) /\ Len(b) = WordBytes
      BY <1>1, <2>1, <3>2, <3>3, Sizes
    <3>5. \A i \in 1..WordBytes : b[i] = bytes[d + k + i]
      BY <1>1, <2>1, <3>2, <3>3, Sizes
    <3>6. QED
      BY <3>4, <3>5, Sizes
  <2>5. QED
    BY <2>3, <2>4 DEF k
<1>3. QED
  BY <1>2, Zenon DEF Words, Pieces

\* The last byte of a packet.
LEMMA TakeSearches ==
  ASSUME RingInv, SearchInv, exited = "no", NEW byte \in Byte, TakePacket(byte)
  PROVE  SearchInv' /\ Framing!Deliver(byte)
<1> DEFINE bytes  == Append(stream, byte)
           d      == Dropped
           n      == DataWords(Peek(byte)) + 2
           packet == Words(Stored(byte), buffer_tail, n)
<1>1. RingOK /\ Store(byte) /\ PacketSeen(byte)
  BY DEF TakePacket, RingInv
<1>2. /\ buffer_tail' = Plus(buffer_tail, n * WordBytes) /\ stream' = <<>>
      /\ packet_buffer' = packet /\ exited' = Outcome(packet)
  BY DEF TakePacket, PacketParse
<1>3. Searched(byte, bytes, d)
  BY <1>1, StoreSearched
<1>4. n * WordBytes = Count + 1
  BY <1>1, TakesAll
<1> HIDE DEF bytes, d
<1>5. /\ bytes \in Seq(Byte) /\ d \in Nat /\ Count \in Nat
      /\ Len(bytes) = d + Count + 1 /\ NoneBefore(d, bytes) /\ packet_start' = 1
  BY <1>3 DEF Searched
<1>6. Count + 1 >= 2 * WordBytes /\ IsMagic(Peek(byte))
  BY <1>1 DEF PacketSeen, HeaderSeen, Enough
<1>7. MagicAt(bytes, d + 1) /\ DataWords(Peek(byte)) = bytes[d + 1]
  BY <1>1, <1>3, <1>5, <1>6, PeekIsFront, Sizes
<1>8. n \in Nat /\ n >= 2 /\ n = bytes[d + 1] + 2
  <2>1. DataWords(Peek(byte)) \in Nat
    BY <1>1, DataWordsType
  <2>2. QED
    BY <1>7, <2>1
<1> HIDE DEF n
<1>9. Framing!PacketEnds(bytes, d + 1)
  <2>1. Framing!HeaderAt(bytes, d + 1)
    BY <1>5, <1>6, <1>7, FramingHeader, Sizes
  <2>2. \A q \in 1..(d + 1) - 1 : ~Framing!HeaderAt(bytes, q)
    BY <1>5, NoPacketBehind
  <2>3. Len(bytes) - (d + 1) + 1 = (bytes[d + 1] + 2) * WordBytes
    BY <1>4, <1>5, <1>8
  <2>4. QED
    BY <2>1, <2>2, <2>3
       DEF Framing!PacketEnds, Framing!FirstHeader, Framing!WordsAnnounced
<1>10. packet = Framing!PacketAt(bytes, d + 1)
  <2>1. packet = Pieces(bytes, d, n)
    <3>1. n \in Nat /\ Count < BufferSize
      BY <1>1, <1>8 DEF Store
    <3>2. QED
      BY <1>1, <1>3, <1>4, <3>1, WordsArePieces
  <2>2. Framing!WordsAnnounced(bytes, d + 1) = n
    BY <1>8 DEF Framing!WordsAnnounced
  <2> HIDE DEF packet
  <2>3. QED
    BY <2>1, <2>2, Zenon DEF Framing!PacketAt, Pieces
<1>11. packet # <<>>
  <2>1. 1 \in DOMAIN packet
    BY <1>8 DEF Words
  <2>2. QED
    BY <2>1
<1>12. exited' \in {"no", "unparsed_tag", "underrun", "no_thread", "left_over"}
  <2>1. RingInv'
    BY TakeKeeps
  <2>2. exited' # "too_long"
    BY <2>1 DEF RingInv, PacketFitsBuffer
  <2>3. Outcome(packet) # "overflow"
    BY DEF Outcome
  <2>4. QED
    BY <1>2, <2>2, <2>3, OutcomeValues
<1> HIDE DEF packet
<1>13. Framing!Deliver(byte)
  <2>1. d + 1 \in DOMAIN bytes
    BY <1>5
  <2>2. QED
    BY <1>2, <1>5, <1>9, <1>10, <1>11, <1>12, <2>1 DEF Framing!Deliver, bytes
<1>14. Count' = 0
  <2>1. n * WordBytes \in Nat /\ n * WordBytes <= CountFrom(buffer_head', buffer_tail)
    BY <1>1, <1>4, <1>5, StoreStep
  <2>2. CountFrom(buffer_head', Plus(buffer_tail, n * WordBytes)) = 0
    BY <1>1, <1>4, <1>5, <2>1, StoreStep, CountDown DEF RingOK
  <2>3. QED
    BY <1>2, <2>2 DEF Count
<1>15. SearchInv'
  BY <1>2, <1>14 DEF SearchInv, Dropped, Holds, NoneBefore
<1>16. QED
  BY <1>13, <1>15

\* The ring fills up only behind a header that announces too much.
LEMMA OverflowSearches ==
  ASSUME RingInv, SearchInv, exited = "no", Overflow
  PROVE  SearchInv' /\ Framing!GiveUp
<1> DEFINE d == Dropped
           word == Window(buffer, buffer_tail, WordBytes)
<1>1. /\ UNCHANGED <<buffer, buffer_head, buffer_tail, packet_start, stream>>
      /\ exited' = "overflow" /\ packet_buffer' = <<>> /\ Count >= BufferSize
  BY DEF Overflow, ringVars
<1>2. /\ RingOK /\ Count \in Nat /\ Count = BufferSize /\ stream \in Seq(Byte)
      /\ Count >= 2 * WordBytes
  <2>1. RingOK /\ stream \in Seq(Byte) /\ Count <= BufferSize
    BY DEF RingInv, RingOK
  <2>2. Count \in Nat
    BY <2>1, CountType, Sizes DEF RingOK, Count
  <2>3. QED
    BY <1>1, <2>1, <2>2, Sizes
<1>3. IsMagic(word) /\ Count < PacketBytes(DataWords(word))
  BY <1>2 DEF RingInv, RingAtRest
<1>4. /\ d \in Nat /\ Len(stream) = d + Count /\ Len(stream) - Count = d
      /\ NoneBefore(d, stream)
  BY <1>2 DEF SearchInv, Dropped, Holds
<1>5. \A i \in 1..WordBytes : word[i] = stream[d + i]
  BY <1>2, <1>4, Sizes DEF SearchInv, Holds, Window
<1>6. word = [i \in 1..WordBytes |-> word[i]]
  BY DEF Window
<1> HIDE DEF d, word
<1>7. word \in Seq(Byte) /\ Len(word) = WordBytes
  <2>1. \A i \in 1..WordBytes : word[i] \in Byte
    <3> SUFFICES ASSUME NEW i \in 1..WordBytes PROVE word[i] \in Byte
      OBVIOUS
    <3>1. d + i \in 1..Len(stream)
      BY <1>2, <1>4, Sizes
    <3>2. word[i] = stream[d + i]
      BY <1>5
    <3>3. QED
      BY <1>2, <3>1, <3>2
  <2>2. word \in [1..WordBytes -> Byte]
    BY <1>6, <2>1, Zenon
  <2>3. WordBytes \in Nat
    BY Sizes
  <2>4. QED
    BY <2>2, <2>3
<1>8. MagicAt(stream, d + 1)
  <2>1. d + WordBytes <= Len(stream)
    BY <1>2, <1>4, Sizes
  <2>2. IsMagic(word) <=> MagicAt(stream, d + 1)
    BY <1>2, <1>4, <1>5, <1>7, <2>1, WordIsPiece
  <2>3. QED
    BY <1>3, <2>2
<1>9. Framing!FirstHeader(stream, d + 1)
  <2>1. Framing!HeaderAt(stream, d + 1)
    BY <1>2, <1>4, <1>8, FramingHeader, Sizes
  <2>2. \A q \in 1..(d + 1) - 1 : ~Framing!HeaderAt(stream, q)
    BY <1>4, NoPacketBehind
  <2>3. QED
    BY <2>1, <2>2 DEF Framing!FirstHeader
<1>10. stream[d + 1] + 2 > PacketWords
  <2>1. word[1] = stream[d + 1] /\ word[1] \in Nat
    <3>1. 1 \in 1..WordBytes
      BY Sizes
    <3>2. word[1] = stream[d + 1] /\ word[1] \in Byte
      BY <1>5, <1>7, <3>1
    <3>3. QED
      BY <3>2, ByteAssumption
  <2>2. BufferSize < (word[1] + 2) * WordBytes
    BY <1>2, <1>3 DEF PacketBytes, DataWords
  <2>3. word[1] + 2 \in Nat
    BY <2>1
  <2>4. SUFFICES ASSUME word[1] + 2 <= PacketWords PROVE FALSE
    BY <2>1, <2>3, Sizes
  <2>5. (PacketWords - (word[1] + 2)) * WordBytes >= 0
    BY <2>3, <2>4, Sizes
  <2>6. (PacketWords - (word[1] + 2)) * WordBytes
          = PacketWords * WordBytes - (word[1] + 2) * WordBytes
    BY <2>3, Sizes
  <2>7. PacketWords * WordBytes = BufferSize
    BY Sizes
  <2>8. (word[1] + 2) * WordBytes \in Nat
    BY <2>3, Sizes
  <2>9. QED
    BY <2>2, <2>5, <2>6, <2>7, <2>8, Sizes
<1>11. Framing!GiveUp
  <2>1. d + 1 \in DOMAIN stream
    BY <1>2, <1>4, Sizes
  <2>2. QED
    BY <1>1, <1>9, <1>10, <2>1 DEF Framing!GiveUp, Framing!WordsAnnounced
<1>12. Count' = Count /\ Dropped' = Dropped
  BY <1>1 DEF Count, Dropped
<1>13. SearchInv'
  BY <1>1, <1>12 DEF SearchInv
<1>14. QED
  BY <1>11, <1>13

FramingReport ==
  IF packet_buffer = <<>> THEN <<>>
  ELSE [words |-> packet_buffer, stamp |-> packet_start]

\* Every byte is a step of the promise.
LEMMA SearchStep ==
  RingInv /\ SearchInv /\ [Next]_vars
    => SearchInv' /\ [Framing!Next]_<<stream, FramingReport, exited>>
<1> SUFFICES ASSUME RingInv, SearchInv, [Next]_vars
             PROVE  SearchInv' /\ [Framing!Next]_<<stream, FramingReport, exited>>
  OBVIOUS
<1>1. ASSUME NEW byte \in Byte, AddByte(byte)
      PROVE  SearchInv' /\ Framing!Next
  <2>1. exited = "no"
    BY <1>1 DEF AddByte
  <2>2. CASE Overflow
    BY <2>1, <2>2, OverflowSearches DEF Framing!Next
  <2>3. CASE DropByte(byte)
    BY <2>1, <2>3, DropSearches DEF Framing!Next
  <2>4. CASE AwaitMore(byte)
    BY <2>1, <2>4, AwaitSearches DEF Framing!Next
  <2>5. CASE TakePacket(byte)
    BY <2>1, <2>5, TakeSearches DEF Framing!Next
  <2>6. QED
    BY <1>1, <2>2, <2>3, <2>4, <2>5 DEF AddByte
<1>2. CASE UNCHANGED vars
  <2>1. /\ UNCHANGED <<buffer, buffer_head, buffer_tail, packet_start, stream>>
        /\ UNCHANGED <<exited, packet_buffer>>
    BY <1>2 DEF vars, ringVars, lbtraceVars
  <2>2. Count' = Count /\ Dropped' = Dropped /\ FramingReport' = FramingReport
    BY <2>1 DEF Count, Dropped, FramingReport
  <2>3. QED
    BY <2>1, <2>2 DEF SearchInv
<1>3. QED
  BY <1>1, <1>2 DEF Next

\* Nothing has been searched yet.
LEMMA InitSearch == Init => SearchInv /\ Framing!Init
<1> SUFFICES ASSUME Init PROVE SearchInv /\ Framing!Init
  OBVIOUS
<1>1. Count = 0 /\ stream = <<>> /\ Len(stream) = 0
  BY Sizes DEF Init, Count, CountFrom
<1>2. SearchInv
  BY <1>1 DEF SearchInv, Dropped, Holds, NoneBefore
<1>3. Framing!Init
  BY DEF Init, LbtraceInit, Framing!Init
<1>4. QED
  BY <1>2, <1>3

\* The search keeps its place for ever.
THEOREM SearchSafe == Spec => []SearchInv
<1>1. Init => SearchInv
  BY InitSearch
<1>2. RingInv /\ SearchInv /\ [Next]_vars => SearchInv'
  BY SearchStep
<1>3. QED
  BY <1>1, <1>2, RingSafe, PTL DEF Spec

\* The ring with its wrapping counters and its byte-by-byte search implements
\* TraceFraming, for words, packets and rings of any size: no packet is lost and
\* none invented, whatever bytes arrive (parser_uart_lbtrace.c:306-391).
THEOREM RingImplementsFraming == Spec => FramesPackets
<1>1. Init => Framing!Init
  BY InitSearch
<1>2. RingInv /\ SearchInv /\ [Next]_vars
        => [Framing!Next]_<<stream, FramingReport, exited>>
  BY SearchStep
<1>3. QED
  BY <1>1, <1>2, RingSafe, SearchSafe, PTL
     DEF Spec, FramesPackets, Framing!Spec, FramingReport


Word == [1..WordBytes -> Byte]
Entry == [address : Word, name : Seq(Word)]

\* What the ring can hand over.
GoodPacket(packet) ==
  /\ packet \in Seq(Word)
  /\ Len(packet) \in 2..PacketWords
  /\ IsMagic(packet[1])

\* A table of entries for different threads.
GoodTable(table) ==
  /\ table \in Seq(Entry)
  /\ Len(table) <= NumberThreads
  /\ \A i, j \in DOMAIN table : table[i].address = table[j].address => i = j

Ends == {"no", "overflow", "unparsed_tag", "underrun", "no_thread", "left_over"}

ThreadsInv ==
  /\ GoodTable(threads)
  /\ exited \in Ends
  /\ exited = "no_thread" =>
       Len(threads) = NumberThreads /\ Indices(threads, packet_buffer[3]) = {}

-----------------------------------------------------------------------------
(* thread.c                                                                *)

\* thread_find keeps the entries, and adds one for an address it does not find.
LEMMA FindKeeps ==
  ASSUME NEW table, GoodTable(table), NEW address \in Word,
         ~TableFull(table, address)
  PROVE  /\ GoodTable(ThreadFind(table, address))
         /\ Len(ThreadFind(table, address)) >= Len(table)
         /\ \A i \in DOMAIN table : ThreadFind(table, address)[i] = table[i]
<1> DEFINE entry == [address |-> address, name |-> NoName]
<1>1. CASE Indices(table, address) # {}
  BY <1>1 DEF ThreadFind, GoodTable
<1>2. CASE Indices(table, address) = {}
  <2>1. ThreadFind(table, address) = Append(table, entry)
    BY <1>2 DEF ThreadFind
  <2>2. entry \in Entry /\ entry.address = address
    BY DEF Entry, NoName
  <2>3. \A i \in DOMAIN table : table[i].address # address
    BY <1>2 DEF Indices
  <2>4. Len(table) < NumberThreads /\ Len(table) \in Nat
    BY <1>2, NumberThreadsAssumption DEF TableFull, GoodTable
  <2> HIDE DEF entry
  <2>5. /\ Append(table, entry) \in Seq(Entry)
        /\ Len(Append(table, entry)) = Len(table) + 1
        /\ \A i \in 1..Len(table) : Append(table, entry)[i] = table[i]
        /\ Append(table, entry)[Len(table) + 1] = entry
        /\ DOMAIN table = 1..Len(table)
        /\ DOMAIN Append(table, entry) = 1..Len(table) + 1
    BY <2>2 DEF GoodTable
  <2> DEFINE more == Append(table, entry)
  <2> HIDE DEF more
  <2>6. GoodTable(more)
    <3>1. ASSUME NEW i \in DOMAIN more, NEW j \in DOMAIN more,
                 more[i].address = more[j].address
          PROVE  i = j
      BY <2>2, <2>3, <2>4, <2>5, <3>1 DEF more, GoodTable
    <3>2. QED
      BY <2>4, <2>5, <3>1, NumberThreadsAssumption DEF more, GoodTable
  <2>7. QED
    BY <2>1, <2>4, <2>5, <2>6 DEF more
<1>3. QED
  BY <1>1, <1>2

\* thread_create changes no address, and no name but the one of its thread.
LEMMA CreateKeeps ==
  ASSUME NEW table, GoodTable(table), NEW address \in Word,
         NEW name \in Seq(Word), ~TableFull(table, address)
  PROVE  /\ GoodTable(ThreadCreate(table, address, name))
         /\ Len(ThreadCreate(table, address, name)) >= Len(table)
         /\ \A i \in DOMAIN table :
              ThreadCreate(table, address, name)[i]
                = IF table[i].address = address THEN [table[i] EXCEPT !.name = name]
                                                ELSE table[i]
<1> DEFINE found == ThreadFind(table, address)
           named == [i \in DOMAIN found |->
                       IF found[i].address = address
                       THEN [found[i] EXCEPT !.name = name] ELSE found[i]]
<1>1. /\ GoodTable(found) /\ Len(found) >= Len(table)
      /\ \A i \in DOMAIN table : found[i] = table[i]
  BY FindKeeps
<1>2. ThreadCreate(table, address, name) = named
  BY DEF ThreadCreate
<1> HIDE DEF found
<1>3. /\ DOMAIN found = 1..Len(found) /\ DOMAIN table = 1..Len(table)
      /\ Len(found) \in Nat /\ Len(table) \in Nat
      /\ \A i \in DOMAIN found : found[i] \in Entry
  BY <1>1 DEF GoodTable
<1>4. \A i \in DOMAIN found : named[i] \in Entry /\ named[i].address = found[i].address
  BY <1>3 DEF Entry
<1>5. \A i \in DOMAIN found :
        named[i] = IF found[i].address = address
                   THEN [found[i] EXCEPT !.name = name] ELSE found[i]
  OBVIOUS
<1>6. named \in Seq(Entry) /\ Len(named) = Len(found) /\ DOMAIN named = DOMAIN found
  <2>1. named \in [1..Len(found) -> Entry]
    BY <1>3, <1>4
  <2>2. QED
    BY <1>3, <2>1
<1> HIDE DEF named
<1>7. GoodTable(named)
  BY <1>1, <1>4, <1>6 DEF GoodTable
<1>8. \A i \in DOMAIN table :
        named[i] = IF table[i].address = address
                   THEN [table[i] EXCEPT !.name = name] ELSE table[i]
  BY <1>1, <1>3, <1>5
<1>9. QED
  BY <1>1, <1>2, <1>6, <1>7, <1>8

-----------------------------------------------------------------------------
(* lbtrace.c                                                               *)

\* A packet that ends no program is as long as its tag calls for, and a thread it
\* names can be had.
LEMMA PrintedPacket ==
  ASSUME NEW packet, GoodPacket(packet), Outcome(packet) = "no"
  PROVE  /\ TagOf(packet[2]) \in {SwapIn, ThreadName} =>
              ~TableFull(threads, Address(packet)) /\ Address(packet) \in Word
         /\ TagOf(packet[2]) = ThreadName =>
              Len(packet) = 3 + NameWords /\ Name(packet) \in Seq(Word)
<1>1. /\ IsMagic(packet[1]) /\ Len(packet) \in Nat /\ NameWords \in Nat
      /\ ThreadName \notin Tags /\ SwapIn # ThreadName
  BY TagsAssumption DEF GoodPacket
<1>2. /\ ~(Len(packet) < Wanted(packet)) /\ ~NoRoomForThread(packet)
      /\ ~(Len(packet) > Wanted(packet))
  BY <1>1 DEF Outcome
<1>3. TagOf(packet[2]) = ThreadName => Wanted(packet) = 2 + (1 + NameWords)
  BY <1>1 DEF Wanted
<1>4. TagOf(packet[2]) = SwapIn => Wanted(packet) = 3
  BY <1>1 DEF Wanted
<1>5. TagOf(packet[2]) \in {SwapIn, ThreadName} => Len(packet) >= 3
  BY <1>1, <1>2, <1>3, <1>4
<1>6. TagOf(packet[2]) = ThreadName => Len(packet) = 3 + NameWords
  BY <1>1, <1>2, <1>3
<1>7. TagOf(packet[2]) = ThreadName => Name(packet) \in Seq(Word)
  BY <1>1, <1>6 DEF Name, GoodPacket
<1>8. QED
  BY <1>1, <1>2, <1>5, <1>6, <1>7 DEF NoRoomForThread, Address, GoodPacket

\* The table starts empty.
LEMMA InitTable == Init => ThreadsInv
<1>1. <<>> \in Seq(Entry) /\ Len(<<>>) = 0
  OBVIOUS
<1>2. QED
  BY <1>1, NumberThreadsAssumption DEF Init, LbtraceInit, ThreadsInv, GoodTable, Ends

\* The outcomes a packet from the ring can have: none is too long.
LEMMA OutcomeOf ==
  ASSUME NEW packet, GoodPacket(packet)
  PROVE  Outcome(packet) \in {"no", "unparsed_tag", "underrun", "no_thread", "left_over"}
<1>1. Outcome(packet) # "too_long"
  BY PacketOutcome DEF GoodPacket
<1>2. QED
  BY <1>1 DEF Outcome

\* A packet that is printed leaves a good table.
LEMMA TableStep ==
  ASSUME GoodTable(threads), NEW packet, GoodPacket(packet), Outcome(packet) = "no"
  PROVE  GoodTable(ThreadsAfter(packet))
BY PrintedPacket, FindKeeps, CreateKeeps DEF ThreadsAfter

\* One packet keeps the invariant, however it ends.
LEMMA PacketStep ==
  ASSUME ThreadsInv, NEW packet, GoodPacket(packet), PacketParse(packet)
  PROVE  ThreadsInv'
<1>1. /\ packet_buffer' = packet /\ exited' = Outcome(packet)
      /\ threads' = IF Outcome(packet) = "no" THEN ThreadsAfter(packet) ELSE threads
  BY DEF PacketParse
<1>2. GoodTable(threads')
  BY <1>1, TableStep DEF ThreadsInv
<1>3. exited' \in Ends
  BY <1>1, OutcomeOf DEF Ends
<1>4. ASSUME exited' = "no_thread"
      PROVE  Len(threads') = NumberThreads /\ Indices(threads', packet_buffer'[3]) = {}
  <2>1. NoRoomForThread(packet) /\ threads' = threads
    BY <1>1, <1>4 DEF Outcome
  <2>2. QED
    BY <1>1, <2>1 DEF NoRoomForThread, TableFull, Address
<1>5. QED
  BY <1>2, <1>3, <1>4 DEF ThreadsInv, GoodTable, Indices

\* What the ring hands over is a packet of the right size that begins with a magic
\* word.
LEMMA PacketFromRing ==
  ASSUME RingInv, exited = "no", NEW byte \in Byte, TakePacket(byte)
  PROVE  GoodPacket(packet_buffer') /\ PacketParse(packet_buffer')
<1> DEFINE n      == DataWords(Peek(byte)) + 2
           packet == Words(Stored(byte), buffer_tail, n)
<1>1. PacketParse(packet) /\ packet_buffer' = packet
  BY DEF TakePacket, PacketParse
<1>2. RingOK /\ Store(byte) /\ HeaderSeen(byte) /\ PacketFitsBuffer'
  BY TakeKeeps DEF TakePacket, RingInv, PacketSeen
<1>3. Stored(byte) \in [0..BufferSize - 1 -> Byte] /\ buffer_tail \in 0..Wrap - 1
  BY <1>2, StoreStep DEF Store, RingOK
<1>4. DataWords(Peek(byte)) \in Nat
  BY <1>2, DataWordsType
<1>5. n \in Nat /\ n >= 2
  BY <1>4
<1> HIDE DEF n
<1>6. ASSUME NEW w \in 1..n
      PROVE  Window(Stored(byte), Plus(buffer_tail, (w - 1) * WordBytes), WordBytes) \in Word
  <2> DEFINE from == Plus(buffer_tail, (w - 1) * WordBytes)
  <2>1. from \in Int
    <3>1. (w - 1) * WordBytes \in Int
      BY <1>5, Sizes
    <3>2. QED
      BY <1>3, <3>1, Sizes DEF Plus
  <2> HIDE DEF from
  <2>2. ASSUME NEW i \in 1..WordBytes PROVE Stored(byte)[Slot(Plus(from, i - 1))] \in Byte
    <3>1. Plus(from, i - 1) \in Int
      BY <2>1, Sizes DEF Plus
    <3>2. Slot(Plus(from, i - 1)) \in 0..BufferSize - 1
      BY <3>1, Sizes DEF Slot
    <3>3. QED
      BY <1>3, <3>2
  <2>3. QED
    BY <2>2, Sizes DEF Window, Word, from
<1>7. packet \in Seq(Word) /\ Len(packet) = n
  <2>1. packet \in [1..n -> Word]
    BY <1>6 DEF Words
  <2>2. QED
    BY <1>5, <2>1
<1>8. packet[1] = Peek(byte)
  <2>1. Plus(buffer_tail, (1 - 1) * WordBytes) = buffer_tail
    BY <1>3, Sizes DEF Plus
  <2>2. QED
    BY <1>5, <2>1 DEF Words, Peek
<1>9. IsMagic(packet[1]) /\ Len(packet) <= PacketWords
  BY <1>1, <1>2, <1>8 DEF HeaderSeen, PacketFitsBuffer
<1>10. QED
  BY <1>1, <1>5, <1>7, <1>9, Sizes DEF GoodPacket

\* A byte that completes no packet leaves the table alone.
LEMMA QuietByte ==
  ASSUME ThreadsInv, NEW byte \in Byte, exited = "no",
         Overflow \/ DropByte(byte) \/ AwaitMore(byte)
  PROVE  ThreadsInv' /\ threads' = threads
BY DEF ThreadsInv, Ends, GoodTable, Overflow, DropByte, AwaitMore, NothingPrinted

\* The invariant is inductive, the ring keeping its own.
LEMMA TableInductive == RingInv /\ ThreadsInv /\ [Next]_vars => ThreadsInv'
<1>1. ASSUME RingInv, ThreadsInv, NEW byte \in Byte, AddByte(byte) PROVE ThreadsInv'
  BY <1>1, PacketFromRing, PacketStep, QuietByte DEF AddByte
<1>2. ThreadsInv /\ UNCHANGED vars => ThreadsInv'
  BY DEF vars, lbtraceVars, ThreadsInv, GoodTable, Indices
<1>3. QED
  BY <1>1, <1>2 DEF Next

\* The table stays a table of different threads for the whole capture.
THEOREM TableStaysGood == Spec => []ThreadsInv
BY InitTable, TableInductive, RingSafe, PTL DEF Spec

\* A thread never gets a second entry.
THEOREM OneEntryEach == Spec => []OneEntryPerThread
<1>1. ThreadsInv => OneEntryPerThread
  BY DEF ThreadsInv, GoodTable, OneEntryPerThread
<1>2. QED
  BY <1>1, TableStaysGood, PTL

\* Different entries for different threads: as many addresses as entries.
LEMMA AsManyAddresses ==
  ASSUME GoodTable(threads)
  PROVE  Cardinality(Addresses) = Len(threads)
<1> DEFINE address == [i \in 1..Len(threads) |-> threads[i].address]
<1>1. Len(threads) \in Nat /\ DOMAIN threads = 1..Len(threads)
  BY DEF GoodTable
<1>2. address \in Bijection(1..Len(threads), Addresses)
  <2>1. address \in [1..Len(threads) -> Addresses]
    BY <1>1 DEF Addresses
  <2>2. \A i, j \in 1..Len(threads) : address[i] = address[j] => i = j
    BY <1>1 DEF GoodTable
  <2>3. \A a \in Addresses : \E i \in 1..Len(threads) : address[i] = a
    BY <1>1 DEF Addresses
  <2> HIDE DEF address
  <2>4. QED
    BY <2>1, <2>2, <2>3 DEF Bijection, Injection, Surjection, IsInjective
<1>3. ExistsBijection(1..Len(threads), Addresses)
  BY <1>2 DEF ExistsBijection
<1>4. QED
  BY <1>1, <1>3, FS_NatBijection, FS_CountingElements, FS_CardinalityType,
     FS_Bijection, FS_Interval

\* The program gives up for want of an entry only when every entry belongs to
\* another thread.
THEOREM OnlyWhenFull == Spec => []FullTableIsFull
<1>1. ThreadsInv => FullTableIsFull
  <2> SUFFICES ASSUME ThreadsInv, exited = "no_thread" PROVE
        Cardinality(Addresses) = NumberThreads /\ packet_buffer[3] \notin Addresses
    BY DEF FullTableIsFull
  <2>1. Cardinality(Addresses) = NumberThreads
    BY AsManyAddresses DEF ThreadsInv
  <2>2. packet_buffer[3] \notin Addresses
    BY DEF ThreadsInv, Indices, Addresses
  <2>3. QED
    BY <2>1, <2>2
<1>2. QED
  BY <1>1, TableStaysGood, PTL

\* The table is exact.
THEOREM TableExact == Spec => []TableIsExact
<1>1. OneEntryPerThread /\ FullTableIsFull <=> TableIsExact
  BY DEF TableIsExact
<1>2. QED
  BY <1>1, OneEntryEach, OnlyWhenFull, PTL

-----------------------------------------------------------------------------

\* What a step may do to an entry.
EntryKept(i) ==
  /\ threads'[i].address = threads[i].address
  /\ threads'[i].name # threads[i].name =>
       /\ TagOf(packet_buffer'[2]) = ThreadName
       /\ packet_buffer'[3] = threads[i].address
       /\ threads'[i].name = SubSeq(packet_buffer', 4, Len(packet_buffer'))

\* One packet touches no entry but the one it names.
LEMMA PacketKeepsEntries ==
  ASSUME ThreadsInv, NEW packet, GoodPacket(packet), PacketParse(packet),
         NEW i \in DOMAIN threads
  PROVE  EntryKept(i)
<1>1. /\ packet_buffer' = packet
      /\ threads' = IF Outcome(packet) = "no" THEN ThreadsAfter(packet) ELSE threads
  BY DEF PacketParse
<1>3. GoodTable(threads) /\ threads[i] \in Entry
  BY DEF ThreadsInv, GoodTable
<1>4. CASE threads'[i] = threads[i]
  BY <1>4 DEF EntryKept
<1>5. CASE Outcome(packet) = "no" /\ TagOf(packet[2]) = SwapIn
  <2>1. threads' = ThreadFind(threads, Address(packet))
    BY <1>1, <1>5 DEF ThreadsAfter
  <2>2. threads'[i] = threads[i]
    BY <1>3, <1>5, <2>1, FindKeeps, PrintedPacket
  <2>3. QED
    BY <1>4, <2>2
<1>6. CASE Outcome(packet) = "no" /\ TagOf(packet[2]) = ThreadName
  <2>1. threads' = ThreadCreate(threads, Address(packet), Name(packet))
    BY <1>1, <1>6, TagsAssumption DEF ThreadsAfter
  <2>2. threads'[i] = IF threads[i].address = Address(packet)
                      THEN [threads[i] EXCEPT !.name = Name(packet)] ELSE threads[i]
    BY <1>3, <1>6, <2>1, CreateKeeps, PrintedPacket
  <2>3. Name(packet) = SubSeq(packet, 4, Len(packet))
    BY <1>6, PrintedPacket DEF Name
  <2>4. QED
    BY <1>1, <1>3, <1>6, <2>2, <2>3 DEF EntryKept, Entry, Address
<1>7. QED
  BY <1>1, <1>4, <1>5, <1>6 DEF ThreadsAfter

\* A step of the ring touches no entry but the one its packet names.
LEMMA StepKeepsEntries ==
  ASSUME RingInv, ThreadsInv, [Next]_vars, NEW i \in DOMAIN threads
  PROVE  EntryKept(i) \/ UNCHANGED lbtraceVars
<1>1. ASSUME NEW byte \in Byte, AddByte(byte) PROVE EntryKept(i)
  <2>1. CASE TakePacket(byte)
    BY <1>1, <2>1, PacketFromRing, PacketKeepsEntries DEF AddByte
  <2>2. CASE ~TakePacket(byte)
    <3>1. threads' = threads
      BY <1>1, <2>2, QuietByte DEF AddByte
    <3>2. QED
      BY <3>1 DEF EntryKept
  <2>3. QED
    BY <2>1, <2>2
<1>2. UNCHANGED vars => UNCHANGED lbtraceVars
  BY DEF vars
<1>3. QED
  BY <1>1, <1>2 DEF Next

\* A name goes to the thread it was sent for, and stays with it until the next one.
THEOREM NamesStay == Spec => NamesBelongToThreads
<1>1. RingInv /\ ThreadsInv /\ [Next]_vars =>
        [\A i \in DOMAIN threads : EntryKept(i)]_lbtraceVars
  BY StepKeepsEntries
<1>2. QED
  BY <1>1, RingSafe, TableStaysGood, PTL DEF Spec, NamesBelongToThreads, EntryKept

-----------------------------------------------------------------------------

\* The bytes of a packet are bytes.
LEMMA SerialisedBytes ==
  ASSUME NEW packet \in Packets
  PROVE  Serialised(packet) \in Seq(Byte) /\ Len(Serialised(packet)) \in Nat
<1> DEFINE n == WordBytes * Len(packet)
<1>1. /\ packet \in Seq([1..WordBytes -> Byte]) /\ Len(packet) \in Nat /\ Len(packet) >= 2
      /\ WordBytes \in Nat /\ WordBytes >= 1
  BY PacketsAssumption, Sizes
<1>2. n \in Nat
  BY <1>1
<1>3. ASSUME NEW i \in 1..n
      PROVE  packet[1 + ((i - 1) \div WordBytes)][1 + ((i - 1) % WordBytes)] \in Byte
  <2> DEFINE q == (i - 1) \div WordBytes
             r == (i - 1) % WordBytes
  <2>1. i - 1 \in Nat /\ i - 1 < n
    BY <1>2
  <2>2. q \in Nat /\ r \in 0..WordBytes - 1 /\ i - 1 = q * WordBytes + r
    BY <1>1, <2>1, Divided
  <2> HIDE DEF q, r
  <2>3. q < Len(packet)
    <3> SUFFICES ASSUME q >= Len(packet) PROVE FALSE
      BY <1>1, <2>2
    <3>1. (q - Len(packet)) * WordBytes >= 0
      BY <1>1, <2>2
    <3>2. (q - Len(packet)) * WordBytes = q * WordBytes - n
      BY <1>1, <2>2
    <3> HIDE DEF n
    <3>3. q * WordBytes >= n
      <4>1. q * WordBytes \in Nat
        BY <1>1, <2>2
      <4>2. QED
        BY <1>2, <3>1, <3>2, <4>1
    <3>4. QED
      BY <1>1, <1>2, <2>1, <2>2, <3>3
  <2>4. 1 + q \in 1..Len(packet) /\ 1 + r \in 1..WordBytes
    BY <1>1, <2>2, <2>3
  <2>5. packet[1 + q][1 + r] \in Byte
    BY <1>1, <2>4
  <2>6. QED
    BY <2>5 DEF q, r
<1>4. Serialised(packet) \in [1..n -> Byte]
  BY <1>3 DEF Serialised
<1> HIDE DEF n
<1>5. QED
  BY <1>2, <1>4

\* What comes next on the wire is bytes.
LEMMA AheadIsBytes ==
  /\ CaptureInit => ahead \in Seq(Byte)
  /\ ahead \in Seq(Byte) /\ [CaptureNext]_captureVars => ahead' \in Seq(Byte)
<1>1. CaptureInit => ahead \in Seq(Byte)
  <2>1. <<>> \in Seq(Byte)
    OBVIOUS
  <2>2. ASSUME NEW packet \in Packets, NEW first \in 1..WordBytes * Len(packet)
        PROVE  After(Serialised(packet), first) \in Seq(Byte)
    <3>1. first \in Nat /\ first >= 1
      BY <2>2, PacketsAssumption, Sizes
    <3>2. QED
      BY <3>1, SerialisedBytes DEF After
  <2>3. QED
    BY <2>1, <2>2 DEF CaptureInit
<1>2. ASSUME ahead \in Seq(Byte), CaptureNext PROVE ahead' \in Seq(Byte)
  BY <1>2, SerialisedBytes DEF CaptureNext, NoiseByte, SendPacket, NextByte, wireVars
<1>3. QED
  BY <1>1, <1>2 DEF captureVars, wireVars

\* Whatever is on the wire, the ring and the printer do what they do with any bytes.
THEOREM CaptureIsTrace == CaptureSpec => Spec
<1>1. CaptureInit => Init
  BY DEF CaptureInit
<1>2. ahead \in Seq(Byte) /\ [CaptureNext]_captureVars => [Next]_vars
  <2>1. NoiseByte => Next
    BY NoiseAssumption DEF NoiseByte, Next
  <2>2. SendPacket => UNCHANGED vars
    BY DEF SendPacket
  <2>3. ahead \in Seq(Byte) /\ NextByte => Next
    BY DEF NextByte, Next
  <2>4. UNCHANGED captureVars => UNCHANGED vars
    BY DEF captureVars
  <2>5. QED
    BY <2>1, <2>2, <2>3, <2>4 DEF CaptureNext
<1>3. CaptureInit => ahead \in Seq(Byte)
  BY AheadIsBytes
<1>4. ahead \in Seq(Byte) /\ [CaptureNext]_captureVars => (ahead \in Seq(Byte))'
  BY AheadIsBytes
<1>5. QED
  BY <1>1, <1>2, <1>3, <1>4, PTL DEF CaptureSpec, Spec

\* So a capture keeps what was proved of the ring and of the table, and its packets
\* are framed as TraceFraming says.
THEOREM CaptureSafe ==
  CaptureSpec => /\ [](TypeOK /\ PacketFitsBuffer /\ RingAtRest)
                 /\ []TableIsExact
                 /\ NamesBelongToThreads
                 /\ FramesPackets
BY CaptureIsTrace, RingTyped, PacketAlwaysFits, NoiseNeverFills, TableExact,
   NamesStay, RingImplementsFraming, PTL

-----------------------------------------------------------------------------
(* The packets of a device.  Wherever its first packet is torn, the place  *)
(* where the next one begins is the first that looks like a header.        *)

LEMMA SameSequence ==
  ASSUME NEW a \in Seq(Byte), NEW b \in Seq(Byte), Len(a) = Len(b),
         \A i \in 1..Len(a) : a[i] = b[i]
  PROVE  a = b
OBVIOUS

LEMMA Concatenated ==
  ASSUME NEW a \in Seq(Byte), NEW b \in Seq(Byte)
  PROVE  a \o b \in Seq(Byte) /\ Len(a \o b) = Len(a) + Len(b)
OBVIOUS

LEMMA Associative ==
  ASSUME NEW a \in Seq(Byte), NEW b \in Seq(Byte), NEW c \in Seq(Byte)
  PROVE  a \o (b \o c) = (a \o b) \o c
<1> DEFINE x == a \o (b \o c)
           y == (a \o b) \o c
<1>1. /\ x \in Seq(Byte) /\ y \in Seq(Byte)
      /\ Len(x) = Len(a) + Len(b) + Len(c) /\ Len(y) = Len(a) + Len(b) + Len(c)
  OBVIOUS
<1>2. ASSUME NEW i \in 1..Len(a) + Len(b) + Len(c) PROVE x[i] = y[i]
  <2>1. CASE i <= Len(a)
    BY <2>1
  <2>2. CASE i > Len(a) /\ i <= Len(a) + Len(b)
    BY <2>2
  <2>3. CASE i > Len(a) + Len(b)
    BY <2>3
  <2>4. QED
    BY <2>1, <2>2, <2>3
<1> HIDE DEF x, y
<1>3. x = y
  BY <1>1, <1>2, SameSequence
<1>4. QED
  BY <1>3 DEF x, y

LEMMA PrefixPiece ==
  ASSUME NEW a \in Seq(Byte), NEW b \in Seq(Byte), NEW i \in Nat, NEW j \in Nat,
         i >= 1, j <= Len(a)
  PROVE  SubSeq(a \o b, i, j) = SubSeq(a, i, j)
<1>1. \A k \in i..j : (a \o b)[k] = a[k]
  OBVIOUS
<1>2. QED
  BY <1>1

LEMMA SuffixPiece ==
  ASSUME NEW a \in Seq(Byte), NEW b \in Seq(Byte), NEW i \in Nat, NEW j \in Nat,
         i >= 1, j <= Len(b)
  PROVE  SubSeq(a \o b, Len(a) + i, Len(a) + j) = SubSeq(b, i, j)
<1> DEFINE c == SubSeq(a \o b, Len(a) + i, Len(a) + j)
           d == SubSeq(b, i, j)
<1>1. CASE i > j
  BY <1>1
<1>2. CASE i <= j
  <2>1. /\ c \in Seq(Byte) /\ Len(c) = j - i + 1
        /\ \A k \in 1..j - i + 1 : c[k] = (a \o b)[Len(a) + i + k - 1]
    BY <1>2
  <2>2. /\ d \in Seq(Byte) /\ Len(d) = j - i + 1
        /\ \A k \in 1..j - i + 1 : d[k] = b[i + k - 1]
    BY <1>2
  <2>3. ASSUME NEW k \in 1..j - i + 1 PROVE c[k] = d[k]
    <3>1. i + k - 1 \in 1..Len(b) /\ Len(a) + i + k - 1 = Len(a) + (i + k - 1)
      BY <1>2
    <3>2. (a \o b)[Len(a) + (i + k - 1)] = b[i + k - 1]
      BY <3>1
    <3>3. QED
      BY <2>1, <2>2, <3>1, <3>2
  <2> HIDE DEF c, d
  <2>4. QED
    BY <1>2, <2>1, <2>2, <2>3
<1>3. QED
  BY <1>1, <1>2

\* Only one quotient and remainder.
LEMMA DivideUnique ==
  ASSUME NEW k \in Nat, NEW b \in Nat, NEW r \in Nat, r < b
  PROVE  (k * b + r) \div b = k /\ (k * b + r) % b = r
<1> DEFINE n == k * b + r
           q == n \div b
           s == n % b
<1>1. n \in Nat /\ b \in Nat \ {0}
  <2>1. k * b \in Nat
    OBVIOUS
  <2>2. QED
    BY <2>1
<1>2. q \in Nat /\ n = q * b + s /\ s \in 0..b - 1
  BY <1>1, Divided
<1>3. q * b + s = k * b + r
  BY <1>2
<1> HIDE DEF q, s
<1>4. ASSUME q < k PROVE FALSE
  <2>1. k - q - 1 \in Nat
    BY <1>2, <1>4
  <2>2. (k - q - 1) * b >= 0
    BY <2>1
  <2>3. (k - q - 1) * b = k * b - q * b - b
    BY <1>2
  <2>4. k * b \in Nat /\ q * b \in Nat
    BY <1>2
  <2>5. QED
    BY <1>2, <1>3, <2>2, <2>3, <2>4
<1>5. ASSUME q > k PROVE FALSE
  <2>1. q - k - 1 \in Nat
    BY <1>2, <1>5
  <2>2. (q - k - 1) * b >= 0
    BY <2>1
  <2>3. (q - k - 1) * b = q * b - k * b - b
    BY <1>2
  <2>4. k * b \in Nat /\ q * b \in Nat
    BY <1>2
  <2>5. QED
    BY <1>2, <1>3, <2>2, <2>3, <2>4
<1>6. q = k
  BY <1>2, <1>4, <1>5
<1>7. s = r
  <2>1. k * b \in Nat
    OBVIOUS
  <2>2. QED
    BY <1>2, <1>3, <1>6, <2>1
<1>8. QED
  BY <1>6, <1>7 DEF q, s

\* Word w of a packet is where it belongs among the packet's bytes.
LEMMA SerialisedWord ==
  ASSUME NEW packet \in Packets, NEW w \in 1..Len(packet)
  PROVE  SubSeq(Serialised(packet), 1 + (w - 1) * WordBytes, w * WordBytes) = packet[w]
<1> DEFINE k == (w - 1) * WordBytes
           n == WordBytes * Len(packet)
           b == Serialised(packet)
<1>1. /\ packet \in Seq([1..WordBytes -> Byte]) /\ Len(packet) \in Nat
      /\ WordBytes \in Nat /\ WordBytes >= 1 /\ packet[w] \in [1..WordBytes -> Byte]
  BY PacketsAssumption, Sizes
<1>2. w * WordBytes = k + WordBytes /\ k \in Nat /\ k + WordBytes <= n /\ n \in Nat
  <2>1. w - 1 \in Nat /\ Len(packet) - w \in Nat
    BY <1>1
  <2>2. k \in Nat /\ n \in Nat /\ (Len(packet) - w) * WordBytes >= 0
    BY <1>1, <2>1
  <2>3. w * WordBytes = k + WordBytes
    BY <1>1
  <2>4. (Len(packet) - w) * WordBytes = n - w * WordBytes
    BY <1>1
  <2> HIDE DEF k, n
  <2>5. w * WordBytes \in Nat
    BY <1>1
  <2>6. QED
    BY <2>2, <2>3, <2>4, <2>5
<1>3. b \in Seq(Byte) /\ Len(b) = n
  <2>1. b \in Seq(Byte) /\ DOMAIN b = 1..n
    BY SerialisedBytes DEF Serialised
  <2> HIDE DEF b, n
  <2>2. QED
    BY <1>2, <2>1
<1>4. ASSUME NEW i \in 1..WordBytes PROVE b[k + i] = packet[w][i]
  <2>1. k + i \in 1..n /\ (k + i) - 1 = (w - 1) * WordBytes + (i - 1)
    <3>1. (k + i) - 1 = k + (i - 1)
      <4> HIDE DEF k
      <4>1. QED
        BY <1>1, <1>2
    <3>2. k + i \in 1..n
      <4> HIDE DEF k, n
      <4>1. QED
        BY <1>1, <1>2
    <3>3. QED
      BY <3>1, <3>2
  <2>2. b[k + i] = packet[1 + (((k + i) - 1) \div WordBytes)][1 + (((k + i) - 1) % WordBytes)]
    BY <2>1 DEF Serialised
  <2>3. w - 1 \in Nat /\ i - 1 \in Nat /\ i - 1 < WordBytes
    BY <1>1
  <2>4. /\ ((w - 1) * WordBytes + (i - 1)) \div WordBytes = w - 1
        /\ ((w - 1) * WordBytes + (i - 1)) % WordBytes = i - 1
    BY <1>1, <2>3, DivideUnique
  <2>5. 1 + (w - 1) = w /\ 1 + (i - 1) = i
    BY <1>1
  <2> HIDE DEF k, b
  <2>6. QED
    BY <2>1, <2>2, <2>4, <2>5
<1> DEFINE piece == SubSeq(b, 1 + k, w * WordBytes)
<1> HIDE DEF k, b, n
<1>5. piece \in Seq(Byte) /\ Len(piece) = WordBytes
  BY <1>1, <1>2, <1>3
<1>6. \A i \in 1..WordBytes : piece[i] = b[k + i]
  BY <1>1, <1>2, <1>3
<1>7. piece = packet[w]
  <2> DEFINE word == packet[w]
  <2>1. word \in Seq(Byte) /\ Len(word) = WordBytes
    BY <1>1
  <2>2. \A i \in 1..WordBytes : piece[i] = word[i]
    BY <1>4, <1>6
  <2> HIDE DEF word
  <2>3. piece = word
    BY <1>5, <2>1, <2>2, SameSequence
  <2>4. QED
    BY <2>3 DEF word
<1>8. QED
  BY <1>7 DEF piece, k, b

\* A packet's bytes begin with its header, and there are as many as it announces.
LEMMA SerialisedHeader ==
  ASSUME NEW packet \in Packets
  PROVE  LET bytes == Serialised(packet)
         IN  /\ bytes \in Seq(Byte)
             /\ SubSeq(bytes, 2, WordBytes) = Magic
             /\ bytes[1] + 2 = Len(packet)
             /\ Len(bytes) = Len(packet) * WordBytes
             /\ Len(bytes) >= 2 * WordBytes
<1> DEFINE b == Serialised(packet)
           word == packet[1]
<1>1. /\ packet \in Seq([1..WordBytes -> Byte]) /\ Len(packet) \in Nat /\ Len(packet) >= 2
      /\ WordBytes \in Nat /\ WordBytes >= 1 /\ word \in [1..WordBytes -> Byte]
  BY PacketsAssumption, Sizes
<1>2. b \in Seq(Byte) /\ DOMAIN b = 1..WordBytes * Len(packet)
  BY SerialisedBytes DEF Serialised
<1>3. /\ WordBytes * Len(packet) \in Nat /\ WordBytes * Len(packet) = Len(packet) * WordBytes
      /\ Len(packet) * WordBytes >= 2 * WordBytes
  <2>1. (Len(packet) - 2) * WordBytes >= 0
    BY <1>1
  <2>2. (Len(packet) - 2) * WordBytes = Len(packet) * WordBytes - 2 * WordBytes
    BY <1>1
  <2>3. Len(packet) * WordBytes \in Nat /\ WordBytes * Len(packet) = Len(packet) * WordBytes
    BY <1>1
  <2>4. QED
    BY <1>1, <2>1, <2>2, <2>3
<1> HIDE DEF b, word
<1>4. Len(b) = Len(packet) * WordBytes
  BY <1>2, <1>3
<1>5. SubSeq(b, 1, WordBytes) = word
  <2>1. SubSeq(b, 1 + (1 - 1) * WordBytes, 1 * WordBytes) = word
    BY <1>1, SerialisedWord DEF b, word
  <2>2. 1 + (1 - 1) * WordBytes = 1 /\ 1 * WordBytes = WordBytes
    BY <1>1
  <2>3. QED
    BY <2>1, <2>2
<1>6. \A i \in 1..WordBytes : word[i] = b[i]
  BY <1>1, <1>2, <1>3, <1>4, <1>5
<1>7. Tail(word) = SubSeq(b, 2, WordBytes)
  <2>1. word \in Seq(Byte) /\ Len(word) = WordBytes
    BY <1>1
  <2>2. /\ Tail(word) \in Seq(Byte) /\ Len(Tail(word)) = WordBytes - 1
        /\ \A i \in 1..WordBytes - 1 : Tail(word)[i] = word[i + 1]
    BY <1>1, <2>1
  <2>3. /\ SubSeq(b, 2, WordBytes) \in Seq(Byte)
        /\ Len(SubSeq(b, 2, WordBytes)) = WordBytes - 1
        /\ \A i \in 1..WordBytes - 1 : SubSeq(b, 2, WordBytes)[i] = b[i + 1]
    BY <1>1, <1>2, <1>3, <1>4
  <2>4. \A i \in 1..WordBytes - 1 : Tail(word)[i] = SubSeq(b, 2, WordBytes)[i]
    <3>1. \A i \in 1..WordBytes - 1 : i + 1 \in 1..WordBytes
      BY <1>1
    <3>2. QED
      BY <1>6, <2>2, <2>3, <3>1
  <2> DEFINE c == Tail(word)
             d == SubSeq(b, 2, WordBytes)
  <2>5. /\ c \in Seq(Byte) /\ d \in Seq(Byte) /\ Len(c) = WordBytes - 1
        /\ Len(d) = WordBytes - 1 /\ \A i \in 1..WordBytes - 1 : c[i] = d[i]
    BY <2>2, <2>3, <2>4
  <2> HIDE DEF c, d
  <2>6. c = d
    BY <1>1, <2>5
  <2>7. QED
    BY <2>6 DEF c, d
<1>8. IsMagic(word) /\ DataWords(word) + 2 = Len(packet)
  BY HeadersAssumption DEF word
<1>9. 1 \in 1..WordBytes
  BY <1>1
<1>10. SubSeq(b, 2, WordBytes) = Magic /\ b[1] + 2 = Len(packet)
  BY <1>6, <1>7, <1>8, <1>9 DEF IsMagic, DataWords
<1>11. QED
  BY <1>2, <1>3, <1>4, <1>10 DEF b

\* What is left of a packet when the capture begins, or nothing.
TornOf(t) ==
  \/ t = <<>>
  \/ \E before \in Packets : \E first \in 1..WordBytes * Len(before) :
       t = After(Serialised(before), first)

LEMMA TornBytes ==
  ASSUME NEW t, TornOf(t)
  PROVE  t \in Seq(Byte)
<1>1. CASE t = <<>>
  BY <1>1
<1>2. ASSUME NEW before \in Packets, NEW first \in 1..WordBytes * Len(before),
             t = After(Serialised(before), first)
      PROVE  t \in Seq(Byte)
  <2>1. first \in Nat /\ first >= 1
    BY PacketsAssumption, Sizes
  <2>2. QED
    BY <1>2, <2>1, SerialisedBytes DEF After
<1>3. QED
  BY <1>1, <1>2 DEF TornOf

\* The bytes so far are the beginning of what is left of a packet and a whole one.
Within(t, packet, bytes, rest) ==
  /\ TornOf(t) /\ packet \in Packets
  /\ bytes \in Seq(Byte) /\ rest \in Seq(Byte)
  /\ bytes \o rest = t \o Serialised(packet)

\* The whole packet's header is seen where the packet begins.
LEMMA HeaderThere ==
  ASSUME NEW t, NEW packet, NEW bytes, NEW rest, Within(t, packet, bytes, rest)
  PROVE  /\ Len(t) + 2 * WordBytes <= Len(bytes) => MagicAt(bytes, Len(t) + 1)
         /\ Len(t) + 1 <= Len(bytes) => bytes[Len(t) + 1] + 2 = Len(packet)
<1> DEFINE d == Len(t)
           s == Serialised(packet)
<1>1. /\ t \in Seq(Byte) /\ d \in Nat /\ bytes \in Seq(Byte) /\ rest \in Seq(Byte)
      /\ bytes \o rest = t \o s
  BY TornBytes DEF Within
<1>2. /\ s \in Seq(Byte) /\ SubSeq(s, 2, WordBytes) = Magic
      /\ s[1] + 2 = Len(packet) /\ Len(s) >= 2 * WordBytes
  BY SerialisedHeader DEF Within
<1> HIDE DEF s
<1>3. ASSUME d + 2 * WordBytes <= Len(bytes) PROVE MagicAt(bytes, d + 1)
  <2>1. d + WordBytes <= Len(bytes) /\ WordBytes <= Len(s) /\ d + WordBytes \in Nat
    BY <1>1, <1>2, <1>3, Sizes
  <2>2. SubSeq(t \o s, d + 2, d + WordBytes) = SubSeq(s, 2, WordBytes)
    <3>1. t \in Seq(Byte) /\ s \in Seq(Byte) /\ WordBytes \in Nat /\ WordBytes <= Len(s)
      BY <1>1, <1>2, <2>1, Sizes
    <3>2. \A i, j \in Nat : i >= 1 /\ j <= Len(s) =>
            SubSeq(t \o s, d + i, d + j) = SubSeq(s, i, j)
      BY <3>1, SuffixPiece DEF d
    <3>3. QED
      BY <3>1, <3>2
  <2>3. SubSeq(bytes \o rest, d + 2, d + WordBytes) = SubSeq(bytes, d + 2, d + WordBytes)
    <3>1. d + 2 \in Nat /\ d + 2 >= 1
      BY <1>1
    <3>2. QED
      BY <1>1, <2>1, <3>1, PrefixPiece
  <2>4. d + 1 + 1 = d + 2 /\ d + 1 + WordBytes - 1 = d + WordBytes
    BY <1>1, Sizes
  <2>5. QED
    BY <1>1, <1>2, <2>2, <2>3, <2>4 DEF MagicAt
<1>4. ASSUME d + 1 <= Len(bytes) PROVE bytes[d + 1] + 2 = Len(packet)
  <2>1. (bytes \o rest)[d + 1] = bytes[d + 1]
    BY <1>1, <1>4
  <2>2. 1 \in 1..Len(s)
    BY <1>2, Sizes
  <2>3. (t \o s)[d + 1] = s[1]
    BY <1>1, <1>2, <2>2
  <2>4. QED
    BY <1>1, <1>2, <2>1, <2>3
<1>5. QED
  BY <1>3, <1>4

\* Before it nothing looks like a header.
LEMMA NoneBeforeIt ==
  ASSUME NEW t, NEW packet, NEW bytes, NEW rest, Within(t, packet, bytes, rest),
         NEW p \in 1..Len(t), p + 2 * WordBytes - 1 <= Len(bytes)
  PROVE  ~MagicAt(bytes, p)
<1>1. /\ t \in Seq(Byte) /\ bytes \in Seq(Byte) /\ rest \in Seq(Byte) /\ packet \in Packets
      /\ bytes \o rest = t \o Serialised(packet) /\ Len(t) \in Nat /\ Len(t) # 0
  BY TornBytes DEF Within
<1>2. \E before \in Packets : \E first \in 1..WordBytes * Len(before) :
        t = After(Serialised(before), first)
  BY <1>1 DEF Within, TornOf
<1>3. SubSeq(t \o Serialised(packet), p + 1, p + WordBytes - 1) # Magic
  <2>1. PICK before \in Packets : \E first \in 1..WordBytes * Len(before) :
          t = After(Serialised(before), first)
    BY <1>2
  <2>2. PICK first \in 1..WordBytes * Len(before) : t = After(Serialised(before), first)
    BY <2>1
  <2>3. QED
    BY <1>1, <2>2, NoFalseHeaders
<1>4. SubSeq(bytes \o rest, p + 1, p + WordBytes - 1) = SubSeq(bytes, p + 1, p + WordBytes - 1)
  <2>1. p + 1 \in Nat /\ p + 1 >= 1 /\ p + WordBytes - 1 \in Nat
        /\ p + WordBytes - 1 <= Len(bytes)
    BY <1>1, Sizes
  <2>2. QED
    BY <1>1, <2>1, PrefixPiece
<1>5. QED
  BY <1>1, <1>3, <1>4 DEF MagicAt

\* So the header that is found first is the packet's.
LEMMA FirstIsPackets ==
  ASSUME NEW t, NEW packet, NEW bytes, NEW rest, Within(t, packet, bytes, rest),
         NEW p \in DOMAIN bytes, Framing!FirstHeader(bytes, p)
  PROVE  /\ p = Len(t) + 1
         /\ Framing!WordsAnnounced(bytes, p) = Len(packet)
<1>1. /\ Len(t) \in Nat /\ bytes \in Seq(Byte) /\ p \in 1..Len(bytes) /\ Len(bytes) \in Nat
  BY TornBytes DEF Within
<1>2. /\ p + 2 * WordBytes - 1 <= Len(bytes) /\ MagicAt(bytes, p)
      /\ \A q \in 1..p - 1 : ~Framing!HeaderAt(bytes, q)
  BY FramingHeader DEF Framing!FirstHeader
<1>3. ~(p <= Len(t))
  BY <1>1, <1>2, NoneBeforeIt
<1>4. ASSUME p > Len(t) + 1 PROVE FALSE
  <2>1. Len(t) + 1 \in 1..p - 1 /\ Len(t) + 1 + 2 * WordBytes - 1 <= Len(bytes)
        /\ Len(t) + 2 * WordBytes <= Len(bytes)
    BY <1>1, <1>2, <1>4, Sizes
  <2>2. Framing!HeaderAt(bytes, Len(t) + 1)
    BY <2>1, HeaderThere, FramingHeader
  <2>3. QED
    BY <1>2, <2>1, <2>2
<1>5. p = Len(t) + 1
  BY <1>1, <1>3, <1>4
<1>6. QED
  BY <1>1, <1>5, HeaderThere DEF Framing!WordsAnnounced

\* When all of its bytes are there, the packet is found.
LEMMA PacketFound ==
  ASSUME NEW t, NEW packet, NEW bytes, Within(t, packet, bytes, <<>>)
  PROVE  Len(t) + 1 \in DOMAIN bytes /\ Framing!PacketEnds(bytes, Len(t) + 1)
<1> DEFINE d == Len(t)
<1>1. /\ t \in Seq(Byte) /\ d \in Nat /\ bytes \in Seq(Byte) /\ Len(bytes) \in Nat
      /\ bytes \o <<>> = t \o Serialised(packet) /\ packet \in Packets
  BY TornBytes DEF Within
<1>2. /\ Serialised(packet) \in Seq(Byte)
      /\ Len(Serialised(packet)) = Len(packet) * WordBytes
      /\ Len(Serialised(packet)) >= 2 * WordBytes
  BY <1>1, SerialisedHeader
<1> HIDE DEF d
<1>3. Len(bytes) = d + Len(packet) * WordBytes /\ d + 2 * WordBytes <= Len(bytes)
  <2>1. Len(bytes \o <<>>) = Len(bytes)
    BY <1>1
  <2>2. Len(t \o Serialised(packet)) = d + Len(Serialised(packet))
    BY <1>1, <1>2, Concatenated DEF d
  <2>3. QED
    BY <1>1, <1>2, <2>1, <2>2, Sizes
<1>4. d + 1 \in DOMAIN bytes /\ d + 1 <= Len(bytes) /\ d + 1 + 2 * WordBytes - 1 <= Len(bytes)
  BY <1>1, <1>3, Sizes
<1>5. Framing!HeaderAt(bytes, d + 1)
  BY <1>3, <1>4, HeaderThere, FramingHeader DEF d
<1>6. ASSUME NEW q \in 1..(d + 1) - 1 PROVE ~Framing!HeaderAt(bytes, q)
  <2>1. q \in 1..Len(t)
    BY <1>1 DEF d
  <2>2. QED
    BY <2>1, NoneBeforeIt, FramingHeader
<1>7. Framing!WordsAnnounced(bytes, d + 1) = Len(packet)
  BY <1>4, HeaderThere DEF d, Framing!WordsAnnounced
<1>8. Len(bytes) - (d + 1) + 1 = Len(packet) * WordBytes
  <2>1. Len(packet) * WordBytes \in Nat
    BY <1>1, PacketsAssumption, Sizes
  <2>2. QED
    BY <1>1, <1>3, <2>1
<1>9. Framing!PacketEnds(bytes, d + 1)
  BY <1>5, <1>6, <1>7, <1>8 DEF Framing!PacketEnds, Framing!FirstHeader
<1>10. QED
  BY <1>4, <1>9 DEF d

\* And what is found is the packet.
LEMMA FoundAsSent ==
  ASSUME NEW t, NEW packet, NEW bytes, NEW rest, Within(t, packet, bytes, rest),
         NEW p \in DOMAIN bytes, Framing!PacketEnds(bytes, p)
  PROVE  rest = <<>> /\ Framing!PacketAt(bytes, p) = packet
<1> DEFINE d == Len(t)
           s == Serialised(packet)
<1>1. /\ t \in Seq(Byte) /\ d \in Nat /\ bytes \in Seq(Byte) /\ rest \in Seq(Byte)
      /\ bytes \o rest = t \o s /\ packet \in Packets /\ Len(bytes) \in Nat
  BY TornBytes DEF Within
<1>2. s \in Seq(Byte) /\ Len(s) = Len(packet) * WordBytes /\ Len(s) \in Nat
  BY <1>1, SerialisedHeader
<1>3. p = d + 1 /\ Framing!WordsAnnounced(bytes, p) = Len(packet)
  BY FirstIsPackets DEF Framing!PacketEnds
<1>4. Len(bytes) - p + 1 = Len(packet) * WordBytes
  BY <1>3 DEF Framing!PacketEnds
<1> HIDE DEF d, s
<1>5. rest = <<>>
  <2>1. Len(bytes) = d + Len(s)
    <3>1. Len(s) = Len(bytes) - (d + 1) + 1
      BY <1>2, <1>3, <1>4
    <3>2. d \in Nat /\ Len(bytes) \in Nat
      BY <1>1
    <3>3. QED
      BY <3>1, <3>2
  <2>2. Len(bytes) + Len(rest) = d + Len(s)
    <3>1. \A a, b \in Seq(Byte) : Len(a \o b) = Len(a) + Len(b)
      OBVIOUS
    <3>2. Len(bytes \o rest) = Len(bytes) + Len(rest)
      BY <1>1, <3>1
    <3>3. Len(t \o s) = Len(t) + Len(s)
      BY <1>1, <1>2, <3>1
    <3>4. QED
      BY <1>1, <3>2, <3>3 DEF d
  <2>3. Len(rest) = 0
    <3>1. Len(bytes) \in Nat /\ Len(rest) \in Nat
      BY <1>1
    <3>2. QED
      BY <2>1, <2>2, <3>1
  <2>4. QED
    BY <1>1, <2>3
<1>6. bytes = t \o s
  <2>1. bytes \o <<>> = bytes
    BY <1>1
  <2>2. QED
    BY <1>1, <1>5, <2>1
<1>7. ASSUME NEW w \in 1..Len(packet)
      PROVE  SubSeq(bytes, p + (w - 1) * WordBytes, p + w * WordBytes - 1) = packet[w]
  <2> DEFINE k == (w - 1) * WordBytes
             m == w * WordBytes
  <2>1. k \in Nat /\ m \in Nat /\ m <= Len(s)
    <3>1. /\ Len(packet) \in Nat /\ w - 1 \in Nat /\ Len(packet) - w \in Nat
      BY <1>1, PacketsAssumption
    <3>2. k \in Nat /\ m \in Nat /\ (Len(packet) - w) * WordBytes >= 0
      BY <3>1, Sizes
    <3>3. (Len(packet) - w) * WordBytes = Len(packet) * WordBytes - m
      BY <3>1, Sizes
    <3> HIDE DEF k, m
    <3>4. QED
      BY <1>2, <3>2, <3>3
  <2>2. SubSeq(s, 1 + k, m) = packet[w]
    BY <1>1, SerialisedWord DEF s
  <2> HIDE DEF k, m
  <2>3. SubSeq(t \o s, d + (1 + k), d + m) = SubSeq(s, 1 + k, m)
    <3>1. 1 + k \in Nat /\ 1 + k >= 1
      BY <2>1
    <3>2. QED
      BY <1>1, <1>2, <2>1, <3>1, SuffixPiece DEF d
  <2>4. p + k = d + (1 + k) /\ p + m - 1 = d + m
    BY <1>1, <1>3, <2>1
  <2>5. SubSeq(bytes, p + k, p + m - 1) = packet[w]
    BY <1>6, <2>2, <2>3, <2>4
  <2>6. QED
    BY <2>5 DEF k, m
<1>8. Framing!PacketAt(bytes, p) = [w \in 1..Len(packet) |-> packet[w]]
  BY <1>3, <1>7, Zenon DEF Framing!PacketAt
<1>9. packet = [w \in 1..Len(packet) |-> packet[w]]
  BY <1>1, PacketsAssumption
<1>10. QED
  BY <1>5, <1>8, <1>9

\* The end of a torn packet holds no header at all.
LEMMA TornHasNone ==
  ASSUME NEW t, TornOf(t), NEW bytes \in Seq(Byte), NEW rest \in Seq(Byte),
         bytes \o rest = t, NEW p \in DOMAIN bytes
  PROVE  ~Framing!FirstHeader(bytes, p)
<1>1. p \in 1..Len(bytes) /\ Len(bytes) \in Nat /\ Len(rest) \in Nat
  OBVIOUS
<1>2. Len(t) = Len(bytes) + Len(rest) /\ Len(t) # 0
  BY <1>1
<1>3. PICK before \in Packets : \E first \in 1..WordBytes * Len(before) :
        t = After(Serialised(before), first)
  BY <1>2 DEF TornOf
<1> DEFINE s == Serialised(before)
           more == rest \o s
<1>4. s \in Seq(Byte) /\ t \in Seq(Byte)
  BY SerialisedBytes, TornBytes
<1>5. more \in Seq(Byte) /\ bytes \o more = t \o s
  <2> HIDE DEF s
  <2>1. rest \o s \in Seq(Byte)
    BY <1>4, Concatenated
  <2>2. bytes \o (rest \o s) = (bytes \o rest) \o s
    BY <1>4, Associative
  <2>3. QED
    BY <2>1, <2>2
<1>6. Within(t, before, bytes, more)
  BY <1>5 DEF Within
<1> HIDE DEF more, s
<1>7. ASSUME Framing!FirstHeader(bytes, p) PROVE FALSE
  <2>1. p = Len(t) + 1
    BY <1>6, <1>7, FirstIsPackets
  <2>2. QED
    BY <1>1, <1>2, <2>1
<1>8. QED
  BY <1>7

-----------------------------------------------------------------------------
(* The capture of a device, byte by byte.                                  *)

\* The capture began within a packet, and its end is still coming.
Falling ==
  sent = <<>> /\ exited = "no" /\ TornOf(stream \o ahead)

\* A whole packet is coming.
InPacket ==
  /\ sent \in Packets /\ exited = "no" /\ ahead # <<>>
  /\ \E t : Within(t, sent, stream, ahead)

\* It has come, and has been printed, for better or worse.
AfterPacket ==
  /\ sent \in Packets /\ ahead = <<>> /\ stream = <<>>
  /\ packet_buffer = sent /\ Count = 0

CaptureInv ==
  line = "tracer" => ahead \in Seq(Byte) /\ (Falling \/ InPacket \/ AfterPacket)

\* What a byte does to the ring, in the words of the promise.
LEMMA ByteMaps ==
  ASSUME RingInv, SearchInv, NEW byte \in Byte, AddByte(byte)
  PROVE  /\ exited = "no" /\ SearchInv' /\ RingInv'
         /\ \/ Framing!GiveUp
            \/ Framing!Wait(byte)
            \/ Framing!Deliver(byte) /\ packet_buffer' # <<>>
<1>1. exited = "no"
  BY DEF AddByte
<1>2. RingInv' /\ SearchInv'
  BY RingStep, SearchStep DEF Next
<1>3. CASE Overflow
  BY <1>1, <1>2, <1>3, OverflowSearches
<1>4. CASE DropByte(byte)
  BY <1>1, <1>2, <1>4, DropSearches
<1>5. CASE AwaitMore(byte)
  BY <1>1, <1>2, <1>5, AwaitSearches
<1>6. CASE TakePacket(byte)
  <2>1. GoodPacket(packet_buffer')
    BY <1>1, <1>6, PacketFromRing
  <2>2. packet_buffer' # <<>>
    BY <2>1 DEF GoodPacket
  <2>3. QED
    BY <1>1, <1>2, <1>6, <2>2, TakeSearches
<1>7. QED
  BY <1>3, <1>4, <1>5, <1>6 DEF AddByte

\* The byte that is taken off the wire is added to the stream.
LEMMA ByteMoves ==
  ASSUME NEW s \in Seq(Byte), NEW a \in Seq(Byte), a # <<>>
  PROVE  /\ Head(a) \in Byte /\ Tail(a) \in Seq(Byte)
         /\ Append(s, Head(a)) \in Seq(Byte)
         /\ Append(s, Head(a)) \o Tail(a) = s \o a
<1> DEFINE x == Append(s, Head(a)) \o Tail(a)
           y == s \o a
<1>1. Head(a) \in Byte /\ Tail(a) \in Seq(Byte) /\ Append(s, Head(a)) \in Seq(Byte)
      /\ Len(Tail(a)) = Len(a) - 1 /\ Len(Append(s, Head(a))) = Len(s) + 1
      /\ Len(a) >= 1
  OBVIOUS
<1>2. x \in Seq(Byte) /\ y \in Seq(Byte) /\ Len(x) = Len(s) + Len(a)
      /\ Len(y) = Len(s) + Len(a)
  BY <1>1, Concatenated
<1>3. ASSUME NEW i \in 1..Len(s) + Len(a) PROVE x[i] = y[i]
  <2>1. CASE i <= Len(s)
    BY <1>1, <2>1
  <2>2. CASE i = Len(s) + 1
    BY <1>1, <2>2
  <2>3. CASE i > Len(s) + 1
    BY <1>1, <2>3
  <2>4. QED
    BY <2>1, <2>2, <2>3
<1> HIDE DEF x, y
<1>4. x = y
  BY <1>2, <1>3, SameSequence
<1>5. QED
  BY <1>1, <1>4 DEF x, y

LEMMA FallingByte ==
  ASSUME RingInv, SearchInv, ahead \in Seq(Byte), Falling, NextByte
  PROVE  Falling'
<1> DEFINE byte  == Head(ahead)
           bytes == Append(stream, byte)
<1>1. /\ ahead # <<>> /\ AddByte(byte) /\ ahead' = Tail(ahead) /\ sent' = sent
      /\ stream \in Seq(Byte) /\ sent = <<>> /\ TornOf(stream \o ahead)
  BY DEF NextByte, Falling, RingInv, RingOK
<1>2. /\ byte \in Byte /\ Tail(ahead) \in Seq(Byte) /\ bytes \in Seq(Byte)
      /\ bytes \o Tail(ahead) = stream \o ahead
  BY <1>1, ByteMoves
<1>3. /\ exited = "no"
      /\ \/ Framing!GiveUp
         \/ Framing!Wait(byte)
         \/ Framing!Deliver(byte)
  BY <1>1, <1>2, ByteMaps
<1>4. ~Framing!GiveUp
  BY <1>1, TornHasNone DEF Framing!GiveUp
<1>5. ~Framing!Deliver(byte)
  BY <1>1, <1>2, TornHasNone DEF Framing!Deliver, Framing!PacketEnds
<1>6. stream' = bytes /\ exited' = exited
  BY <1>3, <1>4, <1>5 DEF Framing!Wait
<1>7. QED
  BY <1>1, <1>2, <1>3, <1>6 DEF Falling

LEMMA PacketByte ==
  ASSUME RingInv, SearchInv, ahead \in Seq(Byte), InPacket, NextByte
  PROVE  InPacket' \/ AfterPacket'
<1> DEFINE byte  == Head(ahead)
           bytes == Append(stream, byte)
<1>1. /\ ahead # <<>> /\ AddByte(byte) /\ ahead' = Tail(ahead) /\ sent' = sent
      /\ stream \in Seq(Byte) /\ sent \in Packets
  BY DEF NextByte, InPacket, RingInv, RingOK
<1>2. /\ byte \in Byte /\ Tail(ahead) \in Seq(Byte) /\ bytes \in Seq(Byte)
      /\ bytes \o Tail(ahead) = stream \o ahead
  BY <1>1, ByteMoves
<1>3. PICK t : Within(t, sent, stream, ahead)
  BY DEF InPacket
<1>4. Within(t, sent, bytes, Tail(ahead))
  BY <1>2, <1>3 DEF Within
<1>5. /\ exited = "no" /\ RingInv' /\ SearchInv'
      /\ \/ Framing!GiveUp
         \/ Framing!Wait(byte)
         \/ Framing!Deliver(byte) /\ packet_buffer' # <<>>
  BY <1>1, <1>2, ByteMaps
<1>6. ASSUME Framing!GiveUp PROVE FALSE
  <2>1. PICK p \in DOMAIN stream :
          /\ Framing!FirstHeader(stream, p)
          /\ Framing!WordsAnnounced(stream, p) > PacketWords
    BY <1>6 DEF Framing!GiveUp
  <2>2. Framing!WordsAnnounced(stream, p) = Len(sent)
    BY <1>3, <2>1, FirstIsPackets
  <2>3. Len(sent) <= PacketWords /\ Len(sent) \in Nat
    BY <1>1, HeadersAssumption, PacketsAssumption
  <2>4. QED
    BY <2>1, <2>2, <2>3, Sizes
<1>7. CASE Framing!Wait(byte)
  <2>1. /\ stream' = bytes /\ exited' = exited
        /\ \A p \in DOMAIN bytes : ~Framing!PacketEnds(bytes, p)
    BY <1>7 DEF Framing!Wait
  <2>2. Tail(ahead) # <<>>
    BY <1>4, <2>1, PacketFound
  <2>3. Within(t, sent', stream', ahead')
    BY <1>1, <1>4, <2>1
  <2>4. QED
    BY <1>1, <1>5, <2>1, <2>2, <2>3 DEF InPacket, Within
<1>8. CASE Framing!Deliver(byte) /\ packet_buffer' # <<>>
  <2>1. PICK p \in DOMAIN bytes :
          /\ Framing!PacketEnds(bytes, p)
          /\ FramingReport' = [words |-> Framing!PacketAt(bytes, p), stamp |-> 1]
          /\ stream' = <<>>
    BY <1>8 DEF Framing!Deliver, FramingReport
  <2>2. Tail(ahead) = <<>> /\ Framing!PacketAt(bytes, p) = sent
    BY <1>4, <2>1, FoundAsSent
  <2>3. FramingReport' = [words |-> packet_buffer', stamp |-> packet_start']
    BY <1>8 DEF FramingReport
  <2>4. packet_buffer' = sent
    BY <2>1, <2>2, <2>3
  <2>5. Count' = 0
    <3>1. Count' \in Nat /\ Count' <= Len(stream')
      BY <1>5, Sizes, CountType DEF SearchInv, Holds, RingInv, RingOK, Count
    <3>2. Len(stream') = 0
      BY <2>1
    <3>3. QED
      BY <3>1, <3>2
  <2>6. QED
    BY <1>1, <2>1, <2>2, <2>4, <2>5 DEF AfterPacket
<1>9. QED
  BY <1>5, <1>6, <1>7, <1>8

LEMMA NextByteKeeps ==
  ASSUME RingInv, SearchInv, CaptureInv, NextByte
  PROVE  CaptureInv'
<1>1. /\ line = "tracer" /\ line' = line /\ ahead # <<>> /\ ahead' = Tail(ahead)
      /\ ahead \in Seq(Byte) /\ (Falling \/ InPacket)
  BY DEF NextByte, CaptureInv, AfterPacket
<1>2. ahead' \in Seq(Byte)
  BY <1>1
<1>3. Falling' \/ InPacket' \/ AfterPacket'
  BY <1>1, FallingByte, PacketByte
<1>4. QED
  BY <1>2, <1>3 DEF CaptureInv

LEMMA SendPacketKeeps ==
  ASSUME RingInv, CaptureInv, SendPacket
  PROVE  CaptureInv'
<1>1. PICK packet \in Packets : ahead' = Serialised(packet) /\ sent' = packet
  BY DEF SendPacket
<1>2. /\ line = "tracer" /\ ahead = <<>> /\ exited = "no"
      /\ stream' = stream /\ exited' = exited /\ stream \in Seq(Byte)
  BY DEF SendPacket, vars, lbtraceVars, RingInv, RingOK
<1>3. TornOf(stream)
  <2>1. stream \o <<>> = stream
    BY <1>2
  <2>2. Falling \/ AfterPacket
    BY <1>2 DEF CaptureInv, InPacket
  <2>3. QED
    BY <1>2, <2>1, <2>2 DEF Falling, AfterPacket, TornOf
<1>4. ahead' \in Seq(Byte) /\ ahead' # <<>>
  <2>1. ahead' \in Seq(Byte) /\ Len(ahead') >= 2 * WordBytes
    BY <1>1, SerialisedHeader
  <2>2. Len(ahead') # 0
    BY <2>1, Sizes
  <2>3. QED
    BY <2>1, <2>2
<1>5. Within(stream, sent', stream', ahead')
  BY <1>1, <1>2, <1>3, <1>4 DEF Within
<1>6. InPacket'
  BY <1>1, <1>2, <1>4, <1>5 DEF InPacket, Within
<1>7. QED
  BY <1>4, <1>6 DEF CaptureInv

LEMMA InitCapture ==
  ASSUME CaptureInit
  PROVE  CaptureInv
<1>1. stream = <<>> /\ exited = "no" /\ sent = <<>> /\ ahead \in Seq(Byte)
  BY AheadIsBytes DEF CaptureInit, Init, LbtraceInit
<1>2. line = "tracer" => TornOf(ahead)
  BY DEF CaptureInit, TornOf
<1>3. stream \o ahead = ahead
  BY <1>1
<1>4. QED
  BY <1>1, <1>2, <1>3 DEF CaptureInv, Falling

LEMMA CaptureStep ==
  ASSUME RingInv, SearchInv, CaptureInv, [CaptureNext]_captureVars
  PROVE  CaptureInv'
<1>1. CASE NoiseByte
  BY <1>1 DEF NoiseByte, wireVars, CaptureInv
<1>2. CASE UNCHANGED captureVars
  BY <1>2 DEF captureVars, vars, ringVars, lbtraceVars, wireVars, CaptureInv, Falling,
              InPacket, AfterPacket, Count, Within, TornOf
<1>3. QED
  BY <1>1, <1>2, NextByteKeeps, SendPacketKeeps DEF CaptureNext

\* Wherever in a packet the capture begins, every packet that is sent whole comes
\* out of check_for_packet as it was sent and with its last byte, and the program
\* ends within none, for words, packets and rings of any size, provided that
\* nothing but a header looks like one.
THEOREM CapturePrintsAsSent == CaptureSpec => []PrintedAsSent
<1>1. CaptureInit => CaptureInv
  BY InitCapture
<1>2. RingInv /\ SearchInv /\ CaptureInv /\ [CaptureNext]_captureVars => CaptureInv'
  BY CaptureStep
<1>3. CaptureInv => PrintedAsSent
  BY PacketsAssumption DEF CaptureInv, Falling, InPacket, AfterPacket, PrintedAsSent
<1>4. QED
  BY <1>1, <1>2, <1>3, CaptureIsTrace, RingSafe, SearchSafe, PTL DEF CaptureSpec
=============================================================================
