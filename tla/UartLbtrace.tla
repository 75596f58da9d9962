----------------------------- MODULE UartLbtrace -----------------------------
(***************************************************************************)
(* From the bytes of the trace UART to packets (parser_uart_lbtrace.c).    *)
(* Nothing on the wire marks where a packet starts, so the bytes are kept  *)
(* in a ring and looked at after every byte: a packet starts with a word   *)
(* whose low bytes are the magic and whose top byte is the number of data  *)
(* words that follow the magic word and the tag word.                      *)
(*                                                                         *)
(* One action is one byte handed over by uart_accumulate: buffer_add, the  *)
(* check for a packet and, when there is one, its parsing in lbtrace.c.    *)
(***************************************************************************)
EXTENDS Lbtrace

CONSTANTS
  Byte,       \* the values a byte can have
  BufferSize, \* BUFFER_SIZE_BYTES: 128
  Wrap,       \* the head and the tail are counters modulo 2^32
  MaxStream   \* bound on the bytes between two packets

ASSUME ByteAssumption   == Byte \subseteq Nat /\ 0 \in Byte /\ Magic \in Seq(Byte)
ASSUME BufferAssumption ==
  /\ BufferSize = WordBytes * PacketWords
  /\ BufferSize >= 2 * WordBytes
  /\ Wrap \in Nat /\ Wrap > BufferSize /\ Wrap % BufferSize = 0

VARIABLES
  buffer,       \* the ring
  buffer_head,  \* where the next byte goes
  buffer_tail,  \* the oldest byte not yet thrown away or parsed
  packet_start, \* packet_start_time_nsecs, as the place of a byte in stream
  stream        \* history: the bytes since the last packet

ringVars == <<buffer, buffer_head, buffer_tail, packet_start>>
vars == <<ringVars, lbtraceVars, stream>>

-----------------------------------------------------------------------------
(* Unsigned counters and the ring.                                         *)

Plus(counter, n) ==
  IF counter + n >= Wrap THEN counter + n - Wrap ELSE counter + n

CountFrom(head, tail) == IF head >= tail THEN head - tail ELSE head - tail + Wrap

Count == CountFrom(buffer_head, buffer_tail)

Slot(counter) == counter % BufferSize

\* The n bytes of a ring that start at a counter.
Window(ring, from, n) == [i \in 1..n |-> ring[Slot(Plus(from, i - 1))]]

\* get_32 called n times.
Words(ring, from, n) ==
  [w \in 1..n |-> Window(ring, Plus(from, (w - 1) * WordBytes), WordBytes)]

DataWords(word) == word[1]

\* Mutants: the magic word is not counted; words are taken for bytes.
PacketBytesDataAndTag(data_words) == (data_words + 1) * WordBytes
PacketBytesInWords(data_words) == data_words + 2

PacketBytes(data_words) == (data_words + 2) * WordBytes

-----------------------------------------------------------------------------

Init ==
  /\ LbtraceInit
  /\ buffer = [i \in 0..BufferSize - 1 |-> 0]
  /\ buffer_head = 0
  /\ buffer_tail = 0
  /\ packet_start = 0
  /\ stream = <<>>

\* No room: the program gives up before the byte is stored.
Overflow ==
  /\ Count >= BufferSize
  /\ exited' = "overflow"
  /\ packet_buffer' = <<>>
  /\ UNCHANGED <<ringVars, threads, stream>>

Stored(byte) == [buffer EXCEPT ![Slot(buffer_head)] = byte]

\* The byte goes to the head; the first byte of an empty ring gives the packet
\* its time.
Store(byte) ==
  /\ Count < BufferSize
  /\ buffer' = Stored(byte)
  /\ buffer_head' = Plus(buffer_head, 1)
  /\ packet_start' = IF Count = 0 THEN Len(stream) + 1 ELSE packet_start

\* What check_for_packet finds, the byte being stored.
Peek(byte) == Window(Stored(byte), buffer_tail, WordBytes)
Enough(byte) == Count + 1 >= 2 * WordBytes
HeaderSeen(byte) == Enough(byte) /\ IsMagic(Peek(byte))
PacketSeen(byte) ==
  HeaderSeen(byte) /\ Count + 1 >= PacketBytes(DataWords(Peek(byte)))

NothingPrinted == packet_buffer' = <<>> /\ UNCHANGED <<threads, exited>>

\* Mutants of DropByte: nothing is thrown away; a word is, instead of a byte.
DropNothing(byte) ==
  /\ Store(byte)
  /\ Enough(byte) /\ ~HeaderSeen(byte)
  /\ buffer_tail' = buffer_tail
  /\ stream' = Append(stream, byte)
  /\ NothingPrinted
DropWord(byte) ==
  /\ Store(byte)
  /\ Enough(byte) /\ ~HeaderSeen(byte)
  /\ buffer_tail' = Plus(buffer_tail, WordBytes)
  /\ stream' = Append(stream, byte)
  /\ NothingPrinted

\* The oldest byte is no header: it is thrown away.
DropByte(byte) ==
  /\ Store(byte)
  /\ Enough(byte) /\ ~HeaderSeen(byte)
  /\ buffer_tail' = Plus(buffer_tail, 1)
  /\ stream' = Append(stream, byte)
  /\ NothingPrinted

\* Too few bytes for a header, or for the packet the header announces.
AwaitMore(byte) ==
  /\ Store(byte)
  /\ ~PacketSeen(byte)
  /\ Enough(byte) => HeaderSeen(byte)
  /\ stream' = Append(stream, byte)
  /\ NothingPrinted
  /\ UNCHANGED buffer_tail

\* A whole packet: its words are taken from the ring and printed.
TakePacket(byte) ==
  /\ Store(byte)
  /\ PacketSeen(byte)
  /\ LET n      == DataWords(Peek(byte)) + 2
         packet == Words(Stored(byte), buffer_tail, n)
     IN  /\ buffer_tail' = Plus(buffer_tail, n * WordBytes)
         /\ PacketParse(packet)
  /\ stream' = <<>>

AddByte(byte) ==
  /\ exited = "no"
  /\ Len(stream) < MaxStream
  /\ Overflow \/ DropByte(byte) \/ AwaitMore(byte) \/ TakePacket(byte)

Next == \E byte \in Byte : AddByte(byte)

Spec == Init /\ [][Next]_vars

-----------------------------------------------------------------------------

TypeOK ==
  /\ buffer \in [0..BufferSize - 1 -> Byte]
  /\ buffer_head \in 0..Wrap - 1
  /\ buffer_tail \in 0..Wrap - 1
  /\ packet_start \in Nat
  /\ Count <= BufferSize

\* A packet taken from the ring fits in packet_buffer, although the guard of
\* lbtrace_packet_add_word (lbtrace.c:138) would let four times as many words in:
\* the ring holds no more bytes than the buffer, and check_for_packet waits for
\* the last of them (parser_uart_lbtrace.c:360).
PacketFitsBuffer == exited # "too_long" /\ Len(packet_buffer) <= PacketWords

\* Between bytes the ring holds too little for a header, or a header and not yet
\* all of its packet; a ring that fills up is one whose header announces more
\* than the ring can hold: noise without such a header never ends the program.
RingAtRest ==
  /\ Count >= 2 * WordBytes =>
       LET word == Window(buffer, buffer_tail, WordBytes)
       IN  IsMagic(word) /\ Count < PacketBytes(DataWords(word))
  /\ exited = "overflow" => Count = BufferSize

\* The packets are those of the byte stream: the ring, its wrapping counters and
\* the byte-by-byte resynchronisation lose none and invent none.
Framing == INSTANCE TraceFraming WITH
  report <- IF packet_buffer = <<>> THEN <<>>
            ELSE [words |-> packet_buffer, stamp |-> packet_start]
FramesPackets == Framing!Spec
=============================================================================
