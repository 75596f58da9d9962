---------------------------- MODULE TraceCapture ----------------------------
(***************************************************************************)
(* A capture of the trace UART: the ring of parser_uart_lbtrace.c, the     *)
(* printer of lbtrace.c behind it and the table of thread.c, which lives   *)
(* as long as the program.  The wire carries noise, or a device that sends *)
(* packet after packet; the capture may begin within a packet.             *)
(***************************************************************************)
EXTENDS UartLbtrace, FiniteSets

CONSTANTS
  Packets,  \* the packets of the device
  Noise,    \* the bytes of a line with no device on it
  MaxNoise  \* bound on the bytes of noise between two packets

ASSUME NoiseAssumption == Noise \subseteq Byte
ASSUME PacketsAssumption ==
  \A packet \in Packets : packet \in Seq([1..WordBytes -> Byte]) /\ Len(packet) >= 2

\* The bytes of a packet, and what is left of them after the first few.
Serialised(packet) ==
  [i \in 1..WordBytes * Len(packet) |->
     packet[1 + ((i - 1) \div WordBytes)][1 + ((i - 1) % WordBytes)]]
After(bytes, first) == SubSeq(bytes, first + 1, Len(bytes))

\* The device announces the length of its packets, and they fit the receiver.
ASSUME HeadersAssumption ==
  \A packet \in Packets :
    /\ IsMagic(packet[1]) /\ DataWords(packet[1]) + 2 = Len(packet)
    /\ Len(packet) <= PacketWords

\* Nothing looks like a header in what is left of a packet, another one following.
ASSUME NoFalseHeaders ==
  \A before, packet \in Packets : \A first \in 1..WordBytes * Len(before) :
    LET torn == After(Serialised(before), first)
    IN  \A p \in 1..Len(torn) :
          SubSeq(torn \o Serialised(packet), p + 1, p + WordBytes - 1) # Magic

VARIABLES
  line,  \* what is on the wire: "noise" or "tracer"
  ahead, \* the bytes that come next
  sent   \* the packet they are the end of, <<>> if the capture began within it

wireVars == <<line, ahead, sent>>

-----------------------------------------------------------------------------

CaptureInit ==
  /\ Init
  /\ sent = <<>>
  /\ \/ line = "noise" /\ ahead = <<>>
     \/ /\ line = "tracer"
        /\ \E packet \in Packets :
             \E first \in 1..WordBytes * Len(packet) :
               ahead = After(Serialised(packet), first)

NoiseByte ==
  /\ line = "noise"
  /\ Len(stream) < MaxNoise
  /\ \E byte \in Noise : AddByte(byte)
  /\ UNCHANGED wireVars

SendPacket ==
  /\ line = "tracer" /\ ahead = <<>> /\ exited = "no"
  /\ \E packet \in Packets : ahead' = Serialised(packet) /\ sent' = packet
  /\ UNCHANGED <<vars, line>>

NextByte ==
  /\ line = "tracer" /\ ahead # <<>>
  /\ AddByte(Head(ahead))
  /\ ahead' = Tail(ahead)
  /\ UNCHANGED <<line, sent>>

CaptureNext == NoiseByte \/ SendPacket \/ NextByte

captureVars == <<vars, wireVars>>

CaptureSpec == CaptureInit /\ [][CaptureNext]_captureVars

-----------------------------------------------------------------------------

\* Wherever in a packet the capture begins, every packet that is sent whole is
\* printed, as it was sent and with its last byte, and the program ends within no
\* packet: the byte-by-byte search (parser_uart_lbtrace.c:340) is back in step
\* before the packet after the torn one is over.  It rests on packets in which
\* nothing but a header looks like one (NoFalseHeaders).
PrintedAsSent ==
  line = "tracer" =>
    /\ exited # "no" => ahead = <<>>
    /\ ahead = <<>> /\ sent # <<>> => packet_buffer = sent /\ Count = 0

Addresses == {threads[i].address : i \in DOMAIN threads}

\* A thread has one entry, whichever of its switches and its name comes first
\* (thread_create goes through thread_find, thread.c:43).
OneEntryPerThread ==
  \A i, j \in DOMAIN threads :
    threads[i].address = threads[j].address => i = j

\* The table fails only for want of room: every entry belongs to another thread,
\* and the thread that was asked for has none (thread.c:27).
FullTableIsFull ==
  exited = "no_thread" =>
    /\ Cardinality(Addresses) = NumberThreads
    /\ packet_buffer[3] \notin Addresses

\* The thread table as a whole.
TableIsExact == OneEntryPerThread /\ FullTableIsFull

\* What a switch prints for a thread is the name it was last given: an entry keeps
\* its address for ever, and its name until a name packet for that address.
NamesBelongToThreads ==
  [][\A i \in DOMAIN threads :
       /\ threads'[i].address = threads[i].address
       /\ threads'[i].name # threads[i].name =>
            /\ TagOf(packet_buffer'[2]) = ThreadName
            /\ packet_buffer'[3] = threads[i].address
            /\ threads'[i].name = SubSeq(packet_buffer', 4, Len(packet_buffer'))]_lbtraceVars
=============================================================================
