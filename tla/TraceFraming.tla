---------------------------- MODULE TraceFraming ----------------------------
(***************************************************************************)
(* What the packet finder of the trace UART promises, without a ring: the  *)
(* bytes since the last packet are searched for the first place where a    *)
(* header stands, and the packet it announces is reported with its last    *)
(* byte.  The time printed for it is that of the first byte since the last *)
(* packet, noise or not.  A header that announces more than the receiver   *)
(* can hold ends the program.                                              *)
(***************************************************************************)
EXTENDS Integers, Sequences

CONSTANTS WordBytes, Magic, PacketWords, Byte

VARIABLES stream, report, exited

\* A header needs the word after it as well before it is believed.
HeaderAt(bytes, p) ==
  /\ p + 2 * WordBytes - 1 <= Len(bytes)
  /\ SubSeq(bytes, p + 1, p + WordBytes - 1) = Magic

FirstHeader(bytes, p) ==
  HeaderAt(bytes, p) /\ \A q \in 1..p - 1 : ~HeaderAt(bytes, q)

WordsAnnounced(bytes, p) == bytes[p] + 2

PacketEnds(bytes, p) ==
  /\ FirstHeader(bytes, p)
  /\ Len(bytes) - p + 1 = WordsAnnounced(bytes, p) * WordBytes

PacketAt(bytes, p) ==
  [w \in 1..WordsAnnounced(bytes, p) |->
     SubSeq(bytes, p + (w - 1) * WordBytes, p + w * WordBytes - 1)]

Init == stream = <<>> /\ report = <<>> /\ exited = "no"

\* A byte that completes no packet.
Wait(byte) ==
  LET bytes == Append(stream, byte)
  IN  /\ \A p \in DOMAIN bytes : ~PacketEnds(bytes, p)
      /\ stream' = bytes
      /\ report' = <<>>
      /\ UNCHANGED exited

\* The last byte of a packet; the packet may be one that cannot be printed.
Deliver(byte) ==
  LET bytes == Append(stream, byte)
  IN  \E p \in DOMAIN bytes :
        /\ PacketEnds(bytes, p)
        /\ report' = [words |-> PacketAt(bytes, p), stamp |-> 1]
        /\ stream' = <<>>
        /\ exited' \in {"no", "unparsed_tag", "underrun", "no_thread", "left_over"}

\* The header announces more than can be held.
GiveUp ==
  /\ \E p \in DOMAIN stream :
       /\ FirstHeader(stream, p)
       /\ WordsAnnounced(stream, p) > PacketWords
  /\ exited' = "overflow"
  /\ report' = <<>>
  /\ UNCHANGED stream

Next ==
  /\ exited = "no"
  /\ (\E byte \in Byte : Wait(byte) \/ Deliver(byte)) \/ GiveUp

Spec == Init /\ [][Next]_<<stream, report, exited>>
=============================================================================
