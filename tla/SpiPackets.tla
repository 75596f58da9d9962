----------------------------- MODULE SpiPackets -----------------------------
(***************************************************************************)
(* What an SPI listener promises: the bits clocked while the chip is       *)
(* selected are reported as bytes when it is deselected, if there are two  *)
(* bytes or more; bits that make no whole byte are dropped.                *)
(***************************************************************************)
EXTENDS Integers, Sequences

CONSTANT ByteBits  \* bits of a byte

VARIABLES
  bits,   \* the bits clocked since the chip was selected
  report  \* what this step reports, or nothing: <<>>

NumBytes == Len(bits) \div ByteBits

ByteAt(n) == SubSeq(bits, (n - 1) * ByteBits + 1, n * ByteBits)

Init == bits = <<>> /\ report = <<>>

\* The chip is selected; a clock edge in the same frame counts.
Select(clocked) == bits' = clocked /\ report' = <<>>

Bit(b) == bits' = Append(bits, b) /\ report' = <<>>

\* The chip is deselected; a clock edge in the same frame does not count.
Deselect ==
  /\ report' = IF NumBytes >= 2 THEN [n \in 1..NumBytes |-> ByteAt(n)] ELSE <<>>
  /\ bits' = <<>>

Quiet == report' = <<>> /\ UNCHANGED bits

Next ==
  \/ \E b \in {0, 1} : Bit(b) \/ Select(<<b>>)
  \/ Select(<<>>) \/ Deselect \/ Quiet

Spec == Init /\ [][Next]_<<bits, report>>
=============================================================================
