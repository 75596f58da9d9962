-------------------------- MODULE I2cTransactions --------------------------
(***************************************************************************)
(* What an I2C decoder promises, without states or buffers: the bits       *)
(* clocked since the last START, cut into groups of a byte and its         *)
(* acknowledge bit, are reported once, when a STOP or a repeated START     *)
(* ends the transaction.  An address counts with its acknowledge bit, a    *)
(* data byte as soon as its bits are there; what is left over is dropped.  *)
(***************************************************************************)
EXTENDS Integers, Sequences

CONSTANTS
  AddrBits, \* bits of an address
  Times     \* the times a START can have

VARIABLES
  open,   \* a transaction is in progress
  bits,   \* the bits clocked since its START
  begun,  \* the time of its START
  report  \* what this step reports, or nothing: <<>>

ByteBits == AddrBits + 1

NumBytes ==
  IF Len(bits) <= ByteBits THEN 0
  ELSE 1 + (Len(bits) - ByteBits) \div (ByteBits + 1)

\* Byte number n of the transaction, the address being byte 1.
ByteAt(n) == [i \in 0..AddrBits |-> bits[(n - 1) * (ByteBits + 1) + i + 1]]

Completed ==
  IF ~open \/ NumBytes = 0
  THEN <<>>
  ELSE [start |-> begun, bytes |-> [n \in 1..NumBytes |-> ByteAt(n)]]

Init == open = FALSE /\ bits = <<>> /\ begun = 0 /\ report = <<>>

Start(now) ==
  /\ report' = Completed
  /\ open' = TRUE
  /\ bits' = <<>>
  /\ begun' = now

Stop ==
  /\ report' = Completed
  /\ open' = FALSE
  /\ bits' = <<>>
  /\ UNCHANGED begun

\* A bit is clocked in; outside a transaction it means nothing.
Bit(b) ==
  /\ bits' = IF open THEN Append(bits, b) ELSE bits
  /\ report' = <<>>
  /\ UNCHANGED <<open, begun>>

\* The lines move otherwise, or not at all.
Quiet == report' = <<>> /\ UNCHANGED <<open, bits, begun>>

Next == (\E now \in Times : Start(now)) \/ Stop \/ (\E b \in {0, 1} : Bit(b)) \/ Quiet

Spec == Init /\ [][Next]_<<open, bits, begun, report>>
=============================================================================
