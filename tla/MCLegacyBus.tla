----------------------------- MODULE MCLegacyBus -----------------------------
(* Addresses of two bits, bytes of three.  On the panel's bus: commands of     *)
(* every kind, with data that look like addresses, a command that is read with *)
(* traffic in between, one that is read with fewer bytes than are printed,     *)
(* packets of the boot loader with and without payload, a refused address, a   *)
(* write that is aborted, a write of no data.  On the tag's: writes and reads  *)
(* of both areas, one as long as the buffer, one longer, one too short, a      *)
(* refused address, another device.                                            *)
EXTENDS LegacyBus, TLC

Acked(bytes)   == [bytes |-> bytes, last_ack |-> 0]
Refused(bytes) == [bytes |-> bytes, last_ack |-> 1]

MCPrinted == [cmd \in Byte |-> IF cmd = 3 THEN 2 ELSE 1]

MCTransactions ==
  [i2c   |-> {Acked(<<0, 1, 1, 5>>), Acked(<<0, 3, 2, 7, 0, 2>>), Acked(<<0, 6, 3>>),
              Refused(<<1, 5, 6>>), Acked(<<0, 5, 3>>), Refused(<<1, 4>>),
              Acked(<<2, 1, 4, 1, 0, 2, 0, 0, 7>>),
              Acked(<<3, 1, 4, 0, 0, 2, 0, 7>>), Refused(<<0>>), Acked(<<0, 2>>),
              Acked(<<0, 0, 4>>)},
   i2c_2 |-> {Acked(<<4, 2, 1>>), Acked(<<4, 0, 2, 7>>), Acked(<<6, 0, 1>>),
              Refused(<<5, 3>>), Refused(<<7, 6, 4>>), Refused(<<4>>),
              Acked(<<4, 1>>), Acked(<<0, 4, 1, 1>>), Acked(<<4, 0, 0, 1, 2>>),
              Acked(<<4, 0, 1, 2, 3, 4, 0, 1>>)}]
=============================================================================
