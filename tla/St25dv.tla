------------------------------- MODULE St25dv -------------------------------
(***************************************************************************)
(* The decoder of the ST25DV tag (st25dv.c), the listener of               *)
(* parser_i2c_2.c.  The bytes of a transaction are kept until the STOP or  *)
(* the START that ends it, and printed then.  A write says in its first    *)
(* two bytes where in the chip it goes; a read does not: it is printed     *)
(* with the offset of the last write.                                      *)
(***************************************************************************)
EXTENDS Integers, Sequences

CONSTANTS
  UserAddress, SysAddress, \* the chip's two addresses, with the R/W bit clear
  StRoom,                  \* entries of data_buffer: 256
  OffsetValues,            \* weight of the offset's first byte: 256
  Dynamic,                 \* the offsets of the dynamic registers: 0x2000 to 0x2008
  SysRegs,                 \* entries of reg_strs: 24
  MemSizeLsb, MemSizeMsb   \* the two registers that make up the size: 0x14 and 0x15

ASSUME StRoomAssumption == StRoom \in Nat \ {0}

\* report: what was printed of a transaction, or NothingPrinted.
NothingPrinted == [dir |-> "none"]
StCreated ==
  [data |-> <<>>, offset |-> 0, memsize_lsb |-> 0, report |-> NothingPrinted]

\* st25dv_i2c: a buffer that is full is emptied, the address of the transaction and
\* all; what follows is taken for a transaction.
StByte(s, byte) ==
  [s EXCEPT !.data = IF Len(@) = StRoom THEN <<byte>> ELSE Append(@, byte)]

\* How a read is printed: a dynamic register has its offset whichever of the two
\* addresses it is read at.
KindOf(offset, is_sys) ==
  CASE offset \in Dynamic                -> "dynamic"
    [] offset \notin Dynamic /\ ~is_sys  -> "hex"
    [] OTHER -> IF offset < SysRegs THEN "sys" ELSE "invalid offset"

IsSys(s) == Head(s.data) - (Head(s.data) % 2) = SysAddress

\* The register that holds the upper half of the size is printed with the lower half
\* read last.
ProcessSys(s, byte) ==
  CASE s.offset = MemSizeLsb -> [s EXCEPT !.memsize_lsb = byte]
    [] s.offset = MemSizeMsb -> [s EXCEPT !.report.lsb = s.memsize_lsb]
    [] OTHER                 -> s

ProcessRead(s) ==
  LET payload == Tail(s.data)
      kind    == IF payload = <<>> THEN "offset only" ELSE KindOf(s.offset, IsSys(s))
      printed == [s EXCEPT !.report =
                    [dir |-> "read", sys |-> IsSys(s), offset |-> s.offset,
                     payload |-> payload, kind |-> kind, lsb |-> -1]]
  IN  IF kind = "sys" THEN ProcessSys(printed, payload[1]) ELSE printed

\* A write too short for an offset is dropped.
ProcessWrite(s) ==
  IF Len(s.data) < 3
  THEN s
  ELSE LET offset == OffsetValues * s.data[2] + s.data[3]
       IN  [s EXCEPT
              !.offset = offset,
              !.report = [dir |-> "write", sys |-> IsSys(s), offset |-> offset,
                          payload |-> SubSeq(s.data, 4, Len(s.data))]]

\* A mutant: the bytes for another device stay in the buffer.
ProcessPacketKeeps(s) ==
  LET q == [s EXCEPT !.report = NothingPrinted]
      addr == Head(s.data)
  IN  IF s.data = <<>> \/ addr - (addr % 2) \notin {UserAddress, SysAddress}
      THEN q
      ELSE [(IF addr % 2 = 1 THEN ProcessRead(q) ELSE ProcessWrite(q))
              EXCEPT !.data = <<>>]

\* process_packet, at st25dv_start and st25dv_stop
ProcessPacket(s) ==
  LET q == [s EXCEPT !.report = NothingPrinted]
      addr == Head(s.data)
  IN  IF s.data = <<>>
      THEN q
      ELSE IF addr - (addr % 2) \notin {UserAddress, SysAddress}
      THEN [q EXCEPT !.data = <<>>]
      ELSE [(IF addr % 2 = 1 THEN ProcessRead(q) ELSE ProcessWrite(q))
              EXCEPT !.data = <<>>]
=============================================================================
