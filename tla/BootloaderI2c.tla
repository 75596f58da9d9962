---------------------------- MODULE BootloaderI2c ----------------------------
(***************************************************************************)
(* The decoder of the boot loader's packets (bootloader_i2c.c), a listener *)
(* of both first-generation I2C decoders.  A packet is SOP, a command, the *)
(* size of the payload in two bytes, the payload, a checksum in two bytes  *)
(* and EOP; the decoder follows the bytes, and looks at where a            *)
(* transaction starts only while it is idle.                               *)
(***************************************************************************)
EXTENDS Integers, Sequences

CONSTANTS
  BootloaderAddress, \* BOOTLOADER_I2C_ADDRESS, with the R/W bit clear
  SOP, EOP,          \* the first and the last byte of a packet
  ByteValues         \* 256 in the code

ASSUME BootloaderAssumption ==
  BootloaderAddress \in Nat /\ BootloaderAddress % 2 = 0 /\ ByteValues \in Nat

\* log: what was printed of the packet at hand.
BootloaderCreated ==
  [state |-> "IDLE", size |-> 0, data_count |-> 0, log |-> <<>>]

Logged(b, item) == [b EXCEPT !.log = Append(@, item)]

BootloaderIdle(b, byte, is_start) ==
  IF is_start = 1 /\ byte - (byte % 2) = BootloaderAddress
  THEN [b EXCEPT !.state = "SOP"] ELSE b

BootloaderSop(b, byte) ==
  IF byte # SOP
  THEN [Logged(b, "ERROR: did not get SOP") EXCEPT !.state = "IDLE"]
  ELSE [b EXCEPT !.state = "CMD"]

BootloaderSizeMsb(b, byte) ==
  [b EXCEPT !.size = @ + byte * ByteValues, !.data_count = 0, !.state = "DATA"]

\* A mutant: the first byte of the checksum is taken for data.
BootloaderDataLong(b, byte) ==
  [Logged(b, byte) EXCEPT
     !.data_count = @ + 1,
     !.state = IF b.data_count = b.size THEN "CHKSUM_LSB" ELSE "DATA"]

\* A packet without payload is never over: the count is 1 when it is first compared,
\* and has 32 bits where the size has 16.
BootloaderData(b, byte) ==
  [Logged(b, byte) EXCEPT
     !.data_count = @ + 1,
     !.state = IF b.data_count + 1 = b.size THEN "CHKSUM_LSB" ELSE "DATA"]

BootloaderEop(b, byte) ==
  [(IF byte # EOP THEN Logged(b, "Invalid EOP") ELSE b) EXCEPT !.state = "IDLE"]

\* bootloader_i2c.  The checksum is kept and compared with nothing.
Bootloader(b, byte, is_start) ==
  CASE b.state = "IDLE" -> BootloaderIdle(b, byte, is_start)
    [] b.state = "SOP" -> BootloaderSop(b, byte)
    [] b.state = "CMD" -> [Logged(b, byte) EXCEPT !.state = "SIZE_LSB"]
    [] b.state = "SIZE_LSB" -> [b EXCEPT !.size = byte, !.state = "SIZE_MSB"]
    [] b.state = "SIZE_MSB" -> BootloaderSizeMsb(b, byte)
    [] b.state = "DATA" -> BootloaderData(b, byte)
    [] b.state = "CHKSUM_LSB" -> [b EXCEPT !.state = "CHKSUM_MSB"]
    [] b.state = "CHKSUM_MSB" -> [b EXCEPT !.state = "EOP"]
    [] b.state = "EOP" -> BootloaderEop(b, byte)
=============================================================================
