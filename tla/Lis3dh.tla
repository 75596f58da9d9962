------------------------------- MODULE Lis3dh -------------------------------
(***************************************************************************)
(* The accelerometer's parser (lis3dh.c): parse_packet is handed the bytes *)
(* of an I2C transaction, the address first.  A write names a register and *)
(* may bring values for it and the registers behind it; a read is taken to *)
(* start at the register named last.  The values written are kept in a     *)
(* shadow of the chip's registers, which a rising interrupt prints.        *)
(***************************************************************************)
EXTENDS Integers, Sequences

CONSTANTS
  NumberRegs,    \* NUMBER_REGS: 64
  AutoIncrement  \* the bit of a register byte that is no part of the number: 128

ASSUME RegsAssumption ==
  /\ NumberRegs \in Nat \ {0} /\ AutoIncrement \in Nat /\ NumberRegs <= AutoIncrement

VARIABLES
  reg,       \* data->reg: the register byte of the last write
  shadows,   \* reg_shadows, -1 where written is not set
  lines,     \* the registers and values this step prints
  ran_away   \* bytes are being taken from behind the packet

lis3dhVars == <<reg, shadows, lines, ran_away>>

Regs == 0..NumberRegs - 1

Lis3dhInit ==
  /\ reg = 0
  /\ shadows = [r \in Regs |-> -1]
  /\ lines = <<>>
  /\ ran_away = FALSE

\* Mutant: the increment bit stays in the number.
NumberUnmasked(byte) == byte

Number(byte) == byte % AutoIncrement

\* A line for each of the values, from the register on.
Labelled(first, values) ==
  [i \in 1..Len(values) |-> [reg |-> first + i - 1, val |-> values[i]]]

\* lis3dh_rd.
Rd(values) ==
  /\ lines' = Labelled(Number(reg), values)
  /\ UNCHANGED <<reg, shadows, ran_away>>

\* Mutant of reg_shadow_set: the register is not advanced.
ShadowsAfterFirst(first, values) ==
  [r \in Regs |-> IF r = first /\ values # <<>> THEN values[Len(values)] ELSE shadows[r]]

\* reg_shadow_set for every value.
ShadowsAfter(first, values) ==
  [r \in Regs |-> IF r \in first..first + Len(values) - 1
                  THEN values[r - first + 1] ELSE shadows[r]]

\* lis3dh_wr for a write that has a register byte.
Wr(bytes) ==
  LET first  == Number(Head(bytes))
      values == Tail(bytes)
  IN  /\ bytes # <<>>
      /\ reg' = Head(bytes)
      /\ lines' = IF values = <<>> THEN <<[reg |-> first, val |-> -1]>>
                  ELSE Labelled(first, values)
      /\ shadows' = ShadowsAfter(first, values)
      /\ UNCHANGED ran_away

\* lis3dh_wr for a write that has none: packet_count-- wraps around from zero, and
\* what stands behind the address in the buffer is taken for 2^32 - 1 values.
WrAddressOnly ==
  /\ ran_away' = TRUE
  /\ UNCHANGED <<reg, shadows, lines>>

\* parse_packet.  Packets to other addresses are not looked at.
ParsePacket(packet) ==
  CASE ~packet.mine                       -> lines' = <<>> /\ UNCHANGED <<reg, shadows, ran_away>>
    [] packet.mine /\ packet.read         -> Rd(packet.bytes)
    [] packet.mine /\ ~packet.read /\ packet.bytes # <<>> -> Wr(packet.bytes)
    [] OTHER                              -> WrAddressOnly

\* process_frame: a rising interrupt prints the registers that have been written.
PrintShadows ==
  /\ lines' = [i \in 1..NumberRegs |-> [reg |-> i - 1, val |-> shadows[i - 1]]]
  /\ UNCHANGED <<reg, shadows, ran_away>>
=============================================================================
