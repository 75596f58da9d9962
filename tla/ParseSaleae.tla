----------------------------- MODULE ParseSaleae -----------------------------
(***************************************************************************)
(* The program over a capture of the accelerometer's bus (csv_process_file *)
(* and parser_process_frame): the parsers are connected, then every frame  *)
(* is shown to the enabled ones in the order of the list.  lis3dh has its  *)
(* lines deglitched and looks at the interrupt; the I2C parser it created  *)
(* reads the edges found then and hands a transaction that is over to      *)
(* lis3dh's parse_packet.  What I2C makes of the lines is the subject of   *)
(* I2cBus: here a frame brings the end of a transaction or does not.       *)
(*                                                                         *)
(* The bus has a LIS3DH and other slaves on it.  The host names a register *)
(* before every read, asks for increments when there is more than one      *)
(* value, and stays inside the register map.                               *)
(***************************************************************************)
EXTENDS ParserList, Lis3dh

CONSTANT Values  \* the values of a register

ASSUME ValuesAssumption == Values \subseteq Nat

VARIABLES
  news,   \* what the lines of this frame bring: a packet that ends, an interrupt
  seen,   \* what the signals of lis3dh say of the lines, as last deglitched
  chip,   \* the chip's registers, -1 for those never written
  point   \* the register byte the chip was given for a read, or -1

busVars == <<news, seen, chip, point>>
vars == <<listVars, lis3dhVars, busVars>>

NoPacket == [mine |-> FALSE, read |-> FALSE, bytes |-> <<>>]
Quiet    == [packet |-> NoPacket, irq |-> FALSE, truth |-> <<>>]

Init ==
  /\ ListInit
  /\ Lis3dhInit
  /\ news = Quiet
  /\ seen = Quiet
  /\ chip = [r \in Regs |-> -1]
  /\ point = -1

Bursts(first) == {v \in UNION {[1..n -> Values] : n \in 1..2} : first + Len(v) <= NumberRegs}

RegisterByte(first, values) ==
  IF Len(values) > 1 THEN {first + AutoIncrement} ELSE {first, first + AutoIncrement}

-----------------------------------------------------------------------------
(* What a frame may bring.                                                 *)

NextFrame(packet, truth, irq) ==
  /\ phase = "frames" /\ at = 0
  /\ at' = 1
  /\ news' = [packet |-> packet, irq |-> irq, truth |-> truth]
  /\ lines' = <<>>
  /\ UNCHANGED <<parsers, phase, found, enabled, log_file, sample_time,
                 reg, shadows, ran_away, seen>>

\* Nothing, or a transaction with another slave.
QuietFrame(irq) ==
  NextFrame(NoPacket, <<>>, irq) /\ UNCHANGED <<chip, point>>

\* The host writes a register, or two.
WriteFrame(first, values, byte, irq) ==
  /\ NextFrame([mine |-> TRUE, read |-> FALSE, bytes |-> <<byte>> \o values],
               [i \in 1..Len(values) |-> [reg |-> first + i - 1, val |-> values[i]]], irq)
  /\ chip' = [r \in Regs |-> IF r - first + 1 \in DOMAIN values
                             THEN values[r - first + 1] ELSE chip[r]]
  /\ point' = -1

\* The host names the register it is about to read.
NameFrame(first, byte, irq) ==
  /\ NextFrame([mine |-> TRUE, read |-> FALSE, bytes |-> <<byte>>],
               <<[reg |-> first, val |-> -1]>>, irq)
  /\ point' = byte
  /\ UNCHANGED chip

\* The chip answers with whatever its registers hold, some of which it sets itself.
ReadFrame(values, irq) ==
  /\ point # -1
  /\ Len(values) > 1 => point >= AutoIncrement
  /\ NextFrame([mine |-> TRUE, read |-> TRUE, bytes |-> values],
               [i \in 1..Len(values) |->
                  [reg |-> Number(point) + i - 1, val |-> values[i]]], irq)
  /\ point' = -1
  /\ UNCHANGED chip

\* The host sends an address and STOP, to see who is there.
ProbeFrame(irq) ==
  /\ NextFrame([mine |-> TRUE, read |-> FALSE, bytes |-> <<>>], <<>>, irq)
  /\ UNCHANGED <<chip, point>>

Frame(irq) ==
  \/ QuietFrame(irq)
  \/ \E first \in Regs : \E values \in Bursts(first) :
       \E byte \in RegisterByte(first, values) : WriteFrame(first, values, byte, irq)
  \/ \E first \in Regs : \E byte \in {first, first + AutoIncrement} :
       NameFrame(first, byte, irq)
  \/ \E values \in Bursts(Number(point)) : ReadFrame(values, irq)

-----------------------------------------------------------------------------
(* parser_process_frame.                                                   *)

\* signal_deglitch and process_frame of the parser whose turn it is; the parsers of
\* the other lines have modules of their own.
ProcessFrame(p) ==
  CASE p = "lis3dh" ->
         /\ seen' = news
         /\ IF seen'.irq THEN PrintShadows
            ELSE lines' = <<>> /\ UNCHANGED <<reg, shadows, ran_away>>
    [] p = "i2c_parser" -> ParsePacket(seen.packet) /\ UNCHANGED seen
    [] OTHER -> lines' = <<>> /\ UNCHANGED <<reg, shadows, ran_away, seen>>

TakeTurn ==
  /\ phase = "frames" /\ at # 0 /\ ~ran_away
  /\ IF parsers[at] \in enabled
     THEN ProcessFrame(parsers[at])
     ELSE lines' = <<>> /\ UNCHANGED <<reg, shadows, ran_away, seen>>
  /\ at' = IF at = Len(parsers) THEN 0 ELSE at + 1
  /\ UNCHANGED <<parsers, phase, found, enabled, log_file, sample_time, news, chip, point>>

Next ==
  \/ (Connect \/ PostConnect) /\ UNCHANGED <<lis3dhVars, busVars>>
  \/ \E irq \in BOOLEAN : Frame(irq)
  \/ TakeTurn

Spec == Init /\ [][Next]_vars

\* A host that also scans the bus.
ProbingSpec == Init /\ [][Next \/ \E irq \in BOOLEAN : ProbeFrame(irq)]_vars

-----------------------------------------------------------------------------

\* Between two frames the shadow is what the chip was last told, for every register
\* and whatever went to other slaves: the I2C parser, which is registered while the
\* list is walked (i2c_parser.c:364), comes behind lis3dh and reads the edges of
\* the frame, not those of the one before.
ShadowsMatchChip ==
  phase = "frames" /\ at = 0 /\ "lis3dh" \in found => shadows = chip

\* What is printed of a transaction is its registers with their values: a read, which
\* does not say where it starts, is labelled by the write before it (lis3dh.c:373).
LinesAreTrue ==
  phase = "frames" /\ at # 1 /\ lines # <<>>
    /\ parsers[IF at = 0 THEN Len(parsers) ELSE at - 1] = "i2c_parser"
  => lines = news.truth

\* lis3dh.c:485 says of a write that "The register number is the next byte": no byte
\* is taken that was not in the packet.
TakesBytesOfPacket == ~ran_away
=============================================================================
