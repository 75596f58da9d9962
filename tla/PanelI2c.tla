------------------------------ MODULE PanelI2c ------------------------------
(***************************************************************************)
(* The decoder of the front panel's commands (panel_i2c.c), a listener of  *)
(* parser_i2c.c, and that of the commands of the display behind the panel  *)
(* (panel_spi.c), which the panel's commands carry.                        *)
(*                                                                         *)
(* A command is written as a flag byte (the length, and a bit that says    *)
(* that the data is to be read), the command and the data; or as the flag  *)
(* byte and the command alone, after which the data is read in a           *)
(* transaction of its own.  The decoder follows the bytes; it looks at     *)
(* where a transaction starts only while it is idle.                       *)
(***************************************************************************)
EXTENDS Integers, Sequences

CONSTANTS
  PanelAddress,   \* PANEL_I2C_ADDRESS, with the R/W bit clear
  FlagRead,       \* the read bit of the flag byte: 0x80; the rest is the length
  PanelRoom,      \* entries of data_buffer: 128
  Printed,        \* how many bytes process_cmd prints by name for a command
  SpiCmdW,        \* UIBC_SPI_CMD_W
  SpiDataW,       \* UIBC_SPI_DATA_W
  SetBooster, Ev, \* the display's commands that have a parameter
  SpiRow          \* data bytes printed in a row: 16

\* The lengths that a flag byte can say fit the buffer: both are 128 in the code.
ASSUME PanelAssumption ==
  /\ PanelAddress \in Nat /\ PanelAddress % 2 = 0
  /\ FlagRead \in Nat \ {0} /\ PanelRoom \in Nat /\ FlagRead <= PanelRoom

\* spi: the statics of panel_spi.c.  report: what process_cmd printed.
SpiCreated == [state |-> "CMD", last_type |-> "CMD", data_count |-> 0]
NoReport   == [cmd |-> -1]
PanelCreated ==
  [state |-> "IDLE", cmd |-> 0, flag |-> 0, data_length |-> 0, data_count |-> 0,
   data |-> [i \in 0..PanelRoom - 1 |-> 0], spi |-> SpiCreated,
   report |-> NoReport]

-----------------------------------------------------------------------------
(* panel_spi.c: a parameter is the next command byte, whatever data comes   *)
(* in between.                                                              *)

SpiCmd(s, byte) ==
  [s EXCEPT !.last_type = "CMD",
            !.state = CASE s.state # "CMD"    -> "CMD"
                        [] byte = SetBooster  -> "BOOSTER"
                        [] byte = Ev          -> "EV"
                        [] OTHER              -> "CMD"]

SpiData(s) ==
  [s EXCEPT !.last_type = "DATA",
            !.data_count = IF s.last_type = "CMD" \/ @ = SpiRow THEN 1 ELSE @ + 1]

-----------------------------------------------------------------------------
(* panel_i2c.c *)

PanelIdle(p, byte, is_start) ==
  IF is_start = 1 /\ byte - (byte % 2) = PanelAddress
  THEN IF byte % 2 = 1 THEN [p EXCEPT !.data_count = 0, !.state = "DATA"]
                       ELSE [p EXCEPT !.state = "FLAG_BYTE"]
  ELSE p

\* A mutant: the count of the last command's data is not cleared.
PanelCmdKeepsCount(p, byte) ==
  [p EXCEPT !.cmd = byte, !.data_length = p.flag % FlagRead,
            !.state = IF p.flag < FlagRead THEN "DATA" ELSE "IDLE"]

\* The data of a write follow; those of a read come in a transaction of their own.
PanelCmd(p, byte) ==
  LET c == [p EXCEPT !.cmd = byte, !.data_length = p.flag % FlagRead]
  IN  IF p.flag < FlagRead THEN [c EXCEPT !.data_count = 0, !.state = "DATA"]
                           ELSE [c EXCEPT !.state = "IDLE"]

\* process_cmd: the data are printed, and then by name as many entries of the
\* buffer as the command should have, whatever its length was.
ProcessCmd(p) ==
  LET n == p.data_count
      spi == CASE p.cmd = SpiCmdW  -> SpiCmd(p.spi, p.data[0])
               [] p.cmd = SpiDataW ->
                    LET after[i \in 0..n] ==
                          IF i = 0 THEN p.spi ELSE SpiData(after[i - 1])
                    IN  after[n]
               [] OTHER            -> p.spi
  IN  [p EXCEPT !.spi = spi,
         !.report = [cmd   |-> p.cmd,
                     data  |-> [i \in 1..n |-> p.data[i - 1]],
                     named |-> [i \in 1..Printed[p.cmd] |-> p.data[i - 1]]]]

\* Only an announced length of 0 ever fills the buffer: the count is 1 when it is
\* first compared, and starts again from 0 behind the last entry.
PanelData(p, byte) ==
  LET at == IF p.data_count >= PanelRoom THEN 0 ELSE p.data_count
      c  == [p EXCEPT !.data[at] = byte, !.data_count = at + 1]
  IN  IF c.data_count = c.data_length
      THEN [ProcessCmd(c) EXCEPT !.state = "IDLE"]
      ELSE c

\* panel_i2c
Panel(p, byte, is_start) ==
  CASE p.state = "IDLE" -> PanelIdle(p, byte, is_start)
    [] p.state = "FLAG_BYTE" -> [p EXCEPT !.flag = byte, !.state = "CMD"]
    [] p.state = "CMD" -> PanelCmd(p, byte)
    [] p.state = "DATA" -> PanelData(p, byte)
=============================================================================
