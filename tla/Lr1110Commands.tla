--------------------------- MODULE Lr1110Commands ---------------------------
(***************************************************************************)
(* The command level of the LR1110 decoder (lr1110/*.c): what parse_packet *)
(* makes of one SPI packet, chip select to chip select.  Many commands are *)
(* answered in the next packet, whose first bytes say nothing: the decoder *)
(* remembers the pending command and takes the next packet of two bytes or *)
(* more for its response.                                                  *)
(*                                                                         *)
(* A packet is [group, cmd, arg, nb, count, flags]: the group and the      *)
(* command in its first two bytes sent, the one parameter or result the    *)
(* decoder keeps, the number of Wi-Fi results it asks for, its length, and *)
(* the interrupts its mask names.                                          *)
(*                                                                         *)
(* Left out is what is only printed: counters of commands, the number of   *)
(* satellites, the time before (rx_cnt, tx_cnt, satellites_detected,       *)
(* last_time_secs), and packet_type, which only adds a warning to the line *)
(* of SET_PACKET_PARAM (radio.c:184).                                      *)
(***************************************************************************)
EXTENDS Integers

CONSTANT EntrySize  \* bytes of a Wi-Fi result: 22

ASSUME EntrySizeAssumption == EntrySize \in Nat \ {0}

\* The commands a switch has a case for.
SystemCommands ==
  {"CALIBRATE", "CLEAR_ERRORS", "CLEAR_IRQ", "CLEAR_RX_BUFFER", "CONFIG_LF_CLOCK",
   "GET_DEV_EUI", "GET_ERRORS", "GET_JOIN_EUI", "GET_RANDOM", "SET_FS", "SET_STANDBY",
   "GET_STATUS", "GET_TEMP", "GET_VBAT", "GET_VERSION", "READ_BUFFER_8",
   "READ_DEVICE_PIN", "REBOOT", "SET_DIO_AS_RF_SWITCH", "SET_DIO_IRQ_PARAMS",
   "SET_REG_MODE", "SET_SLEEP", "SET_TCXO_MODE", "UNKNOWN_0108",
   "WRITE_REG_MEM_MASK32", "WRITE_BUFFER_8"}
RadioCommands ==
  {"AUTO_TX_RX", "GET_PACKET_STATUS", "GET_PACKET_TYPE", "GET_RX_BUFFER_STATUS",
   "GET_STATS", "LORA_SYNCH_TIMEOUT", "RADIO_SET_RSSI_CALIBRATION", "RESET_STATS",
   "SET_LORA_SYNC_WORD", "SET_LORA_PUBLIC_NETWORK", "SET_MODULATION_PARAM",
   "SET_PA_CFG", "SET_PACKET_PARAM", "SET_PACKET_TYPE", "SET_RF_FREQUENCY", "SET_RX",
   "SET_RX_BOOSTED", "SET_TX", "SET_TXCW", "SET_TX_PARAMS", "STOP_TIMEOUT_ON_PREAMBLE"}
WifiCommands ==
  {"COUNTRY_CODE", "GET_NB_RESULTS", "READ_CUMUL_TIMING", "READ_RESULTS",
   "SCAN_TIME_LIMIT", "CONFIGURE_TIMESTAMP_AP_PHONE", "RESET_CUMUL_TIMING"}
GnssCommands ==
  {"ALMANAC_FULL_UPDATE", "GET_NB_SV_DETECTED", "GET_SV_DETECTED", "GET_CONSUMPTION",
   "GET_CONTEXT_STATUS", "PUSH_SOLVER_MSG", "SET_CONSTELLATION", "SCAN", "SET_MODE",
   "GET_RESULT_SIZE", "READ_ALMANAC_UPDATE", "READ_ASSISTANCE_POS",
   "READ_CONSTELLATION", "READ_RESULTS", "SET_ASSISTANCE_POS", "SET_FREQ_SEARCH_SPACE",
   "READ_FREQ_SEARCH_SPACE", "UNKNOWN_0x0F", "GET_SV_VISIBLE",
   "GET_SV_VISIBLE_DOPPLER", "READ_TIME", "READ_LAST_SCAN_MODE_LAUNCHED",
   "READ_CUMULATIVE_TIMING"}
CryptoCommands ==
  {"AES_ENCRYPT01", "COMPUTE_AES_CMAC", "DERIVE_AND_STORE_KEY", "PROCESS_JOIN_ACCEPT",
   "RESTORE_FROM_FLASH", "SET_KEY", "STORE_TO_FLASH", "VERIFY_AES_CMAC", "UNKNOWN_0x10"}

In(group, cmds) == {[group |-> group, cmd |-> c] : c \in cmds}

KnownCommands ==
  In("SYSTEM", SystemCommands) \cup In("RADIO", RadioCommands)
  \cup In("WIFI", WifiCommands) \cup In("GNSS", GnssCommands)
  \cup In("CRYPTO", CryptoCommands)

\* The commands whose case calls set_pending_cmd; each has a case for its response.
SystemTwoPhase ==
  {"GET_DEV_EUI", "GET_ERRORS", "GET_JOIN_EUI", "GET_RANDOM", "GET_VBAT", "GET_VERSION",
   "READ_BUFFER_8", "READ_DEVICE_PIN"}
RadioTwoPhase ==
  {"GET_PACKET_STATUS", "GET_PACKET_TYPE", "GET_RX_BUFFER_STATUS", "GET_STATS"}
WifiTwoPhase == {"GET_NB_RESULTS", "READ_CUMUL_TIMING", "READ_RESULTS"}
GnssTwoPhase ==
  {"GET_NB_SV_DETECTED", "GET_SV_DETECTED", "GET_CONSUMPTION", "GET_CONTEXT_STATUS",
   "GET_RESULT_SIZE", "READ_ALMANAC_UPDATE", "READ_ASSISTANCE_POS", "READ_CONSTELLATION",
   "READ_RESULTS", "GET_SV_VISIBLE", "READ_TIME", "READ_LAST_SCAN_MODE_LAUNCHED",
   "READ_CUMULATIVE_TIMING"}
CryptoTwoPhase == {"COMPUTE_AES_CMAC"}

TwoPhase ==
  In("SYSTEM", SystemTwoPhase) \cup In("RADIO", RadioTwoPhase)
  \cup In("WIFI", WifiTwoPhase) \cup In("GNSS", GnssTwoPhase)
  \cup In("CRYPTO", CryptoTwoPhase)

Nothing == [group |-> "ZERO", cmd |-> "NONE"]

VARIABLES
  pending,                \* pending_group and pending_cmd, or Nothing
  last_command_was_sleep,
  irq_rise_time,
  tx_done_irq_rise_time,
  pld_len_in_bytes,       \* length the radio reported, or was told to send
  payload_length,         \* size of the GNSS result, as the radio reported it
  format,                 \* of the Wi-Fi results asked for
  nb_results,             \* how many were asked for
  exited,                 \* why the program has given up, or "no"
  printed                 \* the bytes it has just printed by a length it has kept

decoderVars ==
  <<pending, last_command_was_sleep, irq_rise_time, tx_done_irq_rise_time,
    pld_len_in_bytes, payload_length, format, nb_results, exited, printed>>

\* The loop that has printed them and the highest index it reached.
NothingPrinted == [loop |-> "none", highest |-> 0]

DecoderInit ==
  /\ pending = Nothing
  /\ last_command_was_sleep = FALSE
  /\ irq_rise_time = 0
  /\ tx_done_irq_rise_time = 0
  /\ pld_len_in_bytes = 0
  /\ payload_length = 0
  /\ format = 0
  /\ nb_results = 0
  /\ exited = "no"
  /\ printed = NothingPrinted

Command(packet) == [group |-> packet.group, cmd |-> packet.cmd]

\* What parse_packet and get_command take the packet for.
Reading(packet) ==
  IF pending # Nothing
  THEN [command |-> pending, response |-> TRUE]
  ELSE [command |-> Command(packet), response |-> FALSE]

Is(packet, group, cmd, response) ==
  Reading(packet) = [command |-> [group |-> group, cmd |-> cmd], response |-> response]

\* Mutant: the mask of CLEAR_IRQ is not looked at.
PrintsIrqStatus(packet) ==
  \E cmd \in {"GET_STATUS", "SET_DIO_IRQ_PARAMS"} : Is(packet, "SYSTEM", cmd, FALSE)

\* The commands that print an interrupt mask go through parse_irq.
PrintsIrq(packet) ==
  \E cmd \in {"CLEAR_IRQ", "GET_STATUS", "SET_DIO_IRQ_PARAMS"} :
    Is(packet, "SYSTEM", cmd, FALSE)

\* Where the switches of the groups exit: a command without a case (an unknown
\* group is only reported), a result format other than 1, a frequency that is no
\* channel.
Unhandled(packet) ==
  /\ ~Reading(packet).response
  /\ packet.group \in {"SYSTEM", "RADIO", "WIFI", "GNSS", "CRYPTO"}
  /\ Command(packet) \notin KnownCommands
BadFormat(packet) == Is(packet, "WIFI", "READ_RESULTS", TRUE) /\ format # 1
BadFrequency(packet) == Is(packet, "RADIO", "SET_RF_FREQUENCY", FALSE) /\ packet.arg = 0

Outcome(packet) ==
  CASE Unhandled(packet)    -> "unhandled"
    [] BadFormat(packet)    -> "format"
    [] BadFrequency(packet) -> "frequency"
    [] OTHER                -> "no"

\* Mutants of PendingAfter: the pending command is not forgotten; a packet that is
\* read in full pends, whatever it is.
PendingAfterKept(packet) ==
  IF Command(packet) \in TwoPhase /\ pending = Nothing THEN Command(packet) ELSE pending
PendingAfterAll(packet) == IF pending = Nothing THEN Command(packet) ELSE Nothing

\* get_command forgets the pending command; a case of the switch sets the next one.
PendingAfter(packet) ==
  IF pending = Nothing /\ Command(packet) \in TwoPhase THEN Command(packet) ELSE Nothing

\* parse_irq: a mask with TX_DONE takes the time of the last rise of the line.
TxDoneTimeAfter(packet) ==
  IF PrintsIrq(packet) /\ "TX_DONE" \in packet.flags
  THEN irq_rise_time ELSE tx_done_irq_rise_time

\* The length of a payload received, or of one to be sent.
LengthAfter(packet) ==
  IF \/ Is(packet, "RADIO", "GET_RX_BUFFER_STATUS", TRUE)
     \/ Is(packet, "RADIO", "SET_PACKET_PARAM", FALSE)
  THEN packet.arg ELSE pld_len_in_bytes

SizeAfter(packet) ==
  IF Is(packet, "GNSS", "GET_RESULT_SIZE", TRUE) THEN packet.arg ELSE payload_length

FormatAfter(packet) ==
  IF Is(packet, "WIFI", "READ_RESULTS", FALSE) THEN packet.arg ELSE format

NbResultsAfter(packet) ==
  IF Is(packet, "WIFI", "READ_RESULTS", FALSE) THEN packet.nb ELSE nb_results

\* Mutant: the size of the GNSS result is taken for an index behind the status byte.
PrintedLate(packet) ==
  CASE Is(packet, "SYSTEM", "READ_BUFFER_8", TRUE) ->
         [loop |-> "payload", highest |-> pld_len_in_bytes + 1]
    [] Is(packet, "WIFI", "READ_RESULTS", TRUE) /\ format = 1 ->
         [loop |-> "wifi", highest |-> nb_results * EntrySize]
    [] Is(packet, "GNSS", "READ_RESULTS", TRUE) ->
         [loop |-> "gnss", highest |-> payload_length + 1]
    [] OTHER -> NothingPrinted

\* Three loops run over a response as far as a length from another packet says:
\* one prints miso[i + 1] for i up to the length of the payload, one the bytes of
\* every Wi-Fi result behind the status byte, one miso[i] for i up to the size of
\* the GNSS result.
Printed(packet) ==
  CASE Is(packet, "SYSTEM", "READ_BUFFER_8", TRUE) ->
         [loop |-> "payload", highest |-> pld_len_in_bytes + 1]
    [] Is(packet, "WIFI", "READ_RESULTS", TRUE) /\ format = 1 ->
         [loop |-> "wifi", highest |-> nb_results * EntrySize]
    [] Is(packet, "GNSS", "READ_RESULTS", TRUE) ->
         [loop |-> "gnss", highest |-> payload_length]
    [] OTHER -> NothingPrinted

\* parse_packet for a packet of two bytes or more.
ParsePacket(packet) ==
  /\ exited' = Outcome(packet)
  /\ pending' = PendingAfter(packet)
  /\ last_command_was_sleep' = Is(packet, "SYSTEM", "SET_SLEEP", FALSE)
  /\ tx_done_irq_rise_time' = TxDoneTimeAfter(packet)
  /\ pld_len_in_bytes' = LengthAfter(packet)
  /\ payload_length' = SizeAfter(packet)
  /\ format' = FormatAfter(packet)
  /\ nb_results' = NbResultsAfter(packet)
  /\ printed' = Printed(packet)
  /\ UNCHANGED irq_rise_time

\* Mutant: a wake-up pulse makes the decoder forget the command.
ShortPacketForgets ==
  /\ last_command_was_sleep' = FALSE
  /\ pending' = Nothing
  /\ printed' = NothingPrinted
  /\ UNCHANGED <<irq_rise_time, tx_done_irq_rise_time, pld_len_in_bytes,
                 payload_length, format, nb_results, exited>>

\* The chip select rises after fewer than two bytes, as when the host wakes the
\* radio or reads a response that is its status byte only: parse_packet returns at
\* once, a pending command is still pending, and only the sleep flag is gone.
ShortPacket ==
  /\ last_command_was_sleep' = FALSE
  /\ printed' = NothingPrinted
  /\ UNCHANGED <<pending, irq_rise_time, tx_done_irq_rise_time, pld_len_in_bytes,
                 payload_length, format, nb_results, exited>>

\* Mutant: the time of the frame after.
IrqRiseNextFrame(now) ==
  /\ irq_rise_time' = now + 1
  /\ printed' = NothingPrinted
  /\ UNCHANGED <<pending, last_command_was_sleep, tx_done_irq_rise_time,
                 pld_len_in_bytes, payload_length, format, nb_results, exited>>

\* The interrupt line rises.
IrqRise(now) ==
  /\ irq_rise_time' = now
  /\ printed' = NothingPrinted
  /\ UNCHANGED <<pending, last_command_was_sleep, tx_done_irq_rise_time,
                 pld_len_in_bytes, payload_length, format, nb_results, exited>>
=============================================================================
