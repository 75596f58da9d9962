---------------------------- MODULE MCLr1110Host ----------------------------
(* Hosts of the LR1110: one receives, one looks for its position by Wi-Fi and   *)
(* satellites, one minds its interrupts; two more for what is refuted.  Each    *)
(* has plain commands beside those the decoder treats in its own way, and may   *)
(* skip responses or not.                                                       *)
EXTENDS Lr1110Host

HostsWith(commands, irqs) ==
  [commands : {commands}, irqs : {irqs}, talks_over : BOOLEAN]

ReceiveCommands ==
  In("SYSTEM", {"READ_BUFFER_8", "SET_SLEEP"})
  \cup In("RADIO", {"SET_PACKET_PARAM", "GET_RX_BUFFER_STATUS", "SET_RF_FREQUENCY"})
  \cup In("CRYPTO", {"COMPUTE_AES_CMAC"})
ScanCommands ==
  In("WIFI", {"READ_RESULTS", "SCAN_TIME_LIMIT"})
  \cup In("GNSS", {"READ_RESULTS", "GET_RESULT_SIZE"})
  \cup In("SYSTEM", {"WRITE_REG_MEM_32"})
IrqCommands ==
  In("SYSTEM", {"GET_STATUS", "CLEAR_IRQ", "SET_DIO_IRQ_PARAMS", "GET_VERSION"})
  \cup In("RADIO", {"SET_RX"})
  \cup In("GNSS", {"GET_SV_DETECTED"})
MixedHosts ==
  HostsWith(ReceiveCommands, {}) \cup HostsWith(ScanCommands, {})
  \cup HostsWith(IrqCommands, {"TX_DONE", "RX_DONE"})

BufferHosts ==
  HostsWith(In("RADIO", {"GET_RX_BUFFER_STATUS"}) \cup In("SYSTEM", {"READ_BUFFER_8"}), {})

StatusHosts ==
  HostsWith(In("SYSTEM", {"GET_STATUS"}) \cup In("RADIO", {"SET_RX"}),
            {"TX_DONE", "PREAMBLE_DETECTED"})
=============================================================================
