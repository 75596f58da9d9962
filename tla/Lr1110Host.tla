----------------------------- MODULE Lr1110Host -----------------------------
(***************************************************************************)
(* The LR1110 decoder listening to a host and its radio.  The host sends   *)
(* commands and reads the responses of those that have one, in the next    *)
(* packet and with zeros on its own line; now and then it skips a response *)
(* and sends another command, or pulses the chip select to wake the radio. *)
(* A response is a status byte and the bytes that are due, which may be    *)
(* none.  The radio keeps its line up while any of its interrupts is set.  *)
(***************************************************************************)
EXTENDS Lr1110Commands

CONSTANTS
  Hosts,  \* the hosts: their commands, their radio's interrupts, whether they skip responses
  Args,   \* the values of arg and of nb
  MaxTime \* bound on the number of interrupts

ASSUME HostAssumption ==
  /\ Hosts \subseteq [commands : SUBSET [group : STRING, cmd : STRING],
                      irqs : SUBSET STRING, talks_over : BOOLEAN]
  /\ Args \subseteq Nat

VARIABLES
  host,       \* settled before the first packet
  now,        \* the time, the number of interrupts so far
  owed,       \* the command whose response the host may read, or Nothing
  raised,     \* the interrupts set in the radio
  status_len, \* the length in the last GET_RX_BUFFER_STATUS response
  result_len, \* the size in the last GNSS GET_RESULT_SIZE response
  asked,      \* the number of Wi-Fi results last asked for
  last_count, \* history: the length of the last packet
  slips,      \* history: how many packets in a row were taken for something else
  since_bare, \* history: packets since a response that was a status byte only
  len_heard,  \* history: the decoder has its payload length from that response
  size_heard, \* history: and its GNSS size from that one
  tx_done_at, \* history: the times at which TX_DONE was set
  unseen,     \* history: TX_DONE was last set without an edge the decoder looks at
  unread,     \* history: TX_DONE was last cleared by a packet taken for another
  unset       \* history: TX_DONE was last named by a mask while it was not set

radioVars   == <<now, raised, tx_done_at, unseen, unread, unset>>
historyVars == <<last_count, slips, since_bare, len_heard, size_heard>>
hostVars    == <<host, owed, status_len, result_len, asked>>
vars        == <<decoderVars, hostVars, historyVars, radioVars>>

\* Packets are counted up to the bound Far, beyond which nothing refers to them.
Far == 3

Init ==
  /\ DecoderInit
  /\ host \in Hosts
  /\ now = 0
  /\ owed = Nothing
  /\ raised = {}
  /\ status_len = 0
  /\ result_len = 0
  /\ asked = 0
  /\ last_count = 0
  /\ slips = 0
  /\ since_bare = Far
  /\ len_heard = TRUE
  /\ size_heard = TRUE
  /\ tx_done_at = {}
  /\ unseen = FALSE
  /\ unread = FALSE
  /\ unset = FALSE

\* Where the decoder takes a length from, and what it should take it from.
StatusResponse == [command |-> [group |-> "RADIO", cmd |-> "GET_RX_BUFFER_STATUS"],
                   response |-> TRUE]
SizeResponse   == [command |-> [group |-> "GNSS", cmd |-> "GET_RESULT_SIZE"],
                   response |-> TRUE]
PacketParam    == [command |-> [group |-> "RADIO", cmd |-> "SET_PACKET_PARAM"],
                   response |-> FALSE]

\* The decoder is handed a packet of two bytes or more that is what "truth" says.
Hear(packet, truth) ==
  /\ exited = "no"
  /\ ParsePacket(packet)
  /\ last_count' = packet.count
  /\ slips' = IF Reading(packet) = truth THEN 0 ELSE slips + 1
  /\ since_bare' = IF since_bare < Far THEN since_bare + 1 ELSE Far
  /\ len_heard' =
       IF Reading(packet) = PacketParam \/ StatusResponse \in {Reading(packet), truth}
       THEN Reading(packet) = StatusResponse /\ truth = StatusResponse
       ELSE len_heard
  /\ size_heard' = IF SizeResponse \in {Reading(packet), truth}
                   THEN Reading(packet) = truth ELSE size_heard

\* It is handed one of fewer than two.
HearShort(count) ==
  /\ exited = "no"
  /\ ShortPacket
  /\ last_count' = count
  /\ UNCHANGED <<slips, len_heard, size_heard>>

\* The radio sets some interrupts, the decoder seeing the line rise or not.
Sets(irqs, seen) ==
  /\ irqs \cap raised = {}
  /\ IF irqs = {} THEN UNCHANGED now ELSE now < MaxTime /\ now' = now + 1
  /\ IF "TX_DONE" \in irqs
     THEN tx_done_at' = tx_done_at \cup {now'} /\ unseen' = ~seen
     ELSE UNCHANGED <<tx_done_at, unseen>>

\* An interrupt may be set in the frame in which a packet ends: the decoder leaves
\* that frame before it looks at the interrupt line (parser.c:104).
SetsBehind(irqs) ==
  /\ Sets(irqs, FALSE)
  /\ raised' = raised \cup irqs
  /\ UNCHANGED <<unread, unset>>

Names(command, cmd) == command = [group |-> "SYSTEM", cmd |-> cmd]

\* The interrupts a command can name: GET_STATUS reads those that are set, CLEAR_IRQ
\* clears any, SET_DIO_IRQ_PARAMS enables any, no other command names one.
FlagsOf(command) ==
  CASE Names(command, "GET_STATUS")         -> {raised}
    [] Names(command, "CLEAR_IRQ")          -> SUBSET host.irqs
    [] Names(command, "SET_DIO_IRQ_PARAMS") -> SUBSET host.irqs
    [] OTHER                                -> {{}}

\* The commands with a parameter that the decoder keeps or looks at.  What it reads in
\* a command that it takes for a response may be anything.
HaveArg ==
  In("RADIO", {"SET_PACKET_PARAM", "SET_RF_FREQUENCY"}) \cup In("WIFI", {"READ_RESULTS"})
ArgsOf(command) == IF command \in HaveArg \/ pending # Nothing THEN Args ELSE {0}

WifiResults == In("WIFI", {"READ_RESULTS"})
NbsOf(command) == IF command \in WifiResults THEN Args ELSE {0}

CommandPacket(command, arg, nb, flags) ==
  [group |-> command.group, cmd |-> command.cmd, arg |-> arg, nb |-> nb,
   count |-> 2, flags |-> flags]

\* What the command does to the interrupts, and what the decoder makes of its mask.
Clears(command, flags, heard) ==
  /\ unread' = IF Names(command, "CLEAR_IRQ") /\ "TX_DONE" \in flags \cap raised
               THEN ~heard ELSE unread
  /\ unset' = IF heard /\ "TX_DONE" \in flags THEN "TX_DONE" \notin raised ELSE unset

\* The host sends a command, its length 2 or more.
SendCommand(command, arg, nb, flags, irqs) ==
  LET packet == CommandPacket(command, arg, nb, flags)
      truth  == [command |-> command, response |-> FALSE]
  IN  /\ owed = Nothing \/ host.talks_over
      /\ Hear(packet, truth)
      /\ owed' = IF command \in TwoPhase THEN command ELSE Nothing
      /\ asked' = IF command \in WifiResults THEN nb ELSE asked
      /\ Clears(command, flags, Reading(packet) = truth)
      /\ Sets(irqs, FALSE)
      /\ raised' = (IF Names(command, "CLEAR_IRQ") THEN raised \ flags ELSE raised)
                     \cup irqs
      /\ UNCHANGED <<host, status_len, result_len>>

StatusOwed == owed \in In("RADIO", {"GET_RX_BUFFER_STATUS"})
SizeOwed   == owed \in In("GNSS", {"GET_RESULT_SIZE"})

\* The bytes due in a response behind the status byte: the payload, the Wi-Fi
\* results or the GNSS result in full, four for each of "arg" satellites, at least
\* one in any other.
Due(arg) ==
  CASE Names(owed, "READ_BUFFER_8")             -> status_len
    [] owed \in WifiResults                     -> asked * EntrySize
    [] owed \in In("GNSS", {"READ_RESULTS"})    -> result_len
    [] owed \in In("GNSS", {"GET_SV_DETECTED"}) -> 4 * arg
    [] OTHER                                    -> 1

ResponsePacket(arg) ==
  [group |-> "ZERO", cmd |-> "NONE", arg |-> arg, nb |-> 0, count |-> Due(arg) + 1,
   flags |-> {}]

\* The host reads the response.
ReadResponse(arg, irqs) ==
  /\ owed # Nothing
  /\ Due(arg) >= 1
  /\ Hear(ResponsePacket(arg), [command |-> owed, response |-> TRUE])
  /\ owed' = Nothing
  /\ status_len' = IF StatusOwed THEN arg ELSE status_len
  /\ result_len' = IF SizeOwed THEN arg ELSE result_len
  /\ SetsBehind(irqs)
  /\ UNCHANGED <<host, asked>>

\* The host reads a response that is its status byte only.
ReadBareResponse(arg, irqs) ==
  /\ owed # Nothing
  /\ Due(arg) = 0
  /\ HearShort(1)
  /\ since_bare' = 0
  /\ owed' = Nothing
  /\ SetsBehind(irqs)
  /\ UNCHANGED <<host, status_len, result_len, asked>>

\* The host pulses the chip select.
WakeUp(irqs) ==
  /\ HearShort(0)
  /\ SetsBehind(irqs)
  /\ UNCHANGED <<hostVars, since_bare>>

\* The radio sets an interrupt between packets; its line rises unless it is up
\* already.
Interrupt(irq) ==
  /\ exited = "no"
  /\ Sets({irq}, raised = {})
  /\ raised' = raised \cup {irq}
  /\ IF raised = {} THEN IrqRise(now') ELSE UNCHANGED decoderVars
  /\ UNCHANGED <<hostVars, historyVars, unread, unset>>

\* At most one interrupt is set in a frame.
AtMostOne == {{}} \cup {{irq} : irq \in host.irqs}

Next ==
  \/ \E command \in host.commands, irqs \in AtMostOne :
       \E arg \in ArgsOf(command), nb \in NbsOf(command), flags \in FlagsOf(command) :
         SendCommand(command, arg, nb, flags, irqs)
  \/ \E arg \in Args, irqs \in AtMostOne :
       ReadResponse(arg, irqs) \/ ReadBareResponse(arg, irqs)
  \/ \E irqs \in AtMostOne : WakeUp(irqs)
  \/ \E irq \in host.irqs : Interrupt(irq)

Spec == Init /\ [][Next]_vars

-----------------------------------------------------------------------------

TypeOK ==
  /\ pending \in TwoPhase \cup {Nothing}
  /\ {pld_len_in_bytes, payload_length, nb_results, format} \subseteq Args \cup {0}
  /\ exited \in {"no", "unhandled", "format", "frequency"}

\* A host that reads the responses it asked for is understood, whatever wake-up pulses
\* lie between a command and its response (parser.c:324 returns before get_command
\* forgets the command), but for at most two packets behind a response that is its
\* status byte only: an empty payload, no Wi-Fi results, no satellites, no GNSS
\* result.  Such a response is too short to be looked at, and the next packet is taken
\* for it.
UnderstandsPoliteHost == ~host.talks_over /\ since_bare > 2 => slips = 0

\* A host that talks over a response, or whose response is a status byte only, costs
\* at most two packets: the one taken for the missing response, and the one that
\* answers it.
BackInStep ==
  /\ slips <= 2
  /\ slips = 2 => pending = owed

\* Between packets the decoder waits for the response the host is owed, or for none:
\* it takes no packet for the response of an older command, but for the one packet
\* behind a response that is its status byte only.
NeverStale ==
  pending \in {owed, Nothing} \/ (since_bare = 0 /\ owed = Nothing)

\* system.c:451 says "If we have a TX_DONE interrupt, track the timestamp of the
\* interrupt going active": the time kept is one at which TX_DONE was set.
TxDoneTimeIsTxDone == tx_done_irq_rise_time \in tx_done_at \cup {0}

\* "Time since TX_DONE irq" (radio.c:229) may count from the rise of the line for an
\* older interrupt, when TX_DONE came while the line was up or in the frame that
\* ended a packet (parser.c:104); but it never counts from after the last TX_DONE.
\* The exception is a mask that names TX_DONE while it is not set, as the one of
\* SET_DIO_IRQ_PARAMS may: parse_irq takes it for an interrupt too.
DelayNeverShort == ~unset => \E time \in tx_done_at \cup {0} : tx_done_irq_rise_time <= time

\* When the last TX_DONE has raised the line in the decoder's sight and has been cleared
\* by a CLEAR_IRQ it has understood, "Time since TX_DONE irq" counts from that TX_DONE,
\* whatever interrupts came behind it on the same line, were cleared before it or have
\* raised the line since.
DelayCountsFromTxDone ==
  ~unseen /\ ~unread /\ ~unset /\ "TX_DONE" \notin raised /\ tx_done_at # {} =>
    /\ tx_done_irq_rise_time \in tx_done_at
    /\ \A time \in tx_done_at : time <= tx_done_irq_rise_time

\* What is printed of a response that is taken for what it is was received in it, up
\* to lengths that come from other packets (system.c:245, wifi.c:108, gnss.c:276): all
\* of the Wi-Fi and GNSS results, and all of a payload but for the one byte behind
\* it.  A payload or a GNSS result may be printed too far when the decoder missed the
\* packet with its length, or when a SET_PACKET_PARAM (radio.c:196) came after it.
PrintsWithinResponse ==
  slips = 0 =>
    /\ printed.loop = "payload" /\ len_heard => printed.highest <= last_count
    /\ printed.loop = "wifi" => printed.highest < last_count
    /\ printed.loop = "gnss" /\ size_heard => printed.highest < last_count

\* system.c:238 says "A stat1 is returned as the first byte of data, so add 1": what
\* is printed of the payload was received in the packet.
PrintsWhatWasRead ==
  slips = 0 /\ len_heard /\ printed.loop = "payload" => printed.highest < last_count
=============================================================================
