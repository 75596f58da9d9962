------------------------------ MODULE LegacyBus ------------------------------
(***************************************************************************)
(* The first-generation I2C decoders with their listeners, at the end of   *)
(* their bus.  A master performs transactions, complete and aborted ones,  *)
(* addressed to devices that answer or do not; the clock line has glitches *)
(* that the decoder is to filter.  Every step is a frame: the bus moves,   *)
(* the decoder sees the lines, and its listeners are called.               *)
(*                                                                         *)
(* The bus: a clock level is held for longer than the debouncing takes;    *)
(* the data line moves at any time while the clock is low, and while it is *)
(* high only to signal START or STOP; between two edges of the clock there *)
(* are at most Debounce frames of glitches, once the level has settled.    *)
(***************************************************************************)
EXTENDS ParserI2c, BootloaderI2c, PanelI2c, St25dv, SequencesExt

CONSTANTS
  Transactions, \* for each decoder, what its master may do: bytes, and the last ACK
  MaxTransactions

ASSUME TransactionsAssumption ==
  /\ Transactions \in [{"i2c", "i2c_2"} -> SUBSET [bytes : Seq(Byte), last_ack : Level]]
  /\ \A d \in {"i2c", "i2c_2"} : \A t \in Transactions[d] : t.bytes # <<>>
  /\ MaxTransactions \in Nat

ASSUME PrintedAssumption == Printed \in [Byte -> Nat]

VARIABLES
  decoder,    \* "i2c" (parser_i2c.c) or "i2c_2" (parser_i2c_2.c)
  bootloader, panel, tag, \* the listeners
  clk, sda,   \* the lines, without the glitches
  held,       \* frames for which the clock has been held, up to Hold
  noise,      \* glitches since the clock's last edge
  txn,        \* the transaction in progress, or NoTxn
  slot,       \* the clock pulses begun in it
  left,       \* the transactions still to come
  told,       \* history: the calls of the listeners since the last START
  before,     \* history: which listeners were idle when the transaction began
  asked,      \* history: the command whose data the panel is asked for next
  label       \* history: where the last write to the tag went, or Unknown

listeners == <<bootloader, panel, tag>>
busVars   == <<decoder, clk, sda, held, noise, txn, slot, left>>
vars      == <<i2c, listeners, busVars, told, before, asked, label>>

Hold      == Debounce + 1
NoTxn     == [bytes |-> <<>>, last_ack |-> 0]
NoRequest == [cmd |-> -1, length |-> 0]
Unknown   == -1

Init ==
  /\ decoder \in {"i2c", "i2c_2"}
  /\ i2c = Created
  /\ bootloader = BootloaderCreated
  /\ panel = PanelCreated
  /\ tag = StCreated
  /\ clk = 1 /\ sda = 1 /\ held = 0 /\ noise = 0
  /\ txn = NoTxn /\ slot = 0 /\ left = MaxTransactions
  /\ told = <<StopCall>>
  /\ before = [bootloader |-> FALSE, panel |-> FALSE]
  /\ asked = NoRequest
  /\ label = Unknown

-----------------------------------------------------------------------------
(* The calls of a frame. *)

ToBootloader(b, call) ==
  IF call.is = "byte" THEN Bootloader(b, call.byte, call.is_start) ELSE b

ToPanel(p, call) ==
  IF call.is = "byte" THEN Panel(p, call.byte, call.is_start) ELSE p

ToTag(s, call) ==
  IF call.is = "byte" THEN StByte(s, call.byte) ELSE ProcessPacket(s)

Remember(calls, call) ==
  IF call.is = "start" THEN <<>> ELSE Append(calls, call)

\* What the calls of a frame make of a listener: two calls at most, the clock and the
\* data line having one edge each.
Hears(Listen(_, _), listener, calls) ==
  CASE Len(calls) = 0 -> listener
    [] Len(calls) = 1 -> Listen(listener, calls[1])
    [] Len(calls) = 2 -> Listen(Listen(listener, calls[1]), calls[2])

\* A frame with these lines; begins: a transaction does, and what the listeners
\* printed before it is forgotten.
Frame(clock, data, begins) ==
  /\ ProcessFrame(clock, data)
  /\ LET b == IF begins THEN [bootloader EXCEPT !.log = <<>>] ELSE bootloader
         p == IF begins THEN [panel EXCEPT !.report = NoReport] ELSE panel
     IN  /\ bootloader' = Hears(ToBootloader, b, i2c'.calls)
         /\ panel' = IF decoder = "i2c" THEN Hears(ToPanel, p, i2c'.calls) ELSE p
  /\ tag' = IF decoder = "i2c_2" THEN Hears(ToTag, tag, i2c'.calls) ELSE tag
  /\ told' = Hears(Remember, told, i2c'.calls)

-----------------------------------------------------------------------------
(* The bus.  A byte takes its bits and an ACK; one more pulse of the clock  *)
(* prepares STOP or repeated START.                                         *)

Pulses    == AddrBits + 2
Slots     == Pulses * Len(txn.bytes)
Settled   == held = Hold
Held      == IF held < Hold THEN held + 1 ELSE held

\* The level of the data line in a pulse, the first of a transaction being 0.
BitIn(pulse) ==
  LET byte == txn.bytes[pulse \div Pulses + 1]
      bit  == pulse % Pulses
  IN  IF bit <= AddrBits THEN (byte \div Shl[AddrBits - bit]) % 2
      ELSE IF pulse + 1 = Slots THEN txn.last_ack ELSE 0

Stay ==
  /\ Frame(clk, sda, FALSE)
  /\ held' = Held
  /\ UNCHANGED <<decoder, clk, sda, noise, txn, slot, left, before, asked, label>>

Glitch ==
  /\ Settled /\ noise < Debounce
  /\ Frame(1 - clk, sda, FALSE)
  /\ noise' = noise + 1
  /\ UNCHANGED <<decoder, clk, sda, held, txn, slot, left, before, asked, label>>

ClockFalls ==
  /\ clk = 1 /\ Settled /\ txn # NoTxn /\ slot <= Slots
  /\ \E data \in Level : Frame(0, data, FALSE) /\ sda' = data
  /\ clk' = 0 /\ held' = 1 /\ noise' = 0
  /\ UNCHANGED <<decoder, txn, slot, left, before, asked, label>>

DataMoves ==
  /\ clk = 0
  /\ Frame(0, 1 - sda, FALSE)
  /\ sda' = 1 - sda
  /\ held' = Held
  /\ UNCHANGED <<decoder, clk, noise, txn, slot, left, before, asked, label>>

ClockRises ==
  /\ clk = 0 /\ Settled
  /\ slot < Slots => sda = BitIn(slot)
  /\ Frame(1, sda, FALSE)
  /\ clk' = 1 /\ held' = 1 /\ noise' = 0
  /\ slot' = slot + 1
  /\ UNCHANGED <<decoder, sda, txn, left, before, asked, label>>

\* The last clock pulse of a transaction is up.
Ending == txn # NoTxn /\ slot = Slots + 1 /\ clk = 1 /\ Settled

ToPanelNow == Head(txn.bytes) \in {PanelAddress, PanelAddress + 1}
ToTagNow   == Head(txn.bytes) - (Head(txn.bytes) % 2) \in {UserAddress, SysAddress}
IsWrite    == Head(txn.bytes) % 2 = 0

\* What a transaction leaves behind in the devices.
Over ==
  /\ asked' = IF ~ToPanelNow THEN asked
              ELSE IF /\ before.panel /\ IsWrite
                      /\ Len(txn.bytes) = 3 /\ txn.bytes[2] >= FlagRead
              THEN [cmd |-> txn.bytes[3], length |-> txn.bytes[2] % FlagRead]
              ELSE NoRequest
  /\ label' = IF Len(txn.bytes) > StRoom THEN Unknown
              ELSE IF ToTagNow /\ IsWrite /\ Len(txn.bytes) >= 3
              THEN OffsetValues * txn.bytes[2] + txn.bytes[3]
              ELSE label

Begin ==
  /\ left > 0
  /\ left' = left - 1
  /\ txn' \in Transactions[decoder]
  /\ slot' = 0
  /\ sda' = 0
  /\ Frame(1, 0, TRUE)
  /\ before' = [bootloader |-> bootloader.state = "IDLE", panel |-> panel.state = "IDLE"]
  /\ UNCHANGED <<decoder, clk, held, noise>>

Start ==
  /\ txn = NoTxn /\ Settled
  /\ Begin
  /\ UNCHANGED <<asked, label>>

RepeatedStart ==
  /\ Ending /\ sda = 1
  /\ Begin
  /\ Over

Stop ==
  /\ Ending /\ sda = 0
  /\ Frame(1, 1, FALSE)
  /\ txn' = NoTxn /\ slot' = 0 /\ sda' = 1
  /\ Over
  /\ UNCHANGED <<decoder, clk, held, noise, left, before>>

Next ==
  \/ Stay \/ Glitch \/ ClockFalls \/ DataMoves \/ ClockRises
  \/ Start \/ RepeatedStart \/ Stop

Spec == Init /\ [][Next]_vars

-----------------------------------------------------------------------------

\* The listeners hear what the bus carries, each byte once, when its last bit has
\* been clocked, an address marked as such, between one START and one STOP:
\* glitches of the clock neither add a bit nor lose one (parser_i2c.c:367, where
\* the count goes on from the glitch before), a byte that is refused leaves nothing
\* in the accumulator, nor does the pulse that prepares STOP.
HandsOnBytes ==
  LET Heard(k) ==
        slot >= Pulses * (k - 1) + (IF k = 1 THEN Pulses ELSE AddrBits + 1)
      heard == {k \in DOMAIN txn.bytes : Heard(k)}
  IN  Settled =>
        IF txn = NoTxn
        THEN told # <<>> /\ Last(told) = StopCall
        ELSE told = [k \in 1..Cardinality(heard) |->
                       ByteCall(txn.bytes[k], IF k = 1 THEN 1 ELSE 0)]

\* All of a transaction has been clocked.
Clocked == txn # NoTxn /\ slot >= Slots /\ Settled

Sent(first, n) == SubSeq(txn.bytes, first, first + n - 1)

\* A command written to the panel in one transaction, or the data it was asked for
\* in the transaction that asked for them.
WritesCommand ==
  /\ Head(txn.bytes) = PanelAddress
  /\ Len(txn.bytes) > 3 /\ Len(txn.bytes) = 3 + txn.bytes[2]
  /\ txn.bytes[2] < FlagRead
ReadsCommand ==
  /\ Head(txn.bytes) = PanelAddress + 1
  /\ asked.length > 0 /\ Len(txn.bytes) = 1 + asked.length

PanelPrints(cmd, data) ==
  /\ panel.state = "IDLE"
  /\ panel.report.cmd = cmd
  /\ panel.report.data = data
  /\ Printed[cmd] <= Len(data) => panel.report.named = Sent(Len(txn.bytes) - Len(data) + 1, Printed[cmd])

\* The panel's decoder, when it is idle as a transaction begins, prints a command
\* with the data that were written with it, or that were read for it, whatever went
\* to other devices in between, and nothing when another device is addressed, even
\* if the bytes for that device look like its address (panel_i2c.c:60).
PanelPrintsCommands ==
  decoder = "i2c" /\ Clocked /\ before.panel =>
    /\ WritesCommand => PanelPrints(txn.bytes[3], Sent(4, txn.bytes[2]))
    /\ ReadsCommand  => PanelPrints(asked.cmd, Sent(2, asked.length))
    /\ ~ToPanelNow   => panel.state = "IDLE" /\ panel.report = NoReport

\* A packet of the boot loader, in a transaction of either direction.  Its payload
\* may be empty.
BootloaderPacket ==
  /\ Head(txn.bytes) \in {BootloaderAddress, BootloaderAddress + 1}
  /\ Len(txn.bytes) >= 8
  /\ txn.bytes[2] = SOP /\ Last(txn.bytes) = EOP
  /\ Len(txn.bytes) = 8 + txn.bytes[4] + ByteValues * txn.bytes[5]

\* The boot loader's decoder, when it is idle as a transaction begins, prints the
\* command and the payload of a packet and is idle again at its end, and prints
\* nothing of what goes to another device.  The one packet it does not come back from
\* has no payload: the count is 1 when it is first compared with the size
\* (bootloader_i2c.c:133), the checksum and EOP are printed as data, and the decoder
\* still waits for data, of whatever device, when the transaction is over.
BootloaderPrintsPackets ==
  Clocked /\ before.bootloader =>
    /\ BootloaderPacket /\ Len(txn.bytes) > 8 =>
         /\ bootloader.state = "IDLE"
         /\ bootloader.log = <<txn.bytes[3]>> \o Sent(6, Len(txn.bytes) - 8)
    /\ BootloaderPacket /\ Len(txn.bytes) = 8 =>
         /\ bootloader.state = "DATA"
         /\ bootloader.log = <<txn.bytes[3]>> \o Sent(6, 3)
    /\ Head(txn.bytes) \notin {BootloaderAddress, BootloaderAddress + 1} =>
         bootloader.state = "IDLE" /\ bootloader.log = <<>>

\* What the decoder of the tag should print of the transaction that ends.
TagPrints(report) ==
  IF ~ToTagNow \/ (IsWrite /\ Len(txn.bytes) < 3)
  THEN report = NothingPrinted
  ELSE /\ report.dir = IF IsWrite THEN "write" ELSE "read"
       /\ report.sys = (Head(txn.bytes) - (Head(txn.bytes) % 2) = SysAddress)
       /\ IF IsWrite
          THEN /\ report.offset = OffsetValues * txn.bytes[2] + txn.bytes[3]
               /\ report.payload = Sent(4, Len(txn.bytes) - 3)
          ELSE /\ label # Unknown => report.offset = label
               /\ report.payload = Tail(txn.bytes)

\* Every transaction with the tag that fits the buffer is printed when it ends, as it
\* was on the bus and with the offset it said or, for a read, that of the last write,
\* whatever came before it: other devices' transactions, writes that were aborted,
\* addresses that were refused, or a transaction that overran the buffer
\* (st25dv.c:62, 327, 362).
TagPrintsTransactions ==
  [][(Stop \/ RepeatedStart) /\ decoder = "i2c_2" /\ Len(txn.bytes) <= StRoom
     => TagPrints(tag'.report)]_vars
=============================================================================
