------------------------------- MODULE I2cBus -------------------------------
(***************************************************************************)
(* The I2C decoder on its bus.  On an orderly bus the data line moves      *)
(* while the clock is high only to signal START or STOP, and a byte that   *)
(* is not acknowledged is the last one of its transaction.  A master may   *)
(* abort a transaction with START or STOP at any bit.  The decoder is      *)
(* shown to implement I2cTransactions there.  On any other bus, or on no   *)
(* bus at all, the lines are arbitrary, as in I2cParser.                   *)
(***************************************************************************)
EXTENDS I2cParser

CONSTANT MaxBits  \* bound on the bits of one transaction

VARIABLES
  orderly, \* the bus keeps the protocol: settled before the first frame
  open,   \* the master has signalled START and not yet STOP
  bits,   \* the bits the master has clocked since START
  begun   \* the time of that START: its number, modulo 2

busVars == <<orderly, open, bits, begun>>

BusInit ==
  /\ Init
  /\ orderly \in BOOLEAN
  /\ open = FALSE
  /\ bits = <<>>
  /\ begun = 0

\* Byte n and its acknowledge have been clocked and the slave, or a reading
\* master, refused: one more bit may follow, the clock pulse in which the master
\* prepares STOP or repeated START.
Refused ==
  \E i \in 1..Len(bits) : i % (ByteBits + 1) = 0 /\ bits[i] = 1 /\ Len(bits) > i

StartBus ==
  /\ scl = 1 /\ sda = 1
  /\ ProcessFrame(1, 0, 1 - begun)
  /\ open' = TRUE /\ bits' = <<>> /\ begun' = 1 - begun /\ UNCHANGED orderly

StopBus ==
  /\ scl = 1 /\ sda = 0
  /\ ProcessFrame(1, 1, begun)
  /\ open' = FALSE /\ bits' = <<>> /\ UNCHANGED <<orderly, begun>>

\* The clock falls; the data line may move in the same frame.
ClockFall ==
  /\ scl = 1
  /\ \E dta \in Level : ProcessFrame(0, dta, begun)
  /\ UNCHANGED busVars

DataChange ==
  /\ scl = 0
  /\ ProcessFrame(0, 1 - sda, begun)
  /\ UNCHANGED busVars

\* A frame in which nothing moves, as the CSV loop synthesizes them.
Idle ==
  /\ ProcessFrame(scl, sda, begun)
  /\ UNCHANGED busVars

ClockBit ==
  /\ scl = 0
  /\ open => Len(bits) < MaxBits /\ ~Refused
  /\ ProcessFrame(1, sda, begun)
  /\ bits' = IF open THEN Append(bits, sda) ELSE bits
  /\ UNCHANGED <<orderly, open, begun>>

OrderlyStep ==
  ~i2c.exited /\ (StartBus \/ StopBus \/ ClockFall \/ DataChange \/ Idle \/ ClockBit)

BusNext ==
  \/ orderly /\ OrderlyStep
  \/ ~orderly /\ Frame /\ UNCHANGED busVars
  \/ Exited /\ UNCHANGED busVars

BusSpec == BusInit /\ [][BusNext]_<<vars, busVars>>

-----------------------------------------------------------------------------

\* What a step of the orderly bus reports.
Reported == IF orderly THEN i2c.flushed ELSE NoPacket

\* The decoder reports exactly the bytes the bus carried, each transaction once,
\* at the STOP or repeated START that ends it and with the time of the START that
\* opened it (i2c_parser.c:109-140, 279-290); transactions that were aborted,
\* refused or repeated leave nothing behind for the next one.
Promise == INSTANCE I2cTransactions WITH report <- Reported, Times <- {0, 1}
ReportsTransactions == Promise!Spec

\* The program gives up on no transaction that fits its buffer of 32 bytes.
GivesUpOnlyOnOverflow == orderly /\ i2c.exited => Promise!NumBytes > MaxPacket
=============================================================================
