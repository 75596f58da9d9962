-------------------------- MODULE LegacyBus_proofs --------------------------
(***************************************************************************)
(* What the first-generation I2C decoders hand on, and what their three    *)
(* listeners print of it, proved for bytes of any width, any debouncing    *)
(* time, any set of transactions and any number of them.                   *)
(*                                                                         *)
(* BusInv relates the decoder to the bus: how many frames of debouncing    *)
(* are left after how many glitches, which of the two has seen the clock's *)
(* last edge, and what has been shifted into the accumulator by the pulses *)
(* that the decoder has seen.  From it, every step gives the listeners one *)
(* of five things (Kinds), and an invariant of each listener says what it  *)
(* has made of the bytes so far.                                           *)
(***************************************************************************)
EXTENDS LegacyBus, WellFoundedInduction, FiniteSetTheorems, TLAPS

\* A set of numbers has a least one.
LEMMA Least ==
  ASSUME NEW T \in SUBSET Nat, T # {}
  PROVE  \E n \in T : \A m \in T : n <= m
<1> DEFINE R == OpToRel(<, Nat)
<1>1. \A a, b \in Nat : a < b => <<a, b>> \in R
  BY SMT DEF OpToRel
<1>2. IsWellFoundedOn(R, Nat)
  BY NatLessThanWellFounded
<1> HIDE DEF R
<1>3. PICK n \in T : \A m \in T : ~(<<m, n>> \in R)
  BY <1>2, WFMin
<1>4. n \in Nat /\ \A m \in T : m \in Nat /\ ~(m < n)
  BY <1>1, <1>3
<1>5. \A m \in T : n <= m
  BY <1>4
<1>6. QED
  BY <1>3, <1>5

\* Induction, with a set in the place of the predicate.
LEMMA Induction ==
  ASSUME NEW S, 0 \in S, \A n \in Nat : n \in S => n + 1 \in S
  PROVE  \A n \in Nat : n \in S
<1> DEFINE T == Nat \ S
<1>1. SUFFICES ASSUME T # {} PROVE FALSE
  OBVIOUS
<1>2. PICK n \in T : \A m \in T : n <= m
  BY <1>1, Least
<1>3. n # 0 /\ n - 1 \in Nat /\ n - 1 \notin T
  BY <1>2
<1>4. QED
  BY <1>2, <1>3

-----------------------------------------------------------------------------
(* Powers of two.                                                          *)

\* The functions that agree with the definition of Shl up to n.
Upto(n, g) == g = [i \in 0..n |-> IF i = 0 THEN 1 ELSE 2 * g[i - 1]]

LEMMA UptoExists == \A n \in Nat : \E g : Upto(n, g)
<1> DEFINE S == {n \in Nat : \E g : Upto(n, g)}
<1>1. 0 \in S
  <2>1. Upto(0, [i \in 0..0 |-> 1])
    BY DEF Upto
  <2>2. QED
    BY <2>1
<1>2. ASSUME NEW n \in Nat, n \in S PROVE n + 1 \in S
  <2>1. PICK g : Upto(n, g)
    BY <1>2
  <2> DEFINE h == [i \in 0..n + 1 |-> IF i = n + 1 THEN 2 * g[n] ELSE g[i]]
  <2>2. Upto(n + 1, h)
    BY <2>1 DEF Upto
  <2> HIDE DEF h
  <2>3. n + 1 \in Nat /\ \E f : Upto(n + 1, f)
    BY <2>2
  <2>4. QED
    BY <2>3
<1> HIDE DEF S
<1>3. \A n \in Nat : n \in S
  BY <1>1, <1>2, Induction
<1>4. QED
  BY <1>3 DEF S

LEMMA UptoAgree ==
  ASSUME NEW n \in Nat, NEW m \in Nat, NEW g, NEW h, Upto(n, g), Upto(m, h), m <= n
  PROVE  g[m] = h[m]
<1> DEFINE S == {i \in Nat : i <= m => g[i] = h[i]}
<1>1. 0 \in S
  BY DEF Upto
<1>2. ASSUME NEW i \in Nat, i \in S PROVE i + 1 \in S
  <2>1. i + 1 <= m => g[i + 1] = 2 * g[i] /\ h[i + 1] = 2 * h[i]
    BY DEF Upto
  <2>2. QED
    BY <1>2, <2>1
<1> HIDE DEF S
<1>3. \A i \in Nat : i \in S
  BY <1>1, <1>2, Induction
<1>4. QED
  BY <1>3 DEF S

LEMMA ShlIs == Shl = [n \in Nat |-> IF n = 0 THEN 1 ELSE 2 * Shl[n - 1]]
<1> DEFINE Pick(n) == CHOOSE g : Upto(n, g)
           F == [n \in Nat |-> Pick(n)[n]]
<1>1. ASSUME NEW n \in Nat PROVE Upto(n, Pick(n))
  BY UptoExists
<1> HIDE DEF Pick
<1>2. ASSUME NEW n \in Nat PROVE F[n] = IF n = 0 THEN 1 ELSE 2 * F[n - 1]
  <2>1. CASE n = 0
    <3>1. Upto(0, Pick(0))
      BY <1>1
    <3>2. QED
      BY <2>1, <3>1 DEF Upto
  <2>2. CASE n # 0
    <3>1. n - 1 \in Nat /\ n - 1 <= n
      BY <2>2
    <3>2. Pick(n)[n - 1] = Pick(n - 1)[n - 1]
      BY <1>1, <3>1, UptoAgree
    <3>3. Pick(n)[n] = 2 * Pick(n)[n - 1]
      <4>1. Upto(n, Pick(n))
        BY <1>1
      <4>2. QED
        BY <2>2, <4>1 DEF Upto
    <3>4. F[n] = Pick(n)[n] /\ F[n - 1] = Pick(n - 1)[n - 1]
      BY <3>1
    <3>5. QED
      BY <2>2, <3>2, <3>3, <3>4
  <2>3. QED
    BY <2>1, <2>2
<1>3. F = [n \in Nat |-> F[n]]
  OBVIOUS
<1> HIDE DEF F
<1>4. F = [n \in Nat |-> IF n = 0 THEN 1 ELSE 2 * F[n - 1]]
  BY <1>2, <1>3
<1>5. \E f : f = [n \in Nat |-> IF n = 0 THEN 1 ELSE 2 * f[n - 1]]
  BY <1>4
<1>6. QED
  BY <1>5 DEF Shl

LEMMA ShlStep == Shl[0] = 1 /\ \A n \in Nat : Shl[n + 1] = 2 * Shl[n]
<1>1. \A n \in Nat : Shl[n] = IF n = 0 THEN 1 ELSE 2 * Shl[n - 1]
  BY ShlIs
<1>2. \A n \in Nat : n + 1 \in Nat /\ n + 1 # 0 /\ (n + 1) - 1 = n
  OBVIOUS
<1>3. QED
  BY <1>1, <1>2

LEMMA ShlType == \A n \in Nat : Shl[n] \in Nat \ {0}
<1> DEFINE S == {n \in Nat : Shl[n] \in Nat \ {0}}
<1>1. 0 \in S
  BY ShlStep
<1>2. ASSUME NEW n \in Nat, n \in S PROVE n + 1 \in S
  BY <1>2, ShlStep
<1> HIDE DEF S
<1>3. \A n \in Nat : n \in S
  BY <1>1, <1>2, Induction
<1>4. QED
  BY <1>3 DEF S

LEMMA NatTimes ==
  ASSUME NEW a \in Nat, NEW b \in Nat
  PROVE  a * b \in Nat
OBVIOUS

LEMMA DivModType ==
  ASSUME NEW a \in Nat, NEW d \in Nat \ {0}
  PROVE  a \div d \in Nat /\ a % d \in 0..d - 1 /\ a = d * (a \div d) + (a % d)
OBVIOUS

LEMMA DivUnique ==
  ASSUME NEW a \in Nat, NEW d \in Nat \ {0}, NEW q \in Nat, NEW r \in 0..d - 1, a = d * q + r
  PROVE  a \div d = q /\ a % d = r
OBVIOUS

LEMMA DivTwice ==
  ASSUME NEW a \in Nat, NEW d \in Nat \ {0}
  PROVE  a \div d = 2 * (a \div (2 * d)) + ((a \div d) % 2)
<1> DEFINE q == a \div d
           r == a % d
           p == q \div 2
           t == q % 2
<1>1. q \in Nat /\ r \in 0..d - 1 /\ a = d * q + r
  BY DivModType
<1>2. p \in Nat /\ t \in 0..1 /\ q = 2 * p + t
  BY <1>1
<1> HIDE DEF q, r, p, t
<1>3. a = (2 * d) * p + (d * t + r) /\ d * t + r \in 0..2 * d - 1
  <2>1. CASE t = 0
    BY <1>1, <1>2, <2>1
  <2>2. CASE t = 1
    BY <1>1, <1>2, <2>2
  <2>3. QED
    BY <1>2, <2>1, <2>2
<1>4. a \div (2 * d) = p
  BY <1>1, <1>2, <1>3, DivUnique
<1>5. QED
  BY <1>2, <1>4 DEF q, t

-----------------------------------------------------------------------------
(* The invariant of the bus and the decoder.                               *)

\* The decoder has seen the clock's last edge; otherwise it is still debouncing it.
Agree == i2c.current = clk
\* The countdown after n glitches: each one goes on from where the last one left it.
Residual(n) == IF n = 0 THEN 0 ELSE Debounce + 1 - n
\* The clock pulses that the decoder has seen begin.
Seen == IF clk = 1 /\ ~Agree THEN slot - 1 ELSE slot

Call == {StartCall, StopCall} \cup [is : {"byte"}, byte : Nat, is_start : Level]
I2cState ==
  [first_frame : BOOLEAN, current : Level, countdown : 0..Debounce, clk : Level, dta : Level,
   state : {"IDLE", "COLLECT_ADDRESS", "RW_BIT", "ADDRESS_ACK", "COLLECT_DATA", "DATA_ACK"},
   bits : Nat, byte : Nat, address : Nat, rw : Level, calls : Seq(Call)]
BusTyped ==
  /\ decoder \in {"i2c", "i2c_2"}
  /\ i2c \in I2cState
  /\ clk \in Level /\ sda \in Level
  /\ held \in 0..Hold /\ noise \in 0..Debounce
  /\ slot \in Nat /\ left \in Nat
  /\ txn = NoTxn \/ txn \in Transactions[decoder]
  /\ told \in Seq(Call)
\* Before the first frame.
Booting ==
  /\ i2c = Created /\ held = 0 /\ noise = 0
  /\ clk = 1 /\ sda = 1
  /\ txn = NoTxn /\ slot = 0
  /\ told # <<>> /\ Last(told) = StopCall
\* The debouncing: an edge is seen before the level has been held for long enough.
Debounces ==
  /\ ~i2c.first_frame /\ i2c.clk = i2c.current /\ held > 0
  /\ Agree =>
       /\ i2c.countdown = Residual(noise)
       /\ held < Hold => noise = 0
       /\ i2c.dta = sda \/ (txn = NoTxn /\ held = 1)
  /\ ~Agree =>
       /\ noise = 0 /\ held < Hold
       /\ i2c.countdown \in 1..Hold - held
       /\ clk = 1 => i2c.dta = sda
\* Between two transactions, and within one.
Between ==
  /\ clk = 1 /\ sda = 1 /\ i2c.current = 1 /\ slot = 0
  /\ i2c.state = "IDLE"
  /\ told # <<>> /\ Last(told) = StopCall
Within ==
  /\ slot <= Slots + 1
  /\ slot = Slots + 1 => clk = 1
  /\ clk = 1 /\ ~Agree => slot > 0 /\ (slot - 1 < Slots => sda = BitIn(slot - 1))

\* What the decoder has after r pulses of the byte with j bytes before it: an
\* address is shifted so that its last bit is the lowest, data so that theirs are.
DecodedAt(d, bytes, j, r) ==
  LET byte == bytes[j + 1]
      top  == byte \div Shl[AddrBits + 1 - r]
      last == Len(bytes)
  IN  /\ j = 0 /\ r < AddrBits =>
           d.state = "COLLECT_ADDRESS" /\ d.bits = r /\ d.byte = top * Shl[AddrBits - r]
      /\ j = 0 /\ r = AddrBits => d.state = "RW_BIT" /\ d.address = byte \div 2
      /\ j = 0 /\ r = AddrBits + 1 =>
           d.state = "ADDRESS_ACK" /\ d.address = byte \div 2 /\ d.rw = byte % 2
      /\ j \in 1..last - 1 /\ r <= AddrBits =>
           d.state = "COLLECT_DATA" /\ d.bits = r /\ d.byte = top * Shl[AddrBits + 1 - r]
      /\ j \in 1..last - 1 /\ r = AddrBits + 1 => d.state = "DATA_ACK"
      /\ j = last /\ r = 0 =>
           d.state = "DATA_ACK" \/ (d.state = "COLLECT_DATA" /\ d.bits = 0 /\ d.byte = 0)

\* How many bytes have been handed on by then.
CallsAt(j, r) == IF j > 0 /\ r = AddrBits + 1 THEN j + 1 ELSE j

CallOf(bytes, k) == ByteCall(bytes[k], IF k = 1 THEN 1 ELSE 0)

\* The same after s pulses of the transaction.
Decoded(d, bytes, s) == DecodedAt(d, bytes, s \div Pulses, s % Pulses)
Calls(s) == CallsAt(s \div Pulses, s % Pulses)
ToldAt(s) == told = [k \in 1..Calls(s) |-> CallOf(txn.bytes, k)]

Running ==
  /\ Debounces
  /\ txn = NoTxn => Between
  /\ txn # NoTxn => Within /\ Decoded(i2c, txn.bytes, Seen) /\ ToldAt(Seen)

BusInv == BusTyped /\ (Booting \/ Running)

-----------------------------------------------------------------------------
(* What a frame does to the decoder.                                       *)

\* The decoder as the frame that it decodes finds it.
Fresh(clock) == Debounced([i2c EXCEPT !.calls = <<>>], clock)

LEMMA FrameLost ==
  ASSUME NEW clock \in Level, NEW data \in Level,
         i2c \in I2cState, ~i2c.first_frame, clock # i2c.current, i2c.countdown # 1,
         ProcessFrame(clock, data)
  PROVE  i2c' = [i2c EXCEPT !.calls = <<>>,
                            !.countdown = IF i2c.countdown = 0 THEN Debounce
                                          ELSE i2c.countdown - 1]
BY DEF ProcessFrame, Debouncing, CountDown, I2cState

LEMMA FrameDecoded ==
  ASSUME NEW clock \in Level, NEW data \in Level,
         i2c \in I2cState, ~i2c.first_frame, clock = i2c.current \/ i2c.countdown = 1,
         ProcessFrame(clock, data)
  PROVE  i2c' = Edges(Fresh(clock), clock, data)
BY DebounceAssumption DEF ProcessFrame, Debouncing, Fresh, I2cState, Level

LEMMA FreshIs ==
  ASSUME NEW clock \in Level, i2c \in I2cState
  PROVE  /\ Fresh(clock) \in I2cState
         /\ Fresh(clock).first_frame = i2c.first_frame
         /\ Fresh(clock).current = clock
         /\ Fresh(clock).countdown = IF clock = i2c.current THEN i2c.countdown ELSE 0
         /\ Fresh(clock).clk = i2c.clk /\ Fresh(clock).dta = i2c.dta
         /\ Fresh(clock).state = i2c.state
         /\ Fresh(clock).bits = i2c.bits /\ Fresh(clock).byte = i2c.byte
         /\ Fresh(clock).address = i2c.address /\ Fresh(clock).rw = i2c.rw
         /\ Fresh(clock).calls = <<>>
<1> DEFINE d == [i2c EXCEPT !.calls = <<>>]
<1>1. <<>> \in Seq(Call) /\ 0 \in 0..Debounce
  BY DebounceAssumption
<1>2. /\ d \in I2cState /\ d.calls = <<>>
      /\ d.first_frame = i2c.first_frame /\ d.current = i2c.current
      /\ d.countdown = i2c.countdown /\ d.clk = i2c.clk /\ d.dta = i2c.dta
      /\ d.state = i2c.state /\ d.bits = i2c.bits /\ d.byte = i2c.byte
      /\ d.address = i2c.address /\ d.rw = i2c.rw
  BY <1>1 DEF I2cState
<1> HIDE DEF d
<1>3. CASE clock = i2c.current
  <2>1. Fresh(clock) = d
    BY <1>2, <1>3 DEF Fresh, Debounced, d
  <2>2. QED
    BY <1>2, <1>3, <2>1
<1>4. CASE clock # i2c.current
  <2>1. Fresh(clock) = [d EXCEPT !.current = clock, !.countdown = 0]
    BY <1>2, <1>4 DEF Fresh, Debounced, d
  <2>2. QED
    BY <1>1, <1>2, <1>4, <2>1 DEF I2cState
<1>5. QED
  BY <1>3, <1>4

LEMMA NoEvent ==
  ASSUME NEW d, NEW data, NEW event \in {"CLK_FALL", "DTA_FALL", "DTA_RISE"}
  PROVE  Event(d, event, 0, data) = d
BY DEF Event

\* The edges of a frame, one by one.
ClockFell(d, clock, data) ==
  IF d.clk = 1 /\ clock = 0 THEN Event(d, "CLK_FALL", clock, data) ELSE d
ClockRose(d, e, clock, data) ==
  IF d.clk = 0 /\ clock = 1 THEN Event(e, "CLK_RISE", clock, data) ELSE e
DataFell(d, e, clock, data) ==
  IF d.dta = 1 /\ data = 0 THEN Event(e, "DTA_FALL", clock, data) ELSE e
DataRose(d, e, clock, data) ==
  IF d.dta = 0 /\ data = 1 THEN Event(e, "DTA_RISE", clock, data) ELSE e

LEMMA EdgesInTurn ==
  ASSUME NEW d, NEW clock, NEW data
  PROVE  Edges(d, clock, data) =
           [DataRose(d,
              DataFell(d,
                ClockRose(d, ClockFell(d, clock, data), clock, data), clock, data),
              clock, data) EXCEPT !.clk = clock, !.dta = data]
BY Zenon DEF Edges, ClockFell, ClockRose, DataFell, DataRose

\* The decoder with the frame remembered as the last one.
Sampled(d, clock, data) == [d EXCEPT !.clk = clock, !.dta = data]

LEMMA NoEdge ==
  ASSUME NEW d \in I2cState, NEW clock \in Level, NEW data \in Level,
         (clock = d.clk /\ data = d.dta) \/ clock = 0
  PROVE  Edges(d, clock, data) = Sampled(d, clock, data)
<1>1. d = ClockFell(d, clock, data)
  BY NoEvent DEF ClockFell
<1>2. d = ClockRose(d, d, clock, data)
  BY DEF ClockRose
<1>3. d = DataFell(d, d, clock, data)
  BY NoEvent DEF DataFell
<1>4. d = DataRose(d, d, clock, data)
  BY NoEvent DEF DataRose
<1>5. QED
  BY <1>1, <1>2, <1>3, <1>4, EdgesInTurn DEF Sampled

LEMMA RisingEdge ==
  ASSUME NEW d \in I2cState, d.clk = 0
  PROVE  Edges(d, 1, d.dta) = [ClockRise(d, d.dta) EXCEPT !.clk = 1, !.dta = d.dta]
<1> DEFINE e == ClockRise(d, d.dta)
<1>1. d = ClockFell(d, 1, d.dta)
  BY DEF ClockFell
<1>2. e = ClockRose(d, d, 1, d.dta)
  BY DEF ClockRose, Event
<1> HIDE DEF e
<1>3. e = DataFell(d, e, 1, d.dta)
  BY DEF DataFell
<1>4. e = DataRose(d, e, 1, d.dta)
  BY DEF DataRose
<1>5. Edges(d, 1, d.dta) = [e EXCEPT !.clk = 1, !.dta = d.dta]
  BY <1>1, <1>2, <1>3, <1>4, EdgesInTurn
<1>6. QED
  BY <1>5 DEF e

LEMMA StartEdge ==
  ASSUME NEW d \in I2cState, d.clk = 1, d.dta = 1
  PROVE  Edges(d, 1, 0) = [StartCondition(d) EXCEPT !.clk = 1, !.dta = 0]
BY DEF Edges, Event

LEMMA StopEdge ==
  ASSUME NEW d \in I2cState, d.clk = 1, d.dta = 0
  PROVE  Edges(d, 1, 1) = [StopCondition(d) EXCEPT !.clk = 1, !.dta = 1]
BY DEF Edges, Event

-----------------------------------------------------------------------------
(* A pulse of the clock.                                                   *)

LEMMA Constants ==
  /\ AddrBits \in Nat /\ AddrBits > 0
  /\ Debounce \in Nat /\ Debounce > 0
  /\ Hold = Debounce + 1
  /\ Pulses = AddrBits + 2 /\ Pulses \in Nat \ {0}
BY LegacyBitsAssumption, DebounceAssumption DEF Hold, Pulses

\* A transaction on the bus.
OnBus ==
  /\ txn.bytes \in Seq(Byte) /\ Len(txn.bytes) \in Nat \ {0}
  /\ txn.last_ack \in Level

LEMMA OnBusIs ==
  ASSUME BusTyped, txn # NoTxn
  PROVE  OnBus
BY TransactionsAssumption DEF BusTyped, OnBus

\* Where in a transaction a pulse is.
LEMMA Position ==
  ASSUME NEW s \in Nat, NEW n \in Nat
  PROVE  LET j == s \div Pulses
             r == s % Pulses
         IN  /\ j \in Nat /\ r \in 0..AddrBits + 1 /\ s = Pulses * j + r
             /\ s < Pulses * n <=> j < n
             /\ s < Pulses <=> j = 0
             /\ s = Pulses * n => j = n /\ r = 0
             /\ s + 1 = Pulses * n <=> j = n - 1 /\ r = AddrBits + 1
             /\ r <= AddrBits => (s + 1) \div Pulses = j /\ (s + 1) % Pulses = r + 1
             /\ r = AddrBits + 1 => (s + 1) \div Pulses = j + 1 /\ (s + 1) % Pulses = 0
<1> DEFINE j == s \div Pulses
           r == s % Pulses
<1>1. j \in Nat /\ r \in 0..Pulses - 1 /\ s = Pulses * j + r
  BY Constants, DivModType
<1>2. r \in 0..AddrBits + 1
  BY <1>1, Constants
<1> HIDE DEF j, r
<1>3. s < Pulses * n <=> j < n
  <2>1. CASE j < n
    <3>1. Pulses * (j + 1) <= Pulses * n
      BY <1>1, <2>1, Constants
    <3>2. QED
      BY <1>1, <2>1, <3>1, Constants
  <2>2. CASE j >= n
    <3>1. Pulses * n <= Pulses * j
      BY <1>1, <2>2, Constants
    <3>2. QED
      BY <1>1, <2>2, <3>1, Constants
  <2>3. QED
    BY <1>1, <2>1, <2>2
<1>4. s < Pulses <=> j = 0
  <2>1. j # 0 => Pulses * 1 <= Pulses * j
    BY <1>1, Constants
  <2>2. QED
    BY <1>1, <2>1, Constants
<1>5. s = Pulses * n => j = n /\ r = 0
  <2>1. SUFFICES ASSUME s = Pulses * n PROVE j = n /\ r = 0
    OBVIOUS
  <2>2. s = Pulses * n + 0 /\ 0 \in 0..Pulses - 1
    BY <2>1, Constants
  <2>3. QED
    BY <2>2, Constants, DivUnique DEF j, r
<1>6. r <= AddrBits => (s + 1) \div Pulses = j /\ (s + 1) % Pulses = r + 1
  <2>1. SUFFICES ASSUME r <= AddrBits
                 PROVE  (s + 1) \div Pulses = j /\ (s + 1) % Pulses = r + 1
    OBVIOUS
  <2>2. s + 1 = Pulses * j + (r + 1) /\ r + 1 \in 0..Pulses - 1 /\ s + 1 \in Nat
    BY <1>1, <2>1, Constants
  <2>3. QED
    BY <1>1, <2>2, Constants, DivUnique
<1>7. r = AddrBits + 1 => (s + 1) \div Pulses = j + 1 /\ (s + 1) % Pulses = 0
  <2>1. SUFFICES ASSUME r = AddrBits + 1
                 PROVE  (s + 1) \div Pulses = j + 1 /\ (s + 1) % Pulses = 0
    OBVIOUS
  <2>2. s + 1 = Pulses * (j + 1) + 0 /\ 0 \in 0..Pulses - 1 /\ s + 1 \in Nat /\ j + 1 \in Nat
    BY <1>1, <2>1, Constants
  <2>3. QED
    BY <2>2, Constants, DivUnique
<1>8. s + 1 = Pulses * n <=> j = n - 1 /\ r = AddrBits + 1
  <2>1. ASSUME s + 1 = Pulses * n PROVE j = n - 1 /\ r = AddrBits + 1
    <3>1. s + 1 = Pulses * n + 0 /\ 0 \in 0..Pulses - 1 /\ s + 1 \in Nat
      BY <2>1, Constants
    <3>2. (s + 1) \div Pulses = n /\ (s + 1) % Pulses = 0
      BY <3>1, Constants, DivUnique
    <3>3. r + 1 # 0
      BY <1>2, Constants
    <3>4. ~(r <= AddrBits)
      BY <1>6, <3>2, <3>3
    <3>5. r = AddrBits + 1
      BY <1>2, <3>4, Constants
    <3>6. QED
      BY <1>1, <1>7, <3>2, <3>5
  <2>2. ASSUME j = n - 1, r = AddrBits + 1 PROVE s + 1 = Pulses * n
    BY <1>1, <2>2, Constants
  <2>3. QED
    BY <2>1, <2>2
<1>9. QED
  BY <1>1, <1>2, <1>3, <1>4, <1>5, <1>6, <1>7, <1>8 DEF j, r

\* A bit more of a byte.
LEMMA OrNextBit ==
  ASSUME NEW place \in Nat, NEW q \in Nat, NEW bit \in Level
  PROVE  OrBit(q * Shl[place + 1], place, bit) = (2 * q + bit) * Shl[place]
<1> DEFINE m == Shl[place]
<1>1. m \in Nat \ {0} /\ Shl[place + 1] = 2 * m
  BY ShlType, ShlStep
<1> HIDE DEF m
<1>2. q * (2 * m) = m * (2 * q) + 0 /\ q * (2 * m) \in Nat /\ 2 * q \in Nat
  BY <1>1
<1>3. (q * (2 * m)) \div m = 2 * q
  BY <1>1, <1>2, DivUnique
<1>4. (2 * q) % 2 = 0
  OBVIOUS
<1>5. OrBit(q * (2 * m), place, bit) = IF bit = 1 THEN q * (2 * m) + m ELSE q * (2 * m)
  BY <1>3, <1>4 DEF OrBit, m
<1>6. (2 * q + 1) * m = q * (2 * m) + m /\ (2 * q + 0) * m = q * (2 * m)
  BY <1>1
<1>7. QED
  BY <1>1, <1>5, <1>6 DEF Level, m

\* The upper bits of a byte, with the next one.
LEMMA UpperBits ==
  ASSUME NEW byte \in Nat, NEW n \in Nat
  PROVE  LET bit == (byte \div Shl[n]) % 2
         IN  /\ bit \in Level
             /\ byte \div Shl[n + 1] \in Nat
             /\ byte \div Shl[n] = 2 * (byte \div Shl[n + 1]) + bit
<1>1. Shl[n] \in Nat \ {0} /\ Shl[n + 1] = 2 * Shl[n] /\ Shl[n + 1] \in Nat \ {0}
  BY ShlType, ShlStep
<1>2. byte \div Shl[n] \in Nat /\ byte \div Shl[n + 1] \in Nat
  BY <1>1, DivModType
<1>3. (byte \div Shl[n]) % 2 \in 0..1
  BY <1>2
<1>4. byte \div Shl[n] = 2 * (byte \div (2 * Shl[n])) + ((byte \div Shl[n]) % 2)
  BY <1>1, DivTwice
<1>5. (byte \div Shl[n]) % 2 \in Level
  BY <1>3 DEF Level
<1>6. QED
  BY <1>1, <1>2, <1>4, <1>5

\* Where the pulse after r pulses of a byte leads.
NextByte(j, r) == IF r = AddrBits + 1 THEN j + 1 ELSE j
NextIn(r) == IF r = AddrBits + 1 THEN 0 ELSE r + 1

\* What a pulse leaves alone, and what it calls.
PulseSeen(d, e, j, r) ==
  /\ e \in I2cState
  /\ e.first_frame = d.first_frame /\ e.current = d.current
  /\ e.countdown = d.countdown /\ e.clk = d.clk /\ e.dta = d.dta
  /\ DecodedAt(e, txn.bytes, NextByte(j, r), NextIn(r))
  /\ LET before_it == CallsAt(j, r)
         after_it  == CallsAt(NextByte(j, r), NextIn(r))
     IN  \/ after_it = before_it /\ e.calls = <<>>
         \/ /\ after_it = before_it + 1 /\ after_it <= Len(txn.bytes)
            /\ e.calls = <<CallOf(txn.bytes, after_it)>>

LEMMA ByteIs ==
  ASSUME NEW byte \in Byte
  PROVE  /\ byte \in Nat
         /\ byte \div Shl[0] = byte
         /\ byte \div Shl[1] = byte \div 2
         /\ byte \div Shl[AddrBits + 1] = 0
<1>1. Shl[AddrBits + 1] \in Nat \ {0} /\ Shl[0] = 1 /\ Shl[1] = 2
  <2>1. Shl[AddrBits + 1] \in Nat \ {0}
    <3>1. AddrBits + 1 \in Nat
      BY Constants
    <3>2. QED
      BY <3>1, ShlType
  <2>2. Shl[0] = 1 /\ Shl[0 + 1] = 2 * Shl[0]
    BY ShlStep
  <2>3. 0 + 1 = 1
    OBVIOUS
  <2>4. QED
    BY <2>1, <2>2, <2>3
<1>2. byte \in 0..Shl[AddrBits + 1] - 1
  BY <1>1 DEF Byte
<1>3. byte = Shl[AddrBits + 1] * 0 + byte
  BY <1>1, <1>2
<1>4. byte \div Shl[AddrBits + 1] = 0
  BY <1>1, <1>2, <1>3, DivUnique
<1>5. byte \div 1 = byte
  BY <1>2
<1>6. QED
  BY <1>1, <1>2, <1>4, <1>5

LEMMA InBytes ==
  ASSUME OnBus, NEW j \in 0..Len(txn.bytes) - 1
  PROVE  txn.bytes[j + 1] \in Byte
BY DEF OnBus

\* A bit of the address.
LEMMA AddressBitSeen ==
  ASSUME OnBus, NEW d \in I2cState, d.calls = <<>>, NEW r \in 0..AddrBits - 1,
         DecodedAt(d, txn.bytes, 0, r), NEW bit \in Level,
         bit = (txn.bytes[1] \div Shl[AddrBits - r]) % 2
  PROVE  PulseSeen(d, ClockRise(d, bit), 0, r)
<1> DEFINE byte == txn.bytes[1]
           top  == byte \div Shl[AddrBits + 1 - r]
           acc  == OrBit(d.byte, AddrBits - 1 - d.bits, bit)
           c    == [d EXCEPT !.byte = acc, !.bits = @ + 1]
           e    == ClockRise(d, bit)
<1>1. d.state = "COLLECT_ADDRESS" /\ d.bits = r /\ d.byte = top * Shl[AddrBits - r]
  BY Constants DEF DecodedAt, OnBus
<1>2. /\ AddrBits - 1 - r \in Nat /\ AddrBits - r \in Nat
      /\ (AddrBits - 1 - r) + 1 = AddrBits - r /\ (AddrBits - r) + 1 = AddrBits + 1 - r
  BY Constants
<1>3. byte \in Nat
  <2>1. 0 \in 0..Len(txn.bytes) - 1 /\ 0 + 1 = 1
    BY DEF OnBus
  <2>2. QED
    BY <2>1, InBytes, ByteIs
<1>4. byte \div Shl[AddrBits - r] = 2 * top + bit /\ top \in Nat
  BY <1>2, <1>3, UpperBits
<1>5. acc = (byte \div Shl[AddrBits - r]) * Shl[AddrBits - 1 - r]
  <2>1. acc = OrBit(top * Shl[(AddrBits - 1 - r) + 1], AddrBits - 1 - r, bit)
    BY <1>1, <1>2
  <2> HIDE DEF acc, top
  <2>2. acc = (2 * top + bit) * Shl[AddrBits - 1 - r]
    BY <1>2, <1>4, <2>1, OrNextBit
  <2>3. QED
    BY <1>4, <2>2
<1>6. acc \in Nat
  <2>1. 2 * top + bit \in Nat /\ Shl[AddrBits - 1 - r] \in Nat
    <3>1. 2 * top \in Nat /\ AddrBits - 1 - r \in Nat
      BY <1>2, <1>4
    <3>2. QED
      BY <3>1, ShlType DEF Level
  <2>2. (2 * top + bit) * Shl[AddrBits - 1 - r] \in Nat
    BY <2>1, NatTimes
  <2>3. QED
    BY <1>4, <1>5, <2>2
<1>7. e = IF c.bits = AddrBits THEN [c EXCEPT !.address = acc, !.state = "RW_BIT"] ELSE c
  BY <1>1 DEF ClockRise, AddressBit
<1> HIDE DEF acc, top
<1>8. /\ c \in I2cState /\ c.bits = r + 1 /\ c.byte = acc /\ c.state = d.state
      /\ c.first_frame = d.first_frame /\ c.current = d.current
      /\ c.countdown = d.countdown /\ c.clk = d.clk /\ c.dta = d.dta /\ c.calls = <<>>
  <2>1. d.bits + 1 = r + 1 /\ d.bits + 1 \in Nat
    BY <1>1 DEF I2cState
  <2>2. QED
    BY <1>6, <2>1 DEF I2cState
<1> HIDE DEF c
<1>9. NextByte(0, r) = 0 /\ NextIn(r) = r + 1 /\ CallsAt(0, r) = 0 /\ CallsAt(0, r + 1) = 0
  BY Constants DEF NextByte, NextIn, CallsAt
<1>10. CASE r + 1 = AddrBits
  <2>1. acc = byte \div 2
    <3>1. AddrBits - 1 - r = 0 /\ AddrBits - r = 1
      BY <1>10, Constants
    <3>2. byte \div Shl[1] = byte \div 2 /\ Shl[0] = 1
      <4>1. 0 \in 0..Len(txn.bytes) - 1 /\ 0 + 1 = 1
        BY DEF OnBus
      <4>2. QED
        BY <4>1, InBytes, ByteIs, ShlStep
    <3>3. byte \div 2 \in Nat
      BY <1>3
    <3>4. QED
      BY <1>5, <3>1, <3>2, <3>3
  <2>2. e = [c EXCEPT !.address = acc, !.state = "RW_BIT"]
    BY <1>7, <1>8, <1>10
  <2>3. /\ e \in I2cState /\ e.state = "RW_BIT" /\ e.address = byte \div 2
        /\ e.first_frame = d.first_frame /\ e.current = d.current
        /\ e.countdown = d.countdown /\ e.clk = d.clk /\ e.dta = d.dta /\ e.calls = <<>>
    BY <1>6, <1>8, <2>1, <2>2 DEF I2cState
  <2> HIDE DEF e
  <2>4. DecodedAt(e, txn.bytes, 0, AddrBits)
    BY <2>3, Constants DEF DecodedAt, OnBus
  <2>5. QED
    BY <1>9, <1>10, <2>3, <2>4 DEF PulseSeen, e
<1>11. CASE r + 1 # AddrBits
  <2>1. e = c
    BY <1>7, <1>8, <1>11
  <2>2. DecodedAt(c, txn.bytes, 0, r + 1)
    <3>1. AddrBits + 1 - (r + 1) = AddrBits - r /\ AddrBits - (r + 1) = AddrBits - 1 - r
          /\ r + 1 < AddrBits
      BY <1>11, Constants
    <3>2. QED
      BY <1>1, <1>5, <1>8, <3>1, Constants DEF DecodedAt, OnBus
  <2>3. QED
    BY <1>8, <1>9, <2>1, <2>2 DEF PulseSeen
<1>12. QED
  BY <1>10, <1>11

LEMMA RwBitSeen ==
  ASSUME OnBus, NEW d \in I2cState, d.calls = <<>>, DecodedAt(d, txn.bytes, 0, AddrBits),
         NEW bit \in Level, bit = (txn.bytes[1] \div Shl[0]) % 2
  PROVE  PulseSeen(d, ClockRise(d, bit), 0, AddrBits)
<1> DEFINE e == ClockRise(d, bit)
<1>1. d.state = "RW_BIT" /\ d.address = txn.bytes[1] \div 2
  BY Constants DEF DecodedAt, OnBus
<1>2. bit = txn.bytes[1] % 2
  <2>1. 0 \in 0..Len(txn.bytes) - 1 /\ 0 + 1 = 1
    BY DEF OnBus
  <2>2. QED
    BY <2>1, InBytes, ByteIs
<1>3. e = [d EXCEPT !.rw = bit, !.state = "ADDRESS_ACK"]
  BY <1>1 DEF ClockRise, RwBit
<1>4. /\ e \in I2cState /\ e.state = "ADDRESS_ACK" /\ e.address = d.address /\ e.rw = bit
      /\ e.first_frame = d.first_frame /\ e.current = d.current
      /\ e.countdown = d.countdown /\ e.clk = d.clk /\ e.dta = d.dta /\ e.calls = <<>>
  BY <1>3 DEF I2cState
<1> HIDE DEF e
<1>5. DecodedAt(e, txn.bytes, 0, AddrBits + 1)
  BY <1>1, <1>2, <1>4, Constants DEF DecodedAt, OnBus
<1>6. /\ NextByte(0, AddrBits) = 0 /\ NextIn(AddrBits) = AddrBits + 1
      /\ CallsAt(0, AddrBits) = 0 /\ CallsAt(0, AddrBits + 1) = 0
  BY Constants DEF NextByte, NextIn, CallsAt
<1>7. QED
  BY <1>4, <1>5, <1>6 DEF PulseSeen, e

\* A byte of a transaction begins: nothing of it is in the accumulator.
LEMMA ByteBegins ==
  ASSUME OnBus, NEW d \in I2cState, NEW j \in 1..Len(txn.bytes),
         d.state = "COLLECT_DATA", d.bits = 0, d.byte = 0
  PROVE  DecodedAt(d, txn.bytes, j, 0)
<1>1. CASE j \in 1..Len(txn.bytes) - 1
  <2>1. txn.bytes[j + 1] \div Shl[AddrBits + 1 - 0] = 0 /\ Shl[AddrBits + 1 - 0] \in Nat
    <3>1. j \in 0..Len(txn.bytes) - 1 /\ AddrBits + 1 - 0 = AddrBits + 1 /\ AddrBits + 1 \in Nat
      BY <1>1, Constants DEF OnBus
    <3>2. QED
      BY <3>1, InBytes, ByteIs, ShlType
  <2>2. 0 = 0 * Shl[AddrBits + 1 - 0]
    BY <2>1
  <2>3. QED
    BY <1>1, <2>1, <2>2, Constants DEF DecodedAt, OnBus
<1>2. CASE j = Len(txn.bytes)
  BY <1>2, Constants DEF DecodedAt, OnBus
<1>3. QED
  BY <1>1, <1>2 DEF OnBus

LEMMA AddressAckSeen ==
  ASSUME OnBus, NEW d \in I2cState, d.calls = <<>>, DecodedAt(d, txn.bytes, 0, AddrBits + 1),
         NEW bit \in Level
  PROVE  PulseSeen(d, ClockRise(d, bit), 0, AddrBits + 1)
<1> DEFINE e == ClockRise(d, bit)
           byte == txn.bytes[1]
           d0 == [d EXCEPT !.bits = 0, !.byte = 0]
<1>1. d.state = "ADDRESS_ACK" /\ d.address = byte \div 2 /\ d.rw = byte % 2
  BY Constants DEF DecodedAt, OnBus
<1>2. byte \in Nat /\ 2 * d.address + d.rw = byte
  <2>1. byte \in Nat
    <3>1. 0 \in 0..Len(txn.bytes) - 1 /\ 0 + 1 = 1
      BY DEF OnBus
    <3>2. QED
      BY <3>1, InBytes, ByteIs
  <2>2. QED
    BY <1>1, <2>1
<1> HIDE DEF byte
<1>3. e = [d0 EXCEPT !.state = "COLLECT_DATA", !.calls = Append(@, ByteCall(byte, 1))]
  BY <1>1, <1>2 DEF ClockRise, AddressAck, EmptyAccumulator
<1> HIDE DEF e
<1>4. /\ d0 \in I2cState /\ d0.bits = 0 /\ d0.byte = 0
       /\ d0.first_frame = d.first_frame /\ d0.current = d.current
       /\ d0.countdown = d.countdown /\ d0.clk = d.clk /\ d0.dta = d.dta
       /\ d0.calls = <<>>
  BY DEF I2cState
<1> HIDE DEF d0
<1>5. ByteCall(byte, 1) \in Call
  BY <1>2 DEF ByteCall, Call, Level
<1>6. Append(<<>>, ByteCall(byte, 1)) = <<ByteCall(byte, 1)>>
      /\ <<ByteCall(byte, 1)>> \in Seq(Call)
  BY <1>5
<1>7. /\ e \in I2cState /\ e.state = "COLLECT_DATA" /\ e.bits = 0 /\ e.byte = 0
      /\ e.first_frame = d.first_frame /\ e.current = d.current
      /\ e.countdown = d.countdown /\ e.clk = d.clk /\ e.dta = d.dta
      /\ e.calls = <<ByteCall(byte, 1)>>
  <2>1. e = [d0 EXCEPT !.state = "COLLECT_DATA", !.calls = <<ByteCall(byte, 1)>>]
    BY <1>3, <1>6, <1>4
  <2>2. QED
    BY <1>6, <1>4, <2>1 DEF I2cState
<1>8. DecodedAt(e, txn.bytes, 1, 0)
  <2>1. 1 \in 1..Len(txn.bytes)
    BY DEF OnBus
  <2>2. QED
    BY <1>7, <2>1, ByteBegins
<1>9. /\ NextByte(0, AddrBits + 1) = 1 /\ NextIn(AddrBits + 1) = 0
      /\ CallsAt(0, AddrBits + 1) = 0 /\ CallsAt(1, 0) = 1 /\ CallOf(txn.bytes, 1) = ByteCall(byte, 1)
  BY Constants DEF NextByte, NextIn, CallsAt, CallOf, byte
<1>10. 1 <= Len(txn.bytes)
  BY DEF OnBus
<1>11. QED
  BY <1>7, <1>8, <1>9, <1>10 DEF PulseSeen, e

LEMMA DataBitSeen ==
  ASSUME OnBus, NEW d \in I2cState, d.calls = <<>>,
         NEW j \in 1..Len(txn.bytes) - 1, NEW r \in 0..AddrBits,
         DecodedAt(d, txn.bytes, j, r), NEW bit \in Level,
         bit = (txn.bytes[j + 1] \div Shl[AddrBits - r]) % 2
  PROVE  PulseSeen(d, ClockRise(d, bit), j, r)
<1> DEFINE byte == txn.bytes[j + 1]
           top  == byte \div Shl[AddrBits + 1 - r]
           acc  == OrBit(d.byte, AddrBits - d.bits, bit)
           c    == [d EXCEPT !.byte = acc, !.bits = @ + 1]
           e    == ClockRise(d, bit)
<1>1. d.state = "COLLECT_DATA" /\ d.bits = r /\ d.byte = top * Shl[AddrBits + 1 - r]
  BY Constants DEF DecodedAt, OnBus
<1>2. /\ AddrBits - r \in Nat
      /\ (AddrBits - r) + 1 = AddrBits + 1 - r
  BY Constants
<1>3. byte \in Nat /\ byte \div Shl[0] = byte
  <2>1. j \in 0..Len(txn.bytes) - 1
    BY DEF OnBus
  <2>2. QED
    BY <2>1, InBytes, ByteIs
<1>4. byte \div Shl[AddrBits - r] = 2 * top + bit /\ top \in Nat
  BY <1>2, <1>3, UpperBits
<1>5. acc = (byte \div Shl[AddrBits - r]) * Shl[AddrBits - r]
  <2>1. acc = OrBit(top * Shl[(AddrBits - r) + 1], AddrBits - r, bit)
    BY <1>1, <1>2
  <2> HIDE DEF acc, top
  <2>2. acc = (2 * top + bit) * Shl[AddrBits - r]
    BY <1>2, <1>4, <2>1, OrNextBit
  <2>3. QED
    BY <1>4, <2>2
<1>6. acc \in Nat
  <2>1. 2 * top + bit \in Nat /\ Shl[AddrBits - r] \in Nat
    BY <1>2, <1>4, ShlType DEF Level
  <2>2. (2 * top + bit) * Shl[AddrBits - r] \in Nat
    BY <2>1, NatTimes
  <2>3. QED
    BY <1>4, <1>5, <2>2
<1>7. e = IF c.bits = AddrBits + 1
          THEN [c EXCEPT !.state = "DATA_ACK", !.calls = Append(@, ByteCall(acc, 0))]
          ELSE c
  BY <1>1 DEF ClockRise, DataBit
<1> HIDE DEF acc, top
<1>8. /\ c \in I2cState /\ c.bits = r + 1 /\ c.byte = acc /\ c.state = d.state
      /\ c.first_frame = d.first_frame /\ c.current = d.current
      /\ c.countdown = d.countdown /\ c.clk = d.clk /\ c.dta = d.dta /\ c.calls = <<>>
  <2>1. d.bits + 1 = r + 1 /\ d.bits + 1 \in Nat
    BY <1>1 DEF I2cState
  <2>2. QED
    BY <1>6, <2>1 DEF I2cState
<1> HIDE DEF c
<1>9. NextByte(j, r) = j /\ NextIn(r) = r + 1 /\ CallsAt(j, r) = j
  BY Constants DEF NextByte, NextIn, CallsAt
<1>10. CASE r = AddrBits
  <2>1. acc = byte
    <3>1. AddrBits - r = 0
      BY <1>10, Constants
    <3>2. acc = byte * Shl[0]
      BY <1>3, <1>5, <3>1
    <3>3. Shl[0] = 1
      BY ShlStep
    <3>4. QED
      BY <1>3, <3>2, <3>3
  <2>2. e = [c EXCEPT !.state = "DATA_ACK", !.calls = Append(@, ByteCall(byte, 0))]
    BY <1>7, <1>8, <1>10, <2>1
  <2>3. Append(<<>>, ByteCall(byte, 0)) = <<ByteCall(byte, 0)>>
        /\ <<ByteCall(byte, 0)>> \in Seq(Call)
    <3>1. ByteCall(byte, 0) \in Call
      BY <1>3 DEF ByteCall, Call, Level
    <3>2. QED
      BY <3>1
  <2>4. /\ e \in I2cState /\ e.state = "DATA_ACK"
        /\ e.first_frame = d.first_frame /\ e.current = d.current
        /\ e.countdown = d.countdown /\ e.clk = d.clk /\ e.dta = d.dta
        /\ e.calls = <<ByteCall(byte, 0)>>
    <3>1. e = [c EXCEPT !.state = "DATA_ACK", !.calls = <<ByteCall(byte, 0)>>]
      BY <1>8, <2>2, <2>3
    <3> HIDE DEF e
    <3>2. QED
      BY <1>8, <2>3, <3>1 DEF I2cState
  <2> HIDE DEF e
  <2>5. DecodedAt(e, txn.bytes, j, AddrBits + 1)
    BY <2>4, Constants DEF DecodedAt, OnBus
  <2>6. CallsAt(j, AddrBits + 1) = j + 1 /\ CallOf(txn.bytes, j + 1) = ByteCall(byte, 0)
        /\ j + 1 <= Len(txn.bytes)
    BY Constants DEF CallsAt, CallOf, OnBus
  <2>7. QED
    BY <1>9, <1>10, <2>4, <2>5, <2>6 DEF PulseSeen, e
<1>11. CASE r # AddrBits
  <2>1. e = c
    BY <1>7, <1>8, <1>11, Constants
  <2>2. DecodedAt(c, txn.bytes, j, r + 1)
    <3>1. AddrBits + 1 - (r + 1) = AddrBits - r /\ r + 1 <= AddrBits
      BY <1>11, Constants
    <3>2. QED
      BY <1>1, <1>5, <1>8, <3>1, Constants DEF DecodedAt, OnBus
  <2>3. CallsAt(j, r + 1) = j
    BY <1>11, Constants DEF CallsAt
  <2>4. QED
    BY <1>8, <1>9, <2>1, <2>2, <2>3 DEF PulseSeen
<1>12. QED
  BY <1>10, <1>11

\* What the pulse of an ACK makes of the decoder.
LEMMA DataAckIs ==
  ASSUME NEW d \in I2cState, d.state = "DATA_ACK", d.calls = <<>>, NEW bit \in Level
  PROVE  LET e == ClockRise(d, bit)
         IN  /\ e \in I2cState
             /\ e.first_frame = d.first_frame /\ e.current = d.current
             /\ e.countdown = d.countdown /\ e.clk = d.clk /\ e.dta = d.dta
             /\ e.calls = <<>>
             /\ \/ bit = 1 /\ e.state = "DATA_ACK"
                \/ e.state = "COLLECT_DATA" /\ e.bits = 0 /\ e.byte = 0
<1> DEFINE e == ClockRise(d, bit)
<1>1. e = IF bit = 1 THEN d ELSE [[d EXCEPT !.bits = 0, !.byte = 0] EXCEPT !.state = "COLLECT_DATA"]
  BY DEF ClockRise, DataAck, EmptyAccumulator
<1>2. CASE bit = 1
  BY <1>1, <1>2
<1>3. CASE bit # 1
  <2>1. e = [[d EXCEPT !.bits = 0, !.byte = 0] EXCEPT !.state = "COLLECT_DATA"]
    BY <1>1, <1>3
  <2> HIDE DEF e
  <2>2. /\ e \in I2cState
        /\ e.first_frame = d.first_frame /\ e.current = d.current
        /\ e.countdown = d.countdown /\ e.clk = d.clk /\ e.dta = d.dta
        /\ e.calls = <<>>
        /\ e.state = "COLLECT_DATA" /\ e.bits = 0 /\ e.byte = 0
    BY <2>1 DEF I2cState
  <2>3. QED
    BY <2>2 DEF e
<1>4. QED
  BY <1>2, <1>3

LEMMA DataAckSeen ==
  ASSUME OnBus, NEW d \in I2cState, d.calls = <<>>,
         NEW j \in 1..Len(txn.bytes) - 1, DecodedAt(d, txn.bytes, j, AddrBits + 1),
         NEW bit \in Level, j # Len(txn.bytes) - 1 => bit = 0
  PROVE  PulseSeen(d, ClockRise(d, bit), j, AddrBits + 1)
<1> DEFINE e == ClockRise(d, bit)
<1>1. d.state = "DATA_ACK"
  BY Constants DEF DecodedAt, OnBus
<1>2. /\ e \in I2cState
      /\ e.first_frame = d.first_frame /\ e.current = d.current
      /\ e.countdown = d.countdown /\ e.clk = d.clk /\ e.dta = d.dta
      /\ e.calls = <<>>
      /\ \/ bit = 1 /\ e.state = "DATA_ACK"
         \/ e.state = "COLLECT_DATA" /\ e.bits = 0 /\ e.byte = 0
  BY <1>1, DataAckIs
<1> HIDE DEF e
<1>3. DecodedAt(e, txn.bytes, j + 1, 0)
  <2>1. j + 1 \in 1..Len(txn.bytes) /\ Len(txn.bytes) \in Nat
    BY DEF OnBus
  <2>2. CASE bit = 1 /\ e.state = "DATA_ACK"
    <3>1. j + 1 = Len(txn.bytes)
      BY <2>1, <2>2
    <3>2. QED
      BY <2>1, <2>2, <3>1, Constants DEF DecodedAt
  <2>3. CASE e.state = "COLLECT_DATA" /\ e.bits = 0 /\ e.byte = 0
    BY <1>2, <2>1, <2>3, ByteBegins
  <2>4. QED
    BY <1>2, <2>2, <2>3
<1>4. /\ NextByte(j, AddrBits + 1) = j + 1 /\ NextIn(AddrBits + 1) = 0
      /\ CallsAt(j, AddrBits + 1) = j + 1 /\ CallsAt(j + 1, 0) = j + 1
  BY Constants DEF NextByte, NextIn, CallsAt
<1>5. QED
  BY <1>2, <1>3, <1>4 DEF PulseSeen, e

\* The pulse that prepares STOP.
LEMMA LastPulseSeen ==
  ASSUME OnBus, NEW d \in I2cState, d.calls = <<>>, DecodedAt(d, txn.bytes, Len(txn.bytes), 0),
         NEW bit \in Level
  PROVE  PulseSeen(d, ClockRise(d, bit), Len(txn.bytes), 0)
<1> DEFINE e == ClockRise(d, bit)
           n == Len(txn.bytes)
<1>1. d.state = "DATA_ACK" \/ (d.state = "COLLECT_DATA" /\ d.bits = 0 /\ d.byte = 0)
  BY Constants DEF DecodedAt, OnBus
<1>2. /\ e \in I2cState
      /\ e.first_frame = d.first_frame /\ e.current = d.current
      /\ e.countdown = d.countdown /\ e.clk = d.clk /\ e.dta = d.dta
      /\ e.calls = <<>>
  <2>1. CASE d.state = "DATA_ACK"
    BY <2>1, DataAckIs
  <2>2. CASE d.state = "COLLECT_DATA" /\ d.bits = 0 /\ d.byte = 0
    <3> DEFINE acc == OrBit(d.byte, AddrBits - d.bits, bit)
               c   == [d EXCEPT !.byte = acc, !.bits = @ + 1]
    <3>1. acc \in Nat
      <4>1. AddrBits - d.bits = AddrBits /\ AddrBits \in Nat
        BY <2>2, Constants
      <4>2. Shl[AddrBits] \in Nat
        BY <4>1, ShlType
      <4>3. QED
        BY <2>2, <4>1, <4>2 DEF OrBit
    <3>2. e = IF c.bits = AddrBits + 1
              THEN [c EXCEPT !.state = "DATA_ACK", !.calls = Append(@, ByteCall(acc, 0))]
              ELSE c
      BY <2>2 DEF ClockRise, DataBit
    <3> HIDE DEF acc
    <3>3. /\ c \in I2cState /\ c.bits = 1
          /\ c.first_frame = d.first_frame /\ c.current = d.current
          /\ c.countdown = d.countdown /\ c.clk = d.clk /\ c.dta = d.dta /\ c.calls = <<>>
      <4>1. d.bits + 1 = 1 /\ 1 \in Nat
        BY <2>2
      <4>2. QED
        BY <3>1, <4>1 DEF I2cState
    <3> HIDE DEF c
    <3>4. e = c
      BY <3>2, <3>3, Constants
    <3>5. QED
      BY <3>3, <3>4
  <2>3. QED
    BY <1>1, <2>1, <2>2
<1> HIDE DEF e
<1>3. n \in Nat \ {0} /\ NextByte(n, 0) = n /\ NextIn(0) = 1
      /\ CallsAt(n, 0) = n /\ CallsAt(n, 1) = n
  BY Constants DEF NextByte, NextIn, CallsAt, OnBus
<1>4. DecodedAt(e, txn.bytes, n, 1)
  BY <1>3, Constants DEF DecodedAt
<1>5. QED
  BY <1>2, <1>3, <1>4 DEF PulseSeen, e

\* The same, for the pulse after s pulses of the transaction.
PulseStepped(d, e, s) ==
  /\ e \in I2cState
  /\ e.first_frame = d.first_frame /\ e.current = d.current
  /\ e.countdown = d.countdown /\ e.clk = d.clk /\ e.dta = d.dta
  /\ Decoded(e, txn.bytes, s + 1)
  /\ \/ Calls(s + 1) = Calls(s) /\ e.calls = <<>>
     \/ /\ Calls(s + 1) = Calls(s) + 1 /\ Calls(s + 1) <= Len(txn.bytes)
        /\ e.calls = <<CallOf(txn.bytes, Calls(s + 1))>>

LEMMA PulseStep ==
  ASSUME OnBus, NEW d \in I2cState, d.calls = <<>>,
         NEW s \in Nat, s <= Slots, Decoded(d, txn.bytes, s),
         NEW bit \in Level, s < Slots => bit = BitIn(s)
  PROVE  PulseStepped(d, ClockRise(d, bit), s)
<1> DEFINE j == s \div Pulses
           r == s % Pulses
           n == Len(txn.bytes)
           e == ClockRise(d, bit)
<1>1. /\ j \in Nat /\ r \in 0..AddrBits + 1 /\ n \in Nat \ {0}
      /\ s < Slots <=> j < n
      /\ s = Slots => j = n /\ r = 0
      /\ s + 1 = Slots <=> j = n - 1 /\ r = AddrBits + 1
      /\ (s + 1) \div Pulses = NextByte(j, r) /\ (s + 1) % Pulses = NextIn(r)
  <2>1. n \in Nat \ {0} /\ Slots = Pulses * n
    BY DEF OnBus, Slots
  <2>2. /\ j \in Nat /\ r \in 0..AddrBits + 1
        /\ s < Slots <=> j < n
        /\ s = Slots => j = n /\ r = 0
        /\ s + 1 = Slots <=> j = n - 1 /\ r = AddrBits + 1
        /\ r <= AddrBits => (s + 1) \div Pulses = j /\ (s + 1) % Pulses = r + 1
        /\ r = AddrBits + 1 => (s + 1) \div Pulses = j + 1 /\ (s + 1) % Pulses = 0
    BY <2>1, Position
  <2> HIDE DEF j, r, n
  <2>3. QED
    BY <2>1, <2>2, Constants DEF NextByte, NextIn
<1>2. s < Slots \/ s = Slots
  <2>1. Slots \in Nat
    BY Constants, NatTimes DEF OnBus, Slots
  <2>2. QED
    BY <2>1
<1>3. DecodedAt(d, txn.bytes, j, r)
  BY DEF Decoded
<1>4. s < Slots => bit = IF r <= AddrBits THEN (txn.bytes[j + 1] \div Shl[AddrBits - r]) % 2
                         ELSE IF s + 1 = Slots THEN txn.last_ack ELSE 0
  BY DEF BitIn
<1> HIDE DEF j, r, e
<1>5. PulseSeen(d, e, j, r)
  <2>1. CASE j = 0 /\ r < AddrBits
    <3>1. r \in 0..AddrBits - 1 /\ bit = (txn.bytes[1] \div Shl[AddrBits - r]) % 2
      BY <1>1, <1>4, <2>1, Constants
    <3>2. QED
      BY <1>3, <2>1, <3>1, AddressBitSeen DEF e
  <2>2. CASE j = 0 /\ r = AddrBits
    <3>1. bit = (txn.bytes[1] \div Shl[0]) % 2
      BY <1>1, <1>4, <2>2, Constants
    <3>2. QED
      BY <1>3, <2>2, <3>1, RwBitSeen DEF e
  <2>3. CASE j = 0 /\ r = AddrBits + 1
    BY <1>3, <2>3, AddressAckSeen DEF e
  <2>4. CASE j \in 1..n - 1 /\ r <= AddrBits
    <3>1. r \in 0..AddrBits /\ bit = (txn.bytes[j + 1] \div Shl[AddrBits - r]) % 2
      BY <1>1, <1>4, <2>4, Constants
    <3>2. QED
      BY <1>3, <2>4, <3>1, DataBitSeen DEF e
  <2>5. CASE j \in 1..n - 1 /\ r = AddrBits + 1
    <3>1. j # n - 1 => bit = 0
      BY <1>1, <1>4, <2>5, Constants
    <3>2. QED
      BY <1>3, <2>5, <3>1, DataAckSeen DEF e
  <2>6. CASE j = n
    <3>1. r = 0
      BY <1>1, <1>2, <2>6
    <3>2. QED
      BY <1>3, <2>6, <3>1, LastPulseSeen DEF e
  <2>7. j <= n
    BY <1>1, <1>2
  <2>8. QED
    BY <1>1, <2>1, <2>2, <2>3, <2>4, <2>5, <2>6, <2>7, Constants
<1>6. /\ Decoded(e, txn.bytes, s + 1) <=> DecodedAt(e, txn.bytes, NextByte(j, r), NextIn(r))
      /\ Calls(s + 1) = CallsAt(NextByte(j, r), NextIn(r)) /\ Calls(s) = CallsAt(j, r)
  BY <1>1 DEF Decoded, Calls, j, r
<1>7. QED
  BY <1>5, <1>6 DEF PulseSeen, PulseStepped, e

-----------------------------------------------------------------------------
(* Every step of the bus keeps the invariant.                              *)

\* What a frame says of the decoder.
SameDecoding ==
  /\ i2c'.state = i2c.state /\ i2c'.bits = i2c.bits /\ i2c'.byte = i2c.byte
  /\ i2c'.address = i2c.address /\ i2c'.rw = i2c.rw

\* The frame, with the bus as it is after it.
BusStepped ==
  /\ i2c' \in I2cState
  /\ decoder' \in {"i2c", "i2c_2"}
  /\ clk' \in Level /\ sda' \in Level
  /\ held' \in 0..Hold /\ noise' \in 0..Debounce
  /\ slot' \in Nat /\ left' \in Nat

\* Nothing is heard.
Silence == i2c'.calls = <<>> /\ told' = told

\* The next byte of the transaction is heard.
ByteHeard ==
  /\ txn # NoTxn
  /\ Len(told) < Len(txn.bytes)
  /\ i2c'.calls = <<CallOf(txn.bytes, Len(told) + 1)>>
  /\ told' = Append(told, CallOf(txn.bytes, Len(told) + 1))

\* The first decoded frame of all is taken for a STOP: last_sample is zeroed.
FalseStop ==
  /\ txn = NoTxn
  /\ i2c'.calls = <<StopCall>>
  /\ told' = Append(told, StopCall)

LEMMA ToldAfter ==
  ASSUME NEW clock, NEW data, NEW begins, Frame(clock, data, begins)
  PROVE  /\ i2c'.calls = <<>> => told' = told
         /\ i2c'.calls = <<StartCall>> => told' = <<>>
         /\ i2c'.calls = <<StopCall>> => told' = Append(told, StopCall)
         /\ \A byte, is_start : i2c'.calls = <<ByteCall(byte, is_start)>> =>
              told' = Append(told, ByteCall(byte, is_start))
<1>1. told' = Hears(Remember, told, i2c'.calls)
  BY DEF Frame
<1>2. ASSUME NEW call, i2c'.calls = <<call>> PROVE told' = Remember(told, call)
  BY <1>1, <1>2 DEF Hears
<1>3. i2c'.calls = <<>> => told' = told
  BY <1>1 DEF Hears
<1>4. QED
  BY <1>2, <1>3 DEF Remember, StartCall, StopCall, ByteCall

LEMMA QuietStep ==
  ASSUME BusTyped, Running, BusStepped, SameDecoding, Silence,
         txn' = txn, decoder' = decoder, Debounces', Seen' = Seen, Seen \in Nat,
         txn = NoTxn => clk' = 1 /\ sda' = 1 /\ i2c'.current = 1 /\ slot' = 0,
         txn # NoTxn => Within'
  PROVE  BusTyped' /\ Running'
<1>1. BusTyped'
  BY DEF BusTyped, BusStepped, Silence
<1>2. txn = NoTxn => Between'
  BY DEF Running, Between, SameDecoding, Silence
<1>3. txn # NoTxn => Decoded(i2c, txn.bytes, Seen)' /\ ToldAt(Seen)'
  <2>1. SUFFICES ASSUME txn # NoTxn PROVE Decoded(i2c, txn.bytes, Seen)' /\ ToldAt(Seen)'
    OBVIOUS
  <2>2. Decoded(i2c, txn.bytes, Seen) /\ ToldAt(Seen)
    BY <2>1 DEF Running
  <2>3. Decoded(i2c, txn.bytes, Seen)'
    BY <2>2 DEF SameDecoding, Decoded, DecodedAt
  <2>4. ToldAt(Seen)'
    BY <2>2 DEF ToldAt, Silence
  <2>5. QED
    BY <2>3, <2>4
<1>4. QED
  BY <1>1, <1>2, <1>3 DEF Running

LEMMA ProcessedIn ==
  ASSUME NEW clock, NEW data, NEW begins, Frame(clock, data, begins)
  PROVE  ProcessFrame(clock, data)
BY DEF Frame

\* A frame that the decoder takes for a glitch.
LEMMA LostFrame ==
  ASSUME BusTyped, Debounces, NEW clock \in Level, NEW data \in Level,
         clock # i2c.current, i2c.countdown # 1, Frame(clock, data, FALSE)
  PROVE  /\ i2c' \in I2cState /\ SameDecoding /\ Silence
         /\ ~i2c'.first_frame /\ i2c'.current = i2c.current
         /\ i2c'.clk = i2c.clk /\ i2c'.dta = i2c.dta
         /\ i2c'.countdown = IF i2c.countdown = 0 THEN Debounce ELSE i2c.countdown - 1
<1> DEFINE count == IF i2c.countdown = 0 THEN Debounce ELSE i2c.countdown - 1
<1>1. i2c \in I2cState /\ ~i2c.first_frame
  BY DEF BusTyped, Debounces
<1>2. i2c' = [i2c EXCEPT !.calls = <<>>, !.countdown = count]
  BY <1>1, ProcessedIn, FrameLost
<1>3. count \in 0..Debounce /\ <<>> \in Seq(Call)
  BY <1>1, Constants DEF I2cState
<1> HIDE DEF count
<1>4. /\ i2c' \in I2cState /\ SameDecoding /\ i2c'.calls = <<>>
      /\ ~i2c'.first_frame /\ i2c'.current = i2c.current
      /\ i2c'.clk = i2c.clk /\ i2c'.dta = i2c.dta
      /\ i2c'.countdown = count
  BY <1>1, <1>2, <1>3 DEF I2cState, SameDecoding
<1>5. QED
  BY <1>4, ToldAfter DEF Silence, count

\* A frame that is decoded and has no edge, or only a falling one of the clock, or
\* one of the data line while the clock is low.
LEMMA PlainFrame ==
  ASSUME BusTyped, Debounces, NEW clock \in Level, NEW data \in Level,
         clock = i2c.current \/ i2c.countdown = 1,
         (clock = i2c.clk /\ data = i2c.dta) \/ clock = 0, Frame(clock, data, FALSE)
  PROVE  /\ i2c' \in I2cState /\ SameDecoding /\ Silence
         /\ ~i2c'.first_frame /\ i2c'.current = clock
         /\ i2c'.clk = clock /\ i2c'.dta = data
         /\ i2c'.countdown = IF clock = i2c.current THEN i2c.countdown ELSE 0
<1> DEFINE d == Fresh(clock)
<1>1. i2c \in I2cState /\ ~i2c.first_frame
  BY DEF BusTyped, Debounces
<1>2. i2c' = Edges(d, clock, data)
  BY <1>1, ProcessedIn, FrameDecoded
<1>3. /\ d \in I2cState /\ d.first_frame = i2c.first_frame /\ d.current = clock
      /\ d.countdown = IF clock = i2c.current THEN i2c.countdown ELSE 0
      /\ d.clk = i2c.clk /\ d.dta = i2c.dta /\ d.state = i2c.state
      /\ d.bits = i2c.bits /\ d.byte = i2c.byte
      /\ d.address = i2c.address /\ d.rw = i2c.rw /\ d.calls = <<>>
  BY <1>1, FreshIs
<1> HIDE DEF d
<1>4. i2c' = [d EXCEPT !.clk = clock, !.dta = data]
  <2>1. (clock = d.clk /\ data = d.dta) \/ clock = 0
    BY <1>3
  <2>2. d \in I2cState
    BY <1>3
  <2>3. Edges(d, clock, data) = Sampled(d, clock, data)
    BY <2>1, <2>2, NoEdge
  <2>4. QED
    BY <1>2, <2>3 DEF Sampled
<1>5. /\ i2c' \in I2cState /\ SameDecoding /\ i2c'.calls = <<>>
      /\ ~i2c'.first_frame /\ i2c'.current = clock
      /\ i2c'.clk = clock /\ i2c'.dta = data
      /\ i2c'.countdown = d.countdown
  BY <1>1, <1>3, <1>4 DEF I2cState, SameDecoding
<1>6. QED
  BY <1>3, <1>5, ToldAfter DEF Silence

\* What has been heard, with one byte more.
LEMMA OneMore ==
  ASSUME OnBus, NEW n \in Nat, n + 1 <= Len(txn.bytes),
         told = [k \in 1..n |-> CallOf(txn.bytes, k)]
  PROVE  /\ Len(told) = n /\ CallOf(txn.bytes, n + 1) \in Call
         /\ Append(told, CallOf(txn.bytes, n + 1)) = [k \in 1..n + 1 |-> CallOf(txn.bytes, k)]
<1>1. \A k \in 1..n + 1 : CallOf(txn.bytes, k) \in Call
  <2>1. SUFFICES ASSUME NEW k \in 1..n + 1 PROVE CallOf(txn.bytes, k) \in Call
    OBVIOUS
  <2>2. txn.bytes[k] \in Byte
    BY DEF OnBus
  <2>3. txn.bytes[k] \in Nat
    BY <2>2, ByteIs
  <2>4. QED
    BY <2>3 DEF CallOf, ByteCall, Call, Level
<1>2. told \in Seq(Call) /\ Len(told) = n
  BY <1>1
<1>3. QED
  BY <1>1, <1>2

\* The frame in which a rising edge of the clock is decoded.
LEMMA PulseFrame ==
  ASSUME BusTyped, Debounces, OnBus, txn # NoTxn, NEW data \in Level,
         i2c.current = 0, i2c.countdown = 1, data = i2c.dta,
         NEW s \in Nat, s <= Slots, Decoded(i2c, txn.bytes, s),
         s < Slots => data = BitIn(s), ToldAt(s), Frame(1, data, FALSE)
  PROVE  /\ i2c' \in I2cState
         /\ ~i2c'.first_frame /\ i2c'.current = 1
         /\ i2c'.clk = 1 /\ i2c'.dta = data /\ i2c'.countdown = 0
         /\ Decoded(i2c', txn.bytes, s + 1)
         /\ told' = [k \in 1..Calls(s + 1) |-> CallOf(txn.bytes, k)]
         /\ told' \in Seq(Call)
         /\ Silence \/ ByteHeard
<1> DEFINE d == Fresh(1)
           e == ClockRise(d, data)
<1>1. i2c \in I2cState /\ ~i2c.first_frame /\ i2c.clk = 0 /\ told \in Seq(Call)
      /\ 1 \in Level
  BY DEF BusTyped, Debounces, Level
<1>2. i2c' = Edges(d, 1, data)
  BY <1>1, ProcessedIn, FrameDecoded
<1>3. /\ d \in I2cState /\ d.first_frame = i2c.first_frame /\ d.current = 1
      /\ d.countdown = 0
      /\ d.clk = i2c.clk /\ d.dta = i2c.dta /\ d.state = i2c.state
      /\ d.bits = i2c.bits /\ d.byte = i2c.byte
      /\ d.address = i2c.address /\ d.rw = i2c.rw /\ d.calls = <<>>
  BY <1>1, FreshIs
<1>4. Decoded(d, txn.bytes, s)
  BY <1>3 DEF Decoded, DecodedAt
<1> HIDE DEF d
<1>5. i2c' = [e EXCEPT !.clk = 1, !.dta = data]
  BY <1>1, <1>2, <1>3, RisingEdge
<1>6. PulseStepped(d, e, s)
  BY <1>3, <1>4, PulseStep
<1> HIDE DEF e
<1>7. /\ i2c' \in I2cState /\ i2c'.calls = e.calls
      /\ ~i2c'.first_frame /\ i2c'.current = 1
      /\ i2c'.clk = 1 /\ i2c'.dta = data /\ i2c'.countdown = 0
      /\ i2c'.state = e.state /\ i2c'.bits = e.bits /\ i2c'.byte = e.byte
      /\ i2c'.address = e.address /\ i2c'.rw = e.rw
  BY <1>1, <1>3, <1>5, <1>6 DEF I2cState, PulseStepped
<1>8. Decoded(i2c', txn.bytes, s + 1)
  BY <1>6, <1>7 DEF PulseStepped, Decoded, DecodedAt
<1>9. Calls(s) \in Nat
  BY Constants, DivModType DEF Calls, CallsAt
<1>10. CASE Calls(s + 1) = Calls(s) /\ e.calls = <<>>
  <2>1. Silence
    BY <1>7, <1>10, ToldAfter DEF Silence
  <2>2. QED
    BY <1>1, <1>7, <1>8, <1>10, <2>1 DEF Silence, ToldAt
<1>11. CASE /\ Calls(s + 1) = Calls(s) + 1 /\ Calls(s + 1) <= Len(txn.bytes)
            /\ e.calls = <<CallOf(txn.bytes, Calls(s + 1))>>
  <2> DEFINE n == Calls(s)
  <2>1. told = [k \in 1..n |-> CallOf(txn.bytes, k)] /\ n \in Nat /\ n + 1 <= Len(txn.bytes)
    BY <1>9, <1>11 DEF ToldAt
  <2>2. i2c'.calls = <<CallOf(txn.bytes, n + 1)>>
    BY <1>7, <1>11
  <2> HIDE DEF n
  <2>3. told' = Append(told, CallOf(txn.bytes, n + 1))
    BY <2>2, ToldAfter DEF CallOf
  <2>4. /\ Len(told) = n /\ CallOf(txn.bytes, n + 1) \in Call
        /\ Append(told, CallOf(txn.bytes, n + 1)) = [k \in 1..n + 1 |-> CallOf(txn.bytes, k)]
    BY <2>1, OneMore
  <2>5. n < Len(txn.bytes)
    BY <2>1 DEF OnBus
  <2>6. ByteHeard
    BY <2>2, <2>3, <2>4, <2>5 DEF ByteHeard
  <2>7. told' = [k \in 1..Calls(s + 1) |-> CallOf(txn.bytes, k)]
    BY <1>11, <2>3, <2>4 DEF n
  <2>8. told' \in Seq(Call)
    BY <1>1, <2>3, <2>4
  <2>9. QED
    BY <1>7, <1>8, <2>6, <2>7, <2>8
<1>12. QED
  BY <1>6, <1>10, <1>11 DEF PulseStepped

\* What is left of a step, the listeners apart: it is heard of as it should be.
Stepped == BusTyped' /\ Running'

LEMMA Moments ==
  ASSUME BusTyped, Running
  PROVE  /\ clk = 0 => txn # NoTxn /\ slot <= Slots
         /\ Settled => Agree /\ i2c.dta = sda
         /\ Agree <=> i2c.current = clk
         /\ i2c.clk = i2c.current /\ i2c.current \in Level
         /\ Seen \in Nat
         /\ txn # NoTxn => OnBus /\ Slots \in Nat /\ slot <= Slots + 1 /\ Seen <= Slots + 1
         /\ held \in 1..Hold /\ Held \in 1..Hold
<1>1. /\ held \in 1..Hold /\ Held \in 1..Hold /\ 1 < Hold
  BY Constants DEF BusTyped, Running, Debounces, Held
<1>2. i2c.clk = i2c.current /\ i2c.current \in Level /\ clk \in Level
  BY DEF BusTyped, Running, Debounces, I2cState
<1>3. Agree <=> i2c.current = clk
  BY DEF Agree
<1>4. Settled => Agree /\ i2c.dta = sda
  BY <1>1, Constants DEF Running, Debounces, Settled, BusTyped
<1>5. txn # NoTxn => OnBus /\ Slots \in Nat
  <2>1. SUFFICES ASSUME txn # NoTxn PROVE OnBus /\ Slots \in Nat
    OBVIOUS
  <2>2. OnBus
    BY <2>1, OnBusIs
  <2>3. QED
    BY <2>2, Constants, NatTimes DEF OnBus, Slots
<1>6. slot \in Nat
  BY DEF BusTyped
<1>7. txn # NoTxn => slot <= Slots + 1
  BY DEF Running, Within
<1>8. clk = 0 => txn # NoTxn /\ slot <= Slots
  BY <1>5, <1>6, <1>7 DEF Running, Between, Within
<1>9. Seen \in Nat
  <2>1. CASE clk = 1 /\ ~Agree
    <3>1. txn # NoTxn
      BY <1>3, <2>1 DEF Running, Between
    <3>2. slot > 0
      BY <2>1, <3>1 DEF Running, Within
    <3>3. QED
      BY <1>6, <2>1, <3>2 DEF Seen
  <2>2. CASE ~(clk = 1 /\ ~Agree)
    BY <1>6, <2>2 DEF Seen
  <2>3. QED
    BY <2>1, <2>2
<1>10. txn # NoTxn => Seen <= Slots + 1
  BY <1>5, <1>6, <1>7 DEF Seen
<1>11. QED
  BY <1>1, <1>2, <1>3, <1>4, <1>5, <1>7, <1>8, <1>9, <1>10

\* A glitch.
LEMMA GlitchStep ==
  ASSUME BusTyped, Running, Glitch
  PROVE  Stepped /\ Silence
<1>1. /\ Settled /\ noise < Debounce /\ noise \in Nat
      /\ noise' = noise + 1 /\ Frame(1 - clk, sda, FALSE)
      /\ UNCHANGED <<decoder, clk, sda, held, txn, slot, left>>
  <2>1. noise \in Nat
    BY DEF BusTyped
  <2>2. QED
    BY <2>1 DEF Glitch
<1>2. Agree /\ i2c.dta = sda /\ i2c.current = clk /\ i2c.countdown = Residual(noise)
  BY <1>1, Moments DEF Running, Debounces
<1>3. 1 - clk \in Level /\ sda \in Level /\ 1 - clk # i2c.current /\ i2c.countdown # 1
  BY <1>1, <1>2, Constants DEF Residual, BusTyped, Level
<1>4. /\ i2c' \in I2cState /\ SameDecoding /\ Silence
      /\ ~i2c'.first_frame /\ i2c'.current = i2c.current
      /\ i2c'.clk = i2c.clk /\ i2c'.dta = i2c.dta
      /\ i2c'.countdown = IF i2c.countdown = 0 THEN Debounce ELSE i2c.countdown - 1
  BY <1>1, <1>3, LostFrame DEF Running
<1>5. i2c'.countdown = Residual(noise)' /\ Residual(noise)' = Residual(noise + 1)
  BY <1>1, <1>2, <1>4, Constants DEF Residual
<1>6. Agree'
  BY <1>1, <1>2, <1>4 DEF Agree
<1>7. held = Hold /\ held' = Hold
  BY <1>1 DEF Settled, Hold
<1>8. Debounces'
  BY <1>1, <1>2, <1>4, <1>5, <1>6, <1>7, Constants, Moments DEF Debounces, Hold
<1>9. Seen' = Seen
  BY <1>1, <1>2, <1>6 DEF Seen
<1>10. BusStepped
  BY <1>1, <1>4, <1>7, Constants DEF BusStepped, BusTyped, Hold
<1>11. txn = NoTxn => clk' = 1 /\ sda' = 1 /\ i2c'.current = 1 /\ slot' = 0
  BY <1>1, <1>4 DEF Running, Between
<1>12. txn # NoTxn => Within'
  BY <1>1, <1>6 DEF Running, Within, Slots, Pulses
<1>13. QED
  BY <1>1, <1>4, <1>8, <1>9, <1>10, <1>11, <1>12, QuietStep, Moments DEF Stepped

\* A frame in which the clock keeps its level.
LevelFrame(data) ==
  /\ Frame(clk, data, FALSE)
  /\ sda' = data
  /\ held' = Held
  /\ UNCHANGED <<decoder, clk, noise, txn, slot, left>>

\* The decoder believes in the level, and sees no edge.
LEMMA AgreedStep ==
  ASSUME BusTyped, Running, NEW data \in Level, LevelFrame(data), Agree,
         (data = sda /\ i2c.dta = sda) \/ clk = 0
  PROVE  Stepped /\ Silence
<1>1. /\ Frame(clk, data, FALSE) /\ sda' = data /\ held' = Held
      /\ UNCHANGED <<decoder, clk, noise, txn, slot, left>>
  BY DEF LevelFrame
<1>2. i2c.current = clk /\ i2c.clk = clk /\ i2c.countdown = Residual(noise) /\ clk \in Level
  BY Moments DEF Running, Debounces, BusTyped
<1>3. clk = i2c.current \/ i2c.countdown = 1
  BY <1>2
<1>4. (clk = i2c.clk /\ data = i2c.dta) \/ clk = 0
  BY <1>2
<1>5. /\ i2c' \in I2cState /\ SameDecoding /\ Silence
      /\ ~i2c'.first_frame /\ i2c'.current = clk
      /\ i2c'.clk = clk /\ i2c'.dta = data
      /\ i2c'.countdown = IF clk = i2c.current THEN i2c.countdown ELSE 0
  BY <1>1, <1>2, <1>3, <1>4, PlainFrame DEF Running
<1>6. Agree' /\ i2c'.countdown = Residual(noise)'
  BY <1>1, <1>2, <1>5 DEF Agree, Residual
<1>7. held \in 1..Hold /\ held' \in 1..Hold /\ held <= held'
  BY <1>1, Moments, Constants DEF Held
<1>8. held' < Hold => noise' = 0
  BY <1>1, <1>7, Constants DEF Running, Debounces
<1>9. Debounces'
  <2>1. Hold' = Hold
    BY DEF Hold
  <2>2. QED
    BY <1>1, <1>2, <1>5, <1>6, <1>7, <1>8, <2>1 DEF Debounces
<1>10. Seen' = Seen
  BY <1>1, <1>6 DEF Seen
<1>11. BusStepped
  <2>1. Hold' = Hold
    BY DEF Hold
  <2>2. QED
    BY <1>1, <1>5, <1>7, <2>1, Constants DEF BusStepped, BusTyped
<1>12. txn = NoTxn => clk' = 1 /\ sda' = 1 /\ i2c'.current = 1 /\ slot' = 0
  BY <1>1, <1>2, <1>5, Moments DEF Running, Between
<1>13. txn # NoTxn => Within'
  BY <1>1, <1>6 DEF Running, Within, Slots, Pulses
<1>14. QED
  BY <1>1, <1>5, <1>9, <1>10, <1>11, <1>12, <1>13, QuietStep, Moments DEF Stepped

\* It does not yet.
LEMMA WaitingStep ==
  ASSUME BusTyped, Running, NEW data \in Level, LevelFrame(data), ~Agree,
         i2c.countdown # 1, data = sda \/ clk = 0
  PROVE  Stepped /\ Silence
<1>1. /\ Frame(clk, data, FALSE) /\ sda' = data /\ held' = Held
      /\ UNCHANGED <<decoder, clk, noise, txn, slot, left>>
  BY DEF LevelFrame
<1>2. /\ i2c.current # clk /\ i2c.clk = i2c.current /\ clk \in Level /\ sda \in Level
      /\ noise = 0 /\ i2c.countdown \in 2..Hold - held
      /\ clk = 1 => i2c.dta = sda
  BY Moments DEF Running, Debounces, BusTyped
<1>3. /\ i2c' \in I2cState /\ SameDecoding /\ Silence
      /\ ~i2c'.first_frame /\ i2c'.current = i2c.current
      /\ i2c'.clk = i2c.clk /\ i2c'.dta = i2c.dta
      /\ i2c'.countdown = IF i2c.countdown = 0 THEN Debounce ELSE i2c.countdown - 1
  BY <1>1, <1>2, LostFrame DEF Running
<1>4. held \in 1..Hold /\ held' = held + 1 /\ held' < Hold /\ held' > 0 /\ Hold' = Hold
  BY <1>1, <1>2, Moments, Constants DEF Held, Hold
<1>5. i2c'.countdown \in 1..Hold - held'
  BY <1>2, <1>3, <1>4, Constants
<1>6. ~Agree'
  BY <1>1, <1>2, <1>3 DEF Agree
<1>7. Debounces'
  BY <1>1, <1>2, <1>3, <1>4, <1>5, <1>6 DEF Debounces
<1>8. Seen' = Seen
  BY <1>1, <1>6 DEF Seen
<1>9. BusStepped
  BY <1>1, <1>3, <1>4, Constants DEF BusStepped, BusTyped
<1>10. txn = NoTxn => clk' = 1 /\ sda' = 1 /\ i2c'.current = 1 /\ slot' = 0
  BY <1>2 DEF Running, Between
<1>11. txn # NoTxn => Within'
  <2>1. SUFFICES ASSUME txn # NoTxn PROVE Within'
    OBVIOUS
  <2>2. Within
    BY <2>1 DEF Running
  <2>3. Slots' = Slots /\ \A pulse : BitIn(pulse)' = BitIn(pulse)
    BY <1>1 DEF Slots, Pulses, BitIn
  <2>4. clk = 1 => sda' = sda
    BY <1>1
  <2>5. QED
    BY <1>1, <2>2, <2>3, <2>4 DEF Within
<1>12. QED
  BY <1>1, <1>3, <1>7, <1>8, <1>9, <1>10, <1>11, QuietStep, Moments DEF Stepped

\* It takes a falling edge of the clock for one.
LEMMA FallSeen ==
  ASSUME BusTyped, Running, NEW data \in Level, LevelFrame(data), ~Agree,
         i2c.countdown = 1, clk = 0
  PROVE  Stepped /\ Silence
<1>1. /\ Frame(0, data, FALSE) /\ sda' = data /\ held' = Held
      /\ UNCHANGED <<decoder, clk, noise, txn, slot, left>>
  BY DEF LevelFrame
<1>2. i2c.current = 1 /\ noise = 0 /\ 0 \in Level
  BY Moments DEF Running, Debounces, Level
<1>3. /\ i2c' \in I2cState /\ SameDecoding /\ Silence
      /\ ~i2c'.first_frame /\ i2c'.current = 0
      /\ i2c'.clk = 0 /\ i2c'.dta = data
      /\ i2c'.countdown = IF 0 = i2c.current THEN i2c.countdown ELSE 0
  BY <1>1, <1>2, PlainFrame DEF Running
<1>4. Agree' /\ i2c'.countdown = Residual(noise)'
  BY <1>1, <1>2, <1>3 DEF Agree, Residual
<1>5. held' \in 1..Hold /\ Hold' = Hold
  BY <1>1, Moments DEF Hold
<1>6. Debounces'
  BY <1>1, <1>2, <1>3, <1>4, <1>5 DEF Debounces
<1>7. Seen' = Seen
  BY <1>1 DEF Seen
<1>8. BusStepped
  BY <1>1, <1>3, <1>5, Constants DEF BusStepped, BusTyped
<1>9. txn # NoTxn
  BY Moments
<1>10. Within'
  BY <1>1, <1>9 DEF Running, Within, Slots, Pulses
<1>11. QED
  BY <1>1, <1>3, <1>6, <1>7, <1>8, <1>9, <1>10, QuietStep, Moments DEF Stepped

\* What is left to show when a rising edge is decoded.
LEMMA PulseStepKeeps ==
  ASSUME BusTyped, Running, txn # NoTxn, NEW s \in Nat, BusStepped,
         txn' = txn, decoder' = decoder, Debounces', Within', Seen' = s + 1,
         told' \in Seq(Call), Decoded(i2c', txn.bytes, s + 1),
         told' = [k \in 1..Calls(s + 1) |-> CallOf(txn.bytes, k)]
  PROVE  Stepped
<1>1. BusTyped'
  BY DEF BusTyped, BusStepped
<1>2. Decoded(i2c, txn.bytes, Seen)'
  BY DEF Decoded
<1>3. ToldAt(Seen)'
  BY DEF ToldAt
<1>4. QED
  BY <1>1, <1>2, <1>3 DEF Running, Stepped

\* It takes a rising edge of the clock for one.
LEMMA RiseSeen ==
  ASSUME BusTyped, Running, LevelFrame(sda), ~Agree, i2c.countdown = 1, clk = 1
  PROVE  Stepped /\ (Silence \/ ByteHeard)
<1>1. /\ Frame(1, sda, FALSE) /\ sda' = sda /\ held' = Held /\ sda \in Level
      /\ UNCHANGED <<decoder, clk, noise, txn, slot, left>>
  BY DEF LevelFrame, BusTyped
<1>2. i2c.current = 0 /\ noise = 0 /\ i2c.dta = sda
  BY Moments DEF Running, Debounces, Level
<1>3. txn # NoTxn
  BY <1>2 DEF Running, Between
<1>4. Within /\ OnBus /\ slot > 0 /\ slot \in Nat /\ (slot - 1 < Slots => sda = BitIn(slot - 1))
      /\ slot <= Slots + 1 /\ Slots \in Nat
  BY <1>3, Moments DEF Running, Within, BusTyped
<1> DEFINE s == slot - 1
<1>5. s \in Nat /\ s <= Slots /\ Seen = s
  BY <1>4 DEF Seen
<1>6. Decoded(i2c, txn.bytes, s) /\ ToldAt(s)
  BY <1>3, <1>5 DEF Running
<1>7. /\ i2c' \in I2cState
      /\ ~i2c'.first_frame /\ i2c'.current = 1
      /\ i2c'.clk = 1 /\ i2c'.dta = sda /\ i2c'.countdown = 0
      /\ Decoded(i2c', txn.bytes, s + 1)
      /\ told' = [k \in 1..Calls(s + 1) |-> CallOf(txn.bytes, k)]
      /\ told' \in Seq(Call)
      /\ Silence \/ ByteHeard
  BY <1>1, <1>2, <1>3, <1>4, <1>5, <1>6, PulseFrame DEF Running
<1>8. Agree' /\ i2c'.countdown = Residual(noise)'
  BY <1>1, <1>2, <1>7 DEF Agree, Residual
<1>9. held' \in 1..Hold /\ Hold' = Hold
  BY <1>1, Moments DEF Hold
<1>10. Debounces'
  BY <1>1, <1>2, <1>7, <1>8, <1>9 DEF Debounces
<1>11. Seen' = s + 1
  BY <1>1, <1>4, <1>8 DEF Seen
<1>12. BusStepped
  BY <1>1, <1>7, <1>9, Constants DEF BusStepped, BusTyped
<1>13. Within'
  BY <1>1, <1>4, <1>8 DEF Within, Slots, Pulses
<1>14. Stepped
  <2> HIDE DEF s
  <2>1. QED
    BY <1>1, <1>3, <1>5, <1>7, <1>10, <1>11, <1>12, <1>13, PulseStepKeeps
<1>15. QED
  BY <1>7, <1>14

\* The frame in which a STOP is seen.
LEMMA StopFrame ==
  ASSUME BusTyped, ~i2c.first_frame, i2c.clk = 1, i2c.current = 1, i2c.dta = 0,
         Frame(1, 1, FALSE)
  PROVE  /\ i2c' \in I2cState /\ ~i2c'.first_frame
         /\ i2c'.current = 1 /\ i2c'.clk = 1 /\ i2c'.dta = 1
         /\ i2c'.countdown = i2c.countdown /\ i2c'.state = "IDLE"
         /\ i2c'.calls = <<StopCall>> /\ told' = Append(told, StopCall)
         /\ told' \in Seq(Call) /\ told' # <<>> /\ Last(told') = StopCall
<1> DEFINE d == Fresh(1)
           e == StopCondition(d)
<1>1. i2c \in I2cState /\ told \in Seq(Call) /\ 1 \in Level /\ StopCall \in Call
  BY DEF BusTyped, Level, Call
<1>2. i2c' = Edges(d, 1, 1)
  BY <1>1, ProcessedIn, FrameDecoded
<1>3. /\ d \in I2cState /\ d.first_frame = i2c.first_frame /\ d.current = 1
      /\ d.countdown = i2c.countdown
      /\ d.clk = i2c.clk /\ d.dta = i2c.dta /\ d.calls = <<>>
  BY <1>1, FreshIs
<1> HIDE DEF d
<1>4. i2c' = [e EXCEPT !.clk = 1, !.dta = 1]
  BY <1>2, <1>3, StopEdge
<1>5. Append(<<>>, StopCall) = <<StopCall>> /\ <<StopCall>> \in Seq(Call)
  BY <1>1
<1>6. e = [d EXCEPT !.state = "IDLE", !.calls = <<StopCall>>]
  BY <1>3, <1>5 DEF StopCondition
<1> HIDE DEF e
<1>7. /\ e \in I2cState /\ e.state = "IDLE" /\ e.calls = <<StopCall>>
      /\ e.first_frame = d.first_frame /\ e.current = d.current /\ e.countdown = d.countdown
  BY <1>3, <1>5, <1>6 DEF I2cState
<1>8. /\ i2c' \in I2cState /\ i2c'.first_frame = e.first_frame
      /\ i2c'.current = e.current /\ i2c'.clk = 1 /\ i2c'.dta = 1
      /\ i2c'.countdown = e.countdown /\ i2c'.state = "IDLE"
      /\ i2c'.calls = <<StopCall>>
  BY <1>1, <1>4, <1>7 DEF I2cState
<1>9. told' = Append(told, StopCall)
  BY <1>8, ToldAfter
<1>10. told' \in Seq(Call) /\ told' # <<>> /\ Last(told') = StopCall
  BY <1>1, <1>9 DEF Last
<1>11. QED
  BY <1>3, <1>7, <1>8, <1>9, <1>10

\* The decoder's first sample of the lines is taken for a STOP.
LEMMA FalseStopSeen ==
  ASSUME BusTyped, Running, LevelFrame(sda), Agree, i2c.dta # sda, clk = 1
  PROVE  Stepped /\ FalseStop
<1>1. /\ Frame(1, sda, FALSE) /\ sda' = sda /\ held' = Held
      /\ UNCHANGED <<decoder, clk, noise, txn, slot, left>>
  BY DEF LevelFrame
<1>2. /\ txn = NoTxn /\ held = 1 /\ i2c.current = 1 /\ i2c.clk = 1 /\ sda = 1
      /\ ~i2c.first_frame /\ i2c.countdown = Residual(noise) /\ i2c.dta = 0
      /\ (held < Hold => noise = 0) /\ slot = 0
  BY DEF Running, Debounces, Between, Agree, BusTyped, I2cState, Level
<1>3. /\ i2c' \in I2cState /\ ~i2c'.first_frame
      /\ i2c'.current = 1 /\ i2c'.clk = 1 /\ i2c'.dta = 1
      /\ i2c'.countdown = i2c.countdown /\ i2c'.state = "IDLE"
      /\ i2c'.calls = <<StopCall>> /\ told' = Append(told, StopCall)
      /\ told' \in Seq(Call) /\ told' # <<>> /\ Last(told') = StopCall
  BY <1>1, <1>2, StopFrame
<1>4. held' = 2 /\ held' \in 1..Hold /\ Hold' = Hold /\ noise = 0
  BY <1>1, <1>2, Constants DEF Held, Hold
<1>5. Agree' /\ i2c'.countdown = Residual(noise)'
  BY <1>1, <1>2, <1>3 DEF Agree, Residual
<1>6. Debounces'
  BY <1>1, <1>2, <1>3, <1>4, <1>5 DEF Debounces
<1>7. BusTyped'
  BY <1>1, <1>3, <1>4, Constants DEF BusTyped
<1>8. Between'
  BY <1>1, <1>2, <1>3 DEF Between
<1>9. QED
  BY <1>1, <1>2, <1>3, <1>6, <1>7, <1>8 DEF Stepped, Running, FalseStop

LEMMA StayStep ==
  ASSUME BusTyped, Running, Stay
  PROVE  Stepped /\ (Silence \/ ByteHeard \/ FalseStop)
<1>1. LevelFrame(sda) /\ sda \in Level /\ clk \in Level
  BY DEF Stay, LevelFrame, BusTyped
<1>2. CASE Agree /\ i2c.dta = sda
  BY <1>1, <1>2, AgreedStep
<1>3. CASE Agree /\ i2c.dta # sda
  <2>1. clk = 1
    BY <1>3 DEF Running, Debounces, Between
  <2>2. QED
    BY <1>1, <1>3, <2>1, FalseStopSeen
<1>4. CASE ~Agree /\ i2c.countdown # 1
  BY <1>1, <1>4, WaitingStep
<1>5. CASE ~Agree /\ i2c.countdown = 1
  <2>1. CASE clk = 0
    BY <1>1, <1>5, <2>1, FallSeen
  <2>2. CASE clk = 1
    BY <1>1, <1>5, <2>2, RiseSeen
  <2>3. QED
    BY <1>1, <2>1, <2>2 DEF Level
<1>6. QED
  BY <1>2, <1>3, <1>4, <1>5

LEMMA DataMovesStep ==
  ASSUME BusTyped, Running, DataMoves
  PROVE  Stepped /\ Silence
<1>1. clk = 0 /\ LevelFrame(1 - sda) /\ 1 - sda \in Level
  <2>1. clk = 0 /\ Frame(0, 1 - sda, FALSE)
    BY DEF DataMoves
  <2>2. Frame(clk, 1 - sda, FALSE)
    BY <2>1
  <2>3. LevelFrame(1 - sda)
    BY <2>2 DEF DataMoves, LevelFrame
  <2>4. 1 - sda \in Level
    BY DEF BusTyped, Level
  <2>5. QED
    BY <2>1, <2>3, <2>4
<1>2. CASE Agree
  BY <1>1, <1>2, AgreedStep
<1>3. CASE ~Agree /\ i2c.countdown # 1
  BY <1>1, <1>3, WaitingStep
<1>4. CASE ~Agree /\ i2c.countdown = 1
  BY <1>1, <1>4, FallSeen
<1>5. QED
  BY <1>2, <1>3, <1>4

\* A frame in which the clock changes.
EdgeFrame(clock, data, pulse) ==
  /\ Frame(clock, data, FALSE)
  /\ sda' = data /\ clk' = clock /\ slot' = pulse
  /\ held' = 1 /\ noise' = 0
  /\ UNCHANGED <<decoder, txn, left>>

\* The decoder is counting when the clock changes: it does not believe in the new
\* level yet.
LEMMA EdgeCounted ==
  ASSUME BusTyped, Running, Settled, NEW clock \in Level, clock # clk,
         NEW data \in Level, clock = 1 => data = sda, NEW pulse \in Nat,
         EdgeFrame(clock, data, pulse), i2c.countdown # 1
  PROVE  /\ BusStepped /\ SameDecoding /\ Silence /\ Debounces' /\ ~Agree'
         /\ i2c'.current = i2c.current
<1>1. /\ Frame(clock, data, FALSE) /\ sda' = data /\ clk' = clock /\ slot' = pulse
      /\ held' = 1 /\ noise' = 0 /\ UNCHANGED <<decoder, txn, left>>
  BY DEF EdgeFrame
<1>2. /\ Agree /\ i2c.dta = sda /\ i2c.current = clk /\ i2c.clk = i2c.current
      /\ i2c.countdown = Residual(noise) /\ noise \in 0..Debounce
  BY Moments DEF Running, Debounces, BusTyped
<1>3. /\ i2c' \in I2cState /\ SameDecoding /\ Silence
      /\ ~i2c'.first_frame /\ i2c'.current = i2c.current
      /\ i2c'.clk = i2c.clk /\ i2c'.dta = i2c.dta
      /\ i2c'.countdown = IF i2c.countdown = 0 THEN Debounce ELSE i2c.countdown - 1
  BY <1>1, <1>2, LostFrame DEF Running
<1>4. 1 < Hold /\ 1 \in 1..Hold /\ Hold' = Hold
  BY Constants DEF Hold
<1>5. i2c'.countdown \in 1..Hold - 1
  BY <1>2, <1>3, Constants DEF Residual
<1>6. ~Agree'
  BY <1>1, <1>2, <1>3 DEF Agree
<1>7. clk' = 1 => i2c'.dta = sda'
  BY <1>1, <1>2, <1>3
<1>8. Debounces'
  BY <1>1, <1>2, <1>3, <1>4, <1>5, <1>6, <1>7 DEF Debounces
<1>9. BusStepped
  BY <1>1, <1>3, <1>4, Constants DEF BusStepped, BusTyped
<1>10. QED
  BY <1>3, <1>6, <1>8, <1>9

LEMMA ClockFallsStep ==
  ASSUME BusTyped, Running, ClockFalls
  PROVE  Stepped /\ Silence
<1>1. PICK data \in Level : EdgeFrame(0, data, slot)
  BY DEF ClockFalls, EdgeFrame
<1>2. /\ clk = 1 /\ Settled /\ txn # NoTxn /\ slot <= Slots /\ slot \in Nat
      /\ 0 \in Level /\ Slots \in Nat /\ OnBus
  BY Moments DEF ClockFalls, BusTyped, Level
<1>3. /\ Frame(0, data, FALSE) /\ sda' = data /\ clk' = 0 /\ slot' = slot
      /\ held' = 1 /\ noise' = 0 /\ UNCHANGED <<decoder, txn, left>>
  BY <1>1 DEF EdgeFrame
<1>4. Agree /\ i2c.current = 1 /\ Seen = slot
  BY <1>2, Moments DEF Seen
<1>5. Seen' = slot /\ Seen \in Nat
  BY <1>2, <1>3, <1>4 DEF Seen
<1>6. Within'
  BY <1>2, <1>3 DEF Within, Slots, Pulses
<1>7. BusStepped /\ SameDecoding /\ Silence /\ Debounces'
  <2>1. CASE i2c.countdown # 1
    BY <1>1, <1>2, <2>1, EdgeCounted
  <2>2. CASE i2c.countdown = 1
    <3>1. /\ i2c' \in I2cState /\ SameDecoding /\ Silence
          /\ ~i2c'.first_frame /\ i2c'.current = 0
          /\ i2c'.clk = 0 /\ i2c'.dta = data
          /\ i2c'.countdown = IF 0 = i2c.current THEN i2c.countdown ELSE 0
      BY <1>2, <1>3, <2>2, PlainFrame DEF Running
    <3>2. Agree' /\ i2c'.countdown = Residual(noise)'
      BY <1>3, <1>4, <3>1 DEF Agree, Residual
    <3>3. held' \in 1..Hold /\ Hold' = Hold
      BY <1>3, Constants DEF Hold
    <3>4. Debounces'
      BY <1>3, <3>1, <3>2, <3>3 DEF Debounces
    <3>5. BusStepped
      BY <1>2, <1>3, <3>1, <3>3, Constants DEF BusStepped, BusTyped
    <3>6. QED
      BY <3>1, <3>4, <3>5
  <2>3. QED
    BY <2>1, <2>2
<1>8. QED
  BY <1>2, <1>3, <1>4, <1>5, <1>6, <1>7, QuietStep DEF Stepped

LEMMA ClockRisesStep ==
  ASSUME BusTyped, Running, ClockRises
  PROVE  Stepped /\ (Silence \/ ByteHeard)
<1>1. EdgeFrame(1, sda, slot + 1)
  BY DEF ClockRises, EdgeFrame
<1>2. clk = 0 /\ Settled /\ (slot < Slots => sda = BitIn(slot))
  BY DEF ClockRises
<1>3. txn # NoTxn /\ slot <= Slots /\ Slots \in Nat /\ OnBus
  BY <1>2, Moments
<1>4. slot \in Nat /\ slot + 1 \in Nat /\ 1 \in Level /\ sda \in Level
  BY DEF BusTyped, Level
<1>5. /\ Frame(1, sda, FALSE) /\ sda' = sda /\ clk' = 1 /\ slot' = slot + 1
      /\ held' = 1 /\ noise' = 0 /\ UNCHANGED <<decoder, txn, left>>
  BY <1>1 DEF EdgeFrame
<1>6. Agree /\ i2c.current = 0 /\ i2c.dta = sda /\ Seen = slot
  BY <1>2, Moments DEF Seen
<1>7. Slots' = Slots
  BY <1>5 DEF Slots, Pulses
<1>8. Within'
  <2>1. slot' - 1 = slot /\ slot' > 0 /\ slot' <= Slots + 1
    BY <1>3, <1>4, <1>5
  <2>2. BitIn(slot - 1)' = BitIn(slot)
    BY <1>5, <1>7, <2>1 DEF BitIn, Pulses
  <2>3. (slot - 1 < Slots => sda = BitIn(slot - 1))'
    BY <1>2, <1>5, <1>7, <2>1, <2>2
  <2>4. QED
    BY <1>5, <1>7, <2>1, <2>3 DEF Within
<1>9. CASE i2c.countdown # 1
  <2>1. BusStepped /\ SameDecoding /\ Silence /\ Debounces' /\ ~Agree'
    BY <1>1, <1>2, <1>4, <1>9, EdgeCounted
  <2>2. Seen' = slot
    BY <1>4, <1>5, <2>1 DEF Seen
  <2>3. QED
    BY <1>3, <1>4, <1>5, <1>6, <1>8, <2>1, <2>2, QuietStep DEF Stepped
<1>10. CASE i2c.countdown = 1
  <2>1. Decoded(i2c, txn.bytes, slot) /\ ToldAt(slot)
    BY <1>3, <1>6 DEF Running
  <2>2. /\ i2c' \in I2cState
        /\ ~i2c'.first_frame /\ i2c'.current = 1
        /\ i2c'.clk = 1 /\ i2c'.dta = sda /\ i2c'.countdown = 0
        /\ Decoded(i2c', txn.bytes, slot + 1)
        /\ told' = [k \in 1..Calls(slot + 1) |-> CallOf(txn.bytes, k)]
        /\ told' \in Seq(Call)
        /\ Silence \/ ByteHeard
    BY <1>2, <1>3, <1>4, <1>5, <1>6, <1>10, <2>1, PulseFrame DEF Running
  <2>3. Agree' /\ i2c'.countdown = Residual(noise)'
    BY <1>5, <2>2 DEF Agree, Residual
  <2>4. held' \in 1..Hold /\ Hold' = Hold
    BY <1>5, Constants DEF Hold
  <2>5. Debounces'
    BY <1>5, <2>2, <2>3, <2>4 DEF Debounces
  <2>6. Seen' = slot + 1
    BY <1>5, <2>3 DEF Seen
  <2>7. BusStepped
    BY <1>4, <1>5, <2>2, <2>4, Constants DEF BusStepped, BusTyped
  <2>8. Stepped
    BY <1>3, <1>4, <1>5, <1>8, <2>2, <2>5, <2>6, <2>7, PulseStepKeeps
  <2>9. QED
    BY <2>2, <2>8
<1>11. QED
  BY <1>9, <1>10

\* A START is heard, and another transaction is on the bus.
StartHeard ==
  /\ i2c'.calls = <<StartCall>>
  /\ told' = <<>>

\* The frame in which a START is seen.
LEMMA StartFrame ==
  ASSUME BusTyped, ~i2c.first_frame, i2c.clk = 1, i2c.current = 1, i2c.dta = 1,
         Frame(1, 0, TRUE)
  PROVE  /\ i2c' \in I2cState /\ ~i2c'.first_frame
         /\ i2c'.current = 1 /\ i2c'.clk = 1 /\ i2c'.dta = 0
         /\ i2c'.countdown = i2c.countdown
         /\ i2c'.state = "COLLECT_ADDRESS" /\ i2c'.bits = 0 /\ i2c'.byte = 0
         /\ StartHeard
<1> DEFINE d == Fresh(1)
           c == EmptyAccumulator(d)
           e == StartCondition(d)
<1>1. i2c \in I2cState /\ 0 \in Level /\ 1 \in Level /\ StartCall \in Call
  BY DEF BusTyped, Level, Call
<1>2. i2c' = Edges(d, 1, 0)
  BY <1>1, ProcessedIn, FrameDecoded
<1>3. /\ d \in I2cState /\ d.first_frame = i2c.first_frame /\ d.current = 1
      /\ d.countdown = i2c.countdown
      /\ d.clk = i2c.clk /\ d.dta = i2c.dta /\ d.calls = <<>>
  BY <1>1, FreshIs
<1> HIDE DEF d
<1>4. i2c' = [e EXCEPT !.clk = 1, !.dta = 0]
  BY <1>2, <1>3, StartEdge
<1>5. Append(<<>>, StartCall) = <<StartCall>> /\ <<StartCall>> \in Seq(Call)
  BY <1>1
<1>6. /\ c \in I2cState /\ c.bits = 0 /\ c.byte = 0 /\ c.calls = <<>>
      /\ c.first_frame = d.first_frame /\ c.current = d.current /\ c.countdown = d.countdown
  BY <1>3 DEF EmptyAccumulator, I2cState
<1>7. e = [c EXCEPT !.state = "COLLECT_ADDRESS", !.calls = <<StartCall>>]
  BY <1>5, <1>6 DEF StartCondition
<1> HIDE DEF c, e
<1>8. /\ e \in I2cState /\ e.state = "COLLECT_ADDRESS" /\ e.bits = 0 /\ e.byte = 0
      /\ e.calls = <<StartCall>>
      /\ e.first_frame = d.first_frame /\ e.current = d.current /\ e.countdown = d.countdown
  BY <1>5, <1>6, <1>7 DEF I2cState
<1>9. /\ i2c' \in I2cState /\ i2c'.first_frame = e.first_frame
      /\ i2c'.current = e.current /\ i2c'.clk = 1 /\ i2c'.dta = 0
      /\ i2c'.countdown = e.countdown /\ i2c'.state = "COLLECT_ADDRESS"
      /\ i2c'.bits = 0 /\ i2c'.byte = 0 /\ i2c'.calls = <<StartCall>>
  BY <1>1, <1>4, <1>8 DEF I2cState
<1>10. told' = <<>>
  BY <1>9, ToldAfter
<1>11. QED
  BY <1>3, <1>8, <1>9, <1>10 DEF StartHeard

\* Nothing of a transaction has been clocked.
LEMMA NothingDecoded ==
  ASSUME NEW bytes \in Seq(Byte), bytes # <<>>, NEW d,
         d.state = "COLLECT_ADDRESS", d.bits = 0, d.byte = 0
  PROVE  Decoded(d, bytes, 0) /\ Calls(0) = 0
<1>1. 0 \div Pulses = 0 /\ 0 % Pulses = 0
  <2>1. 0 = Pulses * 0 + 0 /\ 0 \in 0..Pulses - 1
    BY Constants
  <2>2. QED
    BY <2>1, Constants, DivUnique
<1>2. Len(bytes) \in Nat \ {0} /\ bytes[1] \in Byte
  OBVIOUS
<1>3. bytes[0 + 1] \div Shl[AddrBits + 1 - 0] = 0
  <2>1. AddrBits + 1 - 0 = AddrBits + 1 /\ 0 + 1 = 1
    BY Constants
  <2>2. QED
    BY <1>2, <2>1, ByteIs
<1>4. 0 * Shl[AddrBits - 0] = 0
  <2>1. AddrBits - 0 \in Nat
    BY Constants
  <2>2. QED
    BY <2>1, ShlType
<1>5. DecodedAt(d, bytes, 0, 0)
  BY <1>2, <1>3, <1>4, Constants DEF DecodedAt
<1>6. CallsAt(0, 0) = 0
  BY DEF CallsAt
<1>7. QED
  BY <1>1, <1>5, <1>6 DEF Decoded, Calls

LEMMA BeginStep ==
  ASSUME BusTyped, Running, Settled, clk = 1, sda = 1, Begin
  PROVE  Stepped /\ StartHeard /\ txn' # NoTxn
<1>1. /\ left > 0 /\ left' = left - 1
      /\ txn' \in Transactions[decoder]
      /\ slot' = 0 /\ sda' = 0 /\ Frame(1, 0, TRUE)
      /\ UNCHANGED <<decoder, clk, held, noise>>
  BY DEF Begin
<1>2. /\ Agree /\ i2c.dta = 1 /\ i2c.current = 1 /\ i2c.clk = 1 /\ ~i2c.first_frame
      /\ i2c.countdown = Residual(noise) /\ left \in Nat
  BY Moments DEF Running, Debounces, BusTyped
<1>3. /\ i2c' \in I2cState /\ ~i2c'.first_frame
      /\ i2c'.current = 1 /\ i2c'.clk = 1 /\ i2c'.dta = 0
      /\ i2c'.countdown = i2c.countdown
      /\ i2c'.state = "COLLECT_ADDRESS" /\ i2c'.bits = 0 /\ i2c'.byte = 0
      /\ StartHeard
  BY <1>1, <1>2, StartFrame
<1>4. txn'.bytes \in Seq(Byte) /\ txn'.bytes # <<>> /\ txn' # NoTxn
  BY <1>1, TransactionsAssumption DEF BusTyped, NoTxn
<1>5. Agree' /\ i2c'.countdown = Residual(noise)' /\ Seen' = 0
  BY <1>1, <1>2, <1>3 DEF Agree, Residual, Seen
<1>6. held = Hold /\ held' = Hold /\ Hold' = Hold
  BY <1>1 DEF Settled, Hold
<1>7. Debounces'
  BY <1>1, <1>3, <1>5, <1>6, Constants DEF Debounces
<1>8. BusTyped'
  <2>1. told' \in Seq(Call)
    BY <1>3 DEF StartHeard
  <2>2. left' \in Nat
    BY <1>1, <1>2
  <2>3. QED
    BY <1>1, <1>3, <1>6, <2>1, <2>2, Constants DEF BusTyped, Level
<1>9. Slots' \in Nat
  <2>1. Slots' = Pulses * Len(txn'.bytes) /\ Len(txn'.bytes) \in Nat
    BY <1>4 DEF Slots, Pulses
  <2>2. QED
    BY <2>1, Constants, NatTimes
<1>10. Within'
  BY <1>1, <1>5, <1>9 DEF Within
<1>11. Decoded(i2c, txn.bytes, Seen)' /\ ToldAt(Seen)'
  <2>1. Decoded(i2c', txn'.bytes, 0) /\ Calls(0) = 0
    BY <1>3, <1>4, NothingDecoded
  <2>2. Decoded(i2c, txn.bytes, Seen)'
    BY <1>5, <2>1 DEF Decoded
  <2>3. told' = [k \in 1..0 |-> CallOf(txn'.bytes, k)]
    BY <1>3 DEF StartHeard
  <2>4. ToldAt(Seen)'
    BY <1>5, <2>1, <2>3 DEF ToldAt
  <2>5. QED
    BY <2>2, <2>4
<1>12. QED
  BY <1>3, <1>4, <1>7, <1>8, <1>10, <1>11 DEF Stepped, Running

\* A STOP is heard, and the bus is free.
StopHeard ==
  /\ i2c'.calls = <<StopCall>>
  /\ told' = Append(told, StopCall)
  /\ txn' = NoTxn

LEMMA StopStep ==
  ASSUME BusTyped, Running, Stop
  PROVE  Stepped /\ StopHeard
<1>1. /\ clk = 1 /\ Settled /\ sda = 0 /\ Frame(1, 1, FALSE)
      /\ txn' = NoTxn /\ slot' = 0 /\ sda' = 1
      /\ UNCHANGED <<decoder, clk, held, noise, left>>
  BY DEF Stop, Ending
<1>2. /\ Agree /\ i2c.dta = 0 /\ i2c.current = 1 /\ i2c.clk = 1 /\ ~i2c.first_frame
      /\ i2c.countdown = Residual(noise)
  BY <1>1, Moments DEF Running, Debounces
<1>3. /\ i2c' \in I2cState /\ ~i2c'.first_frame
      /\ i2c'.current = 1 /\ i2c'.clk = 1 /\ i2c'.dta = 1
      /\ i2c'.countdown = i2c.countdown /\ i2c'.state = "IDLE"
      /\ i2c'.calls = <<StopCall>> /\ told' = Append(told, StopCall)
      /\ told' \in Seq(Call) /\ told' # <<>> /\ Last(told') = StopCall
  BY <1>1, <1>2, StopFrame
<1>4. Agree' /\ i2c'.countdown = Residual(noise)'
  BY <1>1, <1>2, <1>3 DEF Agree, Residual
<1>5. held = Hold /\ held' = Hold /\ Hold' = Hold
  BY <1>1 DEF Settled, Hold
<1>6. Debounces'
  BY <1>1, <1>3, <1>4, <1>5, Constants DEF Debounces
<1>7. BusTyped'
  BY <1>1, <1>3, <1>5, Constants DEF BusTyped, Level
<1>8. Between'
  BY <1>1, <1>3 DEF Between
<1>9. QED
  BY <1>1, <1>3, <1>6, <1>7, <1>8 DEF Stepped, Running, StopHeard

\* The first frame of all: it is not decoded, and nothing but its clock is kept.
LEMMA BootStep ==
  ASSUME BusTyped, Booting, Stay
  PROVE  Stepped /\ Silence
<1>1. /\ Frame(clk, sda, FALSE) /\ held' = Held
      /\ UNCHANGED <<decoder, clk, sda, noise, txn, slot, left>>
  BY DEF Stay
<1>2. /\ i2c = Created /\ held = 0 /\ noise = 0 /\ clk = 1 /\ sda = 1
      /\ txn = NoTxn /\ slot = 0 /\ told # <<>> /\ Last(told) = StopCall
      /\ i2c \in I2cState
  BY DEF Booting, BusTyped
<1>3. i2c' = [[i2c EXCEPT !.calls = <<>>] EXCEPT !.first_frame = FALSE, !.current = 1, !.clk = 1]
  BY <1>1, <1>2, ProcessedIn DEF ProcessFrame, FirstFrame, Created
<1>4. /\ i2c' \in I2cState /\ ~i2c'.first_frame
      /\ i2c'.current = 1 /\ i2c'.clk = 1 /\ i2c'.dta = 0 /\ i2c'.countdown = 0
      /\ i2c'.state = "IDLE" /\ i2c'.calls = <<>>
  BY <1>2, <1>3 DEF Created, I2cState, Level
<1>5. told' = told
  BY <1>1, <1>4, ToldAfter
<1>6. held' = 1 /\ held' \in 0..Hold /\ Hold' = Hold
  BY <1>1, <1>2, Constants DEF Held, Hold
<1>7. Agree' /\ Residual(noise)' = 0
  BY <1>1, <1>2, <1>4 DEF Agree, Residual
<1>8. Debounces'
  BY <1>1, <1>2, <1>4, <1>6, <1>7 DEF Debounces
<1>9. BusTyped'
  BY <1>1, <1>2, <1>4, <1>5, <1>6 DEF BusTyped
<1>10. Between'
  BY <1>1, <1>2, <1>4, <1>5 DEF Between
<1>11. QED
  BY <1>1, <1>2, <1>4, <1>5, <1>8, <1>9, <1>10 DEF Stepped, Running, Silence

\* A step that neither begins a transaction nor ends one.
On == Stay \/ Glitch \/ ClockFalls \/ DataMoves \/ ClockRises

LEMMA OnStep ==
  ASSUME BusInv, On
  PROVE  Stepped /\ (Silence \/ ByteHeard \/ FalseStop)
<1>1. CASE Booting
  <2>1. ~Settled /\ clk = 1
    BY <1>1, Constants DEF Booting, Settled
  <2>2. ~Glitch /\ ~ClockFalls /\ ~ClockRises
    BY <2>1 DEF Glitch, ClockFalls, ClockRises
  <2>3. ~DataMoves
    BY <2>1 DEF DataMoves
  <2>4. Stay
    BY <2>2, <2>3 DEF On
  <2>5. QED
    BY <1>1, <2>4, BootStep DEF BusInv
<1>2. CASE Running
  <2>1. BusTyped
    BY DEF BusInv
  <2>2. CASE Stay
    BY <1>2, <2>1, <2>2, StayStep
  <2>3. CASE Glitch
    BY <1>2, <2>1, <2>3, GlitchStep
  <2>4. CASE ClockFalls
    BY <1>2, <2>1, <2>4, ClockFallsStep
  <2>5. CASE DataMoves
    BY <1>2, <2>1, <2>5, DataMovesStep
  <2>6. CASE ClockRises
    BY <1>2, <2>1, <2>6, ClockRisesStep
  <2>7. QED
    BY <2>2, <2>3, <2>4, <2>5, <2>6 DEF On
<1>3. QED
  BY <1>1, <1>2 DEF BusInv

LEMMA StartStep ==
  ASSUME BusInv, Start \/ RepeatedStart
  PROVE  Stepped /\ StartHeard /\ txn' # NoTxn /\ Settled
<1>1. Settled
  BY DEF Start, RepeatedStart, Ending
<1>2. BusTyped /\ Running
  BY <1>1, Constants DEF BusInv, Booting, Settled
<1>3. clk = 1 /\ sda = 1 /\ Begin
  BY <1>2 DEF Start, RepeatedStart, Ending, Running, Between
<1>4. QED
  BY <1>1, <1>2, <1>3, BeginStep

LEMMA EndStep ==
  ASSUME BusInv, Stop
  PROVE  Stepped /\ StopHeard
<1>1. BusTyped /\ Running
  BY Constants DEF BusInv, Booting, Settled, Stop, Ending
<1>2. QED
  BY <1>1, StopStep

LEMMA BusInit == Init => BusInv
<1>1. SUFFICES ASSUME Init PROVE BusInv
  OBVIOUS
<1>2. /\ i2c = Created /\ clk = 1 /\ sda = 1 /\ held = 0 /\ noise = 0 /\ txn = NoTxn
      /\ slot = 0 /\ left = MaxTransactions /\ told = <<StopCall>>
      /\ decoder \in {"i2c", "i2c_2"}
  BY <1>1, Zenon DEF Init
<1>3. Created \in I2cState
  <2>1. <<>> \in Seq(Call)
    OBVIOUS
  <2>2. QED
    BY <2>1, Constants DEF Created, I2cState, Level
<1>4. told \in Seq(Call) /\ told # <<>> /\ Last(told) = StopCall
  BY <1>2 DEF Last, Call
<1>5. BusTyped
  BY <1>2, <1>3, <1>4, Constants, TransactionsAssumption DEF BusTyped, Level
<1>6. Booting
  BY <1>2, <1>4 DEF Booting
<1>7. QED
  BY <1>5, <1>6 DEF BusInv

LEMMA BusNext == BusInv /\ [Next]_vars => BusInv'
<1>1. SUFFICES ASSUME BusInv, [Next]_vars PROVE BusInv'
  OBVIOUS
<1>2. CASE On
  BY <1>1, <1>2, OnStep DEF Stepped, BusInv
<1>3. CASE Start \/ RepeatedStart
  BY <1>1, <1>3, StartStep DEF Stepped, BusInv
<1>4. CASE Stop
  BY <1>1, <1>4, EndStep DEF Stepped, BusInv
<1>5. CASE UNCHANGED vars
  <2>1. /\ UNCHANGED <<i2c, decoder, clk, sda, held, noise, txn, slot, left, told>>
    BY <1>5 DEF vars, busVars
  <2>2. BusTyped' <=> BusTyped
    BY <2>1 DEF BusTyped, Hold
  <2>3. Booting' <=> Booting
    BY <2>1 DEF Booting
  <2>4. Agree' = Agree /\ Seen' = Seen
    BY <2>1 DEF Agree, Seen
  <2>5. Debounces' <=> Debounces
    BY <2>1, <2>4 DEF Debounces, Hold, Residual
  <2>6. Between' <=> Between
    BY <2>1 DEF Between
  <2>7. Within' <=> Within
    BY <2>1, <2>4 DEF Within, Slots, Pulses, BitIn
  <2>8. Decoded(i2c, txn.bytes, Seen)' <=> Decoded(i2c, txn.bytes, Seen)
    BY <2>1, <2>4 DEF Decoded
  <2>9. ToldAt(Seen)' <=> ToldAt(Seen)
    BY <2>1, <2>4 DEF ToldAt
  <2>10. QED
    BY <1>1, <2>1, <2>2, <2>3, <2>5, <2>6, <2>7, <2>8, <2>9 DEF BusInv, Running
<1>6. QED
  BY <1>1, <1>2, <1>3, <1>4, <1>5 DEF Next, On

\* The decoder follows the bus, bit by bit: what is left of the debouncing, the bits
\* in the accumulator, the state and the bytes handed on are those of the clock
\* pulses that it has seen (process_frame and event of parser_i2c.c and parser_i2c_2.c).
THEOREM BusAlways == Spec => []BusInv
<1>1. Init => BusInv
  BY BusInit
<1>2. BusInv /\ [Next]_vars => BusInv'
  BY BusNext
<1>3. QED
  BY <1>1, <1>2, PTL DEF Spec

-----------------------------------------------------------------------------
(* What the listeners have heard.                                          *)

LEMMA HeardUpTo ==
  ASSUME OnBus, slot \in Nat, slot <= Slots + 1, NEW k \in DOMAIN txn.bytes
  PROVE  slot >= Pulses * (k - 1) + (IF k = 1 THEN Pulses ELSE AddrBits + 1) <=> k <= Calls(slot)
<1> DEFINE j == slot \div Pulses
           r == slot % Pulses
<1>1. j \in Nat /\ r \in 0..AddrBits + 1 /\ slot = Pulses * j + r
  <2>1. 0 \in Nat
    OBVIOUS
  <2>2. QED
    BY <2>1, Position
<1>2. k \in Nat \ {0} /\ k - 1 \in Nat
  BY DEF OnBus
<1>3. slot < Pulses * k <=> j < k
  <2>1. k \in Nat
    BY <1>2
  <2>2. QED
    BY <2>1, Position
<1>4. slot < Pulses * (k - 1) <=> j < k - 1
  BY <1>2, Position
<1>5. Calls(slot) = IF j > 0 /\ r = AddrBits + 1 THEN j + 1 ELSE j
  BY DEF Calls, CallsAt
<1> HIDE DEF j, r
<1>6. CASE k = 1
  BY <1>1, <1>3, <1>5, <1>6, Constants
<1>7. CASE k # 1
  <2>1. j >= k => slot >= Pulses * (k - 1) + (AddrBits + 1)
    <3>1. Pulses * k = Pulses * (k - 1) + (AddrBits + 2)
      BY <1>2, Constants
    <3>2. Pulses * (k - 1) \in Nat
      BY <1>2, Constants, NatTimes
    <3>3. QED
      BY <1>1, <1>2, <1>3, <3>1, <3>2, Constants
  <2>2. j = k - 1 => (slot >= Pulses * (k - 1) + (AddrBits + 1) <=> r = AddrBits + 1)
    <3>1. Pulses * (k - 1) \in Nat
      BY <1>2, Constants, NatTimes
    <3>2. QED
      BY <1>1, <3>1, Constants
  <2>3. j < k - 1 => ~(slot >= Pulses * (k - 1) + (AddrBits + 1))
    <3>1. Pulses * (k - 1) \in Nat
      BY <1>2, Constants, NatTimes
    <3>2. QED
      BY <1>1, <1>2, <1>4, <3>1, Constants
  <2>4. j >= k \/ j = k - 1 \/ j < k - 1
    BY <1>1, <1>2
  <2>5. QED
    BY <1>1, <1>2, <1>5, <1>7, <2>1, <2>2, <2>3, <2>4, Constants
<1>8. QED
  BY <1>6, <1>7

LEMMA CallsRange ==
  ASSUME OnBus, NEW s \in Nat, s <= Slots + 1
  PROVE  Calls(s) \in 0..Len(txn.bytes)
<1> DEFINE j == s \div Pulses
           r == s % Pulses
           n == Len(txn.bytes)
<1>1. n \in Nat \ {0} /\ Slots = Pulses * n /\ n + 1 \in Nat
  BY DEF OnBus, Slots
<1>2. j \in Nat /\ r \in 0..AddrBits + 1
      /\ (s < Pulses * (n + 1) <=> j < n + 1)
  BY <1>1, Position
<1>3. Calls(s) = IF j > 0 /\ r = AddrBits + 1 THEN j + 1 ELSE j
  BY DEF Calls, CallsAt
<1>4. s = Pulses * j + r
  BY Constants, DivModType
<1> HIDE DEF j, r, n
<1>5. Slots \in Nat /\ Pulses * (n + 1) = Slots + (AddrBits + 2)
  BY <1>1, Constants, NatTimes
<1>6. j <= n
  BY <1>1, <1>2, <1>5, Constants
<1>7. j = n => r < AddrBits + 1
  BY <1>1, <1>2, <1>4, <1>5, Constants
<1>8. QED
  BY <1>1, <1>2, <1>3, <1>6, <1>7, Constants DEF n

\* The listeners hear what the bus carries, each byte once, as soon as its last bit
\* has been clocked, whatever the glitches of the clock line (parser_i2c.c:367).
THEOREM HandsOnBytesAlways == Spec => []HandsOnBytes
<1>1. BusInv => HandsOnBytes
  <2>1. SUFFICES ASSUME BusInv, Settled,
                        txn # NoTxn \/ txn = NoTxn
                 PROVE  IF txn = NoTxn
                        THEN told # <<>> /\ Last(told) = StopCall
                        ELSE told = [k \in 1..Cardinality({h \in DOMAIN txn.bytes :
                                slot >= Pulses * (h - 1) + (IF h = 1 THEN Pulses ELSE AddrBits + 1)}) |->
                              ByteCall(txn.bytes[k], IF k = 1 THEN 1 ELSE 0)]
    BY DEF HandsOnBytes
  <2>2. BusTyped /\ Running
    BY <2>1, Constants DEF BusInv, Booting, Settled
  <2>3. CASE txn = NoTxn
    BY <2>2, <2>3 DEF Running, Between
  <2>4. CASE txn # NoTxn
    <3> DEFINE heard == {h \in DOMAIN txn.bytes :
                  slot >= Pulses * (h - 1) + (IF h = 1 THEN Pulses ELSE AddrBits + 1)}
    <3>1. OnBus /\ slot \in Nat /\ slot <= Slots + 1 /\ Seen = slot
      BY <2>1, <2>2, <2>4, Moments DEF BusTyped, Seen
    <3>2. Calls(slot) \in 0..Len(txn.bytes)
      BY <3>1, CallsRange
    <3>3. \A k \in DOMAIN txn.bytes :
            slot >= Pulses * (k - 1) + (IF k = 1 THEN Pulses ELSE AddrBits + 1) <=> k <= Calls(slot)
      BY <3>1, HeardUpTo
    <3>4. DOMAIN txn.bytes = 1..Len(txn.bytes) /\ Len(txn.bytes) \in Nat
      BY <3>1 DEF OnBus
    <3>5. heard = 1..Calls(slot)
      BY <3>2, <3>3, <3>4
    <3>6. Cardinality(heard) = Calls(slot)
      <4>1. \A n \in Nat : Cardinality(1..n) = n
        BY FS_Interval
      <4>2. Calls(slot) \in Nat
        BY <3>2, <3>4
      <4>3. QED
        BY <3>5, <4>1, <4>2
    <3>7. told = [k \in 1..Calls(slot) |-> CallOf(txn.bytes, k)]
      BY <2>2, <2>4, <3>1 DEF Running, ToldAt
    <3> HIDE DEF heard
    <3>8. told = [k \in 1..Cardinality(heard) |-> ByteCall(txn.bytes[k], IF k = 1 THEN 1 ELSE 0)]
      BY <3>6, <3>7 DEF CallOf
    <3>9. QED
      BY <2>4, <3>8 DEF heard
  <2>5. QED
    BY <2>3, <2>4
<1>2. QED
  BY <1>1, BusAlways, PTL

-----------------------------------------------------------------------------
(* What a step is to the listeners.                                        *)

\* Of the transaction on the bus, so many bytes have been handed on.
HeardOf(n) == txn # NoTxn /\ OnBus /\ n \in 0..Len(txn.bytes) /\ Len(told) = n

LEMMA InTransaction ==
  ASSUME BusInv, txn # NoTxn
  PROVE  /\ HeardOf(Calls(Seen)) /\ Seen \in Nat
         /\ told = [k \in 1..Calls(Seen) |-> CallOf(txn.bytes, k)]
<1>1. BusTyped /\ Running
  BY DEF BusInv, Booting
<1>2. OnBus /\ Seen \in Nat /\ Seen <= Slots + 1 /\ ToldAt(Seen)
  BY <1>1, Moments DEF Running
<1>3. Calls(Seen) \in 0..Len(txn.bytes)
  BY <1>2, CallsRange
<1>4. told = [k \in 1..Calls(Seen) |-> CallOf(txn.bytes, k)] /\ told \in Seq(Call)
  BY <1>1, <1>2 DEF ToldAt, BusTyped
<1>5. Len(told) = Calls(Seen)
  <2> DEFINE n == Calls(Seen)
  <2>1. n \in Nat /\ told = [k \in 1..n |-> CallOf(txn.bytes, k)]
    BY <1>2, <1>3, <1>4 DEF OnBus
  <2> HIDE DEF n
  <2>2. DOMAIN told = 1..n
    BY <2>1
  <2>3. DOMAIN told = 1..Len(told) /\ Len(told) \in Nat
    <3>1. told \in Seq(Call)
      BY <1>4
    <3>2. QED
      BY <3>1
  <2>4. Len(told) = n
    BY <2>1, <2>2, <2>3
  <2>5. QED
    BY <2>4 DEF n
<1>6. QED
  BY <1>2, <1>3, <1>4, <1>5 DEF HeardOf

\* At the end of a transaction all of it has been handed on.
LEMMA AllHeard ==
  ASSUME BusInv, Clocked
  PROVE  HeardOf(Len(txn.bytes))
<1>1. txn # NoTxn /\ slot >= Slots /\ Settled
  BY DEF Clocked
<1>2. BusTyped /\ Running
  BY <1>1 DEF BusInv, Booting
<1>3. OnBus /\ Seen = slot /\ slot \in Nat
  BY <1>1, <1>2, Moments DEF Seen, BusTyped
<1>4. HeardOf(Calls(slot))
  BY <1>1, <1>3, InTransaction
<1> DEFINE j == slot \div Pulses
           r == slot % Pulses
           n == Len(txn.bytes)
<1>5. n \in Nat /\ Slots = Pulses * n
  BY <1>3 DEF OnBus, Slots
<1>6. j \in Nat /\ (slot < Pulses * n <=> j < n)
  BY <1>3, <1>5, Position
<1>7. Calls(slot) = IF j > 0 /\ r = AddrBits + 1 THEN j + 1 ELSE j
  BY DEF Calls, CallsAt
<1>8. Slots \in Nat
  BY <1>5, Constants, NatTimes
<1> HIDE DEF j, r
<1>9. Calls(slot) >= n
  BY <1>1, <1>3, <1>5, <1>6, <1>7, <1>8
<1>10. Calls(slot) = n
  BY <1>4, <1>5, <1>9 DEF HeardOf
<1>11. QED
  BY <1>4, <1>10

\* The listeners are not called.
Unheard == told' = told /\ UNCHANGED <<decoder, txn, before, asked, label, bootloader, panel, tag>>

\* They are given the next byte.
Start1(m) == IF m = 0 THEN 1 ELSE 0
Given ==
  LET m    == Len(told)
      byte == txn.bytes[m + 1]
  IN  /\ HeardOf(m) /\ m < Len(txn.bytes) /\ Len(told') = m + 1
      /\ UNCHANGED <<decoder, txn, before, asked, label>>
      /\ bootloader' = Bootloader(bootloader, byte, Start1(m))
      /\ panel' = IF decoder = "i2c" THEN Panel(panel, byte, Start1(m)) ELSE panel
      /\ tag' = IF decoder = "i2c_2" THEN StByte(tag, byte) ELSE tag

TagEnds == tag' = IF decoder = "i2c_2" THEN ProcessPacket(tag) ELSE tag

\* A STOP that the bus did not have.
Spurious ==
  /\ txn = NoTxn
  /\ UNCHANGED <<decoder, txn, before, asked, label, bootloader, panel>>
  /\ TagEnds

\* The transaction on the bus, if there is one, is all told; it is over.
Finished ==
  \/ txn = NoTxn /\ UNCHANGED <<asked, label>>
  \/ HeardOf(Len(txn.bytes)) /\ Over

Begins ==
  /\ Finished
  /\ told' = <<>> /\ txn' # NoTxn /\ decoder' = decoder
  /\ before' = [bootloader |-> bootloader.state = "IDLE", panel |-> panel.state = "IDLE"]
  /\ bootloader' = [bootloader EXCEPT !.log = <<>>]
  /\ panel' = [panel EXCEPT !.report = NoReport]
  /\ TagEnds

Ends ==
  /\ HeardOf(Len(txn.bytes)) /\ Over
  /\ txn' = NoTxn
  /\ UNCHANGED <<decoder, before, bootloader, panel>>
  /\ TagEnds

LEMMA ListenersAfter ==
  ASSUME NEW clock, NEW data, NEW begins, Frame(clock, data, begins)
  PROVE  LET b == IF begins THEN [bootloader EXCEPT !.log = <<>>] ELSE bootloader
             p == IF begins THEN [panel EXCEPT !.report = NoReport] ELSE panel
         IN  /\ i2c'.calls = <<>> =>
                  bootloader' = b /\ panel' = p /\ tag' = tag
             /\ \A call : i2c'.calls = <<call>> =>
                  /\ bootloader' = ToBootloader(b, call)
                  /\ panel' = IF decoder = "i2c" THEN ToPanel(p, call) ELSE p
                  /\ tag' = IF decoder = "i2c_2" THEN ToTag(tag, call) ELSE tag
<1> DEFINE b == IF begins THEN [bootloader EXCEPT !.log = <<>>] ELSE bootloader
           p == IF begins THEN [panel EXCEPT !.report = NoReport] ELSE panel
<1>1. /\ bootloader' = Hears(ToBootloader, b, i2c'.calls)
      /\ panel' = IF decoder = "i2c" THEN Hears(ToPanel, p, i2c'.calls) ELSE p
      /\ tag' = IF decoder = "i2c_2" THEN Hears(ToTag, tag, i2c'.calls) ELSE tag
  BY DEF Frame
<1> HIDE DEF b, p
<1>2. ASSUME i2c'.calls = <<>>
      PROVE  bootloader' = b /\ tag' = tag /\ panel' = p
  BY <1>1, <1>2 DEF Hears
<1>3. ASSUME NEW call, i2c'.calls = <<call>>
      PROVE  /\ bootloader' = ToBootloader(b, call)
             /\ panel' = IF decoder = "i2c" THEN ToPanel(p, call) ELSE p
             /\ tag' = IF decoder = "i2c_2" THEN ToTag(tag, call) ELSE tag
  <2>1. Len(<<call>>) = 1 /\ <<call>>[1] = call
    OBVIOUS
  <2>2. QED
    BY <1>1, <1>3, <2>1 DEF Hears
<1>4. QED
  BY <1>2, <1>3 DEF b, p

LEMMA OnKinds ==
  ASSUME BusInv, On
  PROVE  Unheard \/ Given \/ Spurious
<1>1. Silence \/ ByteHeard \/ FalseStop
  BY OnStep
<1>2. UNCHANGED <<decoder, txn, before, asked, label>>
  BY DEF On, Stay, Glitch, ClockFalls, DataMoves, ClockRises
<1>3. PICK clock, data : Frame(clock, data, FALSE)
  <2>1. CASE Stay
    BY <2>1 DEF Stay
  <2>2. CASE Glitch
    BY <2>2 DEF Glitch
  <2>3. CASE ClockFalls
    BY <2>3 DEF ClockFalls
  <2>4. CASE DataMoves
    BY <2>4 DEF DataMoves
  <2>5. CASE ClockRises
    BY <2>5 DEF ClockRises
  <2>6. QED
    BY <2>1, <2>2, <2>3, <2>4, <2>5 DEF On
<1>4. /\ i2c'.calls = <<>> => bootloader' = bootloader /\ panel' = panel /\ tag' = tag
      /\ \A call : i2c'.calls = <<call>> =>
           /\ bootloader' = ToBootloader(bootloader, call)
           /\ panel' = IF decoder = "i2c" THEN ToPanel(panel, call) ELSE panel
           /\ tag' = IF decoder = "i2c_2" THEN ToTag(tag, call) ELSE tag
  BY <1>3, ListenersAfter
<1>5. CASE Silence
  BY <1>2, <1>4, <1>5 DEF Silence, Unheard
<1>6. CASE ByteHeard
  <2> DEFINE m == Len(told)
             call == CallOf(txn.bytes, m + 1)
  <2>1. txn # NoTxn /\ m < Len(txn.bytes) /\ i2c'.calls = <<call>> /\ told' = Append(told, call)
    BY <1>6 DEF ByteHeard
  <2>2. HeardOf(m)
    BY <2>1, InTransaction DEF HeardOf
  <2>3. m \in Nat
    BY <2>2 DEF HeardOf, OnBus
  <2>4. Len(told') = m + 1
    <3>1. told \in Seq(Call)
      BY DEF BusInv, BusTyped
    <3>2. told' \in Seq(Call)
      BY OnStep DEF Stepped, BusTyped
    <3>3. QED
      BY <2>1, <3>1, <3>2
  <2>5. call = ByteCall(txn.bytes[m + 1], Start1(m))
    BY <2>3 DEF CallOf, Start1
  <2>6. /\ bootloader' = ToBootloader(bootloader, call)
        /\ panel' = IF decoder = "i2c" THEN ToPanel(panel, call) ELSE panel
        /\ tag' = IF decoder = "i2c_2" THEN ToTag(tag, call) ELSE tag
    BY <1>4, <2>1
  <2>7. call.is = "byte" /\ call.byte = txn.bytes[m + 1] /\ call.is_start = Start1(m)
    BY <2>5 DEF ByteCall
  <2> HIDE DEF call
  <2>8. /\ ToBootloader(bootloader, call) = Bootloader(bootloader, txn.bytes[m + 1], Start1(m))
        /\ ToPanel(panel, call) = Panel(panel, txn.bytes[m + 1], Start1(m))
        /\ ToTag(tag, call) = StByte(tag, txn.bytes[m + 1])
    BY <2>7 DEF ToBootloader, ToPanel, ToTag
  <2>9. Given
    BY <1>2, <2>1, <2>2, <2>4, <2>6, <2>8 DEF Given
  <2>10. QED
    BY <2>9
<1>7. CASE FalseStop
  <2>1. i2c'.calls = <<StopCall>> /\ txn = NoTxn
    BY <1>7 DEF FalseStop
  <2>2. StopCall.is = "stop"
    BY DEF StopCall
  <2>3. QED
    BY <1>2, <1>4, <2>1, <2>2 DEF Spurious, TagEnds, ToBootloader, ToPanel, ToTag
<1>8. QED
  BY <1>1, <1>5, <1>6, <1>7

LEMMA EndingHeard ==
  ASSUME BusInv, Ending
  PROVE  HeardOf(Len(txn.bytes))
<1>1. txn # NoTxn /\ slot = Slots + 1 /\ Settled
  BY DEF Ending
<1>2. Slots \in Nat
  BY <1>1, Moments DEF BusInv, Booting
<1>3. Clocked
  BY <1>1, <1>2 DEF Clocked
<1>4. QED
  BY <1>3, AllHeard

LEMMA StartKinds ==
  ASSUME BusInv, Start \/ RepeatedStart
  PROVE  Begins
<1>1. i2c'.calls = <<StartCall>> /\ told' = <<>> /\ txn' # NoTxn
  BY StartStep DEF StartHeard
<1>2. Begin
  BY DEF Start, RepeatedStart
<1>3. /\ Frame(1, 0, TRUE) /\ decoder' = decoder
      /\ before' = [bootloader |-> bootloader.state = "IDLE", panel |-> panel.state = "IDLE"]
  BY <1>2 DEF Begin
<1>4. /\ bootloader' = ToBootloader([bootloader EXCEPT !.log = <<>>], StartCall)
      /\ panel' = IF decoder = "i2c" THEN ToPanel([panel EXCEPT !.report = NoReport], StartCall)
                  ELSE [panel EXCEPT !.report = NoReport]
      /\ tag' = IF decoder = "i2c_2" THEN ToTag(tag, StartCall) ELSE tag
  BY <1>1, <1>3, ListenersAfter
<1>5. StartCall.is = "start"
  BY DEF StartCall
<1>6. /\ bootloader' = [bootloader EXCEPT !.log = <<>>]
      /\ panel' = [panel EXCEPT !.report = NoReport]
      /\ TagEnds
  BY <1>4, <1>5 DEF ToBootloader, ToPanel, ToTag, TagEnds
<1>7. Finished
  <2>1. CASE Start
    BY <2>1 DEF Start, Finished
  <2>2. CASE RepeatedStart
    <3>1. Ending /\ Over
      BY <2>2 DEF RepeatedStart
    <3>2. QED
      BY <3>1, EndingHeard DEF Finished
  <2>3. QED
    BY <2>1, <2>2
<1>8. QED
  BY <1>1, <1>3, <1>6, <1>7 DEF Begins

LEMMA StopKinds ==
  ASSUME BusInv, Stop
  PROVE  Ends
<1>1. i2c'.calls = <<StopCall>> /\ txn' = NoTxn
  BY EndStep DEF StopHeard
<1>2. Ending /\ Over /\ Frame(1, 1, FALSE) /\ UNCHANGED <<decoder, before>>
  BY DEF Stop
<1>3. /\ bootloader' = ToBootloader(bootloader, StopCall)
      /\ panel' = IF decoder = "i2c" THEN ToPanel(panel, StopCall) ELSE panel
      /\ tag' = IF decoder = "i2c_2" THEN ToTag(tag, StopCall) ELSE tag
  BY <1>1, <1>2, ListenersAfter
<1>4. StopCall.is = "stop"
  BY DEF StopCall
<1>5. bootloader' = bootloader /\ panel' = panel /\ TagEnds
  BY <1>3, <1>4 DEF ToBootloader, ToPanel, ToTag, TagEnds
<1>6. QED
  BY <1>1, <1>2, <1>5, EndingHeard DEF Ends

LEMMA Kinds ==
  ASSUME BusInv, [Next]_vars
  PROVE  Unheard \/ Given \/ Spurious \/ Begins \/ Ends
<1>1. CASE UNCHANGED vars
  BY <1>1 DEF vars, busVars, listeners, Unheard
<1>2. CASE On
  BY <1>2, OnKinds
<1>3. CASE Start \/ RepeatedStart
  BY <1>3, StartKinds
<1>4. CASE Stop
  BY <1>4, StopKinds
<1>5. QED
  BY <1>1, <1>2, <1>3, <1>4 DEF Next, On

-----------------------------------------------------------------------------
(* The boot loader's decoder.                                              *)

LEMMA NextSent ==
  ASSUME NEW S, NEW w \in Seq(S), NEW n \in Nat, n < Len(w)
  PROVE  /\ SubSeq(w, 1, n) \in Seq(S)
         /\ Len(SubSeq(w, 1, n)) = n
         /\ Append(SubSeq(w, 1, n), w[n + 1]) = SubSeq(w, 1, n + 1)
OBVIOUS

BootloaderState ==
  [state : {"IDLE", "SOP", "CMD", "SIZE_LSB", "SIZE_MSB", "DATA", "CHKSUM_LSB", "CHKSUM_MSB", "EOP"},
   size : Nat, data_count : Nat,
   log : Seq(Nat \cup {"ERROR: did not get SOP", "Invalid EOP"})]

ToBootloaderNow(w) == w[1] \in {BootloaderAddress, BootloaderAddress + 1}
PacketIn(w) ==
  /\ ToBootloaderNow(w)
  /\ Len(w) > 8 /\ w[2] = SOP /\ w[Len(w)] = EOP
  /\ Len(w) = 8 + w[4] + ByteValues * w[5]

\* The command and the payload, up to the k-th of them.
Payload(w, k) == [i \in 1..k |-> IF i = 1 THEN w[3] ELSE w[4 + i]]

\* What the decoder is at, m bytes into a packet with n bytes of payload.
PacketState(m, n) ==
  IF m = 0 THEN "IDLE" ELSE IF m = 1 THEN "SOP" ELSE IF m = 2 THEN "CMD"
  ELSE IF m = 3 THEN "SIZE_LSB" ELSE IF m = 4 THEN "SIZE_MSB"
  ELSE IF m <= n + 4 THEN "DATA"
  ELSE IF m = n + 5 THEN "CHKSUM_LSB" ELSE IF m = n + 6 THEN "CHKSUM_MSB"
  ELSE IF m = n + 7 THEN "EOP" ELSE "IDLE"
PayloadAt(m, n) == IF m <= 2 THEN 0 ELSE IF m <= 5 THEN 1 ELSE IF m <= n + 5 THEN m - 4 ELSE n + 1

PacketAt(b, w, m) ==
  LET n == Len(w) - 8
  IN  /\ b.state = PacketState(m, n)
      /\ m = 4 => b.size = w[4]
      /\ m \in 5..n + 4 => b.size = n /\ b.data_count = m - 5
      /\ b.log = Payload(w, PayloadAt(m, n))

\* A packet without payload: everything from the sixth byte on is taken for data, and
\* the count stays ahead of the size.
EmptyIn(w) ==
  /\ ToBootloaderNow(w)
  /\ Len(w) = 8 /\ w[2] = SOP
  /\ Len(w) = 8 + w[4] + ByteValues * w[5]

EmptyState(m) ==
  IF m = 0 THEN "IDLE" ELSE IF m = 1 THEN "SOP" ELSE IF m = 2 THEN "CMD"
  ELSE IF m = 3 THEN "SIZE_LSB" ELSE IF m = 4 THEN "SIZE_MSB" ELSE "DATA"
EmptyLog(m) == IF m <= 2 THEN 0 ELSE IF m <= 5 THEN 1 ELSE m - 4

EmptyAt(b, w, m) ==
  /\ b.state = EmptyState(m)
  /\ m = 4 => b.size = w[4]
  /\ m >= 5 => b.size = 0
  /\ b.log = Payload(w, EmptyLog(m))

BootloaderFollows(b, w, m) ==
  /\ ~ToBootloaderNow(w) => b.state = "IDLE" /\ b.log = <<>>
  /\ PacketIn(w) => PacketAt(b, w, m)
  /\ EmptyIn(w) => EmptyAt(b, w, m)

BootloaderInv ==
  /\ bootloader \in BootloaderState
  /\ txn # NoTxn /\ before.bootloader => BootloaderFollows(bootloader, txn.bytes, Len(told))

LEMMA BootloaderTyped ==
  ASSUME NEW b \in BootloaderState, NEW byte \in Nat, NEW is_start
  PROVE  Bootloader(b, byte, is_start) \in BootloaderState
<1> DEFINE Item == Nat \cup {"ERROR: did not get SOP", "Invalid EOP"}
           c == Bootloader(b, byte, is_start)
<1>1. /\ b.state \in {"IDLE", "SOP", "CMD", "SIZE_LSB", "SIZE_MSB", "DATA",
                      "CHKSUM_LSB", "CHKSUM_MSB", "EOP"}
      /\ b.size \in Nat /\ b.data_count \in Nat
  BY DEF BootloaderState
<1>2. ASSUME NEW item \in Item PROVE Logged(b, item) \in BootloaderState
  <2>1. Append(b.log, item) \in Seq(Item)
    <3>1. b.log \in Seq(Item)
      BY DEF BootloaderState
    <3> HIDE DEF Item
    <3>2. QED
      BY <1>2, <3>1
  <2> DEFINE l == Append(b.log, item)
  <2>2. Logged(b, item) = [b EXCEPT !.log = l]
    BY DEF Logged, BootloaderState
  <2> HIDE DEF l
  <2>3. l \in Seq(Item)
    BY <2>1 DEF l
  <2>4. QED
    BY <2>2, <2>3 DEF BootloaderState
<1>3. ASSUME NEW d \in BootloaderState, NEW s \in {"IDLE", "SOP", "CMD", "SIZE_LSB", "SIZE_MSB",
                      "DATA", "CHKSUM_LSB", "CHKSUM_MSB", "EOP"}
      PROVE  [d EXCEPT !.state = s] \in BootloaderState
  BY DEF BootloaderState
<1>4. CASE b.state = "IDLE"
  BY <1>3, <1>4 DEF Bootloader, BootloaderIdle
<1>5. CASE b.state = "SOP"
  BY <1>2, <1>3, <1>5 DEF Bootloader, BootloaderSop
<1>6. CASE b.state = "CMD"
  BY <1>2, <1>3, <1>6 DEF Bootloader
<1>7. CASE b.state = "SIZE_LSB"
  BY <1>7 DEF Bootloader, BootloaderState
<1>8. CASE b.state = "SIZE_MSB"
  <2>1. b.size + byte * ByteValues \in Nat
    BY <1>1, NatTimes, BootloaderAssumption
  <2>2. c = [b EXCEPT !.size = @ + byte * ByteValues, !.data_count = 0, !.state = "DATA"]
    BY <1>8 DEF Bootloader, BootloaderSizeMsb
  <2> HIDE DEF c
  <2>3. c \in BootloaderState
    BY <2>1, <2>2 DEF BootloaderState
  <2>4. QED
    BY <2>3 DEF c
<1>9. CASE b.state = "DATA"
  <2> DEFINE d == Logged(b, byte)
  <2>1. d \in BootloaderState
    BY <1>2
  <2> DEFINE s == IF b.data_count + 1 = b.size THEN "CHKSUM_LSB" ELSE "DATA"
             count == d.data_count + 1
  <2>2. c = [d EXCEPT !.data_count = count, !.state = s]
    BY <1>9 DEF Bootloader, BootloaderData
  <2> HIDE DEF c, d
  <2>3. count \in Nat /\ s \in {"CHKSUM_LSB", "DATA"}
    <3>1. d.data_count \in Nat
      BY <2>1 DEF BootloaderState
    <3>2. QED
      BY <3>1
  <2> HIDE DEF count, s
  <2>4. c \in BootloaderState
    BY <2>1, <2>2, <2>3 DEF BootloaderState
  <2>5. QED
    BY <2>4 DEF c
<1>10. CASE b.state \in {"CHKSUM_LSB", "CHKSUM_MSB"}
  BY <1>3, <1>10 DEF Bootloader
<1>11. CASE b.state = "EOP"
  BY <1>2, <1>3, <1>11 DEF Bootloader, BootloaderEop
<1>12. QED
  BY <1>1, <1>4, <1>5, <1>6, <1>7, <1>8, <1>9, <1>10, <1>11

\* What is addressed to another device leaves the decoder alone.
LEMMA BootloaderIgnores ==
  ASSUME NEW b \in BootloaderState, NEW w \in Seq(Nat), NEW m \in Nat, m < Len(w),
         ~ToBootloaderNow(w), b.state = "IDLE"
  PROVE  Bootloader(b, w[m + 1], Start1(m)) = b
<1>1. Bootloader(b, w[m + 1], Start1(m)) = BootloaderIdle(b, w[m + 1], Start1(m))
  BY DEF Bootloader
<1>2. Start1(m) = 1 => m = 0
  BY DEF Start1
<1>3. m = 0 => w[m + 1] = w[1] /\ w[1] \in Nat
  OBVIOUS
<1>4. ASSUME NEW byte \in Nat, byte - (byte % 2) = BootloaderAddress
      PROVE  byte \in {BootloaderAddress, BootloaderAddress + 1}
  BY <1>4, BootloaderAssumption
<1>5. QED
  BY <1>1, <1>2, <1>3, <1>4 DEF BootloaderIdle, ToBootloaderNow

LEMMA PayloadGrows ==
  ASSUME NEW w \in Seq(Nat), NEW k \in Nat, k + 5 <= Len(w)
  PROVE  /\ Payload(w, k) \in Seq(Nat)
         /\ k > 0 => Append(Payload(w, k), w[k + 5]) = Payload(w, k + 1)
         /\ Append(Payload(w, 0), w[3]) = Payload(w, 1)
         /\ Payload(w, 0) = <<>>
<1>1. \A i \in 1..k + 1 : (IF i = 1 THEN w[3] ELSE w[4 + i]) \in Nat
  OBVIOUS
<1>2. Payload(w, k) \in Seq(Nat) /\ Len(Payload(w, k)) = k
  BY <1>1 DEF Payload
<1>3. k > 0 => Append(Payload(w, k), w[k + 5]) = Payload(w, k + 1)
  <2>1. 4 + (k + 1) = k + 5
    OBVIOUS
  <2>2. QED
    BY <1>1, <1>2, <2>1 DEF Payload
<1>4. Payload(w, 0) = <<>>
  BY DEF Payload
<1>5. Append(<<>>, w[3]) = Payload(w, 1)
  BY DEF Payload
<1>6. QED
  BY <1>2, <1>3, <1>4, <1>5

LEMMA PacketSize ==
  ASSUME NEW w \in Seq(Nat), PacketIn(w)
  PROVE  w[4] + w[5] * ByteValues = Len(w) - 8
<1> DEFINE p == ByteValues * w[5]
<1>1. Len(w) = 8 + w[4] + p /\ Len(w) > 8 /\ Len(w) \in Nat
  BY DEF PacketIn
<1>2. w[4] \in Nat /\ w[5] \in Nat
  BY <1>1
<1>3. p \in Nat /\ w[5] * ByteValues = p
  BY <1>2, NatTimes, BootloaderAssumption
<1> HIDE DEF p
<1>4. Len(w) - 8 = w[4] + p
  BY <1>1, <1>2, <1>3
<1>5. QED
  BY <1>3, <1>4

\* A byte of a packet.
LEMMA PacketByte ==
  ASSUME NEW b \in BootloaderState, NEW w \in Seq(Nat), NEW m \in Nat, m < Len(w),
         PacketIn(w), PacketAt(b, w, m)
  PROVE  PacketAt(Bootloader(b, w[m + 1], Start1(m)), w, m + 1)
<1> DEFINE n == Len(w) - 8
           byte == w[m + 1]
           c == Bootloader(b, byte, Start1(m))
<1>1. n \in Nat /\ n > 0 /\ m \in 0..n + 7 /\ Len(w) = n + 8
  <2>1. Len(w) \in Nat /\ Len(w) > 8
    BY DEF PacketIn
  <2>2. QED
    BY <2>1
<1>2. byte \in Nat
  OBVIOUS
<1>3. /\ b.state = PacketState(m, n)
      /\ m = 4 => b.size = w[4]
      /\ m \in 5..n + 4 => b.size = n /\ b.data_count = m - 5
      /\ b.log = Payload(w, PayloadAt(m, n))
  BY DEF PacketAt
<1>4. SUFFICES /\ c.state = PacketState(m + 1, n)
               /\ m + 1 = 4 => c.size = w[4]
               /\ m + 1 \in 5..n + 4 => c.size = n /\ c.data_count = (m + 1) - 5
               /\ c.log = Payload(w, PayloadAt(m + 1, n))
  BY DEF PacketAt
<1>5. ASSUME NEW item, NEW l, l = Append(b.log, item)
      PROVE  Logged(b, item) = [b EXCEPT !.log = l]
  BY <1>5 DEF Logged, BootloaderState
<1> HIDE DEF n, c
<1>6. CASE m = 0
  <2>1. byte = w[1] /\ Start1(m) = 1 /\ b.state = "IDLE"
    BY <1>1, <1>3, <1>6 DEF Start1, PacketState
  <2>2. byte - (byte % 2) = BootloaderAddress
    <3>1. byte \in {BootloaderAddress, BootloaderAddress + 1}
      BY <2>1 DEF PacketIn, ToBootloaderNow
    <3> HIDE DEF byte
    <3>2. QED
      BY <3>1, BootloaderAssumption
  <2>3. c = [b EXCEPT !.state = "SOP"]
    BY <2>1, <2>2 DEF c, Bootloader, BootloaderIdle
  <2>4. c.state = "SOP" /\ c.log = b.log
    BY <2>3 DEF BootloaderState
  <2>5. PacketState(m + 1, n) = "SOP" /\ PayloadAt(m + 1, n) = PayloadAt(m, n)
    BY <1>1, <1>6 DEF PacketState, PayloadAt
  <2>6. QED
    BY <1>1, <1>3, <1>6, <2>4, <2>5
<1>7. CASE m = 1
  <2>1. byte = SOP /\ b.state = "SOP"
    BY <1>1, <1>3, <1>7 DEF PacketState, PacketIn
  <2>2. c = [b EXCEPT !.state = "CMD"]
    BY <2>1 DEF c, Bootloader, BootloaderSop
  <2>3. c.state = "CMD" /\ c.log = b.log
    BY <2>2 DEF BootloaderState
  <2>4. PacketState(m + 1, n) = "CMD" /\ PayloadAt(m + 1, n) = PayloadAt(m, n)
    BY <1>1, <1>7 DEF PacketState, PayloadAt
  <2>5. QED
    BY <1>1, <1>3, <1>7, <2>3, <2>4
<1>8. CASE m = 2
  <2>1. byte = w[3] /\ b.state = "CMD" /\ b.log = Payload(w, 0)
    BY <1>1, <1>3, <1>8 DEF PacketState, PayloadAt
  <2>2. Append(Payload(w, 0), w[3]) = Payload(w, 1)
    <3>1. 0 + 5 <= Len(w) /\ 0 \in Nat
      BY <1>1
    <3>2. QED
      BY <3>1, PayloadGrows
  <2>3. c = [[b EXCEPT !.log = Payload(w, 1)] EXCEPT !.state = "SIZE_LSB"]
    BY <1>5, <2>1, <2>2 DEF c, Bootloader
  <2>4. c.state = "SIZE_LSB" /\ c.log = Payload(w, 1)
    BY <2>3 DEF BootloaderState
  <2>5. PacketState(m + 1, n) = "SIZE_LSB" /\ PayloadAt(m + 1, n) = 1
    BY <1>1, <1>8 DEF PacketState, PayloadAt
  <2>6. QED
    BY <1>1, <1>3, <1>8, <2>4, <2>5
<1>9. CASE m = 3
  <2>1. byte = w[4] /\ b.state = "SIZE_LSB"
    BY <1>1, <1>3, <1>9 DEF PacketState
  <2>2. c = [b EXCEPT !.size = byte, !.state = "SIZE_MSB"]
    BY <2>1 DEF c, Bootloader
  <2>3. c.state = "SIZE_MSB" /\ c.log = b.log /\ c.size = w[4]
    BY <2>1, <2>2 DEF BootloaderState
  <2>4. PacketState(m + 1, n) = "SIZE_MSB" /\ PayloadAt(m + 1, n) = PayloadAt(m, n)
    BY <1>1, <1>9 DEF PacketState, PayloadAt
  <2>5. QED
    BY <1>1, <1>3, <1>9, <2>3, <2>4
<1>10. CASE m = 4
  <2>1. byte = w[5] /\ b.state = "SIZE_MSB" /\ b.size = w[4]
    BY <1>1, <1>3, <1>10 DEF PacketState
  <2>2. b.size + byte * ByteValues = n
    BY <2>1, PacketSize DEF n
  <2>3. c = [b EXCEPT !.size = n, !.data_count = 0, !.state = "DATA"]
    BY <2>1, <2>2 DEF c, Bootloader, BootloaderSizeMsb, BootloaderState
  <2>4. c.state = "DATA" /\ c.log = b.log /\ c.size = n /\ c.data_count = 0
    BY <2>3 DEF BootloaderState
  <2>5. PacketState(m + 1, n) = "DATA" /\ PayloadAt(m + 1, n) = PayloadAt(m, n)
    BY <1>1, <1>10 DEF PacketState, PayloadAt
  <2>6. QED
    BY <1>1, <1>3, <1>10, <2>4, <2>5
<1>11. CASE m \in 5..n + 4
  <2>1. b.state = "DATA" /\ b.size = n /\ b.data_count = m - 5 /\ b.log = Payload(w, m - 4)
    BY <1>1, <1>3, <1>11 DEF PacketState, PayloadAt
  <2>2. Append(Payload(w, m - 4), byte) = Payload(w, m - 3)
    <3>1. m - 4 \in Nat /\ m - 4 > 0 /\ (m - 4) + 5 = m + 1 /\ (m - 4) + 1 = m - 3
          /\ (m - 4) + 5 <= Len(w)
      BY <1>1, <1>11
    <3>2. QED
      BY <3>1, PayloadGrows
  <2> DEFINE s == IF b.data_count + 1 = b.size THEN "CHKSUM_LSB" ELSE "DATA"
             count == b.data_count + 1
  <2>3. c = [[b EXCEPT !.log = Payload(w, m - 3)] EXCEPT !.data_count = count, !.state = s]
    <3>1. Logged(b, byte) = [b EXCEPT !.log = Payload(w, m - 3)]
      BY <1>5, <2>1, <2>2
    <3>2. c = [Logged(b, byte) EXCEPT !.data_count = @ + 1, !.state = s]
      BY <2>1 DEF c, Bootloader, BootloaderData
    <3>3. Logged(b, byte).data_count = b.data_count
      BY <3>1 DEF BootloaderState
    <3>4. QED
      BY <3>1, <3>2, <3>3 DEF BootloaderState
  <2>4. count = (m + 1) - 5 /\ (s = IF m = n + 4 THEN "CHKSUM_LSB" ELSE "DATA")
    BY <1>1, <1>11, <2>1
  <2> HIDE DEF s, count
  <2>5. c.state = s /\ c.log = Payload(w, m - 3) /\ c.size = n /\ c.data_count = count
    BY <2>1, <2>3 DEF BootloaderState
  <2>6. PacketState(m + 1, n) = s /\ PayloadAt(m + 1, n) = m - 3
    BY <1>1, <1>11, <2>4 DEF PacketState, PayloadAt
  <2>7. QED
    BY <1>1, <1>11, <2>4, <2>5, <2>6
<1>12. CASE m = n + 5
  <2>1. b.state = "CHKSUM_LSB"
    BY <1>1, <1>3, <1>12 DEF PacketState
  <2>2. c.state = "CHKSUM_MSB" /\ c.log = b.log
    BY <2>1 DEF c, Bootloader, BootloaderState
  <2>3. PacketState(m + 1, n) = "CHKSUM_MSB" /\ PayloadAt(m + 1, n) = PayloadAt(m, n)
    BY <1>1, <1>12 DEF PacketState, PayloadAt
  <2>4. QED
    BY <1>1, <1>3, <1>12, <2>2, <2>3
<1>13. CASE m = n + 6
  <2>1. b.state = "CHKSUM_MSB"
    BY <1>1, <1>3, <1>13 DEF PacketState
  <2>2. c.state = "EOP" /\ c.log = b.log
    BY <2>1 DEF c, Bootloader, BootloaderState
  <2>3. PacketState(m + 1, n) = "EOP" /\ PayloadAt(m + 1, n) = PayloadAt(m, n)
    BY <1>1, <1>13 DEF PacketState, PayloadAt
  <2>4. QED
    BY <1>1, <1>3, <1>13, <2>2, <2>3
<1>14. CASE m = n + 7
  <2>1. b.state = "EOP" /\ byte = EOP
    BY <1>1, <1>3, <1>14 DEF PacketState, PacketIn
  <2>2. c = [b EXCEPT !.state = "IDLE"]
    BY <2>1 DEF c, Bootloader, BootloaderEop
  <2>3. c.state = "IDLE" /\ c.log = b.log
    BY <2>2 DEF BootloaderState
  <2>4. PacketState(m + 1, n) = "IDLE" /\ PayloadAt(m + 1, n) = PayloadAt(m, n)
    BY <1>1, <1>14 DEF PacketState, PayloadAt
  <2>5. QED
    BY <1>1, <1>3, <1>14, <2>3, <2>4
<1>15. m = 0 \/ m = 1 \/ m = 2 \/ m = 3 \/ m = 4 \/ m \in 5..n + 4
       \/ m = n + 5 \/ m = n + 6 \/ m = n + 7
  BY <1>1
<1>16. QED
  BY <1>6, <1>7, <1>8, <1>9, <1>10, <1>11, <1>12, <1>13, <1>14, <1>15

\* A byte of a packet without payload.
LEMMA EmptyByte ==
  ASSUME NEW b \in BootloaderState, NEW w \in Seq(Nat), NEW m \in Nat, m < Len(w),
         EmptyIn(w), EmptyAt(b, w, m)
  PROVE  EmptyAt(Bootloader(b, w[m + 1], Start1(m)), w, m + 1)
<1> DEFINE byte == w[m + 1]
           c == Bootloader(b, byte, Start1(m))
<1>1. Len(w) = 8 /\ m \in 0..7 /\ byte \in Nat /\ w[4] \in Nat
  <2>1. Len(w) = 8
    BY DEF EmptyIn
  <2>2. m \in 0..7 /\ m + 1 \in 1..Len(w) /\ 4 \in 1..Len(w)
    BY <2>1
  <2>3. \A i \in 1..Len(w) : w[i] \in Nat
    OBVIOUS
  <2>4. QED
    BY <2>1, <2>2, <2>3
<1>2. /\ b.state = EmptyState(m)
      /\ m = 4 => b.size = w[4]
      /\ m >= 5 => b.size = 0
      /\ b.log = Payload(w, EmptyLog(m))
  BY DEF EmptyAt
<1>3. SUFFICES /\ c.state = EmptyState(m + 1)
               /\ m + 1 = 4 => c.size = w[4]
               /\ m + 1 >= 5 => c.size = 0
               /\ c.log = Payload(w, EmptyLog(m + 1))
  BY DEF EmptyAt
<1>4. ASSUME NEW item, NEW l, l = Append(b.log, item)
      PROVE  Logged(b, item) = [b EXCEPT !.log = l]
  BY <1>4 DEF Logged, BootloaderState
<1> HIDE DEF c
<1>5. CASE m = 0
  <2>1. byte = w[1] /\ Start1(m) = 1 /\ b.state = "IDLE"
    BY <1>2, <1>5 DEF Start1, EmptyState
  <2>2. byte - (byte % 2) = BootloaderAddress
    <3>1. byte \in {BootloaderAddress, BootloaderAddress + 1}
      BY <2>1 DEF EmptyIn, ToBootloaderNow
    <3> HIDE DEF byte
    <3>2. QED
      BY <3>1, BootloaderAssumption
  <2>3. c = [b EXCEPT !.state = "SOP"]
    BY <2>1, <2>2 DEF c, Bootloader, BootloaderIdle
  <2>4. c.state = "SOP" /\ c.log = b.log
    BY <2>3 DEF BootloaderState
  <2>5. EmptyState(m + 1) = "SOP" /\ EmptyLog(m + 1) = EmptyLog(m)
    BY <1>5 DEF EmptyState, EmptyLog
  <2>6. QED
    BY <1>2, <1>5, <2>4, <2>5
<1>6. CASE m = 1
  <2>1. byte = SOP /\ b.state = "SOP"
    BY <1>2, <1>6 DEF EmptyState, EmptyIn
  <2>2. c = [b EXCEPT !.state = "CMD"]
    BY <2>1 DEF c, Bootloader, BootloaderSop
  <2>3. c.state = "CMD" /\ c.log = b.log
    BY <2>2 DEF BootloaderState
  <2>4. EmptyState(m + 1) = "CMD" /\ EmptyLog(m + 1) = EmptyLog(m)
    BY <1>6 DEF EmptyState, EmptyLog
  <2>5. QED
    BY <1>2, <1>6, <2>3, <2>4
<1>7. CASE m = 2
  <2>1. byte = w[3] /\ b.state = "CMD" /\ b.log = Payload(w, 0)
    BY <1>2, <1>7 DEF EmptyState, EmptyLog
  <2>2. Append(Payload(w, 0), w[3]) = Payload(w, 1)
    <3>1. 0 + 5 <= Len(w) /\ 0 \in Nat
      BY <1>1
    <3>2. QED
      BY <3>1, PayloadGrows
  <2>3. c = [[b EXCEPT !.log = Payload(w, 1)] EXCEPT !.state = "SIZE_LSB"]
    BY <1>4, <2>1, <2>2 DEF c, Bootloader
  <2>4. c.state = "SIZE_LSB" /\ c.log = Payload(w, 1)
    BY <2>3 DEF BootloaderState
  <2>5. EmptyState(m + 1) = "SIZE_LSB" /\ EmptyLog(m + 1) = 1
    BY <1>7 DEF EmptyState, EmptyLog
  <2>6. QED
    BY <1>7, <2>4, <2>5
<1>8. CASE m = 3
  <2>1. byte = w[4] /\ b.state = "SIZE_LSB"
    BY <1>2, <1>8 DEF EmptyState
  <2>2. c = [b EXCEPT !.size = byte, !.state = "SIZE_MSB"]
    BY <2>1 DEF c, Bootloader
  <2>3. c.state = "SIZE_MSB" /\ c.log = b.log /\ c.size = w[4]
    BY <2>1, <2>2 DEF BootloaderState
  <2>4. EmptyState(m + 1) = "SIZE_MSB" /\ EmptyLog(m + 1) = EmptyLog(m)
    BY <1>8 DEF EmptyState, EmptyLog
  <2>5. QED
    BY <1>2, <1>8, <2>3, <2>4
<1>9. CASE m = 4
  <2>1. byte = w[5] /\ b.state = "SIZE_MSB" /\ b.size = w[4]
    BY <1>2, <1>9 DEF EmptyState
  <2>2. b.size + byte * ByteValues = 0
    <3> DEFINE p == ByteValues * w[5]
    <3>1. 8 = 8 + w[4] + p
      BY <1>1 DEF EmptyIn
    <3>2. p \in Nat /\ w[5] * ByteValues = p
      BY <1>1, <2>1, NatTimes, BootloaderAssumption
    <3> HIDE DEF p
    <3>3. w[4] + p = 0
      BY <1>1, <3>1, <3>2
    <3>4. QED
      BY <2>1, <3>2, <3>3
  <2>3. c = [b EXCEPT !.size = 0, !.data_count = 0, !.state = "DATA"]
    BY <2>1, <2>2 DEF c, Bootloader, BootloaderSizeMsb, BootloaderState
  <2>4. c.state = "DATA" /\ c.log = b.log /\ c.size = 0
    BY <2>3 DEF BootloaderState
  <2>5. EmptyState(m + 1) = "DATA" /\ EmptyLog(m + 1) = EmptyLog(m)
    BY <1>9 DEF EmptyState, EmptyLog
  <2>6. QED
    BY <1>2, <1>9, <2>4, <2>5
<1>10. CASE m \in 5..7
  <2>1. b.state = "DATA" /\ b.size = 0 /\ b.log = Payload(w, m - 4)
    BY <1>2, <1>10 DEF EmptyState, EmptyLog
  <2>2. Append(Payload(w, m - 4), byte) = Payload(w, m - 3)
    <3>1. m - 4 \in Nat /\ m - 4 > 0 /\ (m - 4) + 5 = m + 1 /\ (m - 4) + 1 = m - 3
          /\ (m - 4) + 5 <= Len(w)
      BY <1>1, <1>10
    <3>2. QED
      BY <3>1, PayloadGrows
  <2>3. b.data_count + 1 # b.size
    <3>1. b.data_count \in Nat
      BY DEF BootloaderState
    <3>2. QED
      BY <2>1, <3>1
  <2>4. Logged(b, byte) = [b EXCEPT !.log = Payload(w, m - 3)]
    BY <1>4, <2>1, <2>2
  <2>5. c = [Logged(b, byte) EXCEPT !.data_count = @ + 1, !.state = "DATA"]
    BY <2>1, <2>3 DEF c, Bootloader, BootloaderData
  <2>6. c.state = "DATA" /\ c.log = Payload(w, m - 3) /\ c.size = 0
    BY <2>1, <2>4, <2>5 DEF BootloaderState
  <2>7. EmptyState(m + 1) = "DATA" /\ EmptyLog(m + 1) = m - 3
    BY <1>10 DEF EmptyState, EmptyLog
  <2>8. QED
    BY <1>10, <2>6, <2>7
<1>11. QED
  BY <1>1, <1>5, <1>6, <1>7, <1>8, <1>9, <1>10

LEMMA BytesAreNumbers ==
  ASSUME OnBus
  PROVE  txn.bytes \in Seq(Nat)
<1>1. Byte \subseteq Nat
  BY ByteIs
<1>2. txn.bytes \in Seq(Byte)
  BY DEF OnBus
<1>3. \A k \in 1..Len(txn.bytes) : txn.bytes[k] \in Nat
  <2>1. \A k \in 1..Len(txn.bytes) : txn.bytes[k] \in Byte
    BY <1>2
  <2>2. QED
    BY <1>1, <2>1
<1>4. QED
  BY <1>2, <1>3

\* A byte of whatever is on the bus.
LEMMA BootloaderByte ==
  ASSUME NEW b \in BootloaderState, NEW w \in Seq(Nat), NEW m \in Nat, m < Len(w),
         BootloaderFollows(b, w, m)
  PROVE  BootloaderFollows(Bootloader(b, w[m + 1], Start1(m)), w, m + 1)
<1>1. ~ToBootloaderNow(w) => Bootloader(b, w[m + 1], Start1(m)) = b
  BY BootloaderIgnores DEF BootloaderFollows
<1>2. PacketIn(w) => PacketAt(Bootloader(b, w[m + 1], Start1(m)), w, m + 1)
  BY PacketByte DEF BootloaderFollows
<1>3. EmptyIn(w) => EmptyAt(Bootloader(b, w[m + 1], Start1(m)), w, m + 1)
  BY EmptyByte DEF BootloaderFollows
<1>4. QED
  BY <1>1, <1>2, <1>3 DEF BootloaderFollows

LEMMA BootloaderInit == Init => BootloaderInv
<1>1. BootloaderCreated \in BootloaderState
  BY DEF BootloaderCreated, BootloaderState
<1>2. QED
  BY <1>1 DEF Init, BootloaderInv

LEMMA BootloaderNext == BusInv /\ BootloaderInv /\ [Next]_vars => BootloaderInv'
<1>1. SUFFICES ASSUME BusInv, BootloaderInv, [Next]_vars
               PROVE  /\ bootloader' \in BootloaderState
                      /\ txn' # NoTxn /\ before'.bootloader =>
                           BootloaderFollows(bootloader', txn'.bytes, Len(told'))
  BY DEF BootloaderInv
<1>2. /\ bootloader \in BootloaderState
      /\ txn # NoTxn /\ before.bootloader =>
           BootloaderFollows(bootloader, txn.bytes, Len(told))
  BY <1>1 DEF BootloaderInv
<1>3. CASE Unheard
  BY <1>2, <1>3 DEF Unheard
<1>4. CASE Spurious
  BY <1>2, <1>4 DEF Spurious
<1>5. CASE Ends
  BY <1>2, <1>5 DEF Ends
<1>6. CASE Given
  <2> DEFINE w == txn.bytes
             m == Len(told)
  <2>1. /\ HeardOf(m) /\ m < Len(w) /\ Len(told') = m + 1
        /\ UNCHANGED <<txn, before>>
        /\ bootloader' = Bootloader(bootloader, w[m + 1], Start1(m))
    BY <1>6 DEF Given
  <2>2. txn # NoTxn /\ w \in Seq(Nat) /\ m \in Nat
    BY <2>1, BytesAreNumbers DEF HeardOf, OnBus
  <2>3. w[m + 1] \in Nat
    BY <2>1, <2>2
  <2>4. bootloader' \in BootloaderState
    BY <1>2, <2>1, <2>3, BootloaderTyped
  <2> HIDE DEF w, m
  <2>5. before.bootloader => BootloaderFollows(bootloader', w, m + 1)
    BY <1>2, <2>1, <2>2, BootloaderByte DEF w, m
  <2>6. QED
    BY <2>1, <2>4, <2>5 DEF w, m
<1>7. CASE Begins
  <2>1. /\ told' = <<>> /\ txn' # NoTxn
        /\ before' = [bootloader |-> bootloader.state = "IDLE", panel |-> panel.state = "IDLE"]
        /\ bootloader' = [bootloader EXCEPT !.log = <<>>]
    BY <1>7 DEF Begins
  <2>2. bootloader' \in BootloaderState /\ bootloader'.log = <<>>
        /\ bootloader'.state = bootloader.state
    <3>1. <<>> \in Seq(Nat \cup {"ERROR: did not get SOP", "Invalid EOP"})
      OBVIOUS
    <3>2. QED
      BY <1>2, <2>1, <3>1 DEF BootloaderState
  <2>3. SUFFICES ASSUME bootloader.state = "IDLE"
                 PROVE  BootloaderFollows(bootloader', txn'.bytes, 0)
    BY <2>1, <2>2
  <2>4. Payload(txn'.bytes, 0) = <<>>
    BY DEF Payload
  <2>5. PacketIn(txn'.bytes) => PacketAt(bootloader', txn'.bytes, 0)
    <3>1. PayloadAt(0, Len(txn'.bytes) - 8) = 0 /\ PacketState(0, Len(txn'.bytes) - 8) = "IDLE"
      BY DEF PayloadAt, PacketState
    <3>2. QED
      BY <2>2, <2>3, <2>4, <3>1 DEF PacketAt
  <2>6. EmptyAt(bootloader', txn'.bytes, 0)
    <3>1. EmptyLog(0) = 0 /\ EmptyState(0) = "IDLE"
      BY DEF EmptyLog, EmptyState
    <3>2. QED
      BY <2>2, <2>3, <2>4, <3>1 DEF EmptyAt
  <2>7. QED
    BY <2>2, <2>3, <2>5, <2>6 DEF BootloaderFollows
<1>8. QED
  BY <1>1, <1>3, <1>4, <1>5, <1>6, <1>7, Kinds

LEMMA PayloadIs ==
  ASSUME NEW w \in Seq(Nat), NEW n \in Nat, n + 5 <= Len(w)
  PROVE  Payload(w, n + 1) = <<w[3]>> \o SubSeq(w, 6, 6 + n - 1)
<1> DEFINE s == SubSeq(w, 6, 6 + n - 1)
           t == <<w[3]>> \o s
<1>1. s \in Seq(Nat) /\ Len(s) = n /\ \A i \in 1..n : s[i] = w[5 + i]
  <2>1. 6 \in 1..Len(w) + 1 /\ 6 + n - 1 \in 6 - 1..Len(w)
    OBVIOUS
  <2>2. QED
    BY <2>1
<1>2. w[3] \in Nat
  OBVIOUS
<1> HIDE DEF s
<1>3. /\ t \in Seq(Nat) /\ Len(t) = n + 1
      /\ \A i \in 1..n + 1 : t[i] = IF i = 1 THEN w[3] ELSE s[i - 1]
  BY <1>1, <1>2
<1>4. \A i \in 1..n + 1 : t[i] = IF i = 1 THEN w[3] ELSE w[4 + i]
  <2>1. SUFFICES ASSUME NEW i \in 1..n + 1, i # 1 PROVE s[i - 1] = w[4 + i]
    BY <1>3
  <2>2. i - 1 \in 1..n /\ 5 + (i - 1) = 4 + i
    BY <2>1
  <2>3. QED
    BY <1>1, <2>2
<1> HIDE DEF t
<1>5. t = [i \in 1..n + 1 |-> t[i]]
  BY <1>3
<1>6. t = Payload(w, n + 1)
  BY <1>4, <1>5 DEF Payload
<1>7. QED
  BY <1>6 DEF s, t

\* The boot loader's decoder prints the command and the payload of every packet that
\* it was idle before, whatever their bytes are, and nothing of what goes to another
\* device; and from every packet without payload it never comes back: it prints the
\* checksum and EOP as data and waits for more (bootloader_i2c.c:133).
THEOREM BootloaderPrintsPacketsAlways == Spec => []BootloaderPrintsPackets
<1>1. BusInv /\ BootloaderInv => BootloaderPrintsPackets
  <2>1. SUFFICES ASSUME BusInv, BootloaderInv, Clocked, before.bootloader
                 PROVE  /\ BootloaderPacket /\ Len(txn.bytes) > 8 =>
                             /\ bootloader.state = "IDLE"
                             /\ bootloader.log = <<txn.bytes[3]>> \o Sent(6, Len(txn.bytes) - 8)
                        /\ BootloaderPacket /\ Len(txn.bytes) = 8 =>
                             /\ bootloader.state = "DATA"
                             /\ bootloader.log = <<txn.bytes[3]>> \o Sent(6, 3)
                        /\ Head(txn.bytes) \notin {BootloaderAddress, BootloaderAddress + 1} =>
                             bootloader.state = "IDLE" /\ bootloader.log = <<>>
    BY DEF BootloaderPrintsPackets
  <2> DEFINE w == txn.bytes
  <2>2. HeardOf(Len(w))
    BY <2>1, AllHeard
  <2>3. /\ w \in Seq(Nat) /\ Len(w) \in Nat \ {0} /\ Head(w) = w[1] /\ Last(w) = w[Len(w)]
        /\ Len(told) = Len(w) /\ txn # NoTxn
    BY <2>2, BytesAreNumbers DEF HeardOf, OnBus, Last
  <2>4. BootloaderFollows(bootloader, w, Len(w))
    BY <2>1, <2>3 DEF BootloaderInv
  <2>5. Head(w) \notin {BootloaderAddress, BootloaderAddress + 1} =>
          bootloader.state = "IDLE" /\ bootloader.log = <<>>
    BY <2>3, <2>4 DEF BootloaderFollows, ToBootloaderNow
  <2>6. ASSUME BootloaderPacket, Len(w) > 8
        PROVE  /\ bootloader.state = "IDLE"
               /\ bootloader.log = <<w[3]>> \o Sent(6, Len(w) - 8)
    <3>1. PacketIn(w)
      BY <2>3, <2>6 DEF BootloaderPacket, PacketIn, ToBootloaderNow
    <3> DEFINE n == Len(w) - 8
    <3>2. n \in Nat /\ n > 0 /\ Len(w) = n + 8
      BY <2>3, <2>6
    <3>3. PacketAt(bootloader, w, Len(w))
      BY <2>4, <3>1 DEF BootloaderFollows
    <3>4. bootloader.state = PacketState(n + 8, n) /\ bootloader.log = Payload(w, PayloadAt(n + 8, n))
      BY <3>2, <3>3 DEF PacketAt
    <3>5. Sent(6, n) = SubSeq(w, 6, 6 + n - 1)
      BY DEF Sent
    <3> HIDE DEF n, w
    <3>6. PacketState(n + 8, n) = "IDLE" /\ PayloadAt(n + 8, n) = n + 1
      BY <3>2 DEF PacketState, PayloadAt
    <3>7. Payload(w, n + 1) = <<w[3]>> \o SubSeq(w, 6, 6 + n - 1)
      <4>1. n + 5 <= Len(w) /\ w \in Seq(Nat)
        BY <2>3, <3>2
      <4>2. QED
        BY <3>2, <4>1, PayloadIs
    <3>8. QED
      BY <3>4, <3>5, <3>6, <3>7 DEF n, w
  <2>7. ASSUME BootloaderPacket, Len(w) = 8
        PROVE  bootloader.state = "DATA" /\ bootloader.log = <<w[3]>> \o Sent(6, 3)
    <3>1. EmptyIn(w)
      BY <2>3, <2>7 DEF BootloaderPacket, EmptyIn, ToBootloaderNow
    <3>2. EmptyAt(bootloader, w, 8)
      BY <2>4, <2>7, <3>1 DEF BootloaderFollows
    <3>3. EmptyState(8) = "DATA" /\ EmptyLog(8) = 4
      BY DEF EmptyState, EmptyLog
    <3>4. bootloader.state = "DATA" /\ bootloader.log = Payload(w, 4)
      BY <3>2, <3>3 DEF EmptyAt
    <3>5. Sent(6, 3) = SubSeq(w, 6, 8)
      BY DEF Sent
    <3> HIDE DEF w
    <3>6. Payload(w, 4) = <<w[3]>> \o SubSeq(w, 6, 8)
      <4>1. 3 \in Nat /\ 3 + 5 <= Len(w) /\ w \in Seq(Nat) /\ 3 + 1 = 4 /\ 6 + 3 - 1 = 8
        BY <2>3, <2>7
      <4>2. QED
        BY <4>1, PayloadIs
    <3>7. QED
      BY <3>4, <3>5, <3>6
  <2>8. QED
    BY <2>5, <2>6, <2>7
<1>2. Init => BusInv /\ BootloaderInv
  BY BusInit, BootloaderInit
<1>3. BusInv /\ BootloaderInv /\ [Next]_vars => (BusInv /\ BootloaderInv)'
  BY BusNext, BootloaderNext
<1>4. QED
  BY <1>1, <1>2, <1>3, PTL DEF Spec

-----------------------------------------------------------------------------
(* The tag's decoder.                                                      *)

TagState(s) ==
  /\ s = [data |-> s.data, offset |-> s.offset, memsize_lsb |-> s.memsize_lsb,
          report |-> s.report]
  /\ s.data \in Seq(Nat)

\* What a transaction of these bytes is.
ForTag(w)    == w[1] - (w[1] % 2) \in {UserAddress, SysAddress}
Writes(w)    == w[1] % 2 = 0
OffsetIn(w)  == OffsetValues * w[2] + w[3]

\* What is printed of it, and the offset that is remembered.
ReportOf(report, w, offset) ==
  IF ~ForTag(w) \/ (Writes(w) /\ Len(w) < 3)
  THEN report = NothingPrinted
  ELSE /\ report.dir = IF Writes(w) THEN "write" ELSE "read"
       /\ report.sys = (w[1] - (w[1] % 2) = SysAddress)
       /\ report.offset = IF Writes(w) THEN OffsetIn(w) ELSE offset
       /\ report.payload = IF Writes(w) THEN SubSeq(w, 4, Len(w)) ELSE Tail(w)
OffsetAfter(w, offset) ==
  IF ForTag(w) /\ Writes(w) /\ Len(w) >= 3 THEN OffsetIn(w) ELSE offset

LEMMA ReadIs ==
  ASSUME NEW s, TagState(s), s.data # <<>>
  PROVE  LET e == ProcessRead(s)
         IN  /\ TagState(e) /\ e.offset = s.offset
             /\ e.report.dir = "read" /\ e.report.sys = IsSys(s)
             /\ e.report.offset = s.offset /\ e.report.payload = Tail(s.data)
<1> DEFINE payload == Tail(s.data)
           kind == IF payload = <<>> THEN "offset only" ELSE KindOf(s.offset, IsSys(s))
           report == [dir |-> "read", sys |-> IsSys(s), offset |-> s.offset,
                      payload |-> payload, kind |-> kind, lsb |-> -1]
           printed == [s EXCEPT !.report = report]
           e == ProcessRead(s)
<1>1. e = IF kind = "sys" THEN ProcessSys(printed, payload[1]) ELSE printed
  BY DEF ProcessRead
<1>2. /\ report.dir = "read" /\ report.sys = IsSys(s)
      /\ report.offset = s.offset /\ report.payload = Tail(s.data)
  OBVIOUS
<1>3. \A lsb : LET r == [report EXCEPT !.lsb = lsb]
               IN  /\ r.dir = report.dir /\ r.sys = report.sys
                   /\ r.offset = report.offset /\ r.payload = report.payload
  OBVIOUS
<1> HIDE DEF report, kind, payload
<1>4. /\ TagState(printed) /\ printed.offset = s.offset /\ printed.report = report
  BY DEF TagState
<1> HIDE DEF printed, e
<1>5. CASE e = printed
  BY <1>2, <1>4, <1>5 DEF e
<1>6. CASE e = ProcessSys(printed, payload[1])
  <2>1. CASE e = [printed EXCEPT !.memsize_lsb = payload[1]]
    <3>1. TagState(e) /\ e.offset = printed.offset /\ e.report = printed.report
      BY <1>4, <2>1 DEF TagState
    <3>2. QED
      BY <1>2, <1>4, <3>1 DEF e
  <2>2. CASE e = [printed EXCEPT !.report.lsb = printed.memsize_lsb]
    <3> DEFINE r == [report EXCEPT !.lsb = printed.memsize_lsb]
    <3>1. e = [printed EXCEPT !.report = r]
      BY <1>4, <2>2
    <3>2. /\ r.dir = report.dir /\ r.sys = report.sys
          /\ r.offset = report.offset /\ r.payload = report.payload
      BY <1>3
    <3> HIDE DEF r
    <3>3. TagState(e) /\ e.offset = printed.offset /\ e.report = r
      BY <1>4, <3>1 DEF TagState
    <3>4. QED
      BY <1>2, <1>4, <3>2, <3>3 DEF e
  <2>3. CASE e = printed
    BY <1>5, <2>3
  <2>4. QED
    BY <1>6, <2>1, <2>2, <2>3 DEF ProcessSys
<1>7. QED
  BY <1>1, <1>5, <1>6

LEMMA ProcessPacketIs ==
  ASSUME NEW s, TagState(s)
  PROVE  LET e == ProcessPacket(s)
         IN  /\ TagState(e) /\ e.data = <<>>
             /\ s.data = <<>> => e.offset = s.offset
             /\ s.data # <<>> =>
                  ReportOf(e.report, s.data, s.offset) /\ e.offset = OffsetAfter(s.data, s.offset)
<1> DEFINE q == [s EXCEPT !.report = NothingPrinted]
           w == s.data
           e == ProcessPacket(s)
<1>1. /\ TagState(q) /\ q.data = w /\ q.offset = s.offset /\ q.report = NothingPrinted
      /\ w \in Seq(Nat)
  BY DEF TagState
<1>2. e = IF w = <<>>
          THEN q
          ELSE IF Head(w) - (Head(w) % 2) \notin {UserAddress, SysAddress}
          THEN [q EXCEPT !.data = <<>>]
          ELSE [(IF Head(w) % 2 = 1 THEN ProcessRead(q) ELSE ProcessWrite(q)) EXCEPT !.data = <<>>]
  BY DEF ProcessPacket
<1> HIDE DEF e, q
<1>3. ASSUME NEW d, TagState(d)
      PROVE  LET c == [d EXCEPT !.data = <<>>]
             IN  TagState(c) /\ c.data = <<>> /\ c.offset = d.offset /\ c.report = d.report
  BY <1>3 DEF TagState
<1>4. CASE w = <<>>
  BY <1>1, <1>2, <1>4 DEF e
<1>5. CASE w # <<>>
  <2>1. Head(w) = w[1] /\ w[1] \in Nat
    BY <1>1, <1>5
  <2>2. w[1] % 2 = 1 <=> ~Writes(w)
    BY <2>1 DEF Writes
  <2>3. SUFFICES /\ TagState(e) /\ e.data = <<>>
                 /\ ReportOf(e.report, w, s.offset) /\ e.offset = OffsetAfter(w, s.offset)
    BY <1>5 DEF e
  <2>4. CASE ~ForTag(w)
    <3>1. e = [q EXCEPT !.data = <<>>]
      BY <1>2, <1>5, <2>1, <2>4 DEF ForTag
    <3>2. QED
      BY <1>1, <1>3, <2>4, <3>1 DEF ReportOf, OffsetAfter
  <2>5. CASE ForTag(w) /\ ~Writes(w)
    <3>1. e = [ProcessRead(q) EXCEPT !.data = <<>>]
      BY <1>2, <1>5, <2>1, <2>2, <2>5 DEF ForTag
    <3> DEFINE d == ProcessRead(q)
    <3>2. /\ TagState(d) /\ d.offset = q.offset
          /\ d.report.dir = "read" /\ d.report.sys = IsSys(q)
          /\ d.report.offset = q.offset /\ d.report.payload = Tail(q.data)
      BY <1>1, <1>5, ReadIs
    <3>3. IsSys(q) = (w[1] - (w[1] % 2) = SysAddress)
      BY <1>1, <2>1 DEF IsSys
    <3> HIDE DEF d
    <3>4. TagState(e) /\ e.data = <<>> /\ e.offset = d.offset /\ e.report = d.report
      BY <1>3, <3>1, <3>2 DEF d
    <3>5. QED
      BY <1>1, <2>5, <3>2, <3>3, <3>4 DEF ReportOf, OffsetAfter
  <2>6. CASE ForTag(w) /\ Writes(w)
    <3>1. e = [ProcessWrite(q) EXCEPT !.data = <<>>]
      BY <1>2, <1>5, <2>1, <2>2, <2>6 DEF ForTag
    <3>2. CASE Len(w) < 3
      <4>1. ProcessWrite(q) = q
        BY <1>1, <3>2 DEF ProcessWrite
      <4>2. QED
        BY <1>1, <1>3, <2>6, <3>1, <3>2, <4>1 DEF ReportOf, OffsetAfter
    <3>3. CASE ~(Len(w) < 3)
      <4> DEFINE d == ProcessWrite(q)
                 offset == OffsetIn(w)
                 report == [dir |-> "write", sys |-> IsSys(q), offset |-> offset,
                            payload |-> SubSeq(w, 4, Len(w))]
      <4>1. d = [q EXCEPT !.offset = offset, !.report = report]
        BY <1>1, <3>3 DEF ProcessWrite, OffsetIn
      <4>2. /\ report.dir = "write" /\ report.sys = IsSys(q) /\ report.offset = offset
            /\ report.payload = SubSeq(w, 4, Len(w))
        OBVIOUS
      <4>3. IsSys(q) = (w[1] - (w[1] % 2) = SysAddress)
        BY <1>1, <2>1 DEF IsSys
      <4> HIDE DEF report, offset, d
      <4>4. TagState(d) /\ d.offset = offset /\ d.report = report
        BY <1>1, <4>1 DEF TagState
      <4>5. TagState(e) /\ e.data = <<>> /\ e.offset = d.offset /\ e.report = d.report
        BY <1>3, <3>1, <4>4 DEF d
      <4>6. Len(w) >= 3
        BY <1>1, <3>3
      <4>7. QED
        BY <2>6, <4>2, <4>3, <4>4, <4>5, <4>6, <3>3 DEF ReportOf, OffsetAfter, offset
    <3>4. QED
      BY <3>2, <3>3
  <2>7. QED
    BY <2>4, <2>5, <2>6
<1>6. QED
  BY <1>4, <1>5

TagInv ==
  /\ TagState(tag)
  /\ decoder = "i2c_2" =>
       /\ txn = NoTxn => tag.data = <<>>
       /\ txn # NoTxn /\ Len(txn.bytes) <= StRoom => tag.data = SubSeq(txn.bytes, 1, Len(told))
       /\ label # Unknown => tag.offset = label

LEMMA TagInit == Init => TagInv
<1>1. SUFFICES ASSUME tag = StCreated, txn = NoTxn, label = Unknown PROVE TagInv
  BY DEF Init
<1>2. TagState(tag) /\ tag.data = <<>>
  BY <1>1 DEF TagState, StCreated
<1>3. QED
  BY <1>1, <1>2 DEF TagInv

\* At the end of a transaction.
LEMMA TagOver ==
  ASSUME TagInv, Finished, TagEnds, decoder = "i2c_2"
  PROVE  /\ TagState(tag') /\ tag'.data = <<>>
         /\ label' # Unknown => tag'.offset = label'
         /\ txn # NoTxn /\ Len(txn.bytes) <= StRoom =>
              ReportOf(tag'.report, txn.bytes, tag.offset)
<1>1. /\ TagState(tag') /\ tag'.data = <<>>
      /\ tag.data = <<>> => tag'.offset = tag.offset
      /\ tag.data # <<>> =>
           /\ ReportOf(tag'.report, tag.data, tag.offset)
           /\ tag'.offset = OffsetAfter(tag.data, tag.offset)
  <2>1. tag' = ProcessPacket(tag) /\ TagState(tag)
    BY DEF TagEnds, TagInv
  <2>2. QED
    BY <2>1, ProcessPacketIs
<1>2. CASE txn = NoTxn
  BY <1>1, <1>2 DEF TagInv, Finished, HeardOf
<1>3. CASE txn # NoTxn
  <2> DEFINE w == txn.bytes
  <2>1. HeardOf(Len(w)) /\ Over
    BY <1>3 DEF Finished
  <2>2. w \in Seq(Nat) /\ Len(w) \in Nat \ {0} /\ Len(told) = Len(w) /\ w # <<>>
    BY <2>1, BytesAreNumbers DEF HeardOf, OnBus
  <2>3. Head(w) = w[1]
    BY <2>2
  <2>4. label' = IF Len(w) > StRoom THEN Unknown
                 ELSE IF ForTag(w) /\ Writes(w) /\ Len(w) >= 3 THEN OffsetIn(w) ELSE label
    BY <2>1, <2>3 DEF Over, ToTagNow, IsWrite, ForTag, Writes, OffsetIn
  <2>5. CASE Len(w) > StRoom
    <3>1. ~(Len(w) <= StRoom)
      BY <2>2, <2>5, StRoomAssumption
    <3>2. QED
      BY <1>1, <2>4, <2>5, <3>1
  <2>6. CASE ~(Len(w) > StRoom)
    <3>1. Len(w) <= StRoom
      BY <2>2, <2>6, StRoomAssumption
    <3>2. tag.data = SubSeq(w, 1, Len(w)) /\ (label # Unknown => tag.offset = label)
      BY <1>3, <2>2, <3>1 DEF TagInv
    <3>3. SubSeq(w, 1, Len(w)) = w
      BY <2>2
    <3>4. tag.data = w /\ tag.data # <<>>
      BY <2>2, <3>2, <3>3
    <3> HIDE DEF w
    <3>5. ReportOf(tag'.report, w, tag.offset) /\ tag'.offset = OffsetAfter(w, tag.offset)
      BY <1>1, <3>4
    <3>6. label' # Unknown => tag'.offset = label'
      BY <2>4, <2>6, <3>2, <3>5 DEF OffsetAfter
    <3>7. QED
      BY <1>1, <3>5, <3>6 DEF w
  <2>7. QED
    BY <2>5, <2>6
<1>4. QED
  BY <1>2, <1>3

LEMMA TagByte ==
  ASSUME NEW s, TagState(s), NEW byte \in Nat
  PROVE  LET e == StByte(s, byte)
         IN  /\ TagState(e) /\ e.offset = s.offset
             /\ Len(s.data) # StRoom => e.data = Append(s.data, byte)
<1> DEFINE data == IF Len(s.data) = StRoom THEN <<byte>> ELSE Append(s.data, byte)
           e == StByte(s, byte)
<1>1. e = [s EXCEPT !.data = data]
  BY DEF StByte, TagState
<1>2. data \in Seq(Nat)
  BY DEF TagState
<1> HIDE DEF data, e
<1>3. TagState(e) /\ e.offset = s.offset /\ e.data = data
  BY <1>1, <1>2 DEF TagState
<1>4. QED
  BY <1>3 DEF e, data

LEMMA TagNext == BusInv /\ TagInv /\ [Next]_vars => TagInv'
<1>1. SUFFICES ASSUME BusInv, TagInv, [Next]_vars PROVE TagInv'
  OBVIOUS
<1>2. /\ TagState(tag)
      /\ decoder = "i2c_2" =>
           /\ txn = NoTxn => tag.data = <<>>
           /\ txn # NoTxn /\ Len(txn.bytes) <= StRoom => tag.data = SubSeq(txn.bytes, 1, Len(told))
           /\ label # Unknown => tag.offset = label
  BY <1>1 DEF TagInv
<1>3. CASE Unheard
  <2>1. UNCHANGED <<tag, decoder, txn, told, label>>
    BY <1>3 DEF Unheard
  <2>2. QED
    BY <1>2, <2>1 DEF TagInv, TagState
<1>4. CASE Spurious
  <2>1. UNCHANGED <<decoder, txn, label, asked>> /\ txn = NoTxn /\ TagEnds
    BY <1>4 DEF Spurious
  <2>2. Finished
    BY <2>1 DEF Finished
  <2>3. CASE decoder = "i2c_2"
    <3>1. TagState(tag') /\ tag'.data = <<>> /\ (label' # Unknown => tag'.offset = label')
      BY <1>1, <2>1, <2>2, <2>3, TagOver
    <3>2. QED
      BY <2>1, <3>1 DEF TagInv, TagState
  <2>4. CASE decoder # "i2c_2"
    BY <1>2, <2>1, <2>4 DEF TagInv, TagEnds, TagState
  <2>5. QED
    BY <2>3, <2>4
<1>5. CASE Ends
  <2>1. txn' = NoTxn /\ decoder' = decoder /\ TagEnds /\ Finished
    BY <1>5 DEF Ends, Finished
  <2>2. CASE decoder = "i2c_2"
    <3>1. TagState(tag') /\ tag'.data = <<>> /\ (label' # Unknown => tag'.offset = label')
      BY <1>1, <2>1, <2>2, TagOver
    <3>2. QED
      BY <2>1, <3>1 DEF TagInv, TagState
  <2>3. CASE decoder # "i2c_2"
    BY <1>2, <2>1, <2>3 DEF TagInv, TagEnds, TagState
  <2>4. QED
    BY <2>2, <2>3
<1>6. CASE Begins
  <2>1. txn' # NoTxn /\ told' = <<>> /\ decoder' = decoder /\ TagEnds /\ Finished
    BY <1>6 DEF Begins
  <2>2. CASE decoder = "i2c_2"
    <3>1. TagState(tag') /\ tag'.data = <<>> /\ (label' # Unknown => tag'.offset = label')
      BY <1>1, <2>1, <2>2, TagOver
    <3>2. Len(told') = 0 /\ SubSeq(txn'.bytes, 1, 0) = <<>>
      BY <2>1
    <3>3. QED
      BY <2>1, <3>1, <3>2 DEF TagInv, TagState
  <2>3. CASE decoder # "i2c_2"
    BY <1>2, <2>1, <2>3 DEF TagInv, TagEnds, TagState
  <2>4. QED
    BY <2>2, <2>3
<1>7. CASE Given
  <2> DEFINE w == txn.bytes
             m == Len(told)
  <2>1. /\ HeardOf(m) /\ m < Len(w) /\ Len(told') = m + 1
        /\ UNCHANGED <<decoder, txn, label>>
        /\ tag' = IF decoder = "i2c_2" THEN StByte(tag, w[m + 1]) ELSE tag
    BY <1>7 DEF Given
  <2>2. txn # NoTxn /\ w \in Seq(Nat) /\ m \in Nat /\ Len(w) \in Nat
    BY <2>1, BytesAreNumbers DEF HeardOf, OnBus
  <2>3. w[m + 1] \in Nat
    BY <2>1, <2>2
  <2>4. CASE decoder = "i2c_2"
    <3>1. /\ TagState(tag') /\ tag'.offset = tag.offset
          /\ Len(tag.data) # StRoom => tag'.data = Append(tag.data, w[m + 1])
      BY <1>2, <2>1, <2>3, <2>4, TagByte
    <3> HIDE DEF w, m
    <3>2. Len(w) <= StRoom => tag'.data = SubSeq(w, 1, m + 1)
      <4>1. SUFFICES ASSUME Len(w) <= StRoom PROVE tag'.data = SubSeq(w, 1, m + 1)
        OBVIOUS
      <4>2. tag.data = SubSeq(w, 1, m)
        BY <1>2, <2>2, <2>4, <4>1 DEF w, m
      <4>3. /\ Len(SubSeq(w, 1, m)) = m
            /\ Append(SubSeq(w, 1, m), w[m + 1]) = SubSeq(w, 1, m + 1)
        BY <2>1, <2>2, NextSent
      <4>4. m # StRoom
        BY <2>1, <2>2, <4>1, StRoomAssumption
      <4>5. QED
        BY <3>1, <4>2, <4>3, <4>4
    <3>3. QED
      BY <1>2, <2>1, <2>2, <2>4, <3>1, <3>2 DEF TagInv, TagState, w, m
  <2>5. CASE decoder # "i2c_2"
    BY <1>2, <2>1, <2>5 DEF TagInv, TagState
  <2>6. QED
    BY <2>4, <2>5
<1>8. QED
  BY <1>1, <1>3, <1>4, <1>5, <1>6, <1>7, Kinds

\* A step that ends a transaction prints it as it was on the bus, with the offset that
\* it said or that of the last write, whatever came before (process_packet, st25dv.c).
THEOREM TagPrintsTransactionsAlways == Spec => TagPrintsTransactions
<1>1. BusInv /\ TagInv /\ [Next]_vars =>
        [(Stop \/ RepeatedStart) /\ decoder = "i2c_2" /\ Len(txn.bytes) <= StRoom
         => TagPrints(tag'.report)]_vars
  <2>1. SUFFICES ASSUME BusInv, TagInv, [Next]_vars, Stop \/ RepeatedStart,
                        decoder = "i2c_2", Len(txn.bytes) <= StRoom
                 PROVE  TagPrints(tag'.report)
    OBVIOUS
  <2> DEFINE w == txn.bytes
  <2>2. Ending
    BY <2>1 DEF Stop, RepeatedStart
  <2>3. HeardOf(Len(w))
    BY <2>1, <2>2, EndingHeard
  <2>4. Finished /\ TagEnds
    <3>1. CASE Stop
      BY <2>1, <3>1, StopKinds DEF Ends, Finished
    <3>2. CASE RepeatedStart
      BY <2>1, <3>2, StartKinds DEF Begins
    <3>3. QED
      BY <2>1, <3>1, <3>2
  <2>5. txn # NoTxn /\ w \in Seq(Nat) /\ Len(w) \in Nat \ {0} /\ Head(w) = w[1]
    BY <2>3, BytesAreNumbers DEF HeardOf, OnBus
  <2>6. ReportOf(tag'.report, w, tag.offset)
    BY <2>1, <2>4, <2>5, TagOver
  <2>7. label # Unknown => tag.offset = label
    BY <2>1 DEF TagInv
  <2>8. Sent(4, Len(w) - 3) = SubSeq(w, 4, Len(w))
    <3>1. 4 + (Len(w) - 3) - 1 = Len(w)
      BY <2>5
    <3>2. QED
      BY <3>1 DEF Sent
  <2>9. /\ ToTagNow <=> ForTag(w)
        /\ IsWrite <=> Writes(w)
        /\ OffsetIn(w) = OffsetValues * w[2] + w[3]
    BY <2>5 DEF ToTagNow, ForTag, IsWrite, Writes, OffsetIn
  <2>10. QED
    BY <2>5, <2>6, <2>7, <2>8, <2>9 DEF ReportOf, TagPrints
<1>2. Init => BusInv /\ TagInv
  BY BusInit, TagInit
<1>3. BusInv /\ TagInv /\ [Next]_vars => (BusInv /\ TagInv)'
  BY BusNext, TagNext
<1>4. QED
  BY <1>1, <1>2, <1>3, PTL DEF Spec, TagPrintsTransactions

-----------------------------------------------------------------------------
(* The panel's decoder.                                                    *)

PanelState(p) ==
  /\ p = [state |-> p.state, cmd |-> p.cmd, flag |-> p.flag, data_length |-> p.data_length,
          data_count |-> p.data_count, data |-> p.data, spi |-> p.spi, report |-> p.report]
  /\ p.state \in {"IDLE", "FLAG_BYTE", "CMD", "DATA"}
  /\ p.cmd \in Nat /\ p.flag \in Nat /\ p.data_length \in Nat /\ p.data_count \in Nat
  /\ p.data \in [0..PanelRoom - 1 -> Nat]

\* What is printed of a command with n bytes of data, which follow a transaction's
\* first bytes.
Reported(report, w, first, cmd, n) ==
  /\ report.cmd = cmd
  /\ report.data = SubSeq(w, first + 1, first + n)
  /\ Printed[cmd] <= n => report.named = SubSeq(w, first + 1, first + Printed[cmd])

\* k of the n bytes have come.
DataAt(p, w, first, k, cmd, n) ==
  /\ k < n =>
       /\ p.state = "DATA" /\ p.cmd = cmd /\ p.data_length = n /\ p.data_count = k
       /\ \A i \in 1..k : p.data[i - 1] = w[first + i]
  /\ k = n => p.state = "IDLE" /\ Reported(p.report, w, first, cmd, n)

LEMMA PanelConstants ==
  /\ PanelAddress \in Nat /\ PanelAddress % 2 = 0
  /\ FlagRead \in Nat /\ FlagRead > 0 /\ PanelRoom \in Nat /\ FlagRead <= PanelRoom
  /\ Printed \in [Byte -> Nat] /\ Byte \subseteq Nat
BY PanelAssumption, PrintedAssumption, ByteIs

LEMMA ProcessCmdIs ==
  ASSUME NEW p, PanelState(p)
  PROVE  LET e == ProcessCmd(p)
         IN  /\ PanelState(e) /\ e.state = p.state
             /\ e.report = [cmd   |-> p.cmd,
                            data  |-> [i \in 1..p.data_count |-> p.data[i - 1]],
                            named |-> [i \in 1..Printed[p.cmd] |-> p.data[i - 1]]]
<1> DEFINE e == ProcessCmd(p)
           report == [cmd   |-> p.cmd,
                      data  |-> [i \in 1..p.data_count |-> p.data[i - 1]],
                      named |-> [i \in 1..Printed[p.cmd] |-> p.data[i - 1]]]
<1>1. \E spi : e = [p EXCEPT !.spi = spi, !.report = report]
  BY Zenon DEF ProcessCmd
<1> HIDE DEF e, report
<1>2. PICK spi : e = [p EXCEPT !.spi = spi, !.report = report]
  BY <1>1
<1>3. PanelState(e) /\ e.state = p.state /\ e.report = report
  BY <1>2 DEF PanelState
<1>4. QED
  BY <1>3 DEF e, report

\* A byte of data is kept; the one that completes them has them printed.
DataKept(p, e, at, byte) ==
  LET data == [p.data EXCEPT ![at] = byte]
  IN  /\ at + 1 # p.data_length =>
           /\ e.state = p.state /\ e.cmd = p.cmd /\ e.data_length = p.data_length
           /\ e.data_count = at + 1 /\ e.data = data
      /\ at + 1 = p.data_length =>
           /\ e.state = "IDLE" /\ e.report.cmd = p.cmd
           /\ e.report.data = [i \in 1..at + 1 |-> data[i - 1]]
           /\ e.report.named = [i \in 1..Printed[p.cmd] |-> data[i - 1]]

LEMMA PanelDataIs ==
  ASSUME NEW p, PanelState(p), NEW byte \in Nat,
         NEW at, at = IF p.data_count >= PanelRoom THEN 0 ELSE p.data_count
  PROVE  PanelState(PanelData(p, byte)) /\ DataKept(p, PanelData(p, byte), at, byte)
<1> DEFINE data == [p.data EXCEPT ![at] = byte]
           count == at + 1
           c == [p EXCEPT !.data = data, !.data_count = count]
           d == ProcessCmd(c)
           e == PanelData(p, byte)
<1>1. at \in 0..PanelRoom - 1 /\ count \in Nat
  BY PanelConstants DEF PanelState
<1>2. data \in [0..PanelRoom - 1 -> Nat]
  BY <1>1 DEF PanelState
<1>3. c = [p EXCEPT !.data[at] = byte, !.data_count = at + 1]
  BY DEF PanelState
<1>4. e = IF c.data_count = c.data_length THEN [d EXCEPT !.state = "IDLE"] ELSE c
  BY <1>3 DEF PanelData
<1> HIDE DEF data, count
<1>5. /\ PanelState(c) /\ c.state = p.state /\ c.cmd = p.cmd /\ c.data_length = p.data_length
      /\ c.data_count = count /\ c.data = data
  <2> DEFINE q == [p EXCEPT !.data = data]
  <2>1. c = [q EXCEPT !.data_count = count]
    OBVIOUS
  <2>2. /\ PanelState(q) /\ q.state = p.state /\ q.cmd = p.cmd
        /\ q.data_length = p.data_length /\ q.data = data
    BY <1>2 DEF PanelState
  <2> HIDE DEF c, q
  <2>3. /\ PanelState(c) /\ c.state = q.state /\ c.cmd = q.cmd
        /\ c.data_length = q.data_length /\ c.data_count = count /\ c.data = q.data
    BY <1>1, <2>1, <2>2 DEF PanelState
  <2>4. QED
    BY <2>2, <2>3
<1> HIDE DEF c
<1>6. /\ PanelState(d)
      /\ d.report = [cmd   |-> p.cmd,
                     data  |-> [i \in 1..count |-> data[i - 1]],
                     named |-> [i \in 1..Printed[p.cmd] |-> data[i - 1]]]
  BY <1>5, ProcessCmdIs
<1> HIDE DEF d, e
<1>7. CASE count = p.data_length
  <2>1. e = [d EXCEPT !.state = "IDLE"]
    BY <1>4, <1>5, <1>7
  <2>2. PanelState(e) /\ e.state = "IDLE" /\ e.report = d.report
    BY <1>6, <2>1 DEF PanelState
  <2>3. QED
    BY <1>6, <1>7, <2>2 DEF DataKept, e, count, data
<1>8. CASE count # p.data_length
  <2>1. e = c
    BY <1>4, <1>5, <1>8
  <2>2. QED
    BY <1>5, <1>8, <2>1 DEF DataKept, e, count, data
<1>9. QED
  BY <1>7, <1>8

\* One field of the decoder's state.
LEMMA SetState ==
  ASSUME NEW p, PanelState(p), NEW x \in {"IDLE", "FLAG_BYTE", "CMD", "DATA"}
  PROVE  LET e == [p EXCEPT !.state = x]
         IN  /\ PanelState(e) /\ e.state = x
             /\ e.cmd = p.cmd /\ e.flag = p.flag /\ e.data_length = p.data_length
             /\ e.data_count = p.data_count /\ e.data = p.data /\ e.report = p.report
BY DEF PanelState

LEMMA SetCmd ==
  ASSUME NEW p, PanelState(p), NEW x \in Nat
  PROVE  LET e == [p EXCEPT !.cmd = x]
         IN  /\ PanelState(e) /\ e.cmd = x
             /\ e.state = p.state /\ e.flag = p.flag /\ e.data_length = p.data_length
             /\ e.data_count = p.data_count /\ e.data = p.data /\ e.report = p.report
BY DEF PanelState

LEMMA SetFlag ==
  ASSUME NEW p, PanelState(p), NEW x \in Nat
  PROVE  LET e == [p EXCEPT !.flag = x]
         IN  /\ PanelState(e) /\ e.flag = x
             /\ e.state = p.state /\ e.cmd = p.cmd /\ e.data_length = p.data_length
             /\ e.data_count = p.data_count /\ e.data = p.data /\ e.report = p.report
BY DEF PanelState

LEMMA SetLength ==
  ASSUME NEW p, PanelState(p), NEW x \in Nat
  PROVE  LET e == [p EXCEPT !.data_length = x]
         IN  /\ PanelState(e) /\ e.data_length = x
             /\ e.state = p.state /\ e.cmd = p.cmd /\ e.flag = p.flag
             /\ e.data_count = p.data_count /\ e.data = p.data /\ e.report = p.report
BY DEF PanelState

LEMMA SetCount ==
  ASSUME NEW p, PanelState(p), NEW x \in Nat
  PROVE  LET e == [p EXCEPT !.data_count = x]
         IN  /\ PanelState(e) /\ e.data_count = x
             /\ e.state = p.state /\ e.cmd = p.cmd /\ e.flag = p.flag
             /\ e.data_length = p.data_length /\ e.data = p.data /\ e.report = p.report
BY DEF PanelState

LEMMA SetReport ==
  ASSUME NEW p, PanelState(p), NEW x
  PROVE  LET e == [p EXCEPT !.report = x]
         IN  /\ PanelState(e) /\ e.report = x
             /\ e.state = p.state /\ e.cmd = p.cmd /\ e.flag = p.flag
             /\ e.data_length = p.data_length /\ e.data_count = p.data_count /\ e.data = p.data
BY DEF PanelState

\* The handler, state by state.
LEMMA IdleByte ==
  ASSUME NEW p, PanelState(p), NEW byte \in Nat, NEW is_start, p.state = "IDLE"
  PROVE  LET c == Panel(p, byte, is_start)
         IN  /\ is_start = 1 /\ byte = PanelAddress =>
                  PanelState(c) /\ c.state = "FLAG_BYTE"
             /\ is_start = 1 /\ byte = PanelAddress + 1 =>
                  /\ PanelState(c) /\ c.state = "DATA" /\ c.data_count = 0
                  /\ c.cmd = p.cmd /\ c.data_length = p.data_length
             /\ is_start # 1 \/ byte \notin {PanelAddress, PanelAddress + 1} => c = p
<1> DEFINE c == Panel(p, byte, is_start)
<1>1. c = IF is_start = 1 /\ byte - (byte % 2) = PanelAddress
          THEN IF byte % 2 = 1 THEN [p EXCEPT !.data_count = 0, !.state = "DATA"]
                               ELSE [p EXCEPT !.state = "FLAG_BYTE"]
          ELSE p
  BY DEF Panel, PanelIdle
<1>2. /\ byte - (byte % 2) = PanelAddress <=> byte \in {PanelAddress, PanelAddress + 1}
      /\ byte = PanelAddress => byte % 2 = 0
      /\ byte = PanelAddress + 1 => byte % 2 = 1
  BY PanelConstants
<1>3. [p EXCEPT !.data_count = 0, !.state = "DATA"] =
        [[p EXCEPT !.data_count = 0] EXCEPT !.state = "DATA"]
  OBVIOUS
<1> HIDE DEF c
<1>4. CASE is_start = 1 /\ byte = PanelAddress
  <2>1. c = [p EXCEPT !.state = "FLAG_BYTE"]
    BY <1>1, <1>2, <1>4
  <2>2. PanelState(c) /\ c.state = "FLAG_BYTE"
    BY <2>1, SetState
  <2>3. QED
    BY <1>4, <2>2, PanelConstants DEF c
<1>5. CASE is_start = 1 /\ byte = PanelAddress + 1
  <2> DEFINE d == [p EXCEPT !.data_count = 0]
  <2>1. c = [d EXCEPT !.state = "DATA"]
    BY <1>1, <1>2, <1>3, <1>5
  <2>2. PanelState(d) /\ d.data_count = 0 /\ d.cmd = p.cmd /\ d.data_length = p.data_length
    BY SetCount
  <2> HIDE DEF d
  <2>3. /\ PanelState(c) /\ c.state = "DATA" /\ c.data_count = d.data_count
        /\ c.cmd = d.cmd /\ c.data_length = d.data_length
    BY <2>1, <2>2, SetState
  <2>4. QED
    BY <1>5, <2>2, <2>3, PanelConstants DEF c
<1>6. CASE is_start # 1 \/ byte \notin {PanelAddress, PanelAddress + 1}
  BY <1>1, <1>2, <1>6 DEF c
<1>7. QED
  BY <1>4, <1>5, <1>6 DEF c

LEMMA FlagByte ==
  ASSUME NEW p, PanelState(p), NEW byte \in Nat, NEW is_start, p.state = "FLAG_BYTE"
  PROVE  LET c == Panel(p, byte, is_start)
         IN  PanelState(c) /\ c.state = "CMD" /\ c.flag = byte
<1> DEFINE c == Panel(p, byte, is_start)
           d == [p EXCEPT !.flag = byte]
<1>1. c = [p EXCEPT !.flag = byte, !.state = "CMD"]
  BY DEF Panel
<1>2. c = [d EXCEPT !.state = "CMD"]
  BY <1>1
<1>3. PanelState(d) /\ d.flag = byte
  BY SetFlag
<1> HIDE DEF c, d
<1>4. PanelState(c) /\ c.state = "CMD" /\ c.flag = d.flag
  BY <1>2, <1>3, SetState
<1>5. QED
  BY <1>3, <1>4 DEF c

LEMMA CmdByte ==
  ASSUME NEW p, PanelState(p), NEW byte \in Nat, NEW is_start, p.state = "CMD"
  PROVE  LET c == Panel(p, byte, is_start)
         IN  /\ PanelState(c) /\ c.cmd = byte /\ c.data_length = p.flag % FlagRead
             /\ p.flag < FlagRead => c.state = "DATA" /\ c.data_count = 0
             /\ ~(p.flag < FlagRead) => c.state = "IDLE"
<1> DEFINE c == Panel(p, byte, is_start)
           n == p.flag % FlagRead
           d == [p EXCEPT !.cmd = byte]
           e == [d EXCEPT !.data_length = n]
           f == [e EXCEPT !.data_count = 0]
<1>1. c = PanelCmd(p, byte)
  BY DEF Panel
<1>2. [p EXCEPT !.cmd = byte, !.data_length = n] = e
  OBVIOUS
<1>3. n \in Nat
  BY PanelConstants DEF PanelState
<1>4. PanelState(d) /\ d.cmd = byte
  BY SetCmd
<1> HIDE DEF n
<1>5. c = IF p.flag < FlagRead THEN [e EXCEPT !.data_count = 0, !.state = "DATA"]
                               ELSE [e EXCEPT !.state = "IDLE"]
  BY <1>1, <1>2 DEF PanelCmd, n
<1> HIDE DEF d
<1>6. PanelState(e) /\ e.cmd = byte /\ e.data_length = n
  BY <1>3, <1>4, SetLength
<1>7. [e EXCEPT !.data_count = 0, !.state = "DATA"] = [f EXCEPT !.state = "DATA"]
  OBVIOUS
<1> HIDE DEF e
<1>8. PanelState(f) /\ f.cmd = byte /\ f.data_length = n /\ f.data_count = 0
  BY <1>6, SetCount
<1> HIDE DEF c, f
<1>9. CASE p.flag < FlagRead
  <2>1. c = [f EXCEPT !.state = "DATA"]
    BY <1>5, <1>7, <1>9
  <2>2. /\ PanelState(c) /\ c.state = "DATA" /\ c.cmd = byte
        /\ c.data_length = n /\ c.data_count = 0
    BY <1>8, <2>1, SetState
  <2>3. QED
    BY <1>9, <2>2 DEF c, n
<1>10. CASE ~(p.flag < FlagRead)
  <2>1. c = [e EXCEPT !.state = "IDLE"]
    BY <1>5, <1>10
  <2>2. PanelState(c) /\ c.state = "IDLE" /\ c.cmd = byte /\ c.data_length = n
    BY <1>6, <2>1, SetState
  <2>3. QED
    BY <1>10, <2>2 DEF c, n
<1>11. QED
  BY <1>9, <1>10

LEMMA PanelTyped ==
  ASSUME NEW p, PanelState(p), NEW byte \in Nat, NEW is_start
  PROVE  PanelState(Panel(p, byte, is_start))
<1>1. p.state \in {"IDLE", "FLAG_BYTE", "CMD", "DATA"}
  BY DEF PanelState
<1>2. CASE p.state = "IDLE"
  BY <1>2, IdleByte
<1>3. CASE p.state = "FLAG_BYTE"
  BY <1>3, FlagByte
<1>4. CASE p.state = "CMD"
  BY <1>4, CmdByte
<1>5. CASE p.state = "DATA"
  <2>1. Panel(p, byte, is_start) = PanelData(p, byte)
    BY <1>5 DEF Panel
  <2> DEFINE at == IF p.data_count >= PanelRoom THEN 0 ELSE p.data_count
  <2>2. PanelState(PanelData(p, byte))
    BY PanelDataIs
  <2>3. QED
    BY <2>1, <2>2
<1>6. QED
  BY <1>1, <1>2, <1>3, <1>4, <1>5

LEMMA PartIs ==
  ASSUME NEW S, NEW w \in Seq(S), NEW first \in Nat, NEW m \in Nat, first + m <= Len(w)
  PROVE  SubSeq(w, first + 1, first + m) = [i \in 1..m |-> w[first + i]]
<1> DEFINE s == SubSeq(w, first + 1, first + m)
<1>1. /\ s \in Seq(S) /\ Len(s) = m
      /\ \A i \in 1..m : s[i] = w[first + i]
  <2>1. first + 1 \in 1..Len(w) + 1 /\ first + m \in (first + 1) - 1..Len(w)
    OBVIOUS
  <2>2. /\ s \in Seq(S) /\ Len(s) = m
        /\ \A i \in 1..m : s[i] = w[(first + 1) + i - 1]
    BY <2>1
  <2>3. \A i \in 1..m : (first + 1) + i - 1 = first + i
    OBVIOUS
  <2>4. QED
    BY <2>2, <2>3
<1> HIDE DEF s
<1>2. s = [i \in 1..m |-> s[i]]
  BY <1>1
<1>3. QED
  BY <1>1, <1>2 DEF s

\* A byte of the data of a command.
LEMMA DataByte ==
  ASSUME NEW p, PanelState(p), NEW w \in Seq(Byte), NEW n \in 1..FlagRead - 1,
         NEW k \in 0..n - 1, NEW first \in Nat, first + n <= Len(w), NEW cmd \in Byte,
         NEW is_start, DataAt(p, w, first, k, cmd, n)
  PROVE  DataAt(Panel(p, w[first + k + 1], is_start), w, first, k + 1, cmd, n)
<1> DEFINE byte == w[first + k + 1]
           data == [p.data EXCEPT ![k] = byte]
           e == PanelData(p, byte)
<1>1. /\ n \in Nat /\ k \in Nat /\ k < n /\ n < FlagRead /\ n <= PanelRoom - 1
      /\ k \in 0..PanelRoom - 1
  BY PanelConstants
<1>2. /\ p.state = "DATA" /\ p.cmd = cmd /\ p.data_length = n /\ p.data_count = k
      /\ \A i \in 1..k : p.data[i - 1] = w[first + i]
  BY <1>1 DEF DataAt
<1>3. byte \in Nat
  <2>1. first + k + 1 \in 1..Len(w)
    BY <1>1
  <2>2. w[first + k + 1] \in Byte
    BY <2>1
  <2>3. QED
    BY <2>2, PanelConstants
<1>4. p.data \in [0..PanelRoom - 1 -> Nat]
  BY DEF PanelState
<1>5. Panel(p, byte, is_start) = e
  BY <1>2 DEF Panel
<1>6. \A i \in 1..k + 1 : data[i - 1] = w[first + i]
  <2>1. SUFFICES ASSUME NEW i \in 1..k + 1 PROVE data[i - 1] = w[first + i]
    OBVIOUS
  <2>2. CASE i = k + 1
    <3>1. i - 1 = k /\ first + i = first + k + 1
      BY <1>1, <2>2
    <3>2. data[k] = byte
      BY <1>1, <1>4
    <3>3. QED
      BY <3>1, <3>2
  <2>3. CASE i # k + 1
    <3>1. i \in 1..k /\ i - 1 # k /\ i - 1 \in 0..PanelRoom - 1
      <4>1. i \in Nat /\ i >= 1 /\ i <= k /\ PanelRoom \in Nat /\ k <= PanelRoom - 1
        BY <1>1, <2>3, PanelConstants
      <4>2. QED
        BY <1>1, <4>1
    <3>2. data[i - 1] = p.data[i - 1]
      BY <1>4, <3>1
    <3>3. QED
      BY <1>2, <3>1, <3>2
  <2>4. QED
    BY <2>2, <2>3
<1>7. k = IF p.data_count >= PanelRoom THEN 0 ELSE p.data_count
  BY <1>1, <1>2, PanelConstants
<1> HIDE DEF byte, data, e
<1>8. /\ k + 1 # n =>
           /\ e.state = p.state /\ e.cmd = p.cmd /\ e.data_length = p.data_length
           /\ e.data_count = k + 1 /\ e.data = data
      /\ k + 1 = n =>
           /\ e.state = "IDLE" /\ e.report.cmd = p.cmd
           /\ e.report.data = [i \in 1..k + 1 |-> data[i - 1]]
           /\ e.report.named = [i \in 1..Printed[p.cmd] |-> data[i - 1]]
  <2>1. DataKept(p, e, k, byte)
    BY <1>3, <1>7, PanelDataIs DEF e
  <2>2. QED
    BY <1>2, <2>1 DEF DataKept, data
<1>9. CASE k + 1 # n
  BY <1>1, <1>2, <1>5, <1>6, <1>8, <1>9 DEF DataAt, byte
<1>10. CASE k + 1 = n
  <2>1. /\ e.state = "IDLE" /\ e.report.cmd = cmd
        /\ e.report.data = [i \in 1..n |-> data[i - 1]]
        /\ e.report.named = [i \in 1..Printed[cmd] |-> data[i - 1]]
    BY <1>2, <1>8, <1>10
  <2>2. ASSUME NEW m \in 0..n
        PROVE  [i \in 1..m |-> data[i - 1]] = SubSeq(w, first + 1, first + m)
    <3>1. SubSeq(w, first + 1, first + m) = [i \in 1..m |-> w[first + i]]
      BY <1>1, <2>2, PartIs
    <3>2. \A i \in 1..m : data[i - 1] = w[first + i]
      BY <1>1, <1>6, <1>10
    <3>3. QED
      BY <3>1, <3>2
  <2>3. Printed[cmd] \in Nat
    BY PanelConstants
  <2>4. Reported(e.report, w, first, cmd, n)
    <3>1. e.report.data = SubSeq(w, first + 1, first + n)
      BY <1>1, <2>1, <2>2
    <3>2. Printed[cmd] <= n => e.report.named = SubSeq(w, first + 1, first + Printed[cmd])
      <4>1. Printed[cmd] <= n => Printed[cmd] \in 0..n
        BY <1>1, <2>3
      <4>2. QED
        BY <2>1, <2>2, <4>1
    <3>3. QED
      BY <2>1, <3>1, <3>2 DEF Reported
  <2>5. QED
    BY <1>1, <1>5, <1>10, <2>1, <2>4 DEF DataAt, byte
<1>11. QED
  BY <1>9, <1>10

\* What a transaction is to the panel.
ForPanel(w)   == w[1] \in {PanelAddress, PanelAddress + 1}
WriteIn(w)    == w[1] = PanelAddress /\ Len(w) > 3 /\ Len(w) = 3 + w[2] /\ w[2] < FlagRead
RequestIn(w)  == w[1] = PanelAddress /\ Len(w) = 3 /\ w[2] >= FlagRead
ReadIn(w, a)  == w[1] = PanelAddress + 1 /\ a.length > 0 /\ Len(w) = 1 + a.length

\* The decoder is idle and remembers what it was asked for.
AskedOf(p, a) ==
  a.length > 0 => p.state = "IDLE" /\ p.cmd = a.cmd /\ p.data_length = a.length

WriteAt(p, w, m) ==
  /\ m = 0 => p.state = "IDLE"
  /\ m = 1 => p.state = "FLAG_BYTE"
  /\ m = 2 => p.state = "CMD" /\ p.flag = w[2]
  /\ m >= 3 => DataAt(p, w, 3, m - 3, w[3], w[2])
RequestAt(p, w, m) ==
  /\ m = 0 => p.state = "IDLE"
  /\ m = 1 => p.state = "FLAG_BYTE"
  /\ m = 2 => p.state = "CMD" /\ p.flag = w[2]
  /\ m = 3 => p.state = "IDLE" /\ p.cmd = w[3] /\ p.data_length = w[2] % FlagRead
ReadAt(p, w, m, a) ==
  /\ m = 0 => p.state = "IDLE" /\ p.cmd = a.cmd /\ p.data_length = a.length
  /\ m >= 1 => DataAt(p, w, 1, m - 1, a.cmd, a.length)

\* The decoder after m bytes of a transaction that it was idle before.
PanelFollows(p, w, m, a) ==
  /\ ~ForPanel(w) => p.state = "IDLE" /\ p.report = NoReport
  /\ WriteIn(w)   => WriteAt(p, w, m)
  /\ RequestIn(w) => RequestAt(p, w, m)
  /\ ReadIn(w, a) => ReadAt(p, w, m, a)

Request == [cmd : Int, length : 0..FlagRead - 1]

PanelInv ==
  /\ PanelState(panel)
  /\ asked \in Request /\ (asked.length > 0 => asked.cmd \in Byte)
  /\ decoder = "i2c" =>
       /\ txn # NoTxn /\ before.panel => PanelFollows(panel, txn.bytes, Len(told), asked)
       /\ txn = NoTxn \/ ~ForPanel(txn.bytes) \/ Len(told) = 0 => AskedOf(panel, asked)

\* A byte of a transaction, which the decoder was idle before.
LEMMA PanelByte ==
  ASSUME NEW p, PanelState(p), NEW w \in Seq(Byte), NEW m \in Nat, m < Len(w),
         NEW a \in Request, a.length > 0 => a.cmd \in Byte,
         PanelFollows(p, w, m, a)
  PROVE  PanelFollows(Panel(p, w[m + 1], Start1(m)), w, m + 1, a)
<1> DEFINE byte == w[m + 1]
           c == Panel(p, byte, Start1(m))
<1>1. byte \in Byte /\ byte \in Nat /\ Len(w) \in Nat /\ w[1] \in Nat
  <2>1. m + 1 \in 1..Len(w) /\ 1 \in 1..Len(w) /\ Len(w) \in Nat
    OBVIOUS
  <2>2. w[m + 1] \in Byte /\ w[1] \in Byte
    BY <2>1
  <2>3. QED
    BY <2>1, <2>2, PanelConstants
<1>2. m = 0 => byte = w[1] /\ Start1(m) = 1
  BY DEF Start1
<1>3. m # 0 => Start1(m) # 1
  BY DEF Start1
<1>4. PanelAddress \in Nat /\ PanelAddress + 1 # PanelAddress /\ FlagRead \in Nat
  BY PanelConstants
<1> HIDE DEF byte, c
<1>5. ~ForPanel(w) => c.state = "IDLE" /\ c.report = NoReport
  <2>1. SUFFICES ASSUME ~ForPanel(w) PROVE c.state = "IDLE" /\ c.report = NoReport
    OBVIOUS
  <2>2. p.state = "IDLE" /\ p.report = NoReport
    BY <2>1 DEF PanelFollows
  <2>3. Start1(m) # 1 \/ byte \notin {PanelAddress, PanelAddress + 1}
    BY <1>2, <1>3, <2>1 DEF ForPanel
  <2>4. c = p
    BY <1>1, <2>2, <2>3, IdleByte DEF c
  <2>5. QED
    BY <2>2, <2>4
\* The first two bytes of a write.
<1>6. ASSUME w[1] = PanelAddress,
             m = 0 => p.state = "IDLE", m = 1 => p.state = "FLAG_BYTE"
      PROVE  /\ m = 0 => c.state = "FLAG_BYTE"
             /\ m = 1 => c.state = "CMD" /\ c.flag = w[2]
  <2>1. ASSUME m = 0 PROVE c.state = "FLAG_BYTE"
    BY <1>1, <1>2, <1>6, <2>1, IdleByte DEF c
  <2>2. ASSUME m = 1 PROVE c.state = "CMD" /\ c.flag = w[2]
    <3>1. byte = w[2]
      BY <2>2 DEF byte
    <3>2. QED
      BY <1>1, <1>6, <2>2, <3>1, FlagByte DEF c
  <2>3. QED
    BY <2>1, <2>2
<1>7. ASSUME WriteIn(w) PROVE WriteAt(c, w, m + 1)
  <2>1. w[1] = PanelAddress /\ Len(w) > 3 /\ Len(w) = 3 + w[2] /\ w[2] < FlagRead
    BY <1>7 DEF WriteIn
  <2>2. WriteAt(p, w, m)
    BY <1>7 DEF PanelFollows
  <2>3. w[2] \in Byte /\ w[3] \in Byte /\ w[2] \in Nat
    <3>1. 2 \in 1..Len(w) /\ 3 \in 1..Len(w)
      BY <1>1, <2>1
    <3>2. w[2] \in Byte /\ w[3] \in Byte
      BY <3>1
    <3>3. QED
      BY <3>2, PanelConstants
  <2>4. w[2] \in 1..FlagRead - 1
    BY <1>1, <1>4, <2>1, <2>3
  <2>5. CASE m = 0
    <3>1. c.state = "FLAG_BYTE"
      BY <1>6, <2>1, <2>2, <2>5 DEF WriteAt
    <3>2. QED
      BY <2>5, <3>1 DEF WriteAt
  <2>6. CASE m = 1
    <3>1. c.state = "CMD" /\ c.flag = w[2]
      BY <1>6, <2>1, <2>2, <2>6 DEF WriteAt
    <3>2. QED
      BY <2>6, <3>1 DEF WriteAt
  <2>7. CASE m = 2
    <3>1. p.state = "CMD" /\ p.flag = w[2]
      BY <2>2, <2>7 DEF WriteAt
    <3>2. byte = w[3]
      BY <2>7 DEF byte
    <3>3. w[2] % FlagRead = w[2]
      BY <1>4, <2>4
    <3>4. c.cmd = w[3] /\ c.data_length = w[2] /\ c.state = "DATA" /\ c.data_count = 0
      BY <1>1, <2>1, <3>1, <3>2, <3>3, CmdByte DEF c
    <3>5. DataAt(c, w, 3, 0, w[3], w[2])
      BY <2>4, <3>4 DEF DataAt
    <3>6. m + 1 = 3 /\ 3 - 3 = 0
      BY <2>7
    <3>7. QED
      BY <3>5, <3>6 DEF WriteAt
  <2>8. CASE m >= 3
    <3>1. DataAt(p, w, 3, m - 3, w[3], w[2])
      BY <2>2, <2>8 DEF WriteAt
    <3>2. m - 3 \in 0..w[2] - 1 /\ 3 + (m - 3) + 1 = m + 1 /\ (m - 3) + 1 = (m + 1) - 3
      BY <1>1, <2>1, <2>3, <2>8
    <3>3. 3 + w[2] <= Len(w)
      BY <1>1, <2>1
    <3>4. c = Panel(p, w[3 + (m - 3) + 1], Start1(m))
      BY <3>2 DEF c, byte
    <3>5. DataAt(c, w, 3, (m - 3) + 1, w[3], w[2])
      BY <2>3, <2>4, <3>1, <3>2, <3>3, <3>4, DataByte
    <3>6. DataAt(c, w, 3, (m + 1) - 3, w[3], w[2])
      BY <3>2, <3>5
    <3>7. QED
      BY <2>8, <3>6 DEF WriteAt
  <2>9. QED
    BY <2>5, <2>6, <2>7, <2>8
<1>8. ASSUME RequestIn(w) PROVE RequestAt(c, w, m + 1)
  <2>1. w[1] = PanelAddress /\ Len(w) = 3 /\ w[2] >= FlagRead
    BY <1>8 DEF RequestIn
  <2>2. RequestAt(p, w, m)
    BY <1>8 DEF PanelFollows
  <2>3. w[2] \in Nat
    <3>1. 2 \in 1..Len(w)
      BY <2>1
    <3>2. w[2] \in Byte
      BY <3>1
    <3>3. QED
      BY <3>2, PanelConstants
  <2>4. CASE m = 0
    <3>1. c.state = "FLAG_BYTE"
      BY <1>6, <2>1, <2>2, <2>4 DEF RequestAt
    <3>2. QED
      BY <2>4, <3>1 DEF RequestAt
  <2>5. CASE m = 1
    <3>1. c.state = "CMD" /\ c.flag = w[2]
      BY <1>6, <2>1, <2>2, <2>5 DEF RequestAt
    <3>2. QED
      BY <2>5, <3>1 DEF RequestAt
  <2>6. CASE m = 2
    <3>1. p.state = "CMD" /\ p.flag = w[2]
      BY <2>2, <2>6 DEF RequestAt
    <3>2. byte = w[3]
      BY <2>6 DEF byte
    <3>3. ~(p.flag < FlagRead)
      BY <1>4, <2>1, <2>3, <3>1
    <3>4. c.cmd = w[3] /\ c.data_length = w[2] % FlagRead /\ c.state = "IDLE"
      BY <1>1, <3>1, <3>2, <3>3, CmdByte DEF c
    <3>5. QED
      BY <2>6, <3>4 DEF RequestAt
  <2>7. m = 0 \/ m = 1 \/ m = 2
    BY <2>1
  <2>8. QED
    BY <2>4, <2>5, <2>6, <2>7
<1>9. ASSUME ReadIn(w, a) PROVE ReadAt(c, w, m + 1, a)
  <2>1. w[1] = PanelAddress + 1 /\ a.length > 0 /\ Len(w) = 1 + a.length
    BY <1>9 DEF ReadIn
  <2>2. ReadAt(p, w, m, a)
    BY <1>9 DEF PanelFollows
  <2>3. a.length \in 1..FlagRead - 1 /\ a.cmd \in Byte /\ a.length \in Nat
    <3>1. a.length \in 0..FlagRead - 1
      BY DEF Request
    <3>2. QED
      BY <1>4, <2>1, <3>1
  <2>4. CASE m = 0
    <3>1. p.state = "IDLE" /\ p.cmd = a.cmd /\ p.data_length = a.length
      BY <2>2, <2>4 DEF ReadAt
    <3>2. /\ c.state = "DATA" /\ c.data_count = 0
          /\ c.cmd = a.cmd /\ c.data_length = a.length
      BY <1>1, <1>2, <2>1, <2>4, <3>1, IdleByte DEF c
    <3>3. DataAt(c, w, 1, 0, a.cmd, a.length)
      BY <2>3, <3>2 DEF DataAt
    <3>4. m + 1 = 1 /\ 1 - 1 = 0
      BY <2>4
    <3>5. QED
      BY <3>3, <3>4 DEF ReadAt
  <2>5. CASE m >= 1
    <3>1. DataAt(p, w, 1, m - 1, a.cmd, a.length)
      BY <2>2, <2>5 DEF ReadAt
    <3>2. m - 1 \in 0..a.length - 1 /\ 1 + (m - 1) + 1 = m + 1 /\ (m - 1) + 1 = (m + 1) - 1
      BY <1>1, <2>1, <2>3, <2>5
    <3>3. 1 + a.length <= Len(w)
      BY <1>1, <2>1
    <3>4. c = Panel(p, w[1 + (m - 1) + 1], Start1(m))
      BY <3>2 DEF c, byte
    <3>5. DataAt(c, w, 1, (m - 1) + 1, a.cmd, a.length)
      BY <2>3, <3>1, <3>2, <3>3, <3>4, DataByte
    <3>6. DataAt(c, w, 1, (m + 1) - 1, a.cmd, a.length)
      BY <3>2, <3>5
    <3>7. QED
      BY <2>5, <3>6 DEF ReadAt
  <2>6. QED
    BY <2>4, <2>5
<1>10. PanelFollows(c, w, m + 1, a)
  BY <1>5, <1>7, <1>8, <1>9 DEF PanelFollows
<1>11. QED
  BY <1>10 DEF c, byte

LEMMA PanelInit == Init => PanelInv
<1>1. SUFFICES ASSUME panel = PanelCreated, asked = NoRequest, txn = NoTxn PROVE PanelInv
  BY DEF Init
<1>2. PanelState(panel)
  <2> DEFINE data == [i \in 0..PanelRoom - 1 |-> 0]
  <2>1. data \in [0..PanelRoom - 1 -> Nat]
    OBVIOUS
  <2> HIDE DEF data
  <2>2. panel = [state |-> "IDLE", cmd |-> 0, flag |-> 0, data_length |-> 0, data_count |-> 0,
                 data |-> data, spi |-> SpiCreated, report |-> NoReport]
    BY <1>1 DEF PanelCreated, data
  <2>3. QED
    BY <2>1, <2>2 DEF PanelState
<1>3. asked \in Request /\ asked.length = 0
  BY <1>1, PanelConstants DEF NoRequest, Request
<1>4. QED
  BY <1>1, <1>2, <1>3 DEF PanelInv, AskedOf

\* What the panel is asked for, when a transaction is over.
LEMMA PanelOver ==
  ASSUME PanelInv, Finished
  PROVE  /\ asked' \in Request /\ (asked'.length > 0 => asked'.cmd \in Byte)
         /\ decoder = "i2c" => AskedOf(panel, asked')
<1>1. /\ asked \in Request /\ (asked.length > 0 => asked.cmd \in Byte)
      /\ decoder = "i2c" =>
           /\ txn # NoTxn /\ before.panel => PanelFollows(panel, txn.bytes, Len(told), asked)
           /\ txn = NoTxn \/ ~ForPanel(txn.bytes) \/ Len(told) = 0 => AskedOf(panel, asked)
  BY DEF PanelInv
<1>2. CASE txn = NoTxn /\ UNCHANGED <<asked, label>>
  BY <1>1, <1>2
<1>3. CASE HeardOf(Len(txn.bytes)) /\ Over
  <2> DEFINE w == txn.bytes
             asks == before.panel /\ IsWrite /\ Len(w) = 3 /\ w[2] >= FlagRead
  <2>1. /\ txn # NoTxn /\ w \in Seq(Byte) /\ Len(w) \in Nat \ {0} /\ Len(told) = Len(w)
    BY <1>3 DEF HeardOf, OnBus
  <2>2. Head(w) = w[1]
    BY <2>1
  <2>3. asked' = IF ~ForPanel(w) THEN asked
                 ELSE IF asks THEN [cmd |-> w[3], length |-> w[2] % FlagRead]
                 ELSE NoRequest
    BY <1>3, <2>2 DEF Over, ToPanelNow, ForPanel
  <2> HIDE DEF asks
  <2>4. CASE ~ForPanel(w)
    BY <1>1, <2>3, <2>4
  <2>5. CASE ForPanel(w) /\ ~asks
    <3>1. asked' = NoRequest
      BY <2>3, <2>5
    <3>2. asked' \in Request /\ asked'.length = 0
      BY <3>1, PanelConstants DEF NoRequest, Request
    <3>3. QED
      BY <3>2 DEF AskedOf
  <2>6. CASE ForPanel(w) /\ asks
    <3>1. asked' = [cmd |-> w[3], length |-> w[2] % FlagRead]
      BY <2>3, <2>6
    <3>2. /\ before.panel /\ w[1] % 2 = 0 /\ Len(w) = 3 /\ w[2] >= FlagRead
      BY <2>2, <2>6 DEF asks, IsWrite
    <3>3. w[1] \in Byte /\ w[2] \in Byte /\ w[3] \in Byte
      <4>1. 1 \in 1..Len(w) /\ 2 \in 1..Len(w) /\ 3 \in 1..Len(w)
        BY <3>2
      <4>2. QED
        BY <2>1, <4>1
    <3>4. w[1] \in Nat /\ w[2] \in Nat /\ w[3] \in Nat
      BY <3>3, PanelConstants
    <3>5. w[1] = PanelAddress
      BY <2>6, <3>2, <3>4, PanelConstants DEF ForPanel
    <3>6. RequestIn(w)
      BY <3>2, <3>5 DEF RequestIn
    <3>7. w[2] % FlagRead \in 0..FlagRead - 1
      BY <3>4, PanelConstants
    <3>8. asked' \in Request /\ asked'.cmd \in Byte
      BY <3>1, <3>3, <3>4, <3>7 DEF Request
    <3>9. ASSUME decoder = "i2c" PROVE AskedOf(panel, asked')
      <4>1. RequestAt(panel, w, 3)
        BY <1>1, <2>1, <3>2, <3>6, <3>9 DEF PanelFollows
      <4>2. panel.state = "IDLE" /\ panel.cmd = w[3] /\ panel.data_length = w[2] % FlagRead
        BY <4>1 DEF RequestAt
      <4>3. QED
        BY <3>1, <4>2 DEF AskedOf
    <3>10. QED
      BY <3>8, <3>9
  <2>7. QED
    BY <2>4, <2>5, <2>6
<1>4. QED
  BY <1>2, <1>3 DEF Finished

LEMMA PanelNext == BusInv /\ PanelInv /\ [Next]_vars => PanelInv'
<1>1. SUFFICES ASSUME BusInv, PanelInv, [Next]_vars PROVE PanelInv'
  OBVIOUS
<1>2. /\ PanelState(panel)
      /\ asked \in Request /\ (asked.length > 0 => asked.cmd \in Byte)
      /\ decoder = "i2c" =>
           /\ txn # NoTxn /\ before.panel => PanelFollows(panel, txn.bytes, Len(told), asked)
           /\ txn = NoTxn \/ ~ForPanel(txn.bytes) \/ Len(told) = 0 => AskedOf(panel, asked)
  BY <1>1 DEF PanelInv
<1>3. CASE Unheard
  BY <1>2, <1>3 DEF Unheard, PanelInv
<1>4. CASE Spurious
  BY <1>2, <1>4 DEF Spurious, PanelInv
<1>5. CASE Ends
  <2>1. /\ txn' = NoTxn /\ decoder' = decoder /\ panel' = panel /\ Finished
    BY <1>5 DEF Ends, Finished
  <2>2. /\ asked' \in Request /\ (asked'.length > 0 => asked'.cmd \in Byte)
        /\ decoder = "i2c" => AskedOf(panel, asked')
    BY <1>1, <2>1, PanelOver
  <2>3. QED
    BY <1>2, <2>1, <2>2 DEF PanelInv
<1>6. CASE Begins
  <2>1. /\ told' = <<>> /\ txn' # NoTxn /\ decoder' = decoder /\ Finished
        /\ before'.panel <=> panel.state = "IDLE"
        /\ panel' = [panel EXCEPT !.report = NoReport]
    BY <1>6 DEF Begins
  <2>2. /\ asked' \in Request /\ (asked'.length > 0 => asked'.cmd \in Byte)
        /\ decoder = "i2c" => AskedOf(panel, asked')
    BY <1>1, <2>1, PanelOver
  <2>3. /\ PanelState(panel') /\ panel'.report = NoReport
        /\ panel'.state = panel.state /\ panel'.cmd = panel.cmd
        /\ panel'.data_length = panel.data_length
    BY <1>2, <2>1, SetReport
  <2>4. Len(told') = 0
    BY <2>1
  <2>5. decoder = "i2c" => AskedOf(panel', asked')
    BY <2>2, <2>3 DEF AskedOf
  <2>6. decoder = "i2c" /\ panel.state = "IDLE" => PanelFollows(panel', txn'.bytes, 0, asked')
    <3>1. SUFFICES ASSUME decoder = "i2c", panel.state = "IDLE"
                   PROVE  PanelFollows(panel', txn'.bytes, 0, asked')
      OBVIOUS
    <3>2. panel'.state = "IDLE"
      BY <2>3, <3>1
    <3>3. WriteAt(panel', txn'.bytes, 0) /\ RequestAt(panel', txn'.bytes, 0)
      BY <3>2 DEF WriteAt, RequestAt
    <3>4. ReadIn(txn'.bytes, asked') => ReadAt(panel', txn'.bytes, 0, asked')
      BY <2>5, <3>1 DEF ReadIn, ReadAt, AskedOf
    <3>5. QED
      BY <2>3, <3>2, <3>3, <3>4 DEF PanelFollows
  <2>7. QED
    BY <2>1, <2>2, <2>3, <2>4, <2>5, <2>6 DEF PanelInv
<1>7. CASE Given
  <2> DEFINE w == txn.bytes
             m == Len(told)
             c == Panel(panel, w[m + 1], Start1(m))
  <2>1. /\ HeardOf(m) /\ m < Len(w) /\ Len(told') = m + 1
        /\ UNCHANGED <<decoder, txn, before, asked>>
        /\ panel' = IF decoder = "i2c" THEN c ELSE panel
    BY <1>7 DEF Given
  <2>2. txn # NoTxn /\ w \in Seq(Byte) /\ m \in Nat /\ Len(w) \in Nat
    BY <2>1 DEF HeardOf, OnBus
  <2>3. w[m + 1] \in Nat /\ w[1] \in Nat
    <3>1. m + 1 \in 1..Len(w) /\ 1 \in 1..Len(w)
      BY <2>1, <2>2
    <3>2. w[m + 1] \in Byte /\ w[1] \in Byte
      BY <2>2, <3>1
    <3>3. QED
      BY <3>2, PanelConstants
  <2> HIDE DEF w, m, c
  <2>4. CASE decoder # "i2c"
    BY <1>2, <2>1, <2>4 DEF PanelInv
  <2>5. CASE decoder = "i2c"
    <3>1. panel' = c /\ PanelState(c)
      BY <1>2, <2>1, <2>3, <2>5, PanelTyped DEF c
    <3>2. before.panel => PanelFollows(c, w, m + 1, asked)
      BY <1>2, <2>1, <2>2, <2>5, PanelByte DEF w, m, c
    <3>3. ~ForPanel(w) => AskedOf(c, asked)
      <4>1. SUFFICES ASSUME ~ForPanel(w), asked.length > 0 PROVE AskedOf(c, asked)
        BY DEF AskedOf
      <4>2. AskedOf(panel, asked)
        BY <1>2, <2>5, <4>1 DEF w
      <4>3. panel.state = "IDLE"
        BY <4>1, <4>2 DEF AskedOf
      <4>4. Start1(m) # 1 \/ w[m + 1] \notin {PanelAddress, PanelAddress + 1}
        <5>1. CASE m = 0
          BY <4>1, <5>1 DEF ForPanel
        <5>2. CASE m # 0
          BY <5>2 DEF Start1
        <5>3. QED
          BY <5>1, <5>2
      <4>5. c = panel
        BY <1>2, <2>3, <4>3, <4>4, IdleByte DEF c
      <4>6. QED
        BY <4>2, <4>5
    <3>4. /\ txn' # NoTxn /\ txn'.bytes = w /\ Len(told') = m + 1 /\ m + 1 # 0
          /\ before' = before /\ asked' = asked
      BY <2>1, <2>2 DEF w
    <3>5. PanelState(panel')
      BY <3>1
    <3>6. before'.panel => PanelFollows(panel', txn'.bytes, Len(told'), asked')
      BY <3>1, <3>2, <3>4
    <3>7. ~ForPanel(txn'.bytes) => AskedOf(panel', asked')
      BY <3>1, <3>3, <3>4
    <3>8. QED
      BY <1>2, <3>4, <3>5, <3>6, <3>7 DEF PanelInv
  <2>6. QED
    BY <2>4, <2>5
<1>8. QED
  BY <1>1, <1>3, <1>4, <1>5, <1>6, <1>7, Kinds

\* What is printed of a whole command.
LEMMA PrintedOf ==
  ASSUME NEW p, NEW w \in Seq(Byte), NEW first \in Nat, NEW n \in 1..FlagRead - 1,
         NEW cmd \in Byte, Len(w) = first + n, txn.bytes = w, panel = p,
         DataAt(p, w, first, n, cmd, n)
  PROVE  PanelPrints(cmd, Sent(first + 1, n))
<1>1. n \in Nat /\ Printed[cmd] \in Nat
  BY PanelConstants
<1>2. p.state = "IDLE" /\ Reported(p.report, w, first, cmd, n)
  BY <1>1 DEF DataAt
<1>3. Sent(first + 1, n) = SubSeq(w, first + 1, first + n)
  <2>1. (first + 1) + n - 1 = first + n
    BY <1>1
  <2>2. QED
    BY <2>1 DEF Sent
<1>4. Len(SubSeq(w, first + 1, first + n)) = n
  <2> DEFINE s == [i \in 1..n |-> w[first + i]]
  <2>1. SubSeq(w, first + 1, first + n) = s
    BY <1>1, PartIs
  <2>2. Len(s) = n
    BY <1>1
  <2>3. QED
    BY <2>1, <2>2
<1>5. Printed[cmd] <= n =>
        p.report.named = Sent(Len(txn.bytes) - n + 1, Printed[cmd])
  <2>1. Len(txn.bytes) - n + 1 = first + 1 /\ (first + 1) + Printed[cmd] - 1 = first + Printed[cmd]
    BY <1>1
  <2>2. QED
    BY <1>2, <2>1 DEF Sent, Reported
<1>6. QED
  BY <1>2, <1>3, <1>4, <1>5 DEF PanelPrints, Reported

\* The panel's decoder prints a command with the data that were written with it, or
\* read for it in a later transaction, and nothing of what goes to another device
\* (panel_i2c and process_cmd, panel_i2c.c).
THEOREM PanelPrintsCommandsAlways == Spec => []PanelPrintsCommands
<1>1. BusInv /\ PanelInv => PanelPrintsCommands
  <2>1. SUFFICES ASSUME BusInv, PanelInv, decoder = "i2c", Clocked, before.panel
                 PROVE  /\ WritesCommand => PanelPrints(txn.bytes[3], Sent(4, txn.bytes[2]))
                        /\ ReadsCommand  => PanelPrints(asked.cmd, Sent(2, asked.length))
                        /\ ~ToPanelNow   => panel.state = "IDLE" /\ panel.report = NoReport
    BY DEF PanelPrintsCommands
  <2> DEFINE w == txn.bytes
  <2>2. HeardOf(Len(w))
    BY <2>1, AllHeard
  <2>3. /\ txn # NoTxn /\ w \in Seq(Byte) /\ Len(w) \in Nat \ {0} /\ Len(told) = Len(w)
    BY <2>2 DEF HeardOf, OnBus
  <2>4. Head(w) = w[1]
    BY <2>3
  <2>5. PanelFollows(panel, w, Len(w), asked) /\ asked \in Request
        /\ (asked.length > 0 => asked.cmd \in Byte)
    BY <2>1, <2>3 DEF PanelInv
  <2>6. ASSUME WritesCommand PROVE PanelPrints(w[3], Sent(4, w[2]))
    <3>1. WriteIn(w)
      BY <2>4, <2>6 DEF WritesCommand, WriteIn
    <3> HIDE DEF w
    <3>2. Len(w) > 3 /\ Len(w) = 3 + w[2] /\ w[2] < FlagRead
      BY <3>1 DEF WriteIn
    <3>3. w[2] \in Byte /\ w[3] \in Byte /\ w[2] \in Nat
      <4>1. 2 \in 1..Len(w) /\ 3 \in 1..Len(w)
        BY <2>3, <3>2
      <4>2. w[2] \in Byte /\ w[3] \in Byte
        BY <2>3, <4>1
      <4>3. QED
        BY <4>2, PanelConstants
    <3>4. w[2] \in 1..FlagRead - 1
      BY <3>2, <3>3, PanelConstants
    <3>5. Len(w) >= 3 /\ Len(w) - 3 = w[2]
      BY <3>2, <3>3
    <3>6. DataAt(panel, w, 3, w[2], w[3], w[2])
      BY <2>5, <3>1, <3>5 DEF PanelFollows, WriteAt
    <3>7. PanelPrints(w[3], Sent(3 + 1, w[2]))
      BY <2>3, <3>2, <3>3, <3>4, <3>6, PrintedOf DEF w
    <3>8. QED
      BY <3>7
  <2>7. ASSUME ReadsCommand PROVE PanelPrints(asked.cmd, Sent(2, asked.length))
    <3>1. ReadIn(w, asked)
      BY <2>4, <2>7 DEF ReadsCommand, ReadIn
    <3> HIDE DEF w
    <3>2. asked.length > 0 /\ Len(w) = 1 + asked.length
      BY <3>1 DEF ReadIn
    <3>3. asked.length \in 1..FlagRead - 1 /\ asked.cmd \in Byte /\ asked.length \in Nat
      <4>1. asked.length \in 0..FlagRead - 1
        BY <2>5 DEF Request
      <4>2. QED
        BY <2>5, <3>2, <4>1, PanelConstants
    <3>4. Len(w) >= 1 /\ Len(w) - 1 = asked.length
      BY <3>2, <3>3
    <3>5. DataAt(panel, w, 1, asked.length, asked.cmd, asked.length)
      BY <2>5, <3>1, <3>4 DEF PanelFollows, ReadAt
    <3>6. PanelPrints(asked.cmd, Sent(1 + 1, asked.length))
      BY <2>3, <3>2, <3>3, <3>5, PrintedOf DEF w
    <3>7. QED
      BY <3>6
  <2>8. ~ToPanelNow => panel.state = "IDLE" /\ panel.report = NoReport
    BY <2>4, <2>5 DEF PanelFollows, ToPanelNow, ForPanel
  <2>9. QED
    BY <2>6, <2>7, <2>8
<1>2. Init => BusInv /\ PanelInv
  BY BusInit, PanelInit
<1>3. BusInv /\ PanelInv /\ [Next]_vars => (BusInv /\ PanelInv)'
  BY BusNext, PanelNext
<1>4. QED
  BY <1>1, <1>2, <1>3, PTL DEF Spec
=============================================================================
