-------------------------- MODULE ParseSaleae_proofs --------------------------
(***************************************************************************)
(* The registry of parsers and the accelerometer's decoder, proved for     *)
(* every set of parsers, every order of registration, every header of the  *)
(* capture, and register maps and values of any size.                      *)
(*                                                                         *)
(* While the list is walked, what the walk has settled is settled for the  *)
(* parsers visited so far; the parser that lis3dh appends is always the    *)
(* last one.  During a frame the shadow registers lag behind the chip by   *)
(* the packet of the frame, until that last parser has had its turn.       *)
(***************************************************************************)
EXTENDS ParseSaleae, FiniteSetTheorems, TLAPS

\* The walk that connects has passed the parser, or is over.
Visited(p) == phase = "connect" => \E i \in 1..at - 1 : parsers[i] = p

\* LR1110 has had its post_connect, if it is there.
Redirected ==
  \/ phase \in {"frames", "exited"}
  \/ phase = "post_connect" /\ \E i \in 1..at - 1 : parsers[i] = "lr1110"

ListOK ==
  /\ parsers \in Seq(Names)
  /\ phase \in {"connect", "post_connect", "frames", "exited"}
  /\ at \in 0..Len(parsers)
  /\ phase \in {"connect", "post_connect"} => at # 0
  /\ found \subseteq Registered
  /\ enabled \subseteq Names
  /\ log_file \in [Names -> Names \cup {"null"}]
  /\ sample_time \in Nat

\* Every parser is in the list once; the I2C parser is there as soon as lis3dh is
\* connected, at the end.
OnceEach == \A i, j \in 1..Len(parsers) : parsers[i] = parsers[j] => i = j
AllThere == \A p \in Registered : \E i \in 1..Len(parsers) : parsers[i] = p
I2cAppended ==
  (\E i \in 1..Len(parsers) : parsers[i] = "i2c_parser")
    <=> ("lis3dh" \in found /\ Visited("lis3dh"))
I2cLast == \A i \in 1..Len(parsers) : parsers[i] = "i2c_parser" => i = Len(parsers)

OrderOK == OnceEach /\ AllThere /\ I2cAppended /\ I2cLast

OwnerOf(p) == IF p = "i2c_parser" THEN "lis3dh" ELSE p

EnabledOK == enabled = {p \in Chosen : Visited(OwnerOf(p))}

LogOK ==
  \A p \in enabled :
    log_file[p] = IF Redirected /\ "lr1110" \in enabled /\ p \in Grabbed
                  THEN "lr1110" ELSE OwnerOf(p)

TimeOK ==
  /\ \A p \in found : Visited(p) /\ SampleTime[p] # 0 =>
       sample_time # 0 /\ sample_time <= SampleTime[p]
  /\ sample_time # 0 => \E p \in found : Visited(p) /\ SampleTime[p] = sample_time

ListInv == ListOK /\ OrderOK /\ EnabledOK /\ LogOK /\ TimeOK

\* What the packet of the frame will do to the shadow registers, to the register the
\* decoder is at, and what should be printed of it.
Pending ==
  LET p == news.packet
  IN  /\ ~p.mine => chip = shadows /\ (point # -1 => reg = point)
      /\ p.mine /\ p.read =>
           chip = shadows /\ point = -1 /\ news.truth = Labelled(Number(reg), p.bytes)
      /\ p.mine /\ ~p.read =>
           /\ p.bytes # <<>>
           /\ chip = ShadowsAfter(Number(Head(p.bytes)), Tail(p.bytes))
           /\ point # -1 => point = Head(p.bytes)
           /\ news.truth = IF Tail(p.bytes) = <<>>
                           THEN <<[reg |-> Number(Head(p.bytes)), val |-> -1]>>
                           ELSE Labelled(Number(Head(p.bytes)), Tail(p.bytes))

Settled ==
  /\ chip = shadows
  /\ point # -1 => reg = point
  /\ lines # <<>> => lines = news.truth

Typed ==
  /\ news.packet.mine \in BOOLEAN /\ news.packet.read \in BOOLEAN
  /\ shadows = [r \in Regs |-> shadows[r]]

\* lis3dh has looked at the lines in this frame.
LooksFirst ==
  \A i \in 1..Len(parsers) : parsers[i] = "lis3dh" /\ i < at => seen = news

BusInv ==
  "lis3dh" \in found =>
    IF phase = "frames"
    THEN Typed /\ (IF at = 0 THEN Settled ELSE Pending /\ LooksFirst)
    ELSE chip = shadows /\ point = -1 /\ lines = <<>> /\ Typed

IInv == ListInv /\ BusInv

-----------------------------------------------------------------------------
(* The order of registration.                                              *)

LEMMA NamesDiffer == "i2c_parser" \notin Registered
BY RegisteredAssumption

\* An arrangement of the parsers has each of them.
LEMMA ArrangementHasAll ==
  ASSUME NEW s \in [1..Cardinality(Registered) -> Registered],
         \A i, j \in DOMAIN s : s[i] = s[j] => i = j
  PROVE  /\ s \in Seq(Names)
         /\ Len(s) = Cardinality(Registered) /\ Len(s) \in Nat \ {0}
         /\ \A p \in Registered : \E i \in 1..Len(s) : s[i] = p
<1> DEFINE n == Cardinality(Registered)
<1>1. n \in Nat /\ n # 0
  BY RegisteredAssumption, FS_CardinalityType, FS_EmptySet
<1>2. s \in Injection(1..n, Registered)
  BY DEF Injection, IsInjective
<1>3. IsFiniteSet(1..n) /\ Cardinality(1..n) = n
  BY <1>1, FS_Interval
<1>4. s \in Surjection(1..n, Registered)
  BY <1>2, <1>3, FS_Injection, RegisteredAssumption
<1>5. s \in Seq(Names) /\ Len(s) = n
  BY <1>1 DEF Names
<1>6. \A p \in Registered : \E i \in 1..n : s[i] = p
  BY <1>4 DEF Surjection
<1> QED BY <1>1, <1>5, <1>6

LEMMA ListInitially == Init => ListInv
<1> SUFFICES ASSUME Init PROVE ListInv
  OBVIOUS
<1>1. /\ parsers \in [1..Cardinality(Registered) -> Registered]
      /\ \A i, j \in DOMAIN parsers : parsers[i] = parsers[j] => i = j
  BY DEF Init, ListInit
<1>2. /\ parsers \in Seq(Names)
      /\ Len(parsers) = Cardinality(Registered) /\ Len(parsers) \in Nat \ {0}
      /\ \A p \in Registered : \E i \in 1..Len(parsers) : parsers[i] = p
  BY <1>1, ArrangementHasAll
<1>3. /\ at = 1 /\ phase = "connect" /\ found \in SUBSET Registered /\ enabled = {}
      /\ log_file = [p \in Names |-> "null"] /\ sample_time = 0
  BY DEF Init, ListInit
<1>4. \A p : ~Visited(p)
  BY <1>3 DEF Visited
<1>5. ListOK
  BY <1>2, <1>3 DEF ListOK
<1>6. OnceEach
  BY <1>1, <1>2 DEF OnceEach
<1>7. \A i \in 1..Len(parsers) : parsers[i] # "i2c_parser"
  BY <1>1, <1>2, NamesDiffer
<1>8. OrderOK
  BY <1>2, <1>4, <1>6, <1>7 DEF OrderOK, AllThere, I2cAppended, I2cLast
<1>9. EnabledOK /\ LogOK /\ TimeOK
  BY <1>3, <1>4 DEF EnabledOK, LogOK, TimeOK
<1> QED BY <1>5, <1>8, <1>9 DEF ListInv

-----------------------------------------------------------------------------
(* A turn of the walk that connects.                                       *)

\* The parser whose turn it is.
LEMMA TurnOf ==
  ASSUME ListInv, Connect
  PROVE  /\ at \in 1..Len(parsers) /\ parsers[at] \in Names
         /\ phase = "connect"
         /\ parsers[at] = "i2c_parser" => at = Len(parsers)
BY DEF ListInv, ListOK, OrderOK, I2cLast, Connect

\* After its turn, a parser of the list has been visited if it had been before, or
\* if the turn was its own; LR1110 has not had its post_connect yet.
LEMMA VisitedAfter ==
  ASSUME ListInv, phase = "connect", NEW list \in Seq(Names),
         Len(list) >= Len(parsers),
         \A i \in 1..Len(parsers) : list[i] = parsers[i],
         parsers' = list, Advance(list, "post_connect")
  PROVE  /\ \A i \in 1..Len(parsers) :
              Visited(parsers[i])' <=> Visited(parsers[i]) \/ i = at
         /\ ~Redirected /\ ~Redirected'
         /\ phase' \in {"connect", "post_connect"} /\ at' \in 1..Len(list)
         /\ phase' = "post_connect" => Len(list) = Len(parsers) /\ at = Len(parsers)
<1>1. at \in 1..Len(parsers) /\ OnceEach /\ parsers \in Seq(Names)
  BY DEF ListInv, ListOK, OrderOK
<1>2. CASE at < Len(list)
  <2>1. at' = at + 1 /\ phase' = "connect"
    BY <1>2 DEF Advance
  <2>2. ASSUME NEW i \in 1..Len(parsers)
        PROVE  Visited(parsers[i])' <=> Visited(parsers[i]) \/ i = at
    <3>1. Visited(parsers[i]) <=> \E k \in 1..at - 1 : parsers[k] = parsers[i]
      BY DEF Visited
    <3>2. Visited(parsers[i])' <=> \E k \in 1..at : list[k] = list[i]
      BY <1>1, <2>1 DEF Visited
    <3> QED BY <1>1, <3>1, <3>2 DEF OnceEach
  <2> QED BY <1>1, <1>2, <2>1, <2>2 DEF Redirected
<1>3. CASE ~(at < Len(list))
  <2>1. at' = 1 /\ phase' = "post_connect" /\ Len(list) = Len(parsers) /\ at = Len(parsers)
    BY <1>1, <1>3 DEF Advance
  <2>2. ASSUME NEW i \in 1..Len(parsers)
        PROVE  Visited(parsers[i]) \/ i = at
    BY <1>1, <2>1 DEF Visited
  <2> QED BY <1>1, <2>1, <2>2 DEF Redirected, Visited
<1> QED BY <1>2, <1>3

\* The same, for a parser with a constructor.
LEMMA RegisteredVisited ==
  ASSUME ListInv, phase = "connect", NEW list \in Seq(Names),
         Len(list) >= Len(parsers),
         \A i \in 1..Len(parsers) : list[i] = parsers[i],
         parsers' = list, Advance(list, "post_connect"), NEW p \in Registered
  PROVE  Visited(p)' <=> Visited(p) \/ p = parsers[at]
<1>1. PICK i \in 1..Len(parsers) : parsers[i] = p
  BY DEF ListInv, OrderOK, AllThere
<1>2. list[i] = p
  BY <1>1
<1>3. Visited(parsers[i])' <=> Visited(parsers[i]) \/ i = at
  BY VisitedAfter
<1>4. Visited(parsers[i])' <=> Visited(p)'
  BY <1>1, <1>2 DEF Visited
<1>5. Visited(parsers[i]) <=> Visited(p)
  BY <1>1
<1>6. i = at <=> p = parsers[at]
  BY <1>1 DEF ListInv, ListOK, OrderOK, OnceEach
<1> QED BY <1>3, <1>4, <1>5, <1>6

\* The walk comes past the appended parser, which has nothing to connect.
LEMMA UnwiredStep ==
  ASSUME ListInv, Connect, ConnectUnwired
  PROVE  ListInv'
<1> USE DEF ListInv
<1>1. /\ parsers[at] = "i2c_parser" /\ enabled' = enabled \cup {"i2c_parser"}
      /\ Advance(parsers, "post_connect")
      /\ UNCHANGED <<parsers, found, log_file, sample_time>>
  BY DEF ConnectUnwired
<1>2. at \in 1..Len(parsers) /\ phase = "connect" /\ at = Len(parsers) /\ parsers \in Seq(Names)
  BY <1>1, TurnOf DEF ListOK
<1>3. at' = 1 /\ phase' = "post_connect"
  BY <1>1, <1>2 DEF Advance
<1>4. \A p \in Registered : Visited(p)' /\ Visited(p)
  <2> TAKE p \in Registered
  <2>1. Visited(p)' <=> Visited(p) \/ p = parsers[at]
    BY <1>1, <1>2, RegisteredVisited
  <2>2. p # parsers[at]
    BY <1>1, NamesDiffer
  <2> QED BY <1>3, <2>1, <2>2 DEF Visited
<1>5. "lis3dh" \in found /\ Visited("lis3dh")
  BY <1>1, <1>2 DEF OrderOK, I2cAppended
<1>6. found \subseteq Registered
  BY DEF ListOK
<1>7. enabled = Chosen
  BY <1>4, <1>5, <1>6, NamesDiffer DEF EnabledOK, Chosen, OwnerOf
<1>8. enabled' = enabled
  BY <1>1, <1>5, <1>7 DEF Chosen
<1>9. ListOK'
  BY <1>1, <1>2, <1>3, <1>8 DEF ListOK
<1>10. OrderOK'
  <2>1. Visited("lis3dh")'
    BY <1>4, <1>5, <1>6
  <2> QED BY <1>1, <1>5, <2>1 DEF OrderOK, OnceEach, AllThere, I2cAppended, I2cLast
<1>11. EnabledOK'
  BY <1>1, <1>4, <1>5, <1>6, <1>7, <1>8, NamesDiffer DEF EnabledOK, Chosen, OwnerOf
<1>12. LogOK'
  <2>1. ~Redirected /\ ~Redirected'
    BY <1>2, <1>3 DEF Redirected
  <2> QED BY <1>1, <1>8, <2>1 DEF LogOK
<1>13. TimeOK'
  BY <1>1, <1>4, <1>6 DEF TimeOK
<1> QED BY <1>9, <1>10, <1>11, <1>12, <1>13

\* A parser whose signals are missing.
LEMMA MissingStep ==
  ASSUME ListInv, Connect, ConnectMissing
  PROVE  ListInv'
<1> USE DEF ListInv
<1>1. /\ parsers[at] \in Registered \ found /\ enabled' = enabled \ {parsers[at]}
      /\ Advance(parsers, "post_connect")
      /\ UNCHANGED <<parsers, found, log_file, sample_time>>
  BY DEF ConnectMissing
<1>2. /\ at \in 1..Len(parsers) /\ phase = "connect" /\ parsers \in Seq(Names)
      /\ found \subseteq Registered
  BY TurnOf DEF ListOK
<1>3. /\ ~Redirected /\ ~Redirected'
      /\ phase' \in {"connect", "post_connect"} /\ at' \in 1..Len(parsers)
  BY <1>1, <1>2, VisitedAfter
<1>4. \A p \in found : Visited(p)' <=> Visited(p)
  BY <1>1, <1>2, RegisteredVisited
<1>5. enabled' = enabled
  BY <1>1, <1>2, NamesDiffer DEF EnabledOK, Chosen
<1>6. ListOK'
  BY <1>1, <1>2, <1>3, <1>5 DEF ListOK
<1>7. OrderOK'
  <2>1. "lis3dh" \in found => (Visited("lis3dh")' <=> Visited("lis3dh"))
    BY <1>4
  <2> QED BY <1>1, <2>1 DEF OrderOK, OnceEach, AllThere, I2cAppended, I2cLast
<1>8. EnabledOK'
  <2>1. Chosen' = Chosen /\ \A q \in Chosen : OwnerOf(q) \in found
    BY <1>1, <1>2, NamesDiffer DEF Chosen, OwnerOf
  <2>2. \A q \in Chosen : Visited(OwnerOf(q))' <=> Visited(OwnerOf(q))
    BY <1>4, <2>1
  <2> QED BY <1>5, <2>1, <2>2 DEF EnabledOK
<1>9. LogOK'
  BY <1>1, <1>3, <1>5 DEF LogOK
<1>10. TimeOK'
  BY <1>1, <1>4 DEF TimeOK
<1> QED BY <1>6, <1>7, <1>8, <1>9, <1>10

\* The time asked for by one parser more.
LEMMA TimeLower ==
  ASSUME ListInv, NEW t \in Nat, t # 0
  PROVE  /\ CsvSampleTime(t) \in Nat \ {0}
         /\ CsvSampleTime(t) <= t
         /\ CsvSampleTime(t) \in {t, sample_time}
         /\ sample_time # 0 => CsvSampleTime(t) <= sample_time
BY DEF ListInv, ListOK, CsvSampleTime

\* A parser whose signals are found: it and, with lis3dh, the one that is appended.
LEMMA FoundStep ==
  ASSUME ListInv, Connect, ConnectFound
  PROVE  ListInv'
<1> USE DEF ListInv
<1> DEFINE p == parsers[at]
           list == IF p = "lis3dh" THEN Register(parsers, "i2c_parser") ELSE parsers
<1>1. /\ p \in found /\ log_file' = OpenLog(p)
      /\ sample_time' = IF SampleTime[p] = 0 THEN sample_time
                        ELSE CsvSampleTime(SampleTime[p])
      /\ parsers' = list
      /\ enabled' = enabled \cup (IF p = "lis3dh" THEN {p, "i2c_parser"} ELSE {p})
      /\ Advance(parsers', "post_connect") /\ found' = found
  BY DEF ConnectFound
<1>2. /\ at \in 1..Len(parsers) /\ phase = "connect" /\ parsers \in Seq(Names)
      /\ found \subseteq Registered /\ enabled \subseteq Names
      /\ log_file \in [Names -> Names \cup {"null"}] /\ sample_time \in Nat
  BY TurnOf DEF ListOK
<1>3. /\ list \in Seq(Names) /\ Len(list) >= Len(parsers)
      /\ \A i \in 1..Len(parsers) : list[i] = parsers[i]
      /\ p # "lis3dh" => list = parsers
      /\ p = "lis3dh" => Len(list) = Len(parsers) + 1 /\ list[Len(list)] = "i2c_parser"
  BY <1>2 DEF Register, Names
<1>4. /\ ~Redirected /\ ~Redirected'
      /\ phase' \in {"connect", "post_connect"} /\ at' \in 1..Len(list)
  BY <1>1, <1>2, <1>3, VisitedAfter
<1>5. \A q \in Registered : Visited(q)' <=> Visited(q) \/ q = p
  BY <1>1, <1>2, <1>3, RegisteredVisited
<1>6. ~Visited(p) /\ p # "i2c_parser" /\ p \in Registered
  BY <1>1, <1>2, NamesDiffer DEF Visited, OrderOK, OnceEach
<1> HIDE DEF p, list
<1>7. enabled' \subseteq Names
  BY <1>1, <1>2 DEF Names
<1>8. sample_time' \in Nat
  <2>1. SampleTime[p] \in Nat
    BY <1>6, RegisteredAssumption
  <2> QED BY <1>1, <1>2, <2>1, TimeLower
<1>9. log_file' \in [Names -> Names \cup {"null"}]
  BY <1>1, <1>2, <1>6 DEF OpenLog, Names
<1>10. ListOK'
  BY <1>1, <1>2, <1>3, <1>4, <1>7, <1>8, <1>9 DEF ListOK
<1>11. \A i \in 1..Len(parsers) : parsers[i] = "i2c_parser" => p # "lis3dh"
  BY <1>6 DEF OrderOK, I2cAppended
<1>12. OnceEach' /\ AllThere' /\ I2cLast'
  <2>1. CASE p # "lis3dh"
    BY <1>1, <1>3, <2>1 DEF OrderOK, OnceEach, AllThere, I2cLast
  <2>2. CASE p = "lis3dh"
    <3>1. \A i \in 1..Len(list) : i = Len(list) \/ i \in 1..Len(parsers)
      BY <1>2, <1>3, <2>2
    <3>2. \A i \in 1..Len(list) : list[i] = "i2c_parser" <=> i = Len(list)
      BY <1>2, <1>3, <1>11, <2>2, <3>1
    <3>3. OnceEach'
      BY <1>1, <1>2, <1>3, <3>1, <3>2 DEF OrderOK, OnceEach
    <3>4. AllThere'
      BY <1>1, <1>2, <1>3 DEF OrderOK, AllThere
    <3> QED BY <1>1, <3>2, <3>3, <3>4 DEF I2cLast
  <2> QED BY <2>1, <2>2
<1>13. I2cAppended'
  <2>1. CASE p = "lis3dh"
    <3>1. Visited("lis3dh")' /\ "lis3dh" \in found'
      BY <1>1, <1>5, <1>6, <2>1
    <3>2. Len(list) \in 1..Len(list)
      BY <1>2, <1>3, <2>1
    <3> QED BY <1>1, <1>3, <2>1, <3>1, <3>2 DEF I2cAppended
  <2>2. CASE p # "lis3dh"
    <3>1. "lis3dh" \in found => (Visited("lis3dh")' <=> Visited("lis3dh"))
      BY <1>2, <1>5, <2>2
    <3> QED BY <1>1, <1>3, <2>2, <3>1 DEF OrderOK, I2cAppended
  <2> QED BY <2>1, <2>2
<1>14. EnabledOK'
  BY <1>1, <1>2, <1>5, <1>6, NamesDiffer DEF EnabledOK, Chosen, OwnerOf
<1>15. LogOK'
  <2>1. \A q \in enabled : q # p
    BY <1>6 DEF EnabledOK, OwnerOf
  <2>2. \A q \in enabled : p = "lis3dh" => q # "i2c_parser"
    BY <1>6 DEF EnabledOK, OwnerOf
  <2>3. \A q \in enabled : log_file[q] = OwnerOf(q) /\ q \in Names
    BY <1>2, <1>4 DEF LogOK
  <2>4. \A q \in enabled' : log_file'[q] = OwnerOf(q)
    BY <1>1, <1>2, <1>6, <2>1, <2>2, <2>3 DEF OpenLog, OwnerOf, Names
  <2> QED BY <1>4, <2>4 DEF LogOK
<1>16. TimeOK'
  <2>1. SampleTime[p] \in Nat /\ \A q \in found : SampleTime[q] \in Nat
    BY <1>2, <1>6, RegisteredAssumption
  <2>2. CASE SampleTime[p] = 0
    BY <1>1, <1>2, <1>5, <2>1, <2>2 DEF TimeOK
  <2>3. CASE SampleTime[p] # 0
    <3>1. /\ sample_time' \in Nat \ {0} /\ sample_time' <= SampleTime[p]
          /\ sample_time' \in {SampleTime[p], sample_time}
          /\ sample_time # 0 => sample_time' <= sample_time
      BY <1>1, <2>1, <2>3, TimeLower
    <3>2. \A q \in found : Visited(q)' /\ SampleTime[q] # 0 =>
            sample_time' # 0 /\ sample_time' <= SampleTime[q]
      BY <1>1, <1>2, <1>5, <2>1, <3>1 DEF TimeOK
    <3>3. \E q \in found : Visited(q)' /\ SampleTime[q] = sample_time'
      <4>1. CASE sample_time' = SampleTime[p]
        BY <1>1, <1>5, <1>6, <4>1
      <4>2. CASE sample_time' = sample_time
        BY <1>2, <1>5, <3>1, <4>2 DEF TimeOK
      <4> QED BY <3>1, <4>1, <4>2
    <3> QED BY <1>1, <3>2, <3>3 DEF TimeOK
  <2> QED BY <2>2, <2>3
<1> QED BY <1>10, <1>12, <1>13, <1>14, <1>15, <1>16 DEF OrderOK

-----------------------------------------------------------------------------
(* A turn of the walk behind it, and the frames.                           *)

LEMMA PostStep ==
  ASSUME ListInv, PostConnect
  PROVE  ListInv'
<1> USE DEF ListInv
<1>1. /\ phase = "post_connect"
      /\ log_file' = IF parsers[at] = "lr1110" /\ "lr1110" \in enabled
                     THEN Redirect(log_file["lr1110"]) ELSE log_file
      /\ IF at < Len(parsers)
         THEN at' = at + 1 /\ phase' = phase
         ELSE at' = 0 /\ phase' = IF enabled = {} THEN "exited" ELSE "frames"
      /\ UNCHANGED <<parsers, found, enabled, sample_time>>
  BY DEF PostConnect
<1>2. /\ at \in 1..Len(parsers) /\ parsers \in Seq(Names) /\ enabled \subseteq Names
      /\ log_file \in [Names -> Names \cup {"null"}]
  BY <1>1 DEF ListOK
<1>3. \A q : Visited(q) /\ Visited(q)'
  BY <1>1 DEF Visited
<1>4. log_file' \in [Names -> Names \cup {"null"}]
  BY <1>1, <1>2 DEF Redirect
<1>5. ListOK'
  BY <1>1, <1>2, <1>4 DEF ListOK
<1>6. OrderOK'
  BY <1>1, <1>3 DEF OrderOK, OnceEach, AllThere, I2cAppended, I2cLast
<1>7. EnabledOK'
  BY <1>1, <1>3 DEF EnabledOK, Chosen
<1>8. TimeOK'
  BY <1>1, <1>3 DEF TimeOK
<1>9. LogOK'
  <2>1. "lr1110" \in enabled => \E i \in 1..Len(parsers) : parsers[i] = "lr1110"
    BY <1>2, <1>3, NamesDiffer DEF ListOK, OrderOK, AllThere, EnabledOK, Chosen
  <2>2. "lr1110" \in enabled => (Redirected' <=> Redirected \/ parsers[at] = "lr1110")
    <3>1. CASE at < Len(parsers)
      BY <1>1, <1>2, <3>1 DEF Redirected
    <3>2. CASE ~(at < Len(parsers))
      BY <1>1, <1>2, <2>1, <3>2 DEF Redirected
    <3> QED BY <3>1, <3>2
  <2>3. CASE "lr1110" \notin enabled
    BY <1>1, <2>3 DEF LogOK
  <2>4. CASE "lr1110" \in enabled /\ parsers[at] # "lr1110"
    BY <1>1, <2>2, <2>4 DEF LogOK
  <2>5. CASE "lr1110" \in enabled /\ parsers[at] = "lr1110"
    <3>1. ~Redirected
      BY <1>1, <1>2, <2>5 DEF Redirected, OrderOK, OnceEach
    <3>2. log_file["lr1110"] = "lr1110"
      BY <2>5, <3>1 DEF LogOK, OwnerOf
    <3>3. ASSUME NEW q \in enabled
          PROVE  log_file'[q] = IF q \in Grabbed THEN "lr1110" ELSE OwnerOf(q)
      BY <1>1, <1>2, <2>5, <3>1, <3>2 DEF LogOK, Redirect
    <3> QED BY <1>1, <2>2, <2>5, <3>3 DEF LogOK
  <2> QED BY <2>3, <2>4, <2>5
<1> QED BY <1>5, <1>6, <1>7, <1>8, <1>9

\* In the frames nothing of the list changes but whose turn it is.
LEMMA FrameStep ==
  ASSUME ListInv, phase = "frames", at' \in 0..Len(parsers),
         UNCHANGED <<parsers, phase, found, enabled, log_file, sample_time>>
  PROVE  ListInv'
<1> USE DEF ListInv
<1>1. \A q : Visited(q) /\ Visited(q)'
  BY DEF Visited
<1>2. Redirected /\ Redirected'
  BY DEF Redirected
<1>3. ListOK'
  BY DEF ListOK
<1>4. OrderOK'
  BY <1>1 DEF OrderOK, OnceEach, AllThere, I2cAppended, I2cLast
<1>5. EnabledOK'
  BY <1>1 DEF EnabledOK, Chosen
<1>6. LogOK'
  BY <1>2 DEF LogOK
<1>7. TimeOK'
  BY <1>1 DEF TimeOK
<1> QED BY <1>3, <1>4, <1>5, <1>6, <1>7

\* The list is not empty.
LEMMA SomeParser ==
  ASSUME ListInv
  PROVE  Len(parsers) \in Nat /\ Len(parsers) >= 1
<1>1. PICK p \in Registered : TRUE
  BY RegisteredAssumption
<1>2. PICK i \in 1..Len(parsers) : parsers[i] = p
  BY DEF ListInv, OrderOK, AllThere
<1>3. Len(parsers) \in Nat
  BY DEF ListInv, ListOK
<1> QED BY <1>2, <1>3

\* What a frame leaves alone.
LEMMA FrameKeeps ==
  ASSUME NEW irq \in BOOLEAN, Frame(irq)
  PROVE  \E packet, truth : NextFrame(packet, truth, irq)
BY DEF Frame, QuietFrame, WriteFrame, NameFrame, ReadFrame

\* The list of parsers keeps its invariant.
LEMMA ListKept ==
  ASSUME ListInv, [Next]_vars
  PROVE  ListInv'
<1>1. CASE UNCHANGED vars
  BY <1>1 DEF vars, listVars, ListInv, ListOK, OrderOK, OnceEach, AllThere, I2cAppended,
              I2cLast, EnabledOK, Chosen, LogOK, TimeOK, Visited, Redirected
<1>2. CASE Connect
  BY <1>2, UnwiredStep, MissingStep, FoundStep DEF Connect
<1>3. CASE PostConnect
  BY <1>3, PostStep
<1>4. ASSUME NEW irq \in BOOLEAN, Frame(irq) PROVE ListInv'
  BY <1>4, FrameKeeps, FrameStep, SomeParser DEF NextFrame
<1>5. CASE TakeTurn
  <2>1. at \in 0..Len(parsers) /\ Len(parsers) \in Nat
    BY DEF ListInv, ListOK
  <2> QED BY <1>5, <2>1, FrameStep DEF TakeTurn
<1> QED BY <1>1, <1>2, <1>3, <1>4, <1>5 DEF Next

\* What is settled in the frames.
LEMMA ListSettled ==
  ASSUME ListInv, phase = "frames"
  PROVE  LogsAreSettled
<1> USE DEF ListInv
<1>1. (\A p : Visited(p)) /\ Redirected
  BY DEF Visited, Redirected
<1>2. enabled = Chosen
  BY <1>1 DEF EnabledOK
<1>3. found \subseteq Registered
  BY DEF ListOK
<1>4. \A p \in enabled : p \in {"lis3dh", "lr1110", "uart_txd", "uart_lbtrace", "i2c_parser"}
  BY <1>2, <1>3, RegisteredAssumption DEF Chosen
<1>5. \A p \in enabled : log_file[p] = IF "lr1110" \in enabled /\ p \in Grabbed
                                       THEN "lr1110" ELSE OwnerOf(p)
  BY <1>1 DEF LogOK
<1>6. \A p \in enabled : log_file[p] # "null"
  BY <1>4, <1>5 DEF OwnerOf
<1>7. \A p \in enabled \cap Grabbed :
        log_file[p] = IF "lr1110" \in enabled THEN "lr1110" ELSE p
  BY <1>5 DEF OwnerOf, Grabbed
<1> QED BY <1>2, <1>6, <1>7 DEF LogsAreSettled

LEMMA MinOf ==
  ASSUME NEW S, S \subseteq Nat, NEW m \in S, \A n \in S : m <= n
  PROVE  Min(S) = m
<1>1. Min(S) \in S /\ \A n \in S : Min(S) <= n
  BY DEF Min
<1>2. Min(S) \in Nat /\ m \in Nat /\ Min(S) <= m /\ m <= Min(S)
  BY <1>1
<1> HIDE DEF Min
<1> QED BY <1>2

LEMMA TimeSettled ==
  ASSUME ListInv
  PROVE  SampleTimeIsFinest
<1> USE DEF ListInv
<1> DEFINE asked == {SampleTime[p] : p \in found} \ {0}
<1> SUFFICES ASSUME phase = "frames"
             PROVE  sample_time = IF asked = {} THEN 0 ELSE Min(asked)
  BY DEF SampleTimeIsFinest
<1>1. \A p : Visited(p)
  BY DEF Visited
<1>2. found \subseteq Registered /\ sample_time \in Nat
  BY DEF ListOK
<1>3. asked \subseteq Nat \ {0}
  BY <1>2, RegisteredAssumption
<1>4. \A t \in asked : sample_time # 0 /\ sample_time <= t
  BY <1>1 DEF TimeOK
<1>5. sample_time # 0 => sample_time \in asked
  BY <1>1 DEF TimeOK
<1>6. CASE asked = {}
  BY <1>5, <1>6
<1>7. CASE asked # {}
  <2>1. sample_time \in asked
    BY <1>4, <1>5, <1>7
  <2> HIDE DEF asked
  <2>2. Min(asked) = sample_time
    BY <1>3, <1>4, <2>1, MinOf
  <2> QED BY <1>7, <2>2
<1> QED BY <1>6, <1>7

-----------------------------------------------------------------------------
(* The accelerometer's decoder.                                            *)

LEMMA NumberOf ==
  ASSUME NEW first \in Regs, NEW byte \in {first, first + AutoIncrement}
  PROVE  byte \in Nat /\ Number(byte) = first
<1>1. first \in Nat /\ AutoIncrement \in Nat /\ first < AutoIncrement /\ AutoIncrement > 0
  BY RegsAssumption DEF Regs
<1>2. first % AutoIncrement = first
  BY <1>1
<1>3. (first + AutoIncrement) % AutoIncrement = first
  BY <1>1
<1> QED BY <1>1, <1>2, <1>3 DEF Number

LEMMA HeadAndTail ==
  ASSUME NEW byte \in Nat, NEW values \in Seq(Nat)
  PROVE  /\ <<byte>> \o values # <<>>
         /\ Head(<<byte>> \o values) = byte
         /\ Tail(<<byte>> \o values) = values
<1>1. <<byte>> \o values \in Seq(Nat) /\ Len(<<byte>> \o values) = 1 + Len(values)
  OBVIOUS
<1>2. Tail(<<byte>> \o values) \in Seq(Nat) /\ Len(Tail(<<byte>> \o values)) = Len(values)
  BY <1>1
<1>3. \A i \in 1..Len(values) : Tail(<<byte>> \o values)[i] = values[i]
  BY <1>1, <1>2
<1> QED BY <1>1, <1>2, <1>3

LEMMA BurstTyped ==
  ASSUME NEW first \in Regs, NEW values \in Bursts(first)
  PROVE  /\ values \in Seq(Nat) /\ Len(values) \in 1..2 /\ values # <<>>
         /\ DOMAIN values = 1..Len(values)
<1>1. PICK n \in 1..2 : values \in [1..n -> Values]
  BY DEF Bursts
<1>2. values \in [1..n -> Nat]
  BY <1>1, ValuesAssumption
<1> QED BY <1>1, <1>2

\* What a write does to the chip is what the decoder will do to the shadows.
LEMMA WriteIsShadowed ==
  ASSUME NEW first \in Regs, NEW values \in Bursts(first), chip = shadows,
         chip' = [r \in Regs |-> IF r - first + 1 \in DOMAIN values
                                 THEN values[r - first + 1] ELSE chip[r]],
         shadows' = shadows
  PROVE  chip' = ShadowsAfter(first, values)'
<1>1. first \in Nat /\ Regs \subseteq Nat
  BY RegsAssumption DEF Regs
<1>2. Len(values) \in Nat /\ DOMAIN values = 1..Len(values)
  BY BurstTyped
<1>3. \A r \in Regs : r - first + 1 \in DOMAIN values <=> r \in first..first + Len(values) - 1
  BY <1>1, <1>2
<1> QED BY <1>3 DEF ShadowsAfter

LEMMA BusInitially == Init => BusInv
<1> SUFFICES ASSUME Init PROVE BusInv
  OBVIOUS
<1>1. /\ phase = "connect" /\ news = Quiet /\ chip = [r \in Regs |-> -1] /\ point = -1
      /\ shadows = [r \in Regs |-> -1] /\ lines = <<>>
  BY DEF Init, ListInit, Lis3dhInit
<1>2. news.packet.mine = FALSE /\ news.packet.read = FALSE
  BY <1>1 DEF Quiet, NoPacket
<1>3. Typed
  BY <1>1, <1>2 DEF Typed
<1> QED BY <1>1, <1>3 DEF BusInv

\* The decoder is idle while the list is walked.
LEMMA BusWaits ==
  ASSUME ListInv, BusInv, Connect \/ PostConnect, UNCHANGED <<lis3dhVars, busVars>>
  PROVE  BusInv'
<1>1. phase # "frames" /\ found' = found
  BY DEF Connect, ConnectUnwired, ConnectMissing, ConnectFound, PostConnect
<1>2. phase' = "frames" => at' = 0
  BY DEF Connect, ConnectUnwired, ConnectMissing, ConnectFound, PostConnect, Advance
<1> SUFFICES ASSUME "lis3dh" \in found PROVE BusInv'
  BY <1>1 DEF BusInv
<1>3. chip = shadows /\ point = -1 /\ lines = <<>> /\ Typed
  BY <1>1 DEF BusInv
<1> QED BY <1>1, <1>2, <1>3 DEF BusInv, Settled, Typed, lis3dhVars, busVars

\* A frame comes in: the packet that it may bring is now pending.
LEMMA BusMoves ==
  ASSUME ListInv, BusInv, "lis3dh" \in found, NEW irq \in BOOLEAN, Frame(irq)
  PROVE  BusInv'
<1>1. /\ phase = "frames" /\ at = 0 /\ at' = 1 /\ phase' = phase /\ parsers' = parsers
      /\ UNCHANGED <<found, reg, shadows>>
  BY FrameKeeps DEF NextFrame
<1>2. LooksFirst'
  BY <1>1, SomeParser DEF LooksFirst
<1>3. chip = shadows /\ (point # -1 => reg = point) /\ Typed
  BY <1>1 DEF BusInv, Settled
<1>4. SUFFICES Typed' /\ Pending'
  BY <1>1, <1>2 DEF BusInv
<1>5. CASE QuietFrame(irq)
  BY <1>1, <1>3, <1>5 DEF QuietFrame, NextFrame, NoPacket, Typed, Pending
<1>6. ASSUME NEW first \in Regs, NEW values \in Bursts(first),
             NEW byte \in RegisterByte(first, values), WriteFrame(first, values, byte, irq)
      PROVE  Typed' /\ Pending'
  <2>1. byte \in {first, first + AutoIncrement}
    BY DEF RegisterByte
  <2>2. byte \in Nat /\ Number(byte) = first
    BY <2>1, NumberOf
  <2>3. values \in Seq(Nat) /\ values # <<>>
    BY BurstTyped
  <2>4. /\ news' = [packet |-> [mine |-> TRUE, read |-> FALSE, bytes |-> <<byte>> \o values],
                    irq |-> irq,
                    truth |-> [i \in 1..Len(values) |-> [reg |-> first + i - 1, val |-> values[i]]]]
        /\ point' = -1
    BY <1>6 DEF WriteFrame, NextFrame
  <2>5. chip' = ShadowsAfter(first, values)'
    BY <1>1, <1>3, <1>6, WriteIsShadowed DEF WriteFrame
  <2>6. /\ Head(<<byte>> \o values) = byte /\ Tail(<<byte>> \o values) = values
        /\ <<byte>> \o values # <<>>
    BY <2>2, <2>3, HeadAndTail
  <2>7. news'.truth = Labelled(first, values)
    BY <2>4 DEF Labelled
  <2>8. /\ news'.packet.mine = TRUE /\ news'.packet.read = FALSE
        /\ news'.packet.bytes = <<byte>> \o values
    BY <2>4
  <2>9. Typed'
    BY <1>1, <1>3, <2>8 DEF Typed
  <2>10. Pending'
    BY <2>2, <2>3, <2>4, <2>5, <2>6, <2>7, <2>8 DEF Pending
  <2> QED BY <2>9, <2>10
<1>7. ASSUME NEW first \in Regs, NEW byte \in {first, first + AutoIncrement},
             NameFrame(first, byte, irq)
      PROVE  Typed' /\ Pending'
  <2>1. byte \in Nat /\ Number(byte) = first
    BY NumberOf
  <2>2. /\ news' = [packet |-> [mine |-> TRUE, read |-> FALSE, bytes |-> <<byte>>],
                    irq |-> irq, truth |-> <<[reg |-> first, val |-> -1]>>]
        /\ point' = byte /\ chip' = chip
    BY <1>7 DEF NameFrame, NextFrame
  <2>3. Head(<<byte>>) = byte /\ Tail(<<byte>>) = <<>> /\ <<byte>> # <<>>
    OBVIOUS
  <2>4. chip' = ShadowsAfter(first, <<>>)'
    <3>1. first \in Nat /\ Regs \subseteq Nat
      BY RegsAssumption DEF Regs
    <3>2. \A r \in Regs : r \notin first..first + Len(<<>>) - 1
      BY <3>1
    <3> QED BY <1>1, <1>3, <2>2, <3>2 DEF ShadowsAfter, Typed
  <2>5. /\ news'.packet.mine = TRUE /\ news'.packet.read = FALSE
        /\ news'.packet.bytes = <<byte>>
    BY <2>2
  <2>6. Typed'
    BY <1>1, <1>3, <2>5 DEF Typed
  <2>7. Pending'
    BY <2>1, <2>2, <2>3, <2>4, <2>5 DEF Pending
  <2> QED BY <2>6, <2>7
<1>8. ASSUME NEW values \in Bursts(Number(point)), ReadFrame(values, irq)
      PROVE  Typed' /\ Pending'
  <2>1. /\ news' = [packet |-> [mine |-> TRUE, read |-> TRUE, bytes |-> values],
                    irq |-> irq,
                    truth |-> [i \in 1..Len(values) |->
                                 [reg |-> Number(point) + i - 1, val |-> values[i]]]]
        /\ point # -1 /\ point' = -1 /\ chip' = chip
    BY <1>8 DEF ReadFrame, NextFrame
  <2>2. news'.truth = Labelled(Number(reg), values)
    BY <1>3, <2>1 DEF Labelled
  <2> QED BY <1>1, <1>3, <2>1, <2>2 DEF Typed, Pending
<1> QED BY <1>5, <1>6, <1>7, <1>8 DEF Frame

\* parse_packet does to the registers what was pending, and prints it.
LEMMA PacketParsed ==
  ASSUME Typed, Pending, ParsePacket(news.packet), UNCHANGED <<news, chip, point>>
  PROVE  Typed' /\ Settled'
<1> DEFINE p == news.packet
<1>1. p.mine \in BOOLEAN /\ p.read \in BOOLEAN
  BY DEF Typed
<1>2. CASE ~p.mine
  <2>1. lines' = <<>> /\ reg' = reg /\ shadows' = shadows
    BY <1>2 DEF ParsePacket
  <2>2. chip = shadows /\ (point # -1 => reg = point)
    BY <1>2 DEF Pending
  <2> QED BY <2>1, <2>2 DEF Typed, Settled
<1>3. CASE p.mine /\ p.read
  <2>1. lines' = Labelled(Number(reg), p.bytes) /\ reg' = reg /\ shadows' = shadows
    BY <1>3 DEF ParsePacket, Rd
  <2>2. chip = shadows /\ point = -1 /\ news.truth = Labelled(Number(reg), p.bytes)
    BY <1>3 DEF Pending
  <2> QED BY <2>1, <2>2 DEF Typed, Settled
<1>4. CASE p.mine /\ ~p.read
  <2>1. /\ p.bytes # <<>>
        /\ chip = ShadowsAfter(Number(Head(p.bytes)), Tail(p.bytes))
        /\ point # -1 => point = Head(p.bytes)
        /\ news.truth = IF Tail(p.bytes) = <<>>
                        THEN <<[reg |-> Number(Head(p.bytes)), val |-> -1]>>
                        ELSE Labelled(Number(Head(p.bytes)), Tail(p.bytes))
    BY <1>4 DEF Pending
  <2>2. Wr(p.bytes)
    BY <1>4, <2>1 DEF ParsePacket
  <2>3. /\ reg' = Head(p.bytes) /\ lines' = news.truth
        /\ shadows' = ShadowsAfter(Number(Head(p.bytes)), Tail(p.bytes))
    BY <2>1, <2>2 DEF Wr
  <2>4. shadows' = [r \in Regs |-> shadows'[r]]
    BY <2>3 DEF ShadowsAfter
  <2> QED BY <1>1, <2>1, <2>3, <2>4 DEF Typed, Settled
<1> QED BY <1>1, <1>2, <1>3, <1>4

\* A turn in which the registers are left alone and which is not the last one.
LEMMA BusIdles ==
  ASSUME Typed, Pending, UNCHANGED <<reg, shadows, news, chip, point>>
  PROVE  Typed' /\ Pending'
BY DEF Typed, Pending, ShadowsAfter

\* The turns of the parsers in a frame.
LEMMA BusTurns ==
  ASSUME ListInv, BusInv, "lis3dh" \in found, TakeTurn
  PROVE  BusInv'
<1>1. /\ phase = "frames" /\ phase' = phase /\ at # 0 /\ parsers' = parsers
      /\ UNCHANGED <<found, news, chip, point>>
      /\ at' = IF at = Len(parsers) THEN 0 ELSE at + 1
      /\ IF parsers[at] \in enabled
         THEN ProcessFrame(parsers[at])
         ELSE lines' = <<>> /\ UNCHANGED <<reg, shadows, ran_away, seen>>
  BY DEF TakeTurn
<1>2. at \in 1..Len(parsers) /\ Len(parsers) \in Nat
  BY <1>1 DEF ListInv, ListOK
<1>3. Typed /\ Pending /\ LooksFirst
  BY <1>1 DEF BusInv
<1>4. \A q : Visited(q)
  BY <1>1 DEF Visited
<1>5. "lis3dh" \in enabled /\ "i2c_parser" \in enabled
  BY <1>4 DEF ListInv, EnabledOK, Chosen
<1>6. PICK l \in 1..Len(parsers) : parsers[l] = "lis3dh"
  BY DEF ListInv, ListOK, OrderOK, AllThere
<1>7. parsers[Len(parsers)] = "i2c_parser"
  BY <1>4 DEF ListInv, OrderOK, I2cAppended, I2cLast
<1>8. parsers[at] = "i2c_parser" <=> at = Len(parsers)
  BY <1>2, <1>7 DEF ListInv, OrderOK, I2cLast
<1>9. \A i \in 1..Len(parsers) : parsers[i] = "lis3dh" => i = l
  BY <1>6 DEF ListInv, OrderOK, OnceEach
<1>10. CASE at = Len(parsers)
  <2>1. l < at
    BY <1>2, <1>6, <1>7, <1>10
  <2>2. seen = news
    BY <1>3, <1>6, <2>1 DEF LooksFirst
  <2>3. ParsePacket(news.packet)
    BY <1>1, <1>5, <1>8, <1>10, <2>2 DEF ProcessFrame
  <2>4. Typed' /\ Settled'
    BY <1>1, <1>3, <2>3, PacketParsed
  <2> QED BY <1>1, <1>10, <2>4 DEF BusInv
<1>11. CASE at # Len(parsers)
  <2>1. at' = at + 1 /\ parsers[at] # "i2c_parser"
    BY <1>1, <1>8, <1>11
  <2>2. UNCHANGED <<reg, shadows>>
    BY <1>1, <2>1 DEF ProcessFrame, PrintShadows
  <2>3. parsers[at] = "lis3dh" => seen' = news
    BY <1>1, <1>5 DEF ProcessFrame
  <2>4. parsers[at] # "lis3dh" => seen' = seen
    BY <1>1, <2>1 DEF ProcessFrame
  <2>5. LooksFirst'
    <3>1. l < at => seen = news
      BY <1>3, <1>6 DEF LooksFirst
    <3>2. l < at + 1 => seen' = news
      BY <1>2, <1>6, <1>9, <2>3, <2>4, <3>1
    <3> QED BY <1>1, <1>9, <2>1, <3>2 DEF LooksFirst
  <2>6. Typed' /\ Pending'
    BY <1>1, <1>3, <2>2, BusIdles
  <2> QED BY <1>1, <1>2, <2>1, <2>5, <2>6 DEF BusInv
<1> QED BY <1>10, <1>11

LEMMA BusKept ==
  ASSUME ListInv, BusInv, [Next]_vars
  PROVE  BusInv'
<1>1. found' = found
  BY DEF Next, vars, listVars, Connect, ConnectUnwired, ConnectMissing, ConnectFound,
         PostConnect, Frame, QuietFrame, WriteFrame, NameFrame, ReadFrame, NextFrame, TakeTurn
<1>2. CASE "lis3dh" \notin found
  BY <1>1, <1>2 DEF BusInv
<1>3. CASE "lis3dh" \in found
  <2>1. CASE UNCHANGED vars
    BY <2>1 DEF vars, listVars, lis3dhVars, busVars, BusInv, Typed, Settled, Pending,
                ShadowsAfter, LooksFirst
  <2>2. CASE (Connect \/ PostConnect) /\ UNCHANGED <<lis3dhVars, busVars>>
    BY <2>2, BusWaits
  <2>3. ASSUME NEW irq \in BOOLEAN, Frame(irq) PROVE BusInv'
    BY <1>3, <2>3, BusMoves
  <2>4. CASE TakeTurn
    BY <1>3, <2>4, BusTurns
  <2> QED BY <2>1, <2>2, <2>3, <2>4 DEF Next
<1> QED BY <1>2, <1>3

-----------------------------------------------------------------------------

\* The invariant of the list and of the decoder is kept.
THEOREM AlwaysInStep == Spec => []IInv
<1>1. Init => IInv
  BY ListInitially, BusInitially DEF IInv
<1>2. IInv /\ [Next]_vars => IInv'
  BY ListKept, BusKept DEF IInv
<1> QED BY <1>1, <1>2, PTL DEF Spec

\* Whatever parsers there are, in whatever order the linker has put their
\* constructors, and whatever the header names: every enabled parser has its log
\* file when the first frame comes.
THEOREM LogsSettled == Spec => []LogsAreSettled
<1>1. IInv => LogsAreSettled
  BY ListSettled DEF IInv, LogsAreSettled
<1> QED BY <1>1, AlwaysInStep, PTL

\* The sample time is the finest one asked for, in whatever order they ask.
THEOREM SampleTimeFinest == Spec => []SampleTimeIsFinest
<1>1. IInv => SampleTimeIsFinest
  BY TimeSettled DEF IInv
<1> QED BY <1>1, AlwaysInStep, PTL

\* The shadow registers agree with the chip between two frames, for register maps
\* and values of any size and wherever lis3dh stands in the list.
THEOREM ShadowsAlwaysMatch == Spec => []ShadowsMatchChip
<1>1. IInv => ShadowsMatchChip
  BY DEF IInv, BusInv, Settled, ShadowsMatchChip
<1> QED BY <1>1, AlwaysInStep, PTL

\* What is printed of a transaction is the truth about it.
THEOREM LinesAlwaysTrue == Spec => []LinesAreTrue
<1>1. IInv => LinesAreTrue
  <2> SUFFICES ASSUME IInv, phase = "frames", at # 1, lines # <<>>,
                      parsers[IF at = 0 THEN Len(parsers) ELSE at - 1] = "i2c_parser"
               PROVE  lines = news.truth
    BY DEF LinesAreTrue
  <2>1. at \in 0..Len(parsers) /\ Len(parsers) \in Nat /\ Len(parsers) >= 1
    BY SomeParser DEF IInv, ListInv, ListOK
  <2>2. at = 0
    BY <2>1 DEF IInv, ListInv, OrderOK, I2cLast
  <2>3. "lis3dh" \in found
    BY <2>1, <2>2 DEF IInv, ListInv, OrderOK, I2cAppended
  <2> QED BY <2>2, <2>3 DEF IInv, BusInv, Settled
<1> QED BY <1>1, AlwaysInStep, PTL
=============================================================================
