-------------------------- MODULE ParserUart_proofs --------------------------
(***************************************************************************)
(* The console's lines and the differences in the headers of their log,    *)
(* proved for a buffer of any size and a text of any length.               *)
(*                                                                         *)
(* What a text without its carriage returns is, is a recursive function of *)
(* the text.  An induction over sets of numbers, in which the induction    *)
(* hypothesis is membership, shows that it exists and that a byte more     *)
(* adds that byte or nothing (KeptGrows); the rest is an invariant: the    *)
(* line buffer holds the text since the last line.                         *)
(***************************************************************************)
EXTENDS ParserUart, WellFoundedInduction, TLAPS

\* A set of numbers has a least one.
LEMMA Least ==
  ASSUME NEW T \in SUBSET Nat, T # {}
  PROVE  \E n \in T : \A m \in T : n <= m
<1> DEFINE R == OpToRel(<, Nat)
<1>1. \A a, b \in Nat : a < b => <<a, b>> \in R
  BY SMT DEF OpToRel
<1>2. IsWellFoundedOn(R, Nat)
  BY NatLessThanWellFounded
<1> HIDE DEF R
<1>3. PICK n \in T : \A m \in T : ~(<<m, n>> \in R)
  BY <1>2, WFMin
<1>4. n \in Nat /\ \A m \in T : m \in Nat /\ ~(m < n)
  BY <1>1, <1>3
<1>5. \A m \in T : n <= m
  BY <1>4
<1>6. QED
  BY <1>3, <1>5

\* Induction, with a set in the place of the predicate.
LEMMA Induction ==
  ASSUME NEW S, 0 \in S, \A n \in Nat : n \in S => n + 1 \in S
  PROVE  \A n \in Nat : n \in S
<1> DEFINE T == Nat \ S
<1>1. SUFFICES ASSUME T # {} PROVE FALSE
  OBVIOUS
<1>2. PICK n \in T : \A m \in T : n <= m
  BY <1>1, Least
<1>3. n # 0 /\ n - 1 \in Nat /\ n - 1 \notin T
  BY <1>2
<1>4. QED
  BY <1>2, <1>3

-----------------------------------------------------------------------------
(* The text without its carriage returns.                                  *)

Record == [byte : Byte, at : Nat]

\* What is kept when a byte comes.
With(kept, r) == IF r.byte = "\r" THEN kept ELSE Append(kept, r)

\* The functions that Kept chooses from, for the first n bytes.
Keeps(g, bytes, n) ==
  g = [i \in 0..n |-> IF i = 0 THEN <<>> ELSE With(g[i - 1], bytes[i])]

\* There is one of them for each length.
LEMMA KeepsExists ==
  ASSUME NEW bytes \in Seq(Record)
  PROVE  \A n \in Nat : \E g : Keeps(g, bytes, n)
<1> DEFINE S == {n \in Nat : \E g : Keeps(g, bytes, n)}
<1>1. 0 \in S
  <2>1. Keeps([i \in 0..0 |-> <<>>], bytes, 0)
    BY DEF Keeps
  <2>2. QED
    BY <2>1
<1>2. ASSUME NEW n \in Nat, n \in S PROVE n + 1 \in S
  <2>1. PICK g : Keeps(g, bytes, n)
    BY <1>2
  <2> DEFINE last == With(g[n], bytes[n + 1])
             h == [i \in 0..n + 1 |-> IF i = n + 1 THEN last ELSE g[i]]
  <2>2. Keeps(h, bytes, n + 1)
    BY <2>1 DEF Keeps
  <2> HIDE DEF h
  <2>3. n + 1 \in Nat /\ \E f : Keeps(f, bytes, n + 1)
    BY <2>2
  <2>4. QED
    BY <2>3
<1> HIDE DEF S
<1>3. \A n \in Nat : n \in S
  BY <1>1, <1>2, Induction
<1>4. QED
  BY <1>3 DEF S

\* What it says of a byte depends on nothing behind the byte.
LEMMA KeepsUnique ==
  ASSUME NEW s \in Seq(Record), NEW t \in Seq(Record), NEW n \in Nat, NEW m \in Nat,
         NEW g, NEW h, Keeps(g, s, n), Keeps(h, t, m), n <= m,
         \A i \in 1..n : s[i] = t[i]
  PROVE  g[n] = h[n]
<1> DEFINE S == {i \in Nat : i <= n => g[i] = h[i]}
<1>1. 0 \in S
  BY DEF Keeps
<1>2. ASSUME NEW i \in Nat, i \in S PROVE i + 1 \in S
  <2>1. CASE i + 1 <= n
    <3>1. g[i] = h[i] /\ s[i + 1] = t[i + 1]
      BY <1>2, <2>1
    <3>2. g[i + 1] = With(g[i], s[i + 1])
      BY <2>1 DEF Keeps
    <3>3. h[i + 1] = With(h[i], t[i + 1])
      BY <2>1 DEF Keeps
    <3>4. QED
      BY <3>1, <3>2, <3>3
  <2>2. QED
    BY <2>1
<1> HIDE DEF S
<1>3. \A i \in Nat : i \in S
  BY <1>1, <1>2, Induction
<1>4. QED
  BY <1>3 DEF S

\* Kept is the last value of such a function.
LEMMA KeptIs ==
  ASSUME NEW bytes \in Seq(Record)
  PROVE  \E g : Keeps(g, bytes, Len(bytes)) /\ Kept(bytes) = g[Len(bytes)]
<1> DEFINE g == CHOOSE g : Keeps(g, bytes, Len(bytes))
<1>1. Keeps(g, bytes, Len(bytes))
  BY KeepsExists
<1>2. Kept(bytes) = g[Len(bytes)]
  BY DEF Kept, Keeps, With
<1>3. QED
  BY <1>1, <1>2

\* An empty text has none, and one more byte is kept unless it is a carriage return.
LEMMA KeptEmpty == Kept(<<>>) = <<>>
<1>1. <<>> \in Seq(Record) /\ Len(<<>>) = 0
  OBVIOUS
<1>2. PICK g : Keeps(g, <<>>, 0) /\ Kept(<<>>) = g[0]
  BY <1>1, KeptIs
<1>3. QED
  BY <1>2 DEF Keeps

LEMMA KeptGrows ==
  ASSUME NEW bytes \in Seq(Record), NEW r \in Record
  PROVE  Kept(Append(bytes, r)) =
           IF r.byte = "\r" THEN Kept(bytes) ELSE Append(Kept(bytes), r)
<1> DEFINE more == Append(bytes, r)
           n == Len(bytes)
<1>1. /\ more \in Seq(Record) /\ n \in Nat /\ Len(more) = n + 1
      /\ more[n + 1] = r /\ \A i \in 1..n : bytes[i] = more[i]
  OBVIOUS
<1>2. PICK g : Keeps(g, bytes, n) /\ Kept(bytes) = g[n]
  BY KeptIs
<1>3. PICK h : Keeps(h, more, n + 1) /\ Kept(more) = h[n + 1]
  BY <1>1, KeptIs
<1> HIDE DEF more, n
<1>4. g[n] = h[n]
  BY <1>1, <1>2, <1>3, KeepsUnique
<1>5. h[n + 1] = With(h[n], more[n + 1])
  BY <1>1, <1>3 DEF Keeps
<1>6. QED
  BY <1>1, <1>2, <1>3, <1>4, <1>5 DEF more, With

-----------------------------------------------------------------------------
(* The line buffer holds the text since the last line.                     *)

Bytes(kept) == [i \in DOMAIN kept |-> kept[i].byte]

BufferInv ==
  /\ time \in Nat
  /\ text \in Seq(Record)
  /\ Kept(TextKept) \in Seq(Record)
  /\ line_buffer = Bytes(Kept(TextKept))
  /\ Len(line_buffer) < LineBufferSize
  /\ line_buffer # <<>> => start_time = Kept(TextKept)[1].at
  /\ LinesAreTheText

\* The bytes of a sequence of records.
LEMMA BytesAre ==
  ASSUME NEW kept \in Seq(Record)
  PROVE  Bytes(kept) \in Seq(Byte) /\ Len(Bytes(kept)) = Len(kept)
<1>1. \A i \in DOMAIN kept : kept[i] \in Record
  OBVIOUS
<1>2. \A r \in Record : r.byte \in Byte
  BY DEF Record
<1>3. \A i \in DOMAIN kept : kept[i].byte \in Byte
  BY <1>1, <1>2
<1>4. QED
  BY <1>3 DEF Bytes

LEMMA BytesGrow ==
  ASSUME NEW kept \in Seq(Record), NEW r \in Record
  PROVE  Bytes(Append(kept, r)) = Append(Bytes(kept), r.byte)
<1>2. Bytes(kept) \in Seq(Byte) /\ Len(Bytes(kept)) = Len(kept)
  BY BytesAre
<1>3. Bytes(Append(kept, r)) = Append(Bytes(kept), r.byte)
  <2>1. r.byte \in Byte
    BY DEF Record
  <2>2. /\ DOMAIN Bytes(Append(kept, r)) = 1..Len(kept) + 1
        /\ DOMAIN Append(Bytes(kept), r.byte) = 1..Len(kept) + 1
    BY <1>2, <2>1 DEF Bytes
  <2>3. ASSUME NEW i \in 1..Len(kept) + 1
        PROVE  Bytes(Append(kept, r))[i] = Append(Bytes(kept), r.byte)[i]
    BY <1>2, <2>1 DEF Bytes
  <2>4. Append(Bytes(kept), r.byte) \in Seq(Byte) /\ Bytes(Append(kept, r)) \in Seq(Byte)
    <3>1. Append(kept, r) \in Seq(Record)
      OBVIOUS
    <3>2. Bytes(Append(kept, r)) \in Seq(Byte)
      BY <3>1, BytesAre
    <3>3. Append(Bytes(kept), r.byte) \in Seq(Byte)
      BY <1>2, <2>1
    <3>4. QED
      BY <3>2, <3>3
  <2>5. QED
    BY <2>2, <2>3, <2>4
<1>4. QED
  BY <1>3

\* A line is a record, and no record is an empty sequence.
LEMMA LineIsPrinted ==
  ASSUME NEW byte, NEW now
  PROVE  Line(byte, now) # <<>>
<1>1. "line" \in DOMAIN Line(byte, now)
  BY DEF Line
<1>2. DOMAIN <<>> = {}
  OBVIOUS
<1>3. QED
  BY <1>1, <1>2

LEMMA BufferBegins == Init => BufferInv
<1> SUFFICES ASSUME Init PROVE BufferInv
  OBVIOUS
<1>1. /\ time = 0 /\ text = <<>> /\ line_buffer = <<>> /\ printed = <<>>
  BY DEF Init
<1>2. Bytes(<<>>) = <<>>
  BY DEF Bytes
<1>3. TextKept = <<>> /\ Kept(TextKept) = <<>>
  BY <1>1, KeptEmpty DEF TextKept
<1>4. LinesAreTheText
  BY <1>1 DEF LinesAreTheText
<1>5. <<>> \in Seq(Record) /\ Len(<<>>) = 0
  OBVIOUS
<1>6. Len(line_buffer) < LineBufferSize
  BY <1>1, <1>5, SizeAssumption
<1>7. /\ Kept(TextKept) \in Seq(Record) /\ line_buffer = Bytes(Kept(TextKept))
  BY <1>1, <1>2, <1>3, <1>5
<1>8. QED
  BY <1>1, <1>4, <1>5, <1>6, <1>7 DEF BufferInv

\* What the buffer, and the text since the last line, are with one more byte.
LEMMA ByteCollected ==
  ASSUME BufferInv, NEW byte \in Byte, LineBufferAdd(byte)
  PROVE  LET r == [byte |-> byte, at |-> time']
         IN  /\ time' \in Nat /\ r \in Record
             /\ text' = Append(TextKept, r) /\ text' \in Seq(Record)
             /\ Kept(text') \in Seq(Record)
             /\ Collected(byte) = Bytes(Kept(text'))
             /\ Kept(text') = IF byte = "\r" THEN Kept(TextKept) ELSE Append(Kept(TextKept), r)
             /\ Collected(byte) # <<>> => start_time' = Kept(text')[1].at
<1> DEFINE r == [byte |-> byte, at |-> time']
<1>1. time' \in Nat /\ r \in Record /\ r.byte = byte /\ r.at = time'
  <2>1. time' = time + 1 /\ time \in Nat
    BY DEF BufferInv, LineBufferAdd
  <2>2. QED
    BY <2>1 DEF Record
<1>2. TextKept \in Seq(Record) /\ text' = Append(TextKept, r)
  <2>1. text \in Seq(Record) /\ text' = Append(TextKept, r)
    BY DEF BufferInv, LineBufferAdd
  <2>2. QED
    BY <2>1 DEF TextKept
<1>3. /\ Kept(TextKept) \in Seq(Record) /\ line_buffer = Bytes(Kept(TextKept))
      /\ line_buffer # <<>> => start_time = Kept(TextKept)[1].at
  BY DEF BufferInv
<1>4. start_time' = StartTime(byte, time')
  BY DEF LineBufferAdd
<1> HIDE DEF r
<1>5. text' \in Seq(Record)
  BY <1>1, <1>2
<1>6. Kept(text') = IF byte = "\r" THEN Kept(TextKept) ELSE Append(Kept(TextKept), r)
  BY <1>1, <1>2, KeptGrows
<1>7. CASE byte = "\r"
  <2>1. Kept(text') = Kept(TextKept) /\ Collected(byte) = line_buffer /\ start_time' = start_time
    BY <1>4, <1>6, <1>7 DEF Collected, StartTime
  <2>2. QED
    BY <1>1, <1>2, <1>3, <1>5, <1>6, <2>1 DEF r
<1>8. CASE byte # "\r"
  <2>1. /\ Kept(text') = Append(Kept(TextKept), r)
        /\ Collected(byte) = Append(line_buffer, byte)
    BY <1>6, <1>8 DEF Collected
  <2>2. Kept(text') \in Seq(Record)
    BY <1>1, <1>3, <2>1
  <2>3. Collected(byte) = Bytes(Kept(text'))
    BY <1>1, <1>3, <2>1, BytesGrow
  <2>4. start_time' = Kept(text')[1].at
    <3>1. Len(line_buffer) = Len(Kept(TextKept)) /\ line_buffer \in Seq(Byte)
      BY <1>3, BytesAre
    <3>2. CASE line_buffer = <<>>
      <4>1. Len(Kept(TextKept)) = 0
        BY <3>1, <3>2
      <4>2. Kept(text')[1] = r
        BY <1>1, <1>3, <2>1, <4>1
      <4>3. QED
        BY <1>1, <1>4, <1>8, <3>2, <4>2 DEF StartTime
    <3>3. CASE line_buffer # <<>>
      <4>1. Len(Kept(TextKept)) >= 1
        BY <1>3, <3>1, <3>3
      <4>2. Kept(text')[1] = Kept(TextKept)[1]
        BY <1>1, <1>3, <2>1, <4>1
      <4>3. QED
        BY <1>3, <1>4, <3>3, <4>2 DEF StartTime
    <3>4. QED
      BY <3>2, <3>3
  <2>5. QED
    BY <1>1, <1>2, <1>5, <1>6, <2>2, <2>3, <2>4 DEF r
<1>9. QED
  BY <1>7, <1>8

LEMMA BufferByte ==
  ASSUME BufferInv, NEW byte \in Byte, LineBufferAdd(byte)
  PROVE  BufferInv'
<1> DEFINE kept == Kept(text')
<1>1. /\ time' \in Nat /\ text' \in Seq(Record) /\ kept \in Seq(Record)
      /\ Collected(byte) = Bytes(kept)
      /\ Collected(byte) # <<>> => start_time' = kept[1].at
  BY ByteCollected
<1>2. Collected(byte) \in Seq(Byte) /\ Len(Collected(byte)) = Len(kept)
  BY <1>1, BytesAre
<1>3. CASE LineEnds(byte)
  <2>1. printed' = Line(byte, time') /\ line_buffer' = <<>> /\ start_time' = StartTime(byte, time')
    BY <1>3 DEF LineBufferAdd
  <2>2. TextKept' = <<>> /\ Kept(TextKept') = <<>>
    BY <2>1, LineIsPrinted, KeptEmpty DEF TextKept
  <2>3. /\ kept # <<>>
        /\ kept[Len(kept)].byte = "\n" \/ Len(kept) = LineBufferSize
    <3>1. CASE byte = "\n"
      <4>1. \E r \in Record : r.byte = "\n" /\ kept = Append(Kept(TextKept), r)
        BY <3>1, ByteCollected
      <4>2. Kept(TextKept) \in Seq(Record)
        BY DEF BufferInv
      <4>3. QED
        BY <4>1, <4>2
    <3>2. CASE Len(Collected(byte)) = LineBufferSize
      BY <1>1, <1>2, <3>2, SizeAssumption
    <3>3. QED
      BY <1>3, <3>1, <3>2 DEF LineEnds
  <2>4. Len(kept) >= 1 /\ Collected(byte) # <<>>
    BY <1>1, <1>2, <2>3
  <2>5. /\ printed'.start = start_time' /\ printed'.line = CString(Collected(byte))
    BY <2>1 DEF Line
  <2>6. LinesAreTheText'
    BY <1>1, <2>3, <2>4, <2>5 DEF LinesAreTheText, Bytes
  <2>7. Bytes(<<>>) = <<>> /\ Len(<<>>) = 0 /\ <<>> \in Seq(Record)
    BY DEF Bytes
  <2>8. /\ Kept(TextKept)' \in Seq(Record) /\ line_buffer' = Bytes(Kept(TextKept)')
        /\ Len(line_buffer') < LineBufferSize
    <3>1. Kept(TextKept)' = <<>>
      BY <2>2
    <3>2. Len(line_buffer') < LineBufferSize
      BY <2>1, <2>7, SizeAssumption
    <3>3. QED
      BY <2>1, <2>7, <3>1, <3>2
  <2>9. QED
    BY <1>1, <2>1, <2>6, <2>8 DEF BufferInv
<1>4. CASE ~LineEnds(byte)
  <2>1. printed' = <<>> /\ line_buffer' = Collected(byte)
    BY <1>4 DEF LineBufferAdd
  <2>2. TextKept' = text'
    BY <2>1 DEF TextKept
  <2>3. Len(line_buffer') < LineBufferSize
    <3>1. Len(line_buffer) < LineBufferSize /\ line_buffer \in Seq(Byte)
      BY BytesAre DEF BufferInv
    <3>2. Len(Collected(byte)) <= Len(line_buffer) + 1
      BY <3>1 DEF Collected
    <3>3. Len(Collected(byte)) # LineBufferSize
      BY <1>4 DEF LineEnds
    <3>4. QED
      BY <1>2, <2>1, <3>1, <3>2, <3>3, SizeAssumption
  <2>4. LinesAreTheText'
    BY <2>1 DEF LinesAreTheText
  <2>5. QED
    BY <1>1, <2>1, <2>2, <2>3, <2>4 DEF BufferInv
<1>5. QED
  BY <1>3, <1>4

\* Another decoder's header leaves the buffer alone.
LEMMA BufferOther ==
  ASSUME BufferInv, OtherHeader
  PROVE  BufferInv'
<1>1. /\ time' = time + 1 /\ printed' = <<>> /\ text' = TextKept
      /\ line_buffer' = line_buffer /\ start_time' = start_time
  BY DEF OtherHeader
<1>2. TextKept' = text' /\ LinesAreTheText'
  BY <1>1 DEF TextKept, LinesAreTheText
<1>3. TextKept \in Seq(Record)
  BY DEF TextKept, BufferInv
<1>4. QED
  BY <1>1, <1>2, <1>3 DEF BufferInv

\* For a buffer of any size and a text of any length, a line that line_buffer_add
\* prints is the text since the last line, without its carriage returns and up to
\* its first NUL, with the time of its first byte (parser_uart.c:277-365).
THEOREM LinesPrinted == Spec => []LinesAreTheText
<1>1. BufferInv /\ [Next]_vars => BufferInv'
  <2> SUFFICES ASSUME BufferInv, [Next]_vars PROVE BufferInv'
    OBVIOUS
  <2>1. CASE OtherHeader
    BY <2>1, BufferOther
  <2>2. ASSUME NEW byte \in Byte, LineBufferAdd(byte) PROVE BufferInv'
    BY <2>2, BufferByte
  <2>3. CASE UNCHANGED vars
    BY <2>3 DEF vars, BufferInv, TextKept, LinesAreTheText
  <2>4. QED
    BY <2>1, <2>2, <2>3 DEF Next
<1>2. BufferInv => LinesAreTheText
  BY DEF BufferInv
<1>3. QED
  BY <1>1, <1>2, BufferBegins, PTL DEF Spec

-----------------------------------------------------------------------------
(* The differences between the headers.                                    *)

HeaderInv ==
  /\ time \in Nat /\ log_time \in 0..time /\ first_header \in 0..time
  /\ last_header = log_time /\ headers \in Nat /\ elapsed \in Int
  /\ start_time \in 0..time
  /\ line_buffer \in Seq(Byte) /\ Len(line_buffer) < LineBufferSize
  /\ line_buffer # <<>> => start_time > 0
  /\ log_time = 0 <=> first_header = 0
  /\ log_time = 0 => headers = 0 /\ elapsed = 0
  /\ DifferencesAddUp

\* What is printed of a time is less than a microsecond off.
LEMMA ShownIsNear ==
  ASSUME NEW nsecs \in Nat, NEW shown \in Shown(nsecs)
  PROVE  shown \in Int /\ shown - nsecs \in -(Micro - 1)..Micro - 1
<1>1. Micro \in Nat /\ Micro >= 2
  BY SizeAssumption
<1>2. CASE nsecs > Micro * Micro
  <2>1. shown \in Int /\ 2 * (shown - nsecs) \in -Micro..Micro
    BY <1>1, <1>2 DEF Shown
  <2>2. QED
    BY <1>1, <2>1
<1>3. CASE ~(nsecs > Micro * Micro) /\ nsecs > Micro
  BY <1>1, <1>3 DEF Shown
<1>4. CASE ~(nsecs > Micro * Micro) /\ ~(nsecs > Micro)
  <2>1. shown = nsecs \div Micro /\ nsecs <= Micro
    BY <1>1, <1>4 DEF Shown
  <2>2. nsecs \div Micro = IF nsecs = Micro THEN 1 ELSE 0
    BY <1>1, <2>1
  <2>3. QED
    BY <1>1, <2>1, <2>2
<1>5. QED
  BY <1>2, <1>3, <1>4

LEMMA DifferenceIsNear ==
  ASSUME NEW at, Difference(at) \in Int, NEW nsecs \in ShownDifference(at)
  PROVE  nsecs \in Int /\ nsecs - Difference(at) \in -(Micro - 1)..Micro - 1
<1> DEFINE d == Difference(at)
<1>1. Micro \in Nat /\ Micro >= 2 /\ d \in Int
  BY SizeAssumption
<1>2. nsecs \in IF d < 0 THEN {-n : n \in Shown(-d)} ELSE Shown(d)
  BY DEF ShownDifference
<1> HIDE DEF d
<1>3. CASE d < 0
  <2>1. PICK n \in Shown(-d) : nsecs = -n
    BY <1>2, <1>3
  <2>2. -d \in Nat
    BY <1>1, <1>3
  <2>3. n \in Int /\ n - (-d) \in -(Micro - 1)..Micro - 1
    BY <2>2, ShownIsNear
  <2>4. nsecs \in Int /\ nsecs - d \in -(Micro - 1)..Micro - 1
    BY <1>1, <2>1, <2>3
  <2>5. QED
    BY <2>4 DEF d
<1>4. CASE d >= 0
  <2>1. nsecs \in Int /\ nsecs - d \in -(Micro - 1)..Micro - 1
    BY <1>1, <1>2, <1>4, ShownIsNear
  <2>2. QED
    BY <2>1 DEF d
<1>5. QED
  BY <1>1, <1>3, <1>4

\* A header at a time that is not 0 adds at most a microsecond to the error.
LEMMA HeaderAdds ==
  ASSUME HeaderInv, NEW at \in Nat, at > 0, Hdr(at)
  PROVE  /\ log_time' = at /\ first_header' \in {at, first_header} /\ first_header' # 0
         /\ last_header' = at /\ headers' \in Nat /\ elapsed' \in Int
         /\ DifferencesAddUp'
<1>1. /\ log_time' = at /\ last_header' = at
      /\ first_header' = IF first_header = 0 THEN at ELSE first_header
      /\ headers' = IF first_header = 0 THEN 0 ELSE headers + 1
  BY DEF Hdr, HeaderPrinted
<1>2. PICK nsecs \in ShownDifference(at) : elapsed' = elapsed + nsecs
  BY DEF Hdr, HeaderPrinted
<1>3. /\ Difference(at) = IF log_time = 0 THEN 0 ELSE at - log_time
      /\ Difference(at) \in Int
  BY DEF Difference, HeaderInv
<1>4. nsecs \in Int /\ nsecs - Difference(at) \in -(Micro - 1)..Micro - 1
  BY <1>2, <1>3, DifferenceIsNear
<1>5. headers' \in Nat /\ elapsed' \in Int /\ first_header' # 0
  BY <1>1, <1>2, <1>4 DEF HeaderInv
<1>6. CASE log_time = 0
  <2>1. Difference(at) = 0 /\ nsecs \in Shown(0)
    BY <1>3, <1>6, <1>2 DEF ShownDifference
  <2>2. nsecs = 0
    <3>1. ~(0 > Micro * Micro) /\ ~(0 > Micro) /\ 0 \div Micro = 0
      BY SizeAssumption
    <3>2. QED
      BY <2>1, <3>1 DEF Shown
  <2>3. elapsed' = 0 /\ first_header' = at /\ headers' = 0
    BY <1>1, <1>2, <1>6, <2>2 DEF HeaderInv
  <2>4. DifferencesAddUp'
    BY <1>1, <2>3, SizeAssumption DEF DifferencesAddUp
  <2>5. QED
    BY <1>1, <1>5, <2>4
<1>7. CASE log_time # 0
  <2> DEFINE off  == elapsed - (last_header - first_header)
             more == nsecs - Difference(at)
             most == headers * (Micro - 1)
  <2>1. first_header' = first_header /\ headers' = headers + 1 /\ Difference(at) = at - last_header
    BY <1>1, <1>3, <1>7 DEF HeaderInv
  <2>2. elapsed' - (last_header' - first_header') = off + more
    BY <1>1, <1>2, <1>4, <2>1 DEF HeaderInv
  <2>3. headers' * (Micro - 1) = most + (Micro - 1)
    BY <2>1, SizeAssumption DEF HeaderInv
  <2>4. off \in -most..most /\ more \in -(Micro - 1)..Micro - 1 /\ most \in Int
    BY <1>4, SizeAssumption DEF HeaderInv, DifferencesAddUp
  <2>5. off \in Int /\ more \in Int /\ Micro \in Int
    BY <2>4, SizeAssumption
  <2> HIDE DEF off, more, most
  <2>6. off + more \in -(most + (Micro - 1))..most + (Micro - 1)
    BY <2>4, <2>5
  <2>7. QED
    BY <1>1, <1>5, <2>2, <2>3, <2>6 DEF DifferencesAddUp
<1>8. QED
  BY <1>6, <1>7

LEMMA HeaderByte ==
  ASSUME HeaderInv, NEW byte \in Byte, LineBufferAdd(byte)
  PROVE  HeaderInv'
<1>1. time' = time + 1 /\ start_time' = StartTime(byte, time')
  BY DEF LineBufferAdd
<1>2. /\ start_time' \in 0..time'
      /\ line_buffer # <<>> \/ byte # "\r" => start_time' > 0
  BY <1>1 DEF StartTime, HeaderInv
<1>3. Collected(byte) \in Seq(Byte) /\ Len(Collected(byte)) <= Len(line_buffer) + 1
  BY DEF Collected, HeaderInv
<1>4. Collected(byte) # <<>> => start_time' > 0
  BY <1>2 DEF Collected
<1>5. CASE LineEnds(byte)
  <2>1. Hdr(start_time') /\ line_buffer' = <<>>
    BY <1>5 DEF LineBufferAdd
  <2>2. start_time' > 0
    <3>1. CASE byte = "\n"
      BY <1>2, <3>1
    <3>2. CASE Len(Collected(byte)) = LineBufferSize
      BY <1>3, <1>4, <3>2, SizeAssumption
    <3>3. QED
      BY <1>5, <3>1, <3>2 DEF LineEnds
  <2>3. /\ log_time' = start_time' /\ first_header' \in {start_time', first_header}
        /\ first_header' # 0 /\ last_header' = start_time' /\ headers' \in Nat
        /\ elapsed' \in Int /\ DifferencesAddUp'
    BY <1>1, <1>2, <2>1, <2>2, HeaderAdds DEF HeaderInv
  <2>4. QED
    BY <1>1, <1>2, <2>1, <2>2, <2>3, SizeAssumption DEF HeaderInv
<1>6. CASE ~LineEnds(byte)
  <2>1. /\ line_buffer' = Collected(byte)
        /\ log_time' = log_time /\ first_header' = first_header /\ elapsed' = elapsed
        /\ last_header' = last_header /\ headers' = headers
    BY <1>6 DEF LineBufferAdd, headerVars
  <2>2. Len(line_buffer') < LineBufferSize
    BY <1>3, <1>6, <2>1, SizeAssumption DEF LineEnds, HeaderInv
  <2>3. DifferencesAddUp'
    BY <2>1 DEF HeaderInv, DifferencesAddUp
  <2>4. QED
    BY <1>1, <1>2, <1>3, <1>4, <2>1, <2>2, <2>3 DEF HeaderInv
<1>7. QED
  BY <1>5, <1>6

\* In a log that several decoders write to, the printed differences add up to the
\* time from the first header to the last (hdr.c:48-61), but for less than a
\* microsecond a header (hdr.c:96-104), for any number of headers at any times.
THEOREM DifferencesRight == Spec => []DifferencesAddUp
<1>1. Init => HeaderInv
  BY SizeAssumption DEF Init, HeaderInv, DifferencesAddUp
<1>2. HeaderInv /\ [Next]_vars => HeaderInv'
  <2> SUFFICES ASSUME HeaderInv, [Next]_vars PROVE HeaderInv'
    OBVIOUS
  <2>1. CASE OtherHeader
    <3>1. /\ time' = time + 1 /\ Hdr(time') /\ line_buffer' = line_buffer
          /\ start_time' = start_time
      BY <2>1 DEF OtherHeader
    <3>2. time' \in Nat /\ time' > 0
      BY <3>1 DEF HeaderInv
    <3>3. /\ log_time' = time' /\ first_header' \in {time', first_header}
          /\ first_header' # 0 /\ last_header' = time' /\ headers' \in Nat
          /\ elapsed' \in Int /\ DifferencesAddUp'
      BY <3>1, <3>2, HeaderAdds
    <3>4. QED
      BY <3>1, <3>2, <3>3 DEF HeaderInv
  <2>2. ASSUME NEW byte \in Byte, LineBufferAdd(byte) PROVE HeaderInv'
    BY <2>2, HeaderByte
  <2>3. CASE UNCHANGED vars
    BY <2>3 DEF vars, headerVars, HeaderInv, DifferencesAddUp
  <2>4. QED
    BY <2>1, <2>2, <2>3 DEF Next
<1>3. HeaderInv => DifferencesAddUp
  BY DEF HeaderInv
<1>4. QED
  BY <1>1, <1>2, <1>3, PTL DEF Spec
=============================================================================
