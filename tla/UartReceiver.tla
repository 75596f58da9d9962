---------------------------- MODULE UartReceiver ----------------------------
(***************************************************************************)
(* The bit level of the two UART decoders: uart_accumulate, the same code  *)
(* in parser_uart.c and parser_uart_lbtrace.c.  The decoder looks at the   *)
(* level of its line in every frame; a start bit sets its clock, and from  *)
(* then on it samples the line once a bit time, in the first frame past    *)
(* the middle of each bit.                                                 *)
(***************************************************************************)
EXTENDS Integers, Sequences

CONSTANTS
  BitTime,  \* bit_time
  DataBits  \* bits of a byte: 8

ASSUME BitTimeAssumption  == BitTime \in Nat \ {0}
ASSUME DataBitsAssumption == DataBits \in Nat \ {0}

ReceiverState ==
  [state : {"INIT", "IDLE", "ACCUMULATE_BITS", "STOP_BIT"},
   byte : UNION {[1..n -> {0, 1}] : n \in 0..DataBits}, \* the bits_accumulated bits
   sample_time : Nat,
   byte_start_time : Nat]

UartInit == [state |-> "INIT", byte |-> <<>>, sample_time |-> 0, byte_start_time |-> 0]

SampleDue(u, now) == now > u.byte_start_time + u.sample_time

\* Mutants of StartBit: the first sample is in the middle of the start bit; the
\* bits of the byte before stay.
StartBitEarly(u, now) ==
  [state |-> "ACCUMULATE_BITS", byte |-> <<>>,
   sample_time |-> BitTime \div 2, byte_start_time |-> now]

\* The first sample is one and a half bit times away.
StartBit(u, now) ==
  [state |-> "ACCUMULATE_BITS", byte |-> <<>>,
   sample_time |-> (BitTime * 3) \div 2, byte_start_time |-> now]

\* Mutant: the byte ends in the frame of its last data bit.
DataBitNoStop(u, wire) ==
  [u EXCEPT !.byte = Append(@, wire),
            !.sample_time = @ + BitTime,
            !.state = IF Len(u.byte) + 1 = DataBits THEN "IDLE" ELSE @]

DataBit(u, wire) ==
  [u EXCEPT !.byte = Append(@, wire),
            !.sample_time = @ + BitTime,
            !.state = IF Len(u.byte) + 1 = DataBits THEN "STOP_BIT" ELSE @]

\* uart_accumulate for a frame.  The stop bit is waited for but not looked at.
UartAccumulate(u, wire, now) ==
  CASE u.state = "INIT" /\ wire = 1                    -> [u EXCEPT !.state = "IDLE"]
    [] u.state = "IDLE" /\ wire = 0                    -> StartBit(u, now)
    [] u.state = "ACCUMULATE_BITS" /\ SampleDue(u, now) -> DataBit(u, wire)
    [] u.state = "STOP_BIT" /\ SampleDue(u, now)       -> [u EXCEPT !.state = "IDLE"]
    [] OTHER                                           -> u

\* The frame completes a byte, which goes to the buffer of the decoder.
ByteDone(u, now) ==
  u.state = "ACCUMULATE_BITS" /\ SampleDue(u, now) /\ Len(u.byte) = DataBits - 1
=============================================================================
