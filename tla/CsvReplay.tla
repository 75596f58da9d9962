----------------------------- MODULE CsvReplay -----------------------------
(***************************************************************************)
(* The main loop of the program (csv_process_file in csv.c): rows of the   *)
(* CSV file are turned into a stream of frames.  A row is written by the   *)
(* analyser only when a line changes, so the loop synthesizes frames with  *)
(* the levels of the current row until the time of the next one is near,   *)
(* and every frame, real or synthesized, deglitches the signals            *)
(* (parser_process_frame calls signal_deglitch) before they are decoded.   *)
(*                                                                         *)
(* The file is chosen row by row: its times grow, its levels are arbitrary.*)
(***************************************************************************)
EXTENDS Signal

CONSTANTS
  Signals,     \* the lines the enabled parsers have connected
  SampleTime,  \* sample_time_nsecs: 0 when no parser asked for synthesis
  DeglitchOf,  \* deglitch_nsecs of each signal
  SynthLimit,  \* max_synthesize_time: 10 ms in the code
  MaxTime      \* bound on the times found in the file

ASSUME SampleTimeAssumption == SampleTime \in Nat
ASSUME DeglitchAssumption   == DeglitchOf \in [Signals -> Nat]
ASSUME SynthLimitAssumption == SynthLimit \in Nat
ASSUME MaxTimeAssumption    == MaxTime \in Nat

EndOfFile == -1

VARIABLES
  phase,     \* "read" at the head of the while loop, "synth" in the inner loop
  time,      \* frame.time_nsecs
  nextTime,  \* time of the row csv_data_read finds next, or EndOfFile
  budget,    \* max_synthesize_time
  sig,       \* the signal_t of each line
  wireSince, \* history: time of the row that gave each line its level
  lastFrame  \* history: time of the frame processed last

vars == <<phase, time, nextTime, budget, sig, wireSince, lastFrame>>

Later(t) == {n \in 0..MaxTime : n > t}

Init ==
  /\ phase = "read"
  /\ time = 0
  /\ nextTime \in 0..MaxTime \cup {EndOfFile}
  /\ budget = 0
  /\ sig = [s \in Signals |-> NoSample]
  /\ wireSince = [s \in Signals |-> 0]
  /\ lastFrame = 0

\* parser_process_frame as far as the signals go: every line is deglitched.
ProcessFrame(wires, now) ==
  /\ sig' = [s \in Signals |->
               Deglitch([sig[s] EXCEPT !.raw = wires[s]], now, DeglitchOf[s])]
  /\ lastFrame' = now

Wires == [s \in Signals |-> sig[s].raw]

\* One turn of the outer loop: a row is read and processed, and the time of the
\* row after it is read ahead.  Without a sample time nothing is synthesized.
ReadRow ==
  /\ phase = "read"
  /\ nextTime # EndOfFile
  /\ \E wires \in [Signals -> Level] :
       /\ ProcessFrame(wires, nextTime)
       /\ wireSince' = [s \in Signals |->
                          IF sig[s].previous_is_valid /\ wires[s] = sig[s].raw
                          THEN wireSince[s] ELSE nextTime]
  /\ time' = nextTime
  /\ \E n \in Later(nextTime) \cup {EndOfFile} :
       /\ nextTime' = n
       /\ phase' = IF SampleTime > 0 /\ n # EndOfFile THEN "synth" ELSE "read"
  /\ budget' = SynthLimit

\* Mutants of GapLeft: the loop stops a sample time early; it knows no limit.
GapLeftEarlyStop == time + 2 * SampleTime < nextTime /\ budget > 0
GapLeftUnlimited == time + SampleTime < nextTime

\* The condition of the inner loop.
GapLeft == time + SampleTime < nextTime /\ budget > 0

\* Mutants of Synthesize: the time is advanced by two samples; not at all.
SynthesizeDoubleStep ==
  /\ phase = "synth"
  /\ GapLeft
  /\ ProcessFrame(Wires, time)
  /\ time' = time + 2 * SampleTime
  /\ budget' = budget - SampleTime
  /\ UNCHANGED <<phase, nextTime, wireSince>>
SynthesizeSameTime ==
  /\ phase = "synth"
  /\ GapLeft
  /\ ProcessFrame(Wires, time)
  /\ UNCHANGED <<phase, time, nextTime, budget, wireSince>>

\* One turn of the inner loop: the frame is processed before its time advances.
Synthesize ==
  /\ phase = "synth"
  /\ GapLeft
  /\ ProcessFrame(Wires, time)
  /\ time' = time + SampleTime
  /\ budget' = budget - SampleTime
  /\ UNCHANGED <<phase, nextTime, wireSince>>

GapFilled ==
  /\ phase = "synth"
  /\ ~GapLeft
  /\ phase' = "read"
  /\ UNCHANGED <<time, nextTime, budget, sig, wireSince, lastFrame>>

Finish ==
  /\ phase = "read"
  /\ nextTime = EndOfFile
  /\ phase' = "done"
  /\ UNCHANGED <<time, nextTime, budget, sig, wireSince, lastFrame>>

Terminated == phase = "done" /\ UNCHANGED vars

Next == ReadRow \/ Synthesize \/ GapFilled \/ Finish \/ Terminated

Spec == Init /\ [][Next]_vars

\* The program is one thread that runs until the file ends.
FairSpec == Spec /\ WF_vars(Next)

-----------------------------------------------------------------------------

TypeOK ==
  /\ phase \in {"read", "synth", "done"}
  /\ time \in Nat
  /\ nextTime \in Nat \cup {EndOfFile}
  /\ budget \in Int /\ budget + SampleTime >= 0 /\ budget <= SynthLimit
  /\ sig \in [Signals -> SignalState]
  /\ wireSince \in [Signals -> Nat]
  /\ lastFrame \in Nat

\* A decoder never acts on a glitch: an edge flag is raised only in a frame at
\* which the wire has held the reported level for longer than the deglitch time
\* of the line, in the time of the file (signal.c:74 against the frame times the
\* synthesizing loop of csv.c:112 hands it).
NoGlitchReported ==
  \A s \in Signals :
    HasEdge(sig[s]) =>
      /\ sig[s].val = sig[s].raw
      /\ lastFrame - wireSince[s] > DeglitchOf[s]

\* Two lines with the same deglitch time are never reported in the opposite
\* order of their changes: when b's edge is reported, a line that moved no later
\* than b has been reported as well.  The I2C decoder tells START and STOP from
\* data by this order.
NoReordering ==
  \A a, b \in Signals :
    /\ DeglitchOf[a] = DeglitchOf[b]
    /\ wireSince[a] <= wireSince[b]
    /\ HasEdge(sig[b])
    => sig[a].val = sig[a].raw

\* No level longer than the deglitch time and two sample times is lost: a row
\* that ends such a level finds it reported.  (csv.c:112 stops one sample time
\* short of the next row and does not process the last time it computes, hence
\* the two sample times.)  Asked only of lines whose deglitch time fits in the
\* part of a gap that is synthesized.
LongLevelsReported ==
  [][ReadRow =>
      \A s \in Signals :
        /\ SampleTime > 0
        /\ DeglitchOf[s] + SampleTime < SynthLimit
        /\ sig[s].previous_is_valid
        /\ nextTime - wireSince[s] > DeglitchOf[s] + 2 * SampleTime
        => sig[s].val = sig[s].raw]_vars

\* The decoders' clock: the times of successive frames never go back, and unless
\* the synthesis limit was used up they are at most two sample times apart, the
\* resolution the UART decoders count on.
FrameTimesDense ==
  [][/\ lastFrame' >= lastFrame
     /\ Synthesize => lastFrame' - lastFrame <= SampleTime
     /\ ReadRow /\ SampleTime > 0 /\ budget > 0
        => lastFrame' - lastFrame <= 2 * SampleTime]_vars

\* An edge reaches the decoders exactly once, although the first synthesized
\* frame repeats the time of its row: a frame carries a flag exactly when val
\* differs from the frame before.
EdgesOncePerChange ==
  [][ReadRow \/ Synthesize =>
       \A s \in Signals : sig[s].previous_is_valid =>
         (HasEdge(sig'[s]) <=> sig'[s].val # sig[s].val)]_vars

\* The whole file is processed: synthesis never runs away.
ReachesEnd == <>(phase = "done")
=============================================================================
