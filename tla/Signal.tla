------------------------------- MODULE Signal -------------------------------
(***************************************************************************)
(* One logic-analyser line as the decoders see it (signal.c, signal.h).    *)
(* The CSV reader deposits the level of the wire in raw; deglitching turns *)
(* it into val, and marks the frame in which val changes with an edge      *)
(* flag.  A level is 0 or 1, as in the CSV file.                           *)
(***************************************************************************)
EXTENDS Integers

Level == {0, 1}

SignalState ==
    [raw : Level, buffered_raw : Level, val : Level,
     falling_edge : BOOLEAN, rising_edge : BOOLEAN,
     last_change : Nat, previous_is_valid : BOOLEAN]

\* The static signal_t of a parser before the first sample: all zero.
NoSample ==
    [raw |-> 0, buffered_raw |-> 0, val |-> 0,
     falling_edge |-> FALSE, rising_edge |-> FALSE,
     last_change |-> 0, previous_is_valid |-> FALSE]

\* The first sample sets val and buffered_raw to the level of the wire, so that
\* it is no transition.
FirstSample(s) ==
    IF s.previous_is_valid
    THEN s
    ELSE [s EXCEPT !.val = s.raw, !.buffered_raw = s.raw,
                   !.previous_is_valid = TRUE]

\* Note when the wire moved.
TrackRaw(s, now) ==
    IF s.raw = s.buffered_raw
    THEN s
    ELSE [s EXCEPT !.buffered_raw = s.raw, !.last_change = now]

\* Mutants of Report, none of them the code: stable for exactly the deglitch time
\* is enough; a falling line is not deglitched; the edge flags are not cleared.
ReportTooEarly(s, now, deglitch_nsecs) ==
    LET stable == s.buffered_raw # s.val /\ now - s.last_change >= deglitch_nsecs
    IN  [s EXCEPT !.val = IF stable THEN s.raw ELSE @,
                  !.falling_edge = stable /\ s.raw = 0 /\ s.val = 1,
                  !.rising_edge  = stable /\ s.raw = 1 /\ s.val = 0]
ReportFallAtOnce(s, now, deglitch_nsecs) ==
    LET stable == /\ s.buffered_raw # s.val
                  /\ s.raw = 0 \/ now - s.last_change > deglitch_nsecs
    IN  [s EXCEPT !.val = IF stable THEN s.raw ELSE @,
                  !.falling_edge = stable /\ s.raw = 0 /\ s.val = 1,
                  !.rising_edge  = stable /\ s.raw = 1 /\ s.val = 0]
ReportStickyEdges(s, now, deglitch_nsecs) ==
    LET stable == s.buffered_raw # s.val /\ now - s.last_change > deglitch_nsecs
    IN  [s EXCEPT !.val = IF stable THEN s.raw ELSE @,
                  !.falling_edge = @ \/ (stable /\ s.raw = 0 /\ s.val = 1),
                  !.rising_edge  = @ \/ (stable /\ s.raw = 1 /\ s.val = 0)]

\* Report a level that has been stable for longer than the deglitch time.
Report(s, now, deglitch_nsecs) ==
    LET stable == s.buffered_raw # s.val /\ now - s.last_change > deglitch_nsecs
    IN  [s EXCEPT !.val = IF stable THEN s.raw ELSE @,
                  !.falling_edge = stable /\ s.raw = 0 /\ s.val = 1,
                  !.rising_edge  = stable /\ s.raw = 1 /\ s.val = 0]

\* signal_deglitch for one signal of the parser's list, in the frame at now.
Deglitch(s, now, deglitch_nsecs) ==
    Report(TrackRaw(FirstSample(s), now), now, deglitch_nsecs)

HasEdge(s) == s.falling_edge \/ s.rising_edge
=============================================================================
