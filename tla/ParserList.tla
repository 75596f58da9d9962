----------------------------- MODULE ParserList -----------------------------
(***************************************************************************)
(* The parsers of the program (parser.c): they register before main runs,  *)
(* in the order in which the linker has put their constructors; those      *)
(* whose signals the CSV header names are enabled and get a log file and   *)
(* a say in the sample time; the LR1110 parser then takes over the output  *)
(* of others.  The accelerometer's connect callback registers one parser   *)
(* more, behind the back of the loop that is walking the list.             *)
(***************************************************************************)
EXTENDS Integers, Sequences, FiniteSetsExt

CONSTANTS
  Registered, \* the parsers that have a constructor
  SampleTime  \* their sample_time_nsecs, 0 for none

ASSUME RegisteredAssumption ==
  /\ Registered # {}
  /\ Registered \subseteq {"lis3dh", "lr1110", "uart_txd", "uart_lbtrace"}
  /\ IsFiniteSet(Registered)
  /\ SampleTime \in [Registered -> Nat]

Names == Registered \cup {"i2c_parser"}

\* The parsers whose log file grab_uart_output replaces.
Grabbed == {"lis3dh", "uart_txd", "uart_lbtrace"}

VARIABLES
  parsers,     \* the list, from first_parser to last_parser
  at,          \* the place of the parser whose turn it is, 0 for none
  phase,       \* what csv_process_file is doing
  found,       \* the parsers whose signals are all in the CSV header
  enabled,     \* those with enable set
  log_file,    \* the parser that opened the log file each one writes to
  sample_time  \* sample_time_nsecs of csv.c

listVars == <<parsers, at, phase, found, enabled, log_file, sample_time>>

ListInit ==
  /\ parsers \in {s \in [1..Cardinality(Registered) -> Registered] :
                    \A i, j \in DOMAIN s : s[i] = s[j] => i = j}
  /\ at = 1
  /\ phase = "connect"
  /\ found \in SUBSET Registered
  /\ enabled = {}
  /\ log_file = [p \in Names |-> "null"]
  /\ sample_time = 0

\* parser_register.
Register(list, p) == Append(list, p)

\* Mutant: the last one asked for.
CsvSampleTimeLast(nsecs) == nsecs

\* csv_sample_time_nsecs: the finest of the sample times asked for.
CsvSampleTime(nsecs) ==
  IF sample_time = 0 \/ nsecs < sample_time THEN nsecs ELSE sample_time

\* The next parser of the list, or the next phase after the last one.
Advance(list, next_phase) ==
  IF at < Len(list)
  THEN at' = at + 1 /\ UNCHANGED phase
  ELSE at' = 1 /\ phase' = next_phase

\* A parser without signals is enabled; only i2c_parser has none, and it has been
\* enabled by i2c_parser_create.
ConnectUnwired ==
  /\ parsers[at] = "i2c_parser"
  /\ enabled' = enabled \cup {"i2c_parser"}
  /\ Advance(parsers, "post_connect")
  /\ UNCHANGED <<parsers, found, log_file, sample_time>>

\* Some of its signals are missing: the parser is disabled.
ConnectMissing ==
  /\ parsers[at] \in Registered \ found
  /\ enabled' = enabled \ {parsers[at]}
  /\ Advance(parsers, "post_connect")
  /\ UNCHANGED <<parsers, found, log_file, sample_time>>

\* Mutant: the file is opened after the connect callback has copied it.
OpenLogLate(p) == [log_file EXCEPT ![p] = p]

\* log_file_create for the parser; the I2C parser copies what its owner has.
OpenLog(p) ==
  IF p = "lis3dh" THEN [log_file EXCEPT ![p] = p, !["i2c_parser"] = p]
                  ELSE [log_file EXCEPT ![p] = p]

\* parser_enable and the connect callback: lis3dh has i2c_parser_create register
\* an I2C parser at the end of the list.
ConnectFound ==
  LET p == parsers[at]
  IN  /\ p \in found
      /\ log_file' = OpenLog(p)
      /\ sample_time' = IF SampleTime[p] = 0 THEN sample_time
                        ELSE CsvSampleTime(SampleTime[p])
      /\ parsers' = IF p = "lis3dh" THEN Register(parsers, "i2c_parser") ELSE parsers
      /\ enabled' = enabled \cup (IF p = "lis3dh" THEN {p, "i2c_parser"} ELSE {p})
      /\ Advance(parsers', "post_connect")
      /\ UNCHANGED found

Connect == phase = "connect" /\ (ConnectUnwired \/ ConnectMissing \/ ConnectFound)

\* Mutant: only the parsers behind it in the list.
RedirectBehind(log) ==
  [p \in Names |->
     IF /\ p \in Grabbed \cap enabled
        /\ \E i \in at..Len(parsers) : parsers[i] = p
     THEN log ELSE log_file[p]]

\* parser_redirect_output for each of the grabbed names.
Redirect(log) ==
  [p \in Names |-> IF p \in Grabbed \cap enabled THEN log ELSE log_file[p]]

\* post_connect, and parser_active_count behind the last of them.
PostConnect ==
  /\ phase = "post_connect"
  /\ log_file' = IF parsers[at] = "lr1110" /\ "lr1110" \in enabled
                 THEN Redirect(log_file["lr1110"]) ELSE log_file
  /\ IF at < Len(parsers)
     THEN at' = at + 1 /\ UNCHANGED phase
     ELSE at' = 0 /\ phase' = IF enabled = {} THEN "exited" ELSE "frames"
  /\ UNCHANGED <<parsers, found, enabled, sample_time>>

-----------------------------------------------------------------------------

\* The parsers that are to see the frames of a capture.
Chosen == found \cup (IF "lis3dh" \in found THEN {"i2c_parser"} ELSE {})

\* Whatever the order of registration, when the first frame comes every enabled
\* parser has a file to write to (DECLARE_LOG_FP dereferences it unasked), and
\* what LR1110 grabs goes to its log (csv.c:54).
LogsAreSettled ==
  phase = "frames" =>
    /\ enabled = Chosen
    /\ \A p \in enabled : log_file[p] # "null"
    /\ \A p \in enabled \cap Grabbed :
         log_file[p] = IF "lr1110" \in enabled THEN "lr1110" ELSE p

\* The sample time is the finest one an enabled parser asks for: CsvReplay's frames
\* are close enough together for each of them (csv.c:137).
SampleTimeIsFinest ==
  LET asked == {SampleTime[p] : p \in found} \ {0}
  IN  phase = "frames" => sample_time = IF asked = {} THEN 0 ELSE Min(asked)
=============================================================================
