---------------------------- MODULE MCCsvReplay ----------------------------
(* CsvReplay on two lines; times are scaled, the sample time being 2. *)
EXTENDS CsvReplay

\* scl and sda of the I2C bus, deglitched alike (lis3dh.c).
MCSignals  == {"scl", "sda"}
MCDeglitch == [s \in MCSignals |-> 3]
=============================================================================
