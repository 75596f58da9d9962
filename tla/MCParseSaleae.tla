--------------------------- MODULE MCParseSaleae ---------------------------
(* Three of the program's parsers in any order, two registers and two values.  *)
EXTENDS ParseSaleae

MCSampleTime == [p \in {"lis3dh", "lr1110", "uart_txd"} |->
                   CASE p = "lis3dh" -> 2 [] p = "lr1110" -> 1 [] p = "uart_txd" -> 4]
=============================================================================
