------------------------------ MODULE MCLr1110 ------------------------------
(* Both levels of the LR1110 decoder in one run: the bits of packets, or whole   *)
(* packets.  The decoder hands the first to the second one packet at a time and  *)
(* they share nothing else, so each is checked alone.                            *)
EXTENDS Lr1110Spi, MCLr1110Host

VARIABLE level

\* The level that is not in the run stays in one of its initial states.
MCInit ==
  /\ SpiInit /\ Init
  /\ \/ level = "bits" /\ host = CHOOSE any \in Hosts : TRUE
     \/ level = "packets" /\ nss = 0 /\ clk = 0

MCNext ==
  \/ level = "bits" /\ SpiNext /\ UNCHANGED <<level, vars>>
  \/ level = "packets" /\ Next /\ UNCHANGED <<level, allSpiVars>>

MCSpec == MCInit /\ [][MCNext]_<<level, allSpiVars, vars>>
=============================================================================
