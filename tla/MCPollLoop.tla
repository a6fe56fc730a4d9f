----------------------------- MODULE MCPollLoop -----------------------------
(***************************************************************************)
(* Instances of PollLoop for TLC: the intervals of the code shrunk to a    *)
(* few ticks that keep their order (poll < sweep < snmp, hello apart).     *)
(***************************************************************************)
EXTENDS PollLoop
=============================================================================
