---------------------------- MODULE MCPowerCycle ----------------------------
(***************************************************************************)
(* PowerCycle with initial credits of 2 (10000 in the code), so that bets  *)
(* can use them up.                                                        *)
(***************************************************************************)
EXTENDS PowerCycle
=============================================================================
