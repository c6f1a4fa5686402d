----------------------------- MODULE MCCabinet -----------------------------
(* Two levels, one value besides zero, a limit of one second, three calls.  Of *)
(* the amounts below 200 those of Short lose a credit in dollars and back, at  *)
(* the denomination of one cent the machine counts in; 29 is the least.        *)
EXTENDS Cabinet
=============================================================================
