--------------------------- MODULE MCCreditMeter ----------------------------
(***************************************************************************)
(* A small instance of CreditMeter: two clients beside the SAS thread, two *)
(* denominations so that a bet and a win can be of different games, a bill *)
(* that has its own counter and one that has not, transfers smaller and    *)
(* larger than what is on the machine.                                     *)
(***************************************************************************)
EXTENDS CreditMeter, TLC

CONSTANTS c1, c2

MCClients == {c1, c2}
MCDenoms == {1, 2}
MCBills == {1, 2}
MCCountedBills == {1}
MCTransfers == {1, 3}
MCMultipliers == {2, 3}
ClientSymmetry == Permutations(MCClients)

=============================================================================
