--------------------------- MODULE MCAftProtocol ----------------------------
(***************************************************************************)
(* A small instance of AftProtocol: two transactions, so that the host can *)
(* leave one and come back; each kind of request, one of them for more     *)
(* than is on the machine, one for nothing, one of a kind the machine does *)
(* not do.                                                                 *)
(***************************************************************************)
EXTENDS AftProtocol, TLC

CONSTANTS t1, t2

MCTxns == {t1, t2}
MCLockCodes == {0, 1}
MCRequests ==
  {[kind |-> "TO_MACHINE", amount |-> 1],
   [kind |-> "TO_MACHINE", amount |-> 0],
   [kind |-> "FROM_MACHINE", amount |-> 2],
   [kind |-> "TO_PRINTER", amount |-> 1],
   [kind |-> "DEBIT", amount |-> 1]}

\* For liveness: one request that succeeds, one that may not.
MCTwoRequests ==
  {[kind |-> "TO_MACHINE", amount |-> 1], [kind |-> "FROM_MACHINE", amount |-> 2]}

\* The transactions are interchangeable in the safety runs.
MCSymmetry == Permutations(MCTxns)

=============================================================================
