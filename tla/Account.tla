------------------------------ MODULE Account -------------------------------
(***************************************************************************)
(* What the cash credit meter of the machine promises to everyone who uses *)
(* it, whatever threads do the work: an account with one balance.  Every   *)
(* change of the balance is either one deposit or one withdrawal, each is  *)
(* recorded in full at the moment it happens, and no withdrawal takes the  *)
(* balance further down than an agreed overdraft.                          *)
(*                                                                         *)
(* CreditMeter.tla is shown to implement this specification; Overdraft is  *)
(* then the largest single debit, because two approvals can be given on    *)
(* the same balance.                                                       *)
(***************************************************************************)
EXTENDS Integers

CONSTANTS
  Opening,     \* balance when the account is opened
  Overdraft    \* how far below zero a withdrawal may take the balance

VARIABLES
  balance,     \* what the machine shows as cashable credits
  deposited,   \* total of the deposits so far
  withdrawn    \* total of the withdrawals so far

accountVars == <<balance, deposited, withdrawn>>

AccountInit ==
  /\ balance = Opening
  /\ deposited = 0
  /\ withdrawn = 0

Deposit ==
  /\ deposited' > deposited
  /\ balance' = balance + (deposited' - deposited)
  /\ UNCHANGED withdrawn

Withdraw ==
  /\ withdrawn' > withdrawn
  /\ balance' = balance - (withdrawn' - withdrawn)
  /\ balance' >= -Overdraft
  /\ UNCHANGED deposited

AccountSpec == AccountInit /\ [][Deposit \/ Withdraw]_accountVars

=============================================================================
