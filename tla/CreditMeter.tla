---------------------------- MODULE CreditMeter -----------------------------
(***************************************************************************)
(* The credit meters of the machine and the two kinds of thread that       *)
(* change them.                                                            *)
(*                                                                         *)
(*  - HTTP client threads (HTTPServer.cpp) run one handler each for the    *)
(*    whole of which they hold HTTPServer::mutex_.                         *)
(*  - The SAS receive thread (SASCommPort.cpp) runs the AFT transfer and   *)
(*    meter poll handlers and does not take that mutex.                    *)
(*                                                                         *)
(* Machine::getMeter, setMeter and incrementMeter are atomic               *)
(* (Machine::mutex_), so a step below is one such call, together with the  *)
(* thread-local work around it; what a handler does between two calls can  *)
(* interleave with the other threads.  Steps that only read what no other  *)
(* thread can change meanwhile are joined with their neighbour.            *)
(*                                                                         *)
(* Amounts are in credits of the accounting denomination (one cent): for   *)
(* every denomination of SASConstants.cpp the code's floating-point        *)
(* conversions are exact.                                                  *)
(***************************************************************************)
EXTENDS Integers

CONSTANTS
  Clients,               \* HTTP client threads
  NoClient,              \* owner of HTTPServer::mutex_ when it is free
  Denoms,                \* denominations of the configured games number 1
  Bills,                 \* bills the player may insert
  CountedBills,          \* those with a METER_n_BILLS_ACCEPTED case
  Transfers,             \* amounts of the host's electronic transfers
  Multipliers,           \* wins, in multiples of the bet
  OpeningCredits,        \* CURRENT_CRD when the threads start
  OpeningRestricted,     \* CURRENT_REST_CRD when the threads start
  OpeningNonRestricted,  \* TOTAL_NONREST_PLAYED when the threads start
  MaxDebit,              \* no bet and no transfer is larger
  MaxInflow              \* bound of the model: credits added in one behaviour

ASSUME ClientsAssumption == NoClient \notin Clients

\* Amounts are positive, a bill's too: what a bill acceptor takes.  POST /bill
\* adds whatever number it is given, a negative one as well.
ASSUME AmountsAssumption ==
  /\ Denoms \subseteq Nat \ {0}
  /\ Bills \subseteq Nat \ {0}
  /\ CountedBills \subseteq Bills
  /\ Transfers \subseteq Nat \ {0}
  /\ Multipliers \subseteq Nat \ {0}
  /\ OpeningCredits \in Nat
  /\ OpeningRestricted \in Nat
  /\ OpeningNonRestricted \in Nat
  /\ MaxDebit \in Nat
  /\ MaxInflow \in Nat
  /\ \A a \in Denoms \cup Transfers : a <= MaxDebit

Cash == "CURRENT_CRD"
Restricted == "CURRENT_REST_CRD"
NonRestricted == "TOTAL_NONREST_PLAYED"

\* The credits a bet can be taken from, and those tried before bucket b.
Buckets == {Restricted, NonRestricted, Cash}
TriedBefore(b) ==
  CASE b = Restricted -> {}
    [] b = NonRestricted -> {Restricted}
    [] b = Cash -> {Restricted, NonRestricted}

\* Meters that only count.  BILLS_ACCEPTED stands for the six meters
\* METER_n_BILLS_ACCEPTED, added up by face value.
CountingMeters ==
  {"COIN_IN", "COIN_OUT", "TOT_DROP", "JACKPOT", "GAMES_PLAYED", "GAMES_WON",
   "GAMES_LOST", "CRD_FR_BILL_ACCEPTOR", "BILLS_ACCEPTED", "AFT_IN", "AFT_OUT"}

MeterCode == Buckets \cup CountingMeters

\* What "Send Total Coin In and Associated Meters" (0x19) stores when polled.
PolledTestValues ==
  [COIN_IN |-> 452040, COIN_OUT |-> 861480, TOT_DROP |-> 413078,
   JACKPOT |-> 634494, GAMES_PLAYED |-> 2062]

VARIABLES
  meters,     \* Machine::machineMeters_
  denom,      \* denomination of Machine::currentGame_
  httpMutex,  \* which client holds HTTPServer::mutex_
  pc,         \* where each client is in its handler
  bucket,     \* where each client's bet is taken from
  amount,     \* win or bill each client is posting (0: none)
  sasPc,      \* where the SAS thread is in its handler
  sasAmount,  \* amount of the transfer it executes
  stake,      \* history: what the bet of each client's game took
  wagered,    \* history: total of the bets taken, by bucket
  won,        \* history: total of the wins credited
  played      \* history: number of bets taken

clientVars == <<denom, httpMutex, pc, bucket, amount>>
sasVars == <<sasPc, sasAmount>>
historyVars == <<stake, wagered, won, played>>
vars == <<meters, clientVars, sasVars, historyVars>>

ClientSteps ==
  {"idle", "deduct", "outcome", "coinOut", "gameWon", "billCount", "billMeter"}
SasSteps == {"idle", "aftInMeter", "aftOutDebit", "aftOutMeter"}

-----------------------------------------------------------------------------

Init ==
  /\ meters = [m \in MeterCode |->
                 CASE m = Cash -> OpeningCredits
                   [] m = Restricted -> OpeningRestricted
                   [] m = NonRestricted -> OpeningNonRestricted
                   [] OTHER -> 0]
  /\ denom \in Denoms
  /\ httpMutex = NoClient
  /\ pc = [c \in Clients |-> "idle"]
  /\ bucket = [c \in Clients |-> Cash]
  /\ amount = [c \in Clients |-> 0]
  /\ sasPc = "idle"
  /\ sasAmount = 0
  /\ stake = [c \in Clients |-> 0]
  /\ wagered = [b \in Buckets |-> 0]
  /\ won = 0
  /\ played = 0

Incremented(m, v) == [meters EXCEPT ![m] = @ + v]

\* Bound of the model: what has come in so far, posted to its meter or won.
WithinInflow(v) ==
  won + meters["CRD_FR_BILL_ACCEPTOR"] + meters["AFT_IN"] + v <= MaxInflow

\* Slip: the mutex of the HTTP server is left out of a handler.
EnterUnlocked(c, next) ==
  /\ pc[c] = "idle"
  /\ httpMutex' = c
  /\ pc' = [pc EXCEPT ![c] = next]

\* A client thread takes the mutex, keeps it from one step to the next, and
\* releases it when its handler returns; its locals go with it.
Enter(c, next) ==
  /\ httpMutex = NoClient
  /\ httpMutex' = c
  /\ pc' = [pc EXCEPT ![c] = next]
Continue(c, here, next) ==
  /\ pc[c] = here
  /\ pc' = [pc EXCEPT ![c] = next]
  /\ UNCHANGED httpMutex
Return(c, here) ==
  /\ pc[c] = here
  /\ pc' = [pc EXCEPT ![c] = "idle"]
  /\ httpMutex' = NoClient
  /\ bucket' = [bucket EXCEPT ![c] = Cash]
  /\ amount' = [amount EXCEPT ![c] = 0]
  /\ stake' = [stake EXCEPT ![c] = 0]

-----------------------------------------------------------------------------
(* POST /play                                                              *)

\* playGameCredit: the first bucket that holds a full bet pays.  When none
\* does, the handler answers "Insufficient credits" and changes nothing.
Play(c) ==
  /\ Enter(c, "deduct")
  /\ \E b \in Buckets :
       /\ meters[b] >= denom
       /\ \A p \in TriedBefore(b) : meters[p] < denom
       /\ bucket' = [bucket EXCEPT ![c] = b]
  /\ UNCHANGED <<meters, denom, amount, sasVars, historyVars>>

\* Slip: the bet is taken from its bucket and from the cash credits as well.
DeductTwice(c) ==
  /\ Continue(c, "deduct", "outcome")
  /\ meters' = [Incremented(bucket[c], -denom) EXCEPT ![Cash] = @ - denom]
  /\ stake' = [stake EXCEPT ![c] = denom]
  /\ wagered' = [wagered EXCEPT ![bucket[c]] = @ + denom]
  /\ played' = played + 1
  /\ UNCHANGED <<denom, bucket, amount, sasVars, won>>

\* ... and the bet is taken from it by a second call.
Deduct(c) ==
  /\ Continue(c, "deduct", "outcome")
  /\ meters' = Incremented(bucket[c], -denom)
  /\ stake' = [stake EXCEPT ![c] = denom]
  /\ wagered' = [wagered EXCEPT ![bucket[c]] = @ + denom]
  /\ played' = played + 1
  /\ UNCHANGED <<denom, bucket, amount, sasVars, won>>

Lose(c) ==
  /\ Return(c, "outcome")
  /\ meters' = Incremented("GAMES_LOST", 1)
  /\ UNCHANGED <<denom, sasVars, wagered, won, played>>

\* A win is a multiple of the denomination of the game current now; addCoinOut
\* credits it and then counts it.
Win(c) ==
  \E k \in Multipliers :
    /\ Continue(c, "outcome", "coinOut")
    /\ WithinInflow(denom * k)
    /\ amount' = [amount EXCEPT ![c] = denom * k]
    /\ meters' = Incremented(Cash, denom * k)
    /\ won' = won + denom * k
    /\ UNCHANGED <<denom, bucket, sasVars, stake, wagered, played>>

CoinOut(c) ==
  /\ Continue(c, "coinOut", "gameWon")
  /\ meters' = Incremented("COIN_OUT", amount[c])
  /\ UNCHANGED <<denom, bucket, amount, sasVars, historyVars>>

GameWon(c) ==
  /\ Return(c, "gameWon")
  /\ meters' = Incremented("GAMES_WON", 1)
  /\ UNCHANGED <<denom, sasVars, wagered, won, played>>

(* POST /denom, accepted: setCurrentGame finds a game number 1 with it.    *)

\* Slip: the handler does not take the mutex.
ChangeDenomUnlocked(c) ==
  /\ pc[c] = "idle"
  /\ denom' \in Denoms
  /\ UNCHANGED <<meters, httpMutex, pc, bucket, amount, sasVars, historyVars>>

ChangeDenom(c) ==
  /\ httpMutex = NoClient
  /\ pc[c] = "idle"
  /\ denom' \in Denoms
  /\ UNCHANGED <<meters, httpMutex, pc, bucket, amount, sasVars, historyVars>>

(* POST /bill: the credits, the count of that bill, the drop meter.        *)

BillInsert(c) ==
  \E v \in Bills :
    /\ Enter(c, "billCount")
    /\ WithinInflow(v)
    /\ amount' = [amount EXCEPT ![c] = v]
    /\ meters' = Incremented(Cash, v)
    /\ UNCHANGED <<denom, bucket, sasVars, historyVars>>

BillCount(c) ==
  /\ Continue(c, "billCount", "billMeter")
  /\ meters' = IF amount[c] \in CountedBills
                 THEN Incremented("BILLS_ACCEPTED", amount[c])
                 ELSE meters
  /\ UNCHANGED <<denom, bucket, amount, sasVars, historyVars>>

\* Slip: only the bills with a counter of their own reach the drop meter.
BillMeterCountedOnly(c) ==
  /\ Return(c, "billMeter")
  /\ meters' = IF amount[c] \in CountedBills
                 THEN Incremented("CRD_FR_BILL_ACCEPTOR", amount[c])
                 ELSE meters
  /\ UNCHANGED <<denom, sasVars, wagered, won, played>>

BillMeter(c) ==
  /\ Return(c, "billMeter")
  /\ meters' = Incremented("CRD_FR_BILL_ACCEPTOR", amount[c])
  /\ UNCHANGED <<denom, sasVars, wagered, won, played>>

-----------------------------------------------------------------------------
(* The SAS thread: the transfers of AFT 0x72 once they are validated (the  *)
(* validation is AftProtocol.tla's), and the 0x19 poll.                    *)

\* executeTransferToMachine
TransferIn ==
  \E v \in Transfers :
    /\ sasPc = "idle"
    /\ WithinInflow(v)
    /\ sasPc' = "aftInMeter"
    /\ sasAmount' = v
    /\ meters' = Incremented(Cash, v)
    /\ UNCHANGED <<clientVars, historyVars>>

AftInMeter ==
  /\ sasPc = "aftInMeter"
  /\ sasPc' = "idle"
  /\ sasAmount' = 0
  /\ meters' = Incremented("AFT_IN", sasAmount)
  /\ UNCHANGED <<clientVars, historyVars>>

\* Slip: the transfer is approved without looking at the credits.
TransferOutUnchecked ==
  \E v \in Transfers :
    /\ sasPc = "idle"
    /\ sasPc' = "aftOutDebit"
    /\ sasAmount' = v
    /\ UNCHANGED <<meters, clientVars, historyVars>>

\* executeTransferFromMachine reads the credits ...
TransferOut ==
  \E v \in Transfers :
    /\ sasPc = "idle"
    /\ meters[Cash] >= v
    /\ sasPc' = "aftOutDebit"
    /\ sasAmount' = v
    /\ UNCHANGED <<meters, clientVars, historyVars>>

\* ... and takes the amount by a second call.
TransferOutDebit ==
  /\ sasPc = "aftOutDebit"
  /\ sasPc' = "aftOutMeter"
  /\ meters' = Incremented(Cash, -sasAmount)
  /\ UNCHANGED <<clientVars, sasAmount, historyVars>>

\* Slip: the amount is counted with the sign it was debited with.
AftOutMeterSigned ==
  /\ sasPc = "aftOutMeter"
  /\ sasPc' = "idle"
  /\ sasAmount' = 0
  /\ meters' = Incremented("AFT_OUT", -sasAmount)
  /\ UNCHANGED <<clientVars, historyVars>>

AftOutMeter ==
  /\ sasPc = "aftOutMeter"
  /\ sasPc' = "idle"
  /\ sasAmount' = 0
  /\ meters' = Incremented("AFT_OUT", sasAmount)
  /\ UNCHANGED <<clientVars, historyVars>>

\* The five setMeter calls of handleSendTotalCoinInAndMeters.  Of the five
\* meters only COIN_OUT is written by another thread, so they can all be taken
\* at the moment that one is stored.
PollCoinIn ==
  /\ sasPc = "idle"
  /\ meters' = [m \in MeterCode |->
                  IF m \in DOMAIN PolledTestValues THEN PolledTestValues[m]
                                                   ELSE meters[m]]
  /\ UNCHANGED <<clientVars, sasVars, historyVars>>

-----------------------------------------------------------------------------

ClientStep(c) ==
  \/ Play(c) \/ Deduct(c) \/ Lose(c) \/ Win(c) \/ CoinOut(c) \/ GameWon(c)
  \/ ChangeDenom(c)
  \/ BillInsert(c) \/ BillCount(c) \/ BillMeter(c)

SasStep ==
  \/ TransferIn \/ AftInMeter
  \/ TransferOut \/ TransferOutDebit \/ AftOutMeter
  \/ PollCoinIn

Next == (\E c \in Clients : ClientStep(c)) \/ SasStep

Spec == Init /\ [][Next]_vars

-----------------------------------------------------------------------------
(* What is on its way between two calls of one handler.                    *)

\* Credits of bucket b that a client has found there and not yet taken.
PendingBet(b) ==
  IF httpMutex \in Clients /\ pc[httpMutex] = "deduct" /\ bucket[httpMutex] = b
    THEN denom ELSE 0

\* Cash credits that the SAS thread has found there and not yet taken.
PendingTransfer == IF sasPc = "aftOutDebit" THEN sasAmount ELSE 0

\* Movements already made on the credit meter and not yet on the other meter.
UnmeteredBill ==
  IF httpMutex \in Clients /\ pc[httpMutex] \in {"billCount", "billMeter"}
    THEN amount[httpMutex] ELSE 0
UnmeteredIn == IF sasPc = "aftInMeter" THEN sasAmount ELSE 0
UnmeteredOut == IF sasPc = "aftOutMeter" THEN sasAmount ELSE 0

AtRest == httpMutex = NoClient /\ sasPc = "idle"

(* Properties                                                              *)

\* Types.  The counting meters never hold a negative number: the polls encode
\* them as unsigned BCD.
TypeOK ==
  /\ meters \in [MeterCode -> Int]
  /\ \A m \in CountingMeters : meters[m] \in Nat
  /\ denom \in Denoms
  /\ httpMutex \in Clients \cup {NoClient}
  /\ pc \in [Clients -> ClientSteps]
  /\ bucket \in [Clients -> Buckets]
  /\ amount \in [Clients -> Nat]
  /\ sasPc \in SasSteps
  /\ sasAmount \in Nat
  /\ stake \in [Clients -> Nat]
  /\ wagered \in [Buckets -> Nat]
  /\ won \in Nat
  /\ played \in Nat

\* A player and the host can both be approved on the same credits (the check
\* and the debit are separate calls of two threads), but whatever they do the
\* cash meter goes no further below zero than one debit, and the promotional
\* credits, which only the holder of the HTTP mutex spends, are never overdrawn.
OverdraftBounded ==
  /\ meters[Cash] >= -MaxDebit
  /\ meters[Restricted] >= 0
  /\ meters[NonRestricted] >= 0

\* The auditor's equation.  Whenever no handler is under way, the meters alone
\* account for every credit: what there was, plus wins, bills and transfers in,
\* less bets and transfers out; no interleaving of the two threads loses an
\* update.  The counted bills are never worth more than the drop.
AuditedAtRest ==
  AtRest =>
    /\ meters[Cash] = OpeningCredits + won - wagered[Cash]
                      + meters["CRD_FR_BILL_ACCEPTOR"]
                      + meters["AFT_IN"] - meters["AFT_OUT"]
    /\ meters[Restricted] = OpeningRestricted - wagered[Restricted]
    /\ meters[NonRestricted] = OpeningNonRestricted - wagered[NonRestricted]
    /\ meters["BILLS_ACCEPTED"] <= meters["CRD_FR_BILL_ACCEPTOR"]

\* handlePOST_Play reads the game twice, once to take the bet and once to pay
\* the win, and a client may ask for another denomination at any time: still
\* every win credited is a multiple of the bet that was taken for it.
WinMatchesBet ==
  \A c \in Clients :
    pc[c] = "coinOut" => \E k \in Multipliers : amount[c] = k * stake[c]

\* Every bet taken is settled once, as a game won or a game lost; only the one
\* in play is open.  (0x17 "games lost" is computed from GAMES_PLAYED, which
\* POST /play does not count; this is about the meters it does count.)
PlaysSettledOnce ==
  played = meters["GAMES_WON"] + meters["GAMES_LOST"]
           + IF \E c \in Clients : pc[c] \in {"outcome", "coinOut", "gameWon"}
               THEN 1 ELSE 0

\* The credit meter as an account: seen from outside, each bet, win, bill and
\* transfer is one movement of one balance.
AccountOfCredits ==
  INSTANCE Account WITH
    Opening <- OpeningCredits,
    Overdraft <- MaxDebit,
    balance <- meters[Cash],
    deposited <- won + meters["CRD_FR_BILL_ACCEPTOR"] + UnmeteredBill
                 + meters["AFT_IN"] + UnmeteredIn,
    withdrawn <- wagered[Cash] + meters["AFT_OUT"] + UnmeteredOut

\* The meters and threads implement that account.
ImplementsAccount == AccountOfCredits!AccountSpec

\* AFTCommands.cpp:474 "Check if machine has sufficient credits" before a
\* transfer out, Machine.cpp before a bet: with both checked, the credits would
\* never be negative.
NeverOverdrawn == meters[Cash] >= 0

-----------------------------------------------------------------------------
(* The inductive strengthenings, proved in CreditMeter_proof.tla.          *)

\* A client is inside a handler exactly while it holds the mutex.
MutexOwned == \A c \in Clients : pc[c] # "idle" <=> httpMutex = c

\* What has been approved is still there, the overdraft aside.
DebitsCovered ==
  /\ meters[Cash] - PendingBet(Cash) - PendingTransfer >= -MaxDebit
  /\ meters[Restricted] >= PendingBet(Restricted)
  /\ meters[NonRestricted] >= PendingBet(NonRestricted)
  /\ PendingTransfer <= MaxDebit

\* The auditor's equation at every moment, with what is under way.
CreditsAccounted ==
  /\ meters[Cash] = OpeningCredits + won - wagered[Cash]
                    + meters["CRD_FR_BILL_ACCEPTOR"] + UnmeteredBill
                    + meters["AFT_IN"] + UnmeteredIn
                    - meters["AFT_OUT"] - UnmeteredOut
  /\ meters[Restricted] = OpeningRestricted - wagered[Restricted]
  /\ meters[NonRestricted] = OpeningNonRestricted - wagered[NonRestricted]

\* Between its count and its posting a bill is in one meter and not the other.
BillsCounted ==
  meters["BILLS_ACCEPTED"] <=
    meters["CRD_FR_BILL_ACCEPTOR"]
    + IF httpMutex \in Clients /\ pc[httpMutex] = "billMeter"
        THEN amount[httpMutex] ELSE 0

\* The game whose bet was taken stays the current one until its win is paid.
BetInPlay ==
  \A c \in Clients : pc[c] = "outcome" => stake[c] = denom

IInv ==
  /\ MutexOwned
  /\ DebitsCovered
  /\ CreditsAccounted
  /\ BillsCounted
  /\ BetInPlay
  /\ WinMatchesBet
  /\ PlaysSettledOnce

=============================================================================
