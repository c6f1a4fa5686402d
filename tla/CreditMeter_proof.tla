------------------------- MODULE CreditMeter_proof --------------------------
(***************************************************************************)
(* Proofs about CreditMeter for every number of clients, every set of      *)
(* denominations, bills and transfers and every opening balance.           *)
(***************************************************************************)
EXTENDS CreditMeter, TLAPS

USE DEF Cash, Restricted, NonRestricted

-----------------------------------------------------------------------------
(* Types                                                                   *)

\* The meters stay well typed when a counting meter goes up, and when the
\* credits of a bucket go either way.
LEMMA CountTyped ==
  ASSUME TypeOK, NEW m \in CountingMeters, NEW v \in Nat
  PROVE  /\ Incremented(m, v) \in [MeterCode -> Int]
         /\ \A k \in CountingMeters : Incremented(m, v)[k] \in Nat
BY DEF TypeOK, Incremented, MeterCode

\* Crediting or debiting a bucket may leave any integer in it, and touches no
\* counting meter.
LEMMA CreditTyped ==
  ASSUME TypeOK, NEW b \in Buckets, NEW v \in Int
  PROVE  /\ Incremented(b, v) \in [MeterCode -> Int]
         /\ \A k \in CountingMeters : Incremented(b, v)[k] \in Nat
<1>1. b \in MeterCode /\ b \notin CountingMeters
  BY DEF MeterCode, Buckets, CountingMeters
<1>. QED
  BY <1>1 DEF TypeOK, Incremented, MeterCode

\* Every step of a client keeps the types: amounts are never negative, and the
\* counting meters only go up.
LEMMA ClientTyped ==
  ASSUME TypeOK, NEW c \in Clients, ClientStep(c)
  PROVE  TypeOK'
<1> USE AmountsAssumption, ClientsAssumption
<1> DEFINE Metered == /\ meters' \in [MeterCode -> Int]
                      /\ \A k \in CountingMeters : meters'[k] \in Nat
<1>1. CASE Play(c)
  BY <1>1 DEF Play, Enter, TypeOK, ClientSteps, sasVars, historyVars
<1>2. CASE Deduct(c)
  <2>1. bucket[c] \in Buckets /\ -denom \in Int
    BY DEF TypeOK
  <2>2. Metered
    BY <1>2, <2>1, CreditTyped DEF Deduct, TypeOK
  <2>. QED
    BY <1>2, <2>1, <2>2
    DEF Deduct, Continue, TypeOK, ClientSteps, sasVars
<1>3. CASE Lose(c)
  <2>1. Metered
    BY <1>3, CountTyped DEF Lose, CountingMeters
  <2>. QED
    BY <1>3, <2>1 DEF Lose, Return, TypeOK, ClientSteps, Buckets, sasVars
<1>4. CASE Win(c)
  <2>1. PICK k \in Multipliers :
          /\ Continue(c, "outcome", "coinOut")
          /\ amount' = [amount EXCEPT ![c] = denom * k]
          /\ meters' = Incremented(Cash, denom * k)
          /\ won' = won + denom * k
          /\ UNCHANGED <<denom, bucket, sasVars, stake, wagered, played>>
    BY <1>4 DEF Win
  <2>2. denom * k \in Nat
    <3>1. denom \in Nat /\ k \in Nat
      BY DEF TypeOK
    <3>. QED BY <3>1
  <2>3. Metered
    BY <2>1, <2>2, CreditTyped DEF Buckets
  <2>. QED
    BY <2>1, <2>2, <2>3 DEF Continue, TypeOK, ClientSteps, sasVars
<1>5. CASE CoinOut(c)
  <2>1. Metered
    BY <1>5, CountTyped DEF CoinOut, TypeOK, CountingMeters
  <2>. QED
    BY <1>5, <2>1
    DEF CoinOut, Continue, TypeOK, ClientSteps, sasVars, historyVars
<1>6. CASE GameWon(c)
  <2>1. Metered
    BY <1>6, CountTyped DEF GameWon, CountingMeters
  <2>. QED
    BY <1>6, <2>1 DEF GameWon, Return, TypeOK, ClientSteps, Buckets, sasVars
<1>7. CASE ChangeDenom(c)
  BY <1>7 DEF ChangeDenom, TypeOK, sasVars, historyVars
<1>8. CASE BillInsert(c)
  <2>1. PICK v \in Bills :
          /\ Enter(c, "billCount")
          /\ amount' = [amount EXCEPT ![c] = v]
          /\ meters' = Incremented(Cash, v)
          /\ UNCHANGED <<denom, bucket, sasVars, historyVars>>
    BY <1>8 DEF BillInsert
  <2>2. Metered
    BY <2>1, CreditTyped DEF Buckets
  <2>. QED
    BY <2>1, <2>2 DEF Enter, TypeOK, ClientSteps, sasVars, historyVars
<1>9. CASE BillCount(c)
  <2>1. Metered
    BY <1>9, CountTyped DEF BillCount, TypeOK, CountingMeters
  <2>. QED
    BY <1>9, <2>1
    DEF BillCount, Continue, TypeOK, ClientSteps, sasVars, historyVars
<1>10. CASE BillMeter(c)
  <2>1. Metered
    BY <1>10, CountTyped DEF BillMeter, TypeOK, CountingMeters
  <2>. QED
    BY <1>10, <2>1
    DEF BillMeter, Return, TypeOK, ClientSteps, Buckets, sasVars
<1>. QED
  BY <1>1, <1>2, <1>3, <1>4, <1>5, <1>6, <1>7, <1>8, <1>9, <1>10 DEF ClientStep

\* Every step of the SAS thread keeps the types.
LEMMA SasTyped ==
  ASSUME TypeOK, SasStep
  PROVE  TypeOK'
<1> USE AmountsAssumption
<1> DEFINE Metered == /\ meters' \in [MeterCode -> Int]
                      /\ \A k \in CountingMeters : meters'[k] \in Nat
<1>1. CASE TransferIn
  <2>1. PICK v \in Transfers : /\ sasPc' = "aftInMeter"
                               /\ sasAmount' = v
                               /\ meters' = Incremented(Cash, v)
                               /\ UNCHANGED <<clientVars, historyVars>>
    BY <1>1 DEF TransferIn
  <2>2. Metered
    BY <2>1, CreditTyped DEF Buckets
  <2>. QED
    BY <2>1, <2>2 DEF TypeOK, SasSteps, clientVars, historyVars
<1>2. CASE AftInMeter
  <2>1. Metered
    BY <1>2, CountTyped DEF AftInMeter, TypeOK, CountingMeters
  <2>. QED
    BY <1>2, <2>1 DEF AftInMeter, TypeOK, SasSteps, clientVars, historyVars
<1>3. CASE TransferOut
  BY <1>3 DEF TransferOut, TypeOK, SasSteps, clientVars, historyVars
<1>4. CASE TransferOutDebit
  <2>1. Metered
    BY <1>4, CreditTyped
    DEF TransferOutDebit, TypeOK, Buckets
  <2>. QED
    BY <1>4, <2>1 DEF TransferOutDebit, TypeOK, SasSteps, clientVars, historyVars
<1>5. CASE AftOutMeter
  <2>1. Metered
    BY <1>5, CountTyped DEF AftOutMeter, TypeOK, CountingMeters
  <2>. QED
    BY <1>5, <2>1 DEF AftOutMeter, TypeOK, SasSteps, clientVars, historyVars
<1>6. CASE PollCoinIn
  <2>1. Metered
    BY <1>6 DEF PollCoinIn, PolledTestValues, MeterCode, CountingMeters, TypeOK
  <2>. QED
    BY <1>6, <2>1 DEF PollCoinIn, TypeOK, clientVars, sasVars, historyVars
<1>. QED
  BY <1>1, <1>2, <1>3, <1>4, <1>5, <1>6 DEF SasStep

\* The meters and the threads' locals always have their types.
THEOREM TypeCorrect == Spec => []TypeOK
<1>1. Init => TypeOK
  BY AmountsAssumption, ClientsAssumption
  DEF Init, TypeOK, MeterCode, Buckets, CountingMeters, ClientSteps, SasSteps
<1>2. TypeOK /\ [Next]_vars => TypeOK'
  <2>. SUFFICES ASSUME TypeOK, [Next]_vars PROVE TypeOK'
    OBVIOUS
  <2>1. CASE UNCHANGED vars
    BY <2>1 DEF vars, clientVars, sasVars, historyVars, TypeOK
  <2>. QED
    BY <2>1, ClientTyped, SasTyped DEF Next
<1>. QED
  BY <1>1, <1>2, PTL DEF Spec

-----------------------------------------------------------------------------
(* What one call of incrementMeter does to the meters                      *)

Posts(m, v) ==
  \A k \in MeterCode : meters'[k] = IF k = m THEN meters[k] + v ELSE meters[k]

\* incrementMeter changes the meter it names and no other.
LEMMA Posting ==
  ASSUME TypeOK, NEW m \in MeterCode, NEW v \in Int, meters' = Incremented(m, v)
  PROVE  Posts(m, v)
BY DEF TypeOK, Incremented, Posts

\* The meters the invariants speak of are meters of the machine.
LEMMA Codes ==
  /\ {Cash, Restricted, NonRestricted} \subseteq MeterCode
  /\ {"GAMES_WON", "GAMES_LOST", "COIN_OUT", "CRD_FR_BILL_ACCEPTOR",
      "BILLS_ACCEPTED", "AFT_IN", "AFT_OUT"} \subseteq MeterCode
BY DEF MeterCode, Buckets, CountingMeters

\* The terms of the invariants are numbers.
LEMMA Numbers ==
  ASSUME TypeOK
  PROVE  /\ \A m \in MeterCode : meters[m] \in Int
         /\ wagered[Cash] \in Int
         /\ wagered[Restricted] \in Int
         /\ wagered[NonRestricted] \in Int
         /\ won \in Int /\ played \in Int /\ sasAmount \in Nat
         /\ denom \in Nat /\ denom <= MaxDebit
         /\ PendingTransfer \in Nat
         /\ \A b \in Buckets : PendingBet(b) \in 0..MaxDebit
         /\ UnmeteredBill \in Nat /\ UnmeteredIn \in Nat /\ UnmeteredOut \in Nat
         /\ OpeningCredits \in Nat /\ OpeningRestricted \in Nat
         /\ OpeningNonRestricted \in Nat
<1>1. denom \in Nat /\ denom <= MaxDebit /\ MaxDebit \in Nat
  BY AmountsAssumption DEF TypeOK
<1>2. /\ PendingTransfer \in Nat
      /\ \A b \in Buckets : PendingBet(b) \in 0..MaxDebit
  BY <1>1 DEF TypeOK, PendingTransfer, PendingBet
<1>3. UnmeteredBill \in Nat /\ UnmeteredIn \in Nat /\ UnmeteredOut \in Nat
  BY DEF TypeOK, UnmeteredBill, UnmeteredIn, UnmeteredOut
<1>. QED
  BY <1>1, <1>2, <1>3, AmountsAssumption DEF TypeOK, Buckets

-----------------------------------------------------------------------------
(* The inductive invariant                                                 *)

\* When the threads start nothing is under way and the books balance.
LEMMA InitInvariant == Init => IInv
<1>. SUFFICES ASSUME Init PROVE IInv
  OBVIOUS
<1>1. \A m \in MeterCode : meters[m] = CASE m = Cash -> OpeningCredits
                                        [] m = Restricted -> OpeningRestricted
                                        [] m = NonRestricted -> OpeningNonRestricted
                                        [] OTHER -> 0
  BY DEF Init
<1>2. /\ meters[Cash] = OpeningCredits
      /\ meters[Restricted] = OpeningRestricted
      /\ meters[NonRestricted] = OpeningNonRestricted
      /\ meters["CRD_FR_BILL_ACCEPTOR"] = 0 /\ meters["BILLS_ACCEPTED"] = 0
      /\ meters["AFT_IN"] = 0 /\ meters["AFT_OUT"] = 0
      /\ meters["GAMES_WON"] = 0 /\ meters["GAMES_LOST"] = 0
  BY <1>1, Codes
<1>3. /\ wagered[Cash] = 0 /\ wagered[Restricted] = 0 /\ wagered[NonRestricted] = 0
  BY DEF Init, Buckets
<1>4. MutexOwned /\ BetInPlay /\ WinMatchesBet
  BY ClientsAssumption DEF Init, MutexOwned, BetInPlay, WinMatchesBet
<1>5. DebitsCovered
  BY <1>2, ClientsAssumption, AmountsAssumption
  DEF Init, DebitsCovered, PendingBet, PendingTransfer
<1>6. CreditsAccounted /\ BillsCounted
  BY <1>2, <1>3, ClientsAssumption, AmountsAssumption
  DEF Init, CreditsAccounted, BillsCounted, UnmeteredBill, UnmeteredIn, UnmeteredOut
<1>7. PlaysSettledOnce
  BY <1>2 DEF Init, PlaysSettledOnce
<1>. QED
  BY <1>4, <1>5, <1>6, <1>7 DEF IInv

\* Every step of the SAS thread preserves the invariant: it cannot disturb what
\* the clients have under way.
LEMMA SasPreserves ==
  ASSUME TypeOK, IInv, SasStep
  PROVE  IInv'
<1> USE Codes
<1>1. /\ UNCHANGED <<clientVars, historyVars>>
      /\ MutexOwned' /\ BetInPlay' /\ WinMatchesBet'
      /\ \A b \in Buckets : PendingBet(b)' = PendingBet(b)
      /\ UnmeteredBill' = UnmeteredBill
  <2>1. UNCHANGED <<clientVars, historyVars>>
    BY DEF SasStep, TransferIn, AftInMeter, TransferOut, TransferOutDebit,
           AftOutMeter, PollCoinIn
  <2>. QED
    BY <2>1
    DEF IInv, MutexOwned, BetInPlay, WinMatchesBet, PendingBet, UnmeteredBill,
        clientVars, historyVars
<1>2. DebitsCovered'
  <2> USE <1>1, Numbers, AmountsAssumption DEF IInv, DebitsCovered, Buckets, PendingTransfer
  <2>1. CASE TransferIn
    <3>1. PICK v \in Transfers : /\ sasPc = "idle" /\ sasPc' = "aftInMeter"
                                 /\ meters' = Incremented(Cash, v)
      BY <2>1 DEF TransferIn
    <3>. QED BY <3>1, Posting DEF Posts
  <2>2. CASE AftInMeter
    BY <2>2, Posting DEF AftInMeter, Posts
  <2>3. CASE TransferOut
    BY <2>3 DEF TransferOut
  <2>4. CASE TransferOutDebit
    BY <2>4, Posting DEF TransferOutDebit, Posts
  <2>5. CASE AftOutMeter
    BY <2>5, Posting DEF AftOutMeter, Posts
  <2>6. CASE PollCoinIn
    BY <2>6 DEF PollCoinIn, PolledTestValues, sasVars
  <2>. QED
    BY <2>1, <2>2, <2>3, <2>4, <2>5, <2>6 DEF SasStep
<1>3. CreditsAccounted'
  <2> USE <1>1, Numbers
      DEF CreditsAccounted, UnmeteredIn, UnmeteredOut, historyVars
  <2>0. CreditsAccounted
    BY DEF IInv
  <2>1. CASE TransferIn
    <3>1. PICK v \in Transfers : /\ sasPc = "idle" /\ sasPc' = "aftInMeter"
                                 /\ sasAmount' = v
                                 /\ meters' = Incremented(Cash, v)
      BY <2>1 DEF TransferIn
    <3>2. v \in Nat
      BY AmountsAssumption
    <3>3. Posts(Cash, v)
      BY <3>1, <3>2, Posting
    <3>. QED BY <2>0, <3>1, <3>2, <3>3 DEF Posts
  <2>2. CASE AftInMeter
    <3>1. Posts("AFT_IN", sasAmount)
      BY <2>2, Posting DEF AftInMeter
    <3>. QED BY <2>0, <2>2, <3>1 DEF AftInMeter, Posts
  <2>3. CASE TransferOut
    BY <2>0, <2>3 DEF TransferOut
  <2>4. CASE TransferOutDebit
    <3>1. Posts(Cash, -sasAmount)
      BY <2>4, Posting DEF TransferOutDebit
    <3>. QED BY <2>0, <2>4, <3>1 DEF TransferOutDebit, Posts
  <2>5. CASE AftOutMeter
    <3>1. Posts("AFT_OUT", sasAmount)
      BY <2>5, Posting DEF AftOutMeter
    <3>. QED BY <2>0, <2>5, <3>1 DEF AftOutMeter, Posts
  <2>6. CASE PollCoinIn
    BY <2>0, <2>6 DEF PollCoinIn, PolledTestValues, sasVars
  <2>. QED
    BY <2>1, <2>2, <2>3, <2>4, <2>5, <2>6 DEF SasStep
\* No transfer and no poll touches the bill meters or the game counts.
<1>4. BillsCounted' /\ PlaysSettledOnce'
  <2>1. \A m \in {"CRD_FR_BILL_ACCEPTOR", "BILLS_ACCEPTED", "GAMES_WON", "GAMES_LOST"} :
          meters'[m] = meters[m]
    <3>1. CASE \E m \in {Cash, "AFT_IN", "AFT_OUT"}, v \in Int :
                 meters' = Incremented(m, v)
      BY <3>1, Posting DEF Posts
    <3>2. CASE meters' = meters
      BY <3>2
    <3>3. CASE PollCoinIn
      BY <3>3 DEF PollCoinIn, PolledTestValues
    <3>. QED
      BY <3>1, <3>2, <3>3, Numbers, AmountsAssumption
      DEF SasStep, TransferIn, AftInMeter, TransferOut, TransferOutDebit, AftOutMeter
  <2>. QED
    BY <1>1, <2>1
    DEF IInv, BillsCounted, PlaysSettledOnce, clientVars, historyVars
<1>. QED
  BY <1>1, <1>2, <1>3, <1>4 DEF IInv

\* The owner of the mutex is the only client inside a handler.
LEMMA Holding ==
  ASSUME TypeOK, MutexOwned, NEW c \in Clients, pc[c] # "idle"
  PROVE  httpMutex = c /\ \A d \in Clients \ {c} : pc[d] = "idle"
BY DEF TypeOK, MutexOwned

\* Every step of a client leaves the SAS thread's transfer as it is.
LEMMA ClientsLeaveSas ==
  ASSUME NEW c \in Clients, ClientStep(c)
  PROVE  /\ PendingTransfer' = PendingTransfer
         /\ UnmeteredIn' = UnmeteredIn /\ UnmeteredOut' = UnmeteredOut
<1>1. UNCHANGED sasVars
  BY DEF ClientStep, Play, Deduct, Lose, Win, CoinOut, GameWon, ChangeDenom,
         BillInsert, BillCount, BillMeter
<1>. QED
  BY <1>1 DEF sasVars, PendingTransfer, UnmeteredIn, UnmeteredOut

\* Entering, continuing and leaving a handler keep the ownership of the mutex.
LEMMA OwnershipKept ==
  ASSUME TypeOK, MutexOwned, NEW c \in Clients, ClientStep(c)
  PROVE  MutexOwned'
<1> USE ClientsAssumption DEF MutexOwned, TypeOK
<1>1. CASE Play(c) \/ BillInsert(c)
  BY <1>1 DEF Play, BillInsert, Enter
<1>2. CASE Deduct(c) \/ Win(c) \/ CoinOut(c) \/ BillCount(c)
  BY <1>2 DEF Deduct, Win, CoinOut, BillCount, Continue
<1>3. CASE Lose(c) \/ GameWon(c) \/ BillMeter(c)
  BY <1>3 DEF Lose, GameWon, BillMeter, Return
<1>4. CASE ChangeDenom(c)
  BY <1>4 DEF ChangeDenom
<1>. QED
  BY <1>1, <1>2, <1>3, <1>4 DEF ClientStep

\* A bet is approved only when the bucket holds it, and nobody but the holder of
\* the mutex spends from a bucket except the transfer already approved.
LEMMA ClientDebits ==
  ASSUME TypeOK, IInv, NEW c \in Clients, ClientStep(c)
  PROVE  DebitsCovered'
<1> USE Codes, ClientsLeaveSas, Numbers
<1>0. DebitsCovered /\ MaxDebit \in Nat
  BY AmountsAssumption DEF IInv
<1>1. CASE Play(c)
  <2>1. PICK b \in Buckets : /\ meters[b] >= denom
                             /\ bucket' = [bucket EXCEPT ![c] = b]
    BY <1>1 DEF Play
  <2>2. \A k \in Buckets : /\ PendingBet(k) = 0
                           /\ PendingBet(k)' = IF k = b THEN denom ELSE 0
    BY <1>1, <2>1, ClientsAssumption DEF Play, Enter, PendingBet, TypeOK
  <2>. QED
    BY <1>0, <1>1, <2>1, <2>2 DEF Play, DebitsCovered, Buckets
<1>2. CASE Deduct(c)
  <2>1. \A k \in Buckets : /\ PendingBet(k) = IF k = bucket[c] THEN denom ELSE 0
                           /\ PendingBet(k)' = 0
    BY <1>2, Holding DEF IInv, Deduct, Continue, PendingBet, TypeOK
  <2>2. bucket[c] \in Buckets /\ Posts(bucket[c], -denom)
    BY <1>2, Posting DEF Deduct, TypeOK, Buckets
  <2>. QED
    BY <1>0, <2>1, <2>2 DEF DebitsCovered, Buckets, Posts
<1>3. CASE ChangeDenom(c)
  <2>1. \A k \in Buckets : PendingBet(k) = 0 /\ PendingBet(k)' = 0
    BY <1>3, ClientsAssumption DEF ChangeDenom, PendingBet
  <2>. QED
    BY <1>0, <1>3, <2>1 DEF ChangeDenom, DebitsCovered, Buckets
\* No other step has a bet pending, before or after, or takes credits.
<1>4. ASSUME \A k \in Buckets : PendingBet(k) = 0 /\ PendingBet(k)' = 0,
             \A k \in Buckets : meters'[k] >= meters[k] /\ meters'[k] \in Int
      PROVE  DebitsCovered'
  BY <1>0, <1>4 DEF DebitsCovered, Buckets
<1>5. CASE BillInsert(c)
  <2>1. PICK v \in Bills : meters' = Incremented(Cash, v)
    BY <1>5 DEF BillInsert
  <2>2. v \in Nat /\ Posts(Cash, v)
    BY <2>1, Posting, AmountsAssumption
  <2>3. \A k \in Buckets : PendingBet(k) = 0 /\ PendingBet(k)' = 0
    BY <1>5, ClientsAssumption DEF BillInsert, Enter, PendingBet, TypeOK
  <2>. QED
    BY <1>4, <2>2, <2>3 DEF Posts, Buckets
<1>6. CASE Win(c)
  <2>1. PICK k \in Multipliers : meters' = Incremented(Cash, denom * k)
    BY <1>6 DEF Win
  <2>2. denom * k \in Nat
    BY AmountsAssumption DEF TypeOK
  <2>3. Posts(Cash, denom * k)
    BY <2>1, <2>2, Posting
  <2>4. \A b \in Buckets : PendingBet(b) = 0 /\ PendingBet(b)' = 0
    BY <1>6, Holding DEF IInv, Win, Continue, PendingBet, TypeOK
  <2>. QED
    BY <1>4, <2>2, <2>3, <2>4 DEF Posts, Buckets
<1>7. CASE Lose(c) \/ GameWon(c) \/ BillMeter(c)
  <2>1. \A k \in Buckets : PendingBet(k) = 0 /\ PendingBet(k)' = 0
    BY <1>7, Holding, ClientsAssumption
    DEF IInv, Lose, GameWon, BillMeter, Return, PendingBet, TypeOK
  <2>2. \A k \in Buckets : meters'[k] = meters[k]
    BY <1>7, Posting DEF Lose, GameWon, BillMeter, Posts, Buckets, TypeOK
  <2>. QED
    BY <1>4, <2>1, <2>2 DEF Buckets
<1>8. CASE CoinOut(c) \/ BillCount(c)
  <2>1. \A k \in Buckets : PendingBet(k) = 0 /\ PendingBet(k)' = 0
    BY <1>8, Holding DEF IInv, CoinOut, BillCount, Continue, PendingBet, TypeOK
  <2>2. \A k \in Buckets : meters'[k] = meters[k]
    BY <1>8, Posting DEF CoinOut, BillCount, Posts, Buckets, TypeOK
  <2>. QED
    BY <1>4, <2>1, <2>2 DEF Buckets
<1>. QED
  BY <1>1, <1>2, <1>3, <1>5, <1>6, <1>7, <1>8 DEF ClientStep

\* Every credit a client moves is accounted for: at once by the history of bets
\* and wins, or by the bill it still has to post.
LEMMA ClientAccounting ==
  ASSUME TypeOK, IInv, NEW c \in Clients, ClientStep(c)
  PROVE  CreditsAccounted' /\ BillsCounted'
<1> USE Codes, ClientsLeaveSas, Numbers
<1>0. CreditsAccounted /\ BillsCounted /\ MutexOwned
  BY DEF IInv
<1> DEFINE Unposted == IF httpMutex \in Clients /\ pc[httpMutex] = "billMeter"
                         THEN amount[httpMutex] ELSE 0
<1>1. CASE Play(c)
  <2>1. /\ UnmeteredBill = 0 /\ UnmeteredBill' = 0
        /\ Unposted = 0 /\ Unposted' = 0
    BY <1>1, ClientsAssumption DEF Play, Enter, UnmeteredBill, TypeOK
  <2>. QED
    BY <1>0, <1>1, <2>1 DEF Play, CreditsAccounted, BillsCounted, historyVars
<1>2. CASE Deduct(c)
  <2>1. bucket[c] \in Buckets /\ Posts(bucket[c], -denom)
    BY <1>2, Posting DEF Deduct, TypeOK, Buckets
  <2>2. \A b \in Buckets :
          wagered'[b] = IF b = bucket[c] THEN wagered[b] + denom ELSE wagered[b]
    BY <1>2 DEF Deduct, TypeOK
  <2>3. /\ UnmeteredBill = 0 /\ UnmeteredBill' = 0
        /\ Unposted = 0 /\ Unposted' = 0
    BY <1>0, <1>2, Holding DEF Deduct, Continue, UnmeteredBill, TypeOK
  <2>4. won' = won
    BY <1>2 DEF Deduct
  <2>. QED
    BY <1>0, <2>1, <2>2, <2>3, <2>4 DEF CreditsAccounted, BillsCounted, Posts, Buckets
<1>3. CASE Win(c)
  <2>1. PICK k \in Multipliers : /\ meters' = Incremented(Cash, denom * k)
                                 /\ won' = won + denom * k
    BY <1>3 DEF Win
  <2>2. denom * k \in Nat
    BY AmountsAssumption DEF TypeOK
  <2>3. Posts(Cash, denom * k)
    BY <2>1, <2>2, Posting
  <2>4. /\ UnmeteredBill = 0 /\ UnmeteredBill' = 0
        /\ Unposted = 0 /\ Unposted' = 0 /\ wagered' = wagered
    BY <1>0, <1>3, Holding DEF Win, Continue, UnmeteredBill, TypeOK
  <2>. QED
    BY <1>0, <2>1, <2>2, <2>3, <2>4 DEF CreditsAccounted, BillsCounted, Posts
<1>4. CASE ChangeDenom(c)
  <2>1. /\ UnmeteredBill' = UnmeteredBill /\ Unposted' = Unposted
        /\ UNCHANGED <<meters, wagered, won>>
    BY <1>4 DEF ChangeDenom, UnmeteredBill, historyVars
  <2>. QED
    BY <1>0, <2>1 DEF CreditsAccounted, BillsCounted
<1>5. CASE BillInsert(c)
  <2>1. PICK v \in Bills : /\ Enter(c, "billCount")
                           /\ amount' = [amount EXCEPT ![c] = v]
                           /\ meters' = Incremented(Cash, v)
                           /\ UNCHANGED historyVars
    BY <1>5 DEF BillInsert
  <2>2. v \in Nat /\ Posts(Cash, v)
    BY <2>1, Posting, AmountsAssumption
  <2>3. /\ UnmeteredBill = 0 /\ UnmeteredBill' = v
        /\ Unposted = 0 /\ Unposted' = 0
    BY <2>1, ClientsAssumption DEF Enter, UnmeteredBill, TypeOK
  <2>4. UNCHANGED <<wagered, won>>
    BY <2>1 DEF historyVars
  <2>. QED
    BY <1>0, <2>2, <2>3, <2>4 DEF CreditsAccounted, BillsCounted, Posts
<1>6. CASE BillCount(c)
  <2>1. /\ UnmeteredBill = amount[c] /\ UnmeteredBill' = amount[c]
        /\ Unposted = 0 /\ Unposted' = amount[c]
        /\ amount[c] \in Nat
    BY <1>0, <1>6, Holding DEF BillCount, Continue, UnmeteredBill, TypeOK
  <2>2. Posts("BILLS_ACCEPTED", amount[c]) \/ meters' = meters
    BY <1>6, <2>1, Posting DEF BillCount
  <2>3. UNCHANGED <<wagered, won>>
    BY <1>6 DEF BillCount, historyVars
  <2>. QED
    BY <1>0, <2>1, <2>2, <2>3 DEF CreditsAccounted, BillsCounted, Posts
<1>7. CASE BillMeter(c)
  <2>1. /\ UnmeteredBill = amount[c] /\ UnmeteredBill' = 0
        /\ Unposted = amount[c] /\ Unposted' = 0
        /\ amount[c] \in Nat
    BY <1>0, <1>7, Holding, ClientsAssumption
    DEF BillMeter, Return, UnmeteredBill, TypeOK
  <2>2. Posts("CRD_FR_BILL_ACCEPTOR", amount[c])
    BY <1>7, <2>1, Posting DEF BillMeter
  <2>3. UNCHANGED <<wagered, won>>
    BY <1>7 DEF BillMeter
  <2>. QED
    BY <1>0, <2>1, <2>2, <2>3 DEF CreditsAccounted, BillsCounted, Posts
\* The end of a game touches neither the credits nor the meters they come from.
<1>8. CASE Lose(c) \/ GameWon(c) \/ CoinOut(c)
  <2>1. /\ UnmeteredBill = 0 /\ UnmeteredBill' = 0
        /\ Unposted = 0 /\ Unposted' = 0
    BY <1>0, <1>8, Holding, ClientsAssumption
    DEF Lose, GameWon, CoinOut, Return, Continue, UnmeteredBill, TypeOK
  <2>2. \A m \in {Cash, Restricted, NonRestricted, "CRD_FR_BILL_ACCEPTOR",
                  "BILLS_ACCEPTED", "AFT_IN", "AFT_OUT"} : meters'[m] = meters[m]
    BY <1>8, Posting DEF Lose, GameWon, CoinOut, Posts, TypeOK
  <2>3. UNCHANGED <<wagered, won>>
    BY <1>8 DEF Lose, GameWon, CoinOut, historyVars
  <2>. QED
    BY <1>0, <2>1, <2>2, <2>3 DEF CreditsAccounted, BillsCounted
<1>. QED
  BY <1>1, <1>2, <1>3, <1>4, <1>5, <1>6, <1>7, <1>8 DEF ClientStep

\* One game at a time: it is opened by its bet, keeps its denomination until the
\* win is paid, and is settled once.
LEMMA ClientGames ==
  ASSUME TypeOK, IInv, NEW c \in Clients, ClientStep(c)
  PROVE  BetInPlay' /\ WinMatchesBet' /\ PlaysSettledOnce'
<1> USE Codes, Numbers
<1>0. BetInPlay /\ WinMatchesBet /\ PlaysSettledOnce /\ MutexOwned
  BY DEF IInv
<1> DEFINE InPlay(d) == pc[d] \in {"outcome", "coinOut", "gameWon"}
           Counted == meters'["GAMES_WON"] = meters["GAMES_WON"]
                      /\ meters'["GAMES_LOST"] = meters["GAMES_LOST"]
<1>1. CASE Play(c) \/ BillInsert(c)
  <2>1. \A d \in Clients : ~InPlay(d) /\ ~InPlay(d)'
    BY <1>1, <1>0, ClientsAssumption DEF Play, BillInsert, Enter, MutexOwned, TypeOK
  <2>2. Counted
    <3>1. CASE Play(c)
      BY <3>1 DEF Play
    <3>2. CASE BillInsert(c)
      BY <3>2, Posting, AmountsAssumption DEF BillInsert, Posts
    <3>. QED BY <1>1, <3>1, <3>2
  <2>3. played' = played
    BY <1>1 DEF Play, BillInsert, historyVars
  <2>. QED
    BY <1>0, <2>1, <2>2, <2>3 DEF BetInPlay, WinMatchesBet, PlaysSettledOnce
<1>2. CASE Deduct(c)
  <2>1. \A d \in Clients : ~InPlay(d) /\ (InPlay(d)' <=> d = c)
    BY <1>0, <1>2, Holding DEF Deduct, Continue, TypeOK
  <2>2. Counted
    BY <1>2, Posting DEF Deduct, Posts, TypeOK, Buckets
  <2>3. played' = played + 1 /\ stake'[c] = denom' /\ pc'[c] = "outcome"
    BY <1>2 DEF Deduct, Continue, TypeOK
  <2>. QED
    BY <1>0, <2>1, <2>2, <2>3 DEF BetInPlay, WinMatchesBet, PlaysSettledOnce
<1>3. CASE Win(c)
  <2>1. PICK k \in Multipliers : /\ amount' = [amount EXCEPT ![c] = denom * k]
                                 /\ meters' = Incremented(Cash, denom * k)
    BY <1>3 DEF Win
  <2>2. denom * k \in Nat
    BY AmountsAssumption DEF TypeOK
  <2>3. Counted
    BY <2>1, <2>2, Posting DEF Posts
  <2>4. /\ \A d \in Clients : (InPlay(d) <=> d = c) /\ (InPlay(d)' <=> d = c)
        /\ pc[c] = "outcome" /\ pc'[c] = "coinOut"
        /\ UNCHANGED <<played, stake, denom>>
    BY <1>0, <1>3, Holding DEF Win, Continue, TypeOK
  <2>5. amount'[c] = k * stake'[c]
    <3>1. stake'[c] = denom
      BY <1>0, <2>4 DEF BetInPlay
    <3>2. amount'[c] = denom * k /\ denom \in Nat /\ k \in Nat
      BY <2>1, AmountsAssumption DEF TypeOK
    <3>. QED BY <3>1, <3>2
  <2>6. PlaysSettledOnce'
    BY <1>0, <2>3, <2>4 DEF PlaysSettledOnce
  <2>7. BetInPlay' /\ WinMatchesBet'
    BY <2>4, <2>5 DEF BetInPlay, WinMatchesBet
  <2>. QED BY <2>6, <2>7
<1>4. CASE CoinOut(c)
  <2>1. /\ \A d \in Clients : (InPlay(d) <=> d = c) /\ (InPlay(d)' <=> d = c)
        /\ pc'[c] = "gameWon" /\ played' = played
    BY <1>0, <1>4, Holding DEF CoinOut, Continue, TypeOK, historyVars
  <2>2. Counted
    BY <1>4, Posting DEF CoinOut, Posts, TypeOK
  <2>. QED
    BY <1>0, <2>1, <2>2 DEF BetInPlay, WinMatchesBet, PlaysSettledOnce
<1>5. CASE Lose(c) \/ GameWon(c)
  <2>1. /\ \A d \in Clients : (InPlay(d) <=> d = c) /\ ~InPlay(d)'
        /\ played' = played
    BY <1>0, <1>5, Holding DEF Lose, GameWon, Return, TypeOK
  <2>2. meters'["GAMES_WON"] + meters'["GAMES_LOST"]
          = meters["GAMES_WON"] + meters["GAMES_LOST"] + 1
    BY <1>5, Posting DEF Lose, GameWon, Posts
  <2>. QED
    BY <1>0, <2>1, <2>2 DEF BetInPlay, WinMatchesBet, PlaysSettledOnce
<1>6. CASE ChangeDenom(c)
  <2>1. \A d \in Clients : ~InPlay(d) /\ pc'[d] = pc[d]
    BY <1>0, <1>6, ClientsAssumption DEF ChangeDenom, MutexOwned, TypeOK
  <2>2. Counted /\ played' = played
    BY <1>6 DEF ChangeDenom, historyVars
  <2>. QED
    BY <1>0, <2>1, <2>2 DEF BetInPlay, WinMatchesBet, PlaysSettledOnce
<1>7. CASE BillCount(c) \/ BillMeter(c)
  <2>1. \A d \in Clients : ~InPlay(d) /\ ~InPlay(d)'
    BY <1>0, <1>7, Holding DEF BillCount, BillMeter, Continue, Return, TypeOK
  <2>2. Counted /\ played' = played
    BY <1>7, Posting DEF BillCount, BillMeter, Posts, TypeOK, historyVars
  <2>. QED
    BY <1>0, <2>1, <2>2 DEF BetInPlay, WinMatchesBet, PlaysSettledOnce
<1>. QED
  BY <1>1, <1>2, <1>3, <1>4, <1>5, <1>6, <1>7 DEF ClientStep

-----------------------------------------------------------------------------
(* Theorems                                                                *)

\* The inductive invariant holds in every reachable state.
THEOREM InvariantHolds == Spec => []IInv
<1>1. TypeOK /\ IInv /\ [Next]_vars => IInv'
  <2>. SUFFICES ASSUME TypeOK, IInv, [Next]_vars PROVE IInv'
    OBVIOUS
  <2>1. CASE UNCHANGED vars
    BY <2>1
    DEF vars, clientVars, sasVars, historyVars, IInv, MutexOwned, DebitsCovered,
        CreditsAccounted, BillsCounted, BetInPlay, WinMatchesBet, PlaysSettledOnce,
        PendingBet, PendingTransfer, UnmeteredBill, UnmeteredIn, UnmeteredOut
  <2>2. ASSUME NEW c \in Clients, ClientStep(c) PROVE IInv'
    <3>1. MutexOwned
      BY DEF IInv
    <3>. QED
      BY <2>2, <3>1, OwnershipKept, ClientDebits, ClientAccounting, ClientGames DEF IInv
  <2>. QED
    BY <2>1, <2>2, SasPreserves DEF Next
<1>. QED
  BY InitInvariant, TypeCorrect, <1>1, PTL DEF Spec

\* What is approved is covered, so what is there is bounded.
LEMMA CoveredImpliesBounded ==
  ASSUME TypeOK, IInv
  PROVE  OverdraftBounded
<1>1. DebitsCovered /\ MaxDebit \in Nat
  BY AmountsAssumption DEF IInv
<1>. QED
  BY <1>1, Codes, Numbers DEF DebitsCovered, OverdraftBounded, Buckets

\* However bets and transfers out interleave, the cash meter is overdrawn by one
\* debit at most and the promotional credits never are.
THEOREM OverdraftIsBounded == Spec => []OverdraftBounded
BY TypeCorrect, InvariantHolds, CoveredImpliesBounded, PTL

\* Whenever no handler is under way the meters account for every credit.
THEOREM MetersAudited == Spec => []AuditedAtRest
<1>1. TypeOK /\ IInv => AuditedAtRest
  <2>. SUFFICES ASSUME TypeOK, IInv, AtRest PROVE AuditedAtRest
    BY DEF AuditedAtRest
  <2>1. UnmeteredBill = 0 /\ UnmeteredIn = 0 /\ UnmeteredOut = 0 /\ httpMutex \notin Clients
    BY ClientsAssumption DEF AtRest, UnmeteredBill, UnmeteredIn, UnmeteredOut
  <2>. QED
    BY <2>1, Codes, Numbers DEF IInv, CreditsAccounted, BillsCounted, AuditedAtRest
<1>. QED
  BY <1>1, TypeCorrect, InvariantHolds, PTL

\* Every win paid is a multiple of the bet taken for it.
THEOREM WinsMatchBets == Spec => []WinMatchesBet
<1>1. IInv => WinMatchesBet
  BY DEF IInv
<1>. QED
  BY <1>1, InvariantHolds, PTL

\* Every bet taken is settled exactly once.
THEOREM PlaysAreSettledOnce == Spec => []PlaysSettledOnce
<1>1. IInv => PlaysSettledOnce
  BY DEF IInv
<1>. QED
  BY <1>1, InvariantHolds, PTL

-----------------------------------------------------------------------------
(* Refinement of Account                                                   *)

Deposited == won + meters["CRD_FR_BILL_ACCEPTOR"] + UnmeteredBill
             + meters["AFT_IN"] + UnmeteredIn
Withdrawn == wagered[Cash] + meters["AFT_OUT"] + UnmeteredOut

\* A step of a client is a deposit (a win, a bill), a withdrawal (a bet), or
\* neither.
LEMMA ClientMoves ==
  ASSUME TypeOK, IInv, NEW c \in Clients, ClientStep(c)
  PROVE  \/ Deposited' >= Deposited /\ Withdrawn' = Withdrawn
         \/ Withdrawn' >= Withdrawn /\ Deposited' = Deposited
<1> USE Codes, ClientsLeaveSas, Numbers DEF Deposited, Withdrawn
<1>0. MutexOwned
  BY DEF IInv
<1>1. CASE Play(c) \/ ChangeDenom(c)
  <2>1. UnmeteredBill' = UnmeteredBill
    BY <1>1, ClientsAssumption DEF Play, Enter, ChangeDenom, UnmeteredBill, TypeOK
  <2>. QED
    BY <1>1, <2>1 DEF Play, ChangeDenom, historyVars
<1>2. CASE Deduct(c)
  <2>1. bucket[c] \in Buckets /\ Posts(bucket[c], -denom)
    BY <1>2, Posting DEF Deduct, TypeOK, Buckets
  <2>2. /\ UnmeteredBill = 0 /\ UnmeteredBill' = 0 /\ won' = won
        /\ wagered'[Cash] >= wagered[Cash] /\ wagered'[Cash] \in Int
    BY <1>0, <1>2, Holding DEF Deduct, Continue, UnmeteredBill, TypeOK, Buckets
  <2>. QED
    BY <2>1, <2>2 DEF Posts, Buckets
<1>3. CASE Win(c)
  <2>1. PICK k \in Multipliers : /\ meters' = Incremented(Cash, denom * k)
                                 /\ won' = won + denom * k
    BY <1>3 DEF Win
  <2>2. denom * k \in Nat
    BY AmountsAssumption DEF TypeOK
  <2>3. Posts(Cash, denom * k)
    BY <2>1, <2>2, Posting
  <2>4. UnmeteredBill = 0 /\ UnmeteredBill' = 0 /\ wagered' = wagered
    BY <1>0, <1>3, Holding DEF Win, Continue, UnmeteredBill, TypeOK
  <2>. QED
    BY <2>1, <2>2, <2>3, <2>4 DEF Posts
<1>4. CASE BillInsert(c)
  <2>1. PICK v \in Bills : /\ Enter(c, "billCount")
                           /\ amount' = [amount EXCEPT ![c] = v]
                           /\ meters' = Incremented(Cash, v)
                           /\ UNCHANGED historyVars
    BY <1>4 DEF BillInsert
  <2>2. v \in Nat /\ Posts(Cash, v)
    BY <2>1, Posting, AmountsAssumption
  <2>3. UnmeteredBill = 0 /\ UnmeteredBill' = v
    BY <2>1, ClientsAssumption DEF Enter, UnmeteredBill, TypeOK
  <2>4. UNCHANGED <<wagered, won>>
    BY <2>1 DEF historyVars
  <2>. QED
    BY <2>2, <2>3, <2>4 DEF Posts
<1>5. CASE BillMeter(c)
  <2>1. UnmeteredBill = amount[c] /\ UnmeteredBill' = 0 /\ amount[c] \in Nat
    BY <1>0, <1>5, Holding, ClientsAssumption
    DEF BillMeter, Return, UnmeteredBill, TypeOK
  <2>2. Posts("CRD_FR_BILL_ACCEPTOR", amount[c])
    BY <1>5, <2>1, Posting DEF BillMeter
  <2>3. UNCHANGED <<wagered, won>>
    BY <1>5 DEF BillMeter
  <2>. QED
    BY <2>1, <2>2, <2>3 DEF Posts
<1>6. CASE BillCount(c) \/ Lose(c) \/ GameWon(c) \/ CoinOut(c)
  <2>1. UnmeteredBill' = UnmeteredBill
    BY <1>0, <1>6, Holding, ClientsAssumption
    DEF BillCount, Lose, GameWon, CoinOut, Return, Continue, UnmeteredBill, TypeOK
  <2>2. \A m \in {"CRD_FR_BILL_ACCEPTOR", "AFT_IN", "AFT_OUT"} : meters'[m] = meters[m]
    BY <1>6, Posting DEF BillCount, Lose, GameWon, CoinOut, Posts, TypeOK
  <2>3. UNCHANGED <<wagered, won>>
    BY <1>6 DEF BillCount, Lose, GameWon, CoinOut, historyVars
  <2>. QED
    BY <2>1, <2>2, <2>3
<1>. QED
  BY <1>1, <1>2, <1>3, <1>4, <1>5, <1>6 DEF ClientStep

\* So is a step of the SAS thread (a transfer in, a transfer out, neither).
LEMMA SasMoves ==
  ASSUME TypeOK, IInv, SasStep
  PROVE  \/ Deposited' >= Deposited /\ Withdrawn' = Withdrawn
         \/ Withdrawn' >= Withdrawn /\ Deposited' = Deposited
<1> USE Codes, Numbers DEF UnmeteredIn, UnmeteredOut, Deposited, Withdrawn
<1>0. UNCHANGED <<wagered, won>> /\ UnmeteredBill' = UnmeteredBill
  BY DEF SasStep, TransferIn, AftInMeter, TransferOut, TransferOutDebit,
         AftOutMeter, PollCoinIn, clientVars, historyVars, UnmeteredBill
<1>1. CASE TransferIn
  <2>1. PICK v \in Transfers : /\ sasPc = "idle" /\ sasPc' = "aftInMeter"
                               /\ sasAmount' = v
                               /\ meters' = Incremented(Cash, v)
    BY <1>1 DEF TransferIn
  <2>2. v \in Nat /\ Posts(Cash, v)
    BY <2>1, Posting, AmountsAssumption
  <2>. QED BY <1>0, <2>1, <2>2 DEF Posts
<1>2. CASE AftInMeter
  <2>1. Posts("AFT_IN", sasAmount)
    BY <1>2, Posting DEF AftInMeter
  <2>. QED BY <1>0, <1>2, <2>1 DEF AftInMeter, Posts
<1>3. CASE TransferOut
  BY <1>0, <1>3 DEF TransferOut
<1>4. CASE TransferOutDebit
  <2>1. Posts(Cash, -sasAmount)
    BY <1>4, Posting DEF TransferOutDebit
  <2>. QED BY <1>0, <1>4, <2>1 DEF TransferOutDebit, Posts
<1>5. CASE AftOutMeter
  <2>1. Posts("AFT_OUT", sasAmount)
    BY <1>5, Posting DEF AftOutMeter
  <2>. QED BY <1>0, <1>5, <2>1 DEF AftOutMeter, Posts
<1>6. CASE PollCoinIn
  BY <1>0, <1>6 DEF PollCoinIn, PolledTestValues, sasVars
<1>. QED
  BY <1>1, <1>2, <1>3, <1>4, <1>5, <1>6 DEF SasStep

\* The balance is what was deposited less what was withdrawn.
Balance ==
  /\ meters[Cash] = OpeningCredits + Deposited - Withdrawn
  /\ Deposited \in Int /\ Withdrawn \in Int

\* The accounting equation is the balance of the account.
LEMMA Balanced == TypeOK /\ IInv => Balance
BY Codes, Numbers DEF IInv, CreditsAccounted, Balance, Deposited, Withdrawn

\* The meters and the threads that change them implement the account.
THEOREM CreditsAreAnAccount == Spec => ImplementsAccount
<1>1. Init => AccountOfCredits!AccountInit
  <2>. SUFFICES ASSUME Init PROVE AccountOfCredits!AccountInit
    OBVIOUS
  <2>1. /\ meters[Cash] = OpeningCredits /\ meters["CRD_FR_BILL_ACCEPTOR"] = 0
        /\ meters["AFT_IN"] = 0 /\ meters["AFT_OUT"] = 0
    BY Codes DEF Init
  <2>2. UnmeteredBill = 0 /\ UnmeteredIn = 0 /\ UnmeteredOut = 0
    BY ClientsAssumption DEF Init, UnmeteredBill, UnmeteredIn, UnmeteredOut
  <2>3. wagered[Cash] = 0 /\ won = 0
    BY DEF Init, Buckets
  <2>. QED
    BY <2>1, <2>2, <2>3 DEF AccountOfCredits!AccountInit
<1>2. TypeOK /\ IInv /\ Balance /\ Balance' /\ OverdraftBounded' /\ [Next]_vars
        => [AccountOfCredits!Deposit \/ AccountOfCredits!Withdraw]_AccountOfCredits!accountVars
  <2>. SUFFICES ASSUME TypeOK, IInv, Balance, Balance', OverdraftBounded', [Next]_vars
                PROVE  [AccountOfCredits!Deposit \/ AccountOfCredits!Withdraw]_AccountOfCredits!accountVars
    OBVIOUS
  <2>1. \/ Deposited' >= Deposited /\ Withdrawn' = Withdrawn
        \/ Withdrawn' >= Withdrawn /\ Deposited' = Deposited
    <3>1. CASE UNCHANGED vars
      BY <3>1
      DEF Balance, vars, clientVars, sasVars, historyVars, Deposited, Withdrawn,
          UnmeteredBill, UnmeteredIn, UnmeteredOut
    <3>. QED
      BY <3>1, ClientMoves, SasMoves DEF Next
  <2>2. meters'[Cash] >= -MaxDebit
    BY DEF OverdraftBounded
  <2>. QED
    BY <2>1, <2>2, AmountsAssumption
    DEF AccountOfCredits!Deposit, AccountOfCredits!Withdraw,
        AccountOfCredits!accountVars, Balance, Deposited, Withdrawn
<1>. QED
  BY <1>1, <1>2, TypeCorrect, InvariantHolds, Balanced, OverdraftIsBounded, PTL
  DEF Spec, ImplementsAccount, AccountOfCredits!AccountSpec

=============================================================================
