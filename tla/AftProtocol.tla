---------------------------- MODULE AftProtocol -----------------------------
(***************************************************************************)
(* Advanced funds transfer: the handlers of AFTCommands.cpp and the static *)
(* variables they share, polled by a host over a link that loses messages. *)
(*                                                                         *)
(* The machine answers polls one at a time (SASCommPort::receiveThread),   *)
(* and its statics belong to that thread, so a handler is one step for     *)
(* each call it makes on the credit meter, which the player shares.  A     *)
(* transfer out makes two, the check and the debit; in between the player  *)
(* may bet, or the emulator end.  What that does to the credits is the     *)
(* subject of CreditMeter.tla, what the host is told of it that of this.   *)
(* The host is not part of the repository: it is modelled as the master    *)
(* the SAS handlers are written for.  It sends one poll at a time and      *)
(* waits; when nothing comes it repeats the transfer with the same ID, or  *)
(* gives up and turns to another; it may come back to an unsettled one.    *)
(***************************************************************************)
EXTENDS Integers, Sequences

CONSTANTS
  Txns,             \* transaction IDs the host uses
  NoTxn,            \* the ID of four zero bytes: lastTransactionID at the start
  LockCodes,        \* lock codes the host may register with
  ZeroCode,         \* the code 0x0000, which is refused
  Requests,         \* what a transfer may ask for: records [kind, amount]
  NoRequest,
  OpeningCredits,
  StartupCredits,   \* what main.cpp adds at each start
  MaxCredits,       \* bounds of the model: credits by winning, restarts, lost
  MaxRestarts,      \*   messages, timeouts while a poll or its answer is under
  MaxLosses,        \*   way, lock changes the host makes unasked, and returns
  MaxEarlyTimeouts, \*   to an unsettled transaction
  MaxLockChanges,
  MaxResumes

Kinds == {"TO_MACHINE", "FROM_MACHINE", "TO_PRINTER", "DEBIT"}

ASSUME AftAssumption ==
  /\ NoTxn \notin Txns
  /\ ZeroCode \in LockCodes
  /\ LockCodes # {ZeroCode}
  /\ Requests \subseteq [kind : Kinds, amount : Nat]
  /\ NoRequest \notin Requests
  /\ {OpeningCredits, StartupCredits, MaxCredits, MaxRestarts, MaxLosses,
      MaxEarlyTimeouts, MaxLockChanges, MaxResumes} \subseteq Nat

VARIABLES
  registered,      \* aftRegistered
  lockCode,        \* currentLockCode
  lockStatus,      \* currentLockStatus
  transferStatus,  \* currentTransferStatus
  lastTxn,         \* lastTransactionID
  lastAmount,      \* lastTransferAmount
  gameLocked,      \* gameLockStatus = 0x01 (TRUE) or 0xFF (FALSE)
  available,       \* availableTransfers = 0x33 (TRUE) or 0x00 (FALSE)
  debiting,        \* a transfer out has been checked and not yet debited
  credits,         \* METER_CURRENT_CRD of the machine
  toEgm,           \* polls under way
  toHost,          \* answers under way
  awaiting,        \* the host has sent a poll and waits
  request,         \* what the host asks for with each transaction
  current,         \* the transaction the host is busy with
  answer,          \* the last status it received for each
  applied,         \* history: how often each transaction moved credits
  processed,       \* history: which transactions reached the duplicate record
  resumed,         \* history: how often the host came back to each
  restarts, losses, earlyTimeouts, lockChanges   \* counters of the bounds

egmVars == <<registered, lockCode, lockStatus, transferStatus, lastTxn,
             lastAmount, gameLocked, available, debiting>>
hostVars == <<awaiting, request, current, answer, resumed>>
histVars == <<applied, processed>>
countVars == <<restarts, losses, earlyTimeouts, lockChanges>>
vars == <<egmVars, credits, toEgm, toHost, hostVars, histVars, countVars>>

LockStatuses == {"LOCK_AVAILABLE", "LOCK_ESTABLISHED", "LOCK_FORBIDDEN"}
\* The statuses handleTransferFunds keeps, and those it only answers with.
KeptStatuses == {"TRANSFER_PENDING", "FULL_TRANSFER_SUCCESSFUL",
                 "GAMING_MACHINE_UNABLE", "NOT_VALID_FUNCTION"}
RefusedStatuses ==
  {"GAME_NOT_REGISTERED", "NOT_VALID_AMOUNT", "TRANSACTION_ID_NOT_UNIQUE"}
Statuses == KeptStatuses \cup RefusedStatuses

-----------------------------------------------------------------------------

\* The initial values of the statics (also after every restart).
EgmStatics ==
  [registered |-> FALSE, lockCode |-> ZeroCode, lockStatus |-> "LOCK_AVAILABLE",
   transferStatus |-> "TRANSFER_PENDING", lastTxn |-> NoTxn, lastAmount |-> 0,
   gameLocked |-> FALSE, available |-> FALSE]

Init ==
  /\ registered = EgmStatics.registered
  /\ lockCode = EgmStatics.lockCode
  /\ lockStatus = EgmStatics.lockStatus
  /\ transferStatus = EgmStatics.transferStatus
  /\ lastTxn = EgmStatics.lastTxn
  /\ lastAmount = EgmStatics.lastAmount
  /\ gameLocked = EgmStatics.gameLocked
  /\ available = EgmStatics.available
  /\ debiting = FALSE
  /\ credits = OpeningCredits
  /\ toEgm = <<>> /\ toHost = <<>>
  /\ awaiting = FALSE
  /\ request = [t \in Txns |-> NoRequest]
  /\ current = NoTxn
  /\ answer = [t \in Txns |-> "none"]
  /\ applied = [t \in Txns |-> 0]
  /\ processed = [t \in Txns |-> FALSE]
  /\ resumed = [t \in Txns |-> 0]
  /\ restarts = 0 /\ losses = 0 /\ earlyTimeouts = 0 /\ lockChanges = 0

-----------------------------------------------------------------------------
(* The machine.  A poll is taken from the link when it is answered; until  *)
(* then the thread looks at no other.                                      *)

Polled(op) == ~debiting /\ toEgm # <<>> /\ Head(toEgm).op = op
Reply(r) == toEgm' = Tail(toEgm) /\ toHost' = Append(toHost, r)
LockReply(status) == Reply([op |-> "lock", status |-> status])

\* Slip: a lock once forbidden is not given again.
RegisterLockNotIfForbidden ==
  /\ Polled("register")
  /\ Head(toEgm).code # ZeroCode
  /\ IF lockStatus = "LOCK_FORBIDDEN"
       THEN /\ LockReply("LOCK_FORBIDDEN")
            /\ UNCHANGED <<registered, lockCode, lockStatus, gameLocked, available>>
       ELSE /\ registered' = TRUE
            /\ lockCode' = Head(toEgm).code
            /\ lockStatus' = "LOCK_ESTABLISHED"
            /\ gameLocked' = TRUE
            /\ available' = TRUE
            /\ LockReply("LOCK_ESTABLISHED")
  /\ UNCHANGED <<transferStatus, lastTxn, lastAmount, debiting, credits,
                 hostVars, histVars, countVars>>

\* 0x70: any code but 0x0000 registers the machine and locks the game.
RegisterLock ==
  /\ Polled("register")
  /\ Head(toEgm).code # ZeroCode
  /\ registered' = TRUE
  /\ lockCode' = Head(toEgm).code
  /\ lockStatus' = "LOCK_ESTABLISHED"
  /\ gameLocked' = TRUE
  /\ available' = TRUE
  /\ LockReply("LOCK_ESTABLISHED")
  /\ UNCHANGED <<transferStatus, lastTxn, lastAmount, debiting, credits,
                 hostVars, histVars, countVars>>

\* Slip: the code is stored before it is validated.
ForbidLockStoresCode ==
  /\ Polled("register")
  /\ Head(toEgm).code = ZeroCode
  /\ lockCode' = ZeroCode
  /\ lockStatus' = "LOCK_FORBIDDEN"
  /\ gameLocked' = FALSE
  /\ available' = FALSE
  /\ LockReply("LOCK_FORBIDDEN")
  /\ UNCHANGED <<registered, transferStatus, lastTxn, lastAmount, debiting, credits,
                 hostVars, histVars, countVars>>

\* 0x70 with 0x0000: the lock is gone, the registration and its code stay.
ForbidLock ==
  /\ Polled("register")
  /\ Head(toEgm).code = ZeroCode
  /\ lockStatus' = "LOCK_FORBIDDEN"
  /\ gameLocked' = FALSE
  /\ available' = FALSE
  /\ LockReply("LOCK_FORBIDDEN")
  /\ UNCHANGED <<registered, lockCode, transferStatus, lastTxn, lastAmount, debiting, credits,
                 hostVars, histVars, countVars>>

\* Slip: the duplicate record is cleared with the rest.
UnlockForgetsTransaction ==
  /\ Polled("unlock")
  /\ registered /\ Head(toEgm).code = lockCode
  /\ registered' = FALSE
  /\ lockCode' = ZeroCode
  /\ lockStatus' = "LOCK_AVAILABLE"
  /\ transferStatus' = "TRANSFER_PENDING"
  /\ lastTxn' = NoTxn /\ lastAmount' = 0
  /\ gameLocked' = FALSE
  /\ available' = FALSE
  /\ LockReply("LOCK_AVAILABLE")
  /\ UNCHANGED <<debiting, credits, hostVars, histVars, countVars>>

\* 0x73: the duplicate record survives.
Unlock ==
  /\ Polled("unlock")
  /\ registered /\ Head(toEgm).code = lockCode
  /\ registered' = FALSE
  /\ lockCode' = ZeroCode
  /\ lockStatus' = "LOCK_AVAILABLE"
  /\ transferStatus' = "TRANSFER_PENDING"
  /\ gameLocked' = FALSE
  /\ available' = FALSE
  /\ LockReply("LOCK_AVAILABLE")
  /\ UNCHANGED <<lastTxn, lastAmount, debiting, credits, hostVars, histVars, countVars>>

UnlockRefused ==
  /\ Polled("unlock")
  /\ ~(registered /\ Head(toEgm).code = lockCode)
  /\ LockReply("LOCK_FORBIDDEN")
  /\ UNCHANGED <<egmVars, credits, hostVars, histVars, countVars>>

\* 0x72, its checks in their order: registered, amount, duplicate ...
TransferRefusal(t) ==
  IF ~registered THEN "GAME_NOT_REGISTERED"
  ELSE IF request[t].amount = 0 THEN "NOT_VALID_AMOUNT"
  ELSE IF t = lastTxn /\ request[t].amount = lastAmount THEN "TRANSACTION_ID_NOT_UNIQUE"
  ELSE "none"

\* ... and, past them, the transfer by its kind.
TransferVerdict(t) ==
  CASE request[t].kind = "TO_MACHINE" -> "FULL_TRANSFER_SUCCESSFUL"
    [] request[t].kind \in {"FROM_MACHINE", "TO_PRINTER"} ->
         IF credits >= request[t].amount THEN "FULL_TRANSFER_SUCCESSFUL"
                                         ELSE "GAMING_MACHINE_UNABLE"
    [] OTHER -> "NOT_VALID_FUNCTION"

\* What a successful transfer adds to the credits.  A transfer to the printer
\* succeeds without taking them.
TransferEffect(t) ==
  CASE request[t].kind = "TO_MACHINE" -> request[t].amount
    [] request[t].kind = "FROM_MACHINE" -> -request[t].amount
    [] OTHER -> 0

\* Slip: the status of a refusal is kept.
TransferRefusedKept ==
  /\ Polled("transfer")
  /\ LET t == Head(toEgm).txn IN
       /\ TransferRefusal(t) # "none"
       /\ transferStatus' = TransferRefusal(t)
       /\ Reply([op |-> "transfer", txn |-> IF registered THEN t ELSE NoTxn,
                 status |-> TransferRefusal(t)])
  /\ UNCHANGED <<registered, lockCode, lockStatus, lastTxn, lastAmount, gameLocked, available,
                 debiting, credits, hostVars, histVars, countVars>>

\* Slip: the transaction is recorded although it is refused.
TransferRefusedRecorded ==
  /\ Polled("transfer")
  /\ LET t == Head(toEgm).txn IN
       /\ TransferRefusal(t) # "none"
       /\ lastTxn' = t
       /\ lastAmount' = request[t].amount
       /\ Reply([op |-> "transfer", txn |-> IF registered THEN t ELSE NoTxn,
                 status |-> TransferRefusal(t)])
  /\ UNCHANGED <<registered, lockCode, lockStatus, transferStatus, gameLocked, available,
                 debiting, credits, hostVars, histVars, countVars>>

\* A refusal changes nothing; before the registration is known, it is answered
\* without the ID.
TransferRefused ==
  /\ Polled("transfer")
  /\ LET t == Head(toEgm).txn IN
       /\ TransferRefusal(t) # "none"
       /\ Reply([op |-> "transfer", txn |-> IF registered THEN t ELSE NoTxn,
                 status |-> TransferRefusal(t)])
  /\ UNCHANGED <<egmVars, credits, hostVars, histVars, countVars>>

\* The rest of the handler, once the transfer has its verdict: the last call on
\* the credits, the transaction stored whatever the verdict, and the answer.
TransferDone(t, verdict) ==
  LET effect == IF verdict = "FULL_TRANSFER_SUCCESSFUL" THEN TransferEffect(t) ELSE 0
  IN /\ credits' = credits + effect
     /\ debiting' = FALSE
     /\ lastTxn' = t
     /\ lastAmount' = request[t].amount
     /\ transferStatus' = verdict
     /\ applied' = IF effect # 0 THEN [applied EXCEPT ![t] = @ + 1] ELSE applied
     /\ processed' = [processed EXCEPT ![t] = TRUE]
     /\ Reply([op |-> "transfer", txn |-> t, status |-> verdict])
     /\ UNCHANGED <<registered, lockCode, lockStatus, gameLocked, available,
                    hostVars, countVars>>

\* A transfer out that finds enough credits takes them by another call.
TakesCredits(t) ==
  request[t].kind = "FROM_MACHINE" /\ TransferVerdict(t) = "FULL_TRANSFER_SUCCESSFUL"

\* A transfer of any other kind, or out of credits that are not there: one call.
TransferFunds ==
  /\ Polled("transfer")
  /\ LET t == Head(toEgm).txn IN
       /\ TransferRefusal(t) = "none"
       /\ ~TakesCredits(t)
       /\ TransferDone(t, TransferVerdict(t))

\* A transfer out: executeTransferFromMachine has looked at the credits ...
TransferOut ==
  /\ Polled("transfer")
  /\ LET t == Head(toEgm).txn IN TransferRefusal(t) = "none" /\ TakesCredits(t)
  /\ debiting' = TRUE
  /\ UNCHANGED <<registered, lockCode, lockStatus, transferStatus, lastTxn, lastAmount,
                 gameLocked, available, credits, toEgm, toHost, hostVars, histVars, countVars>>

\* ... and debits the amount, whatever they have become.
TransferOutDebit ==
  /\ debiting
  /\ TransferDone(Head(toEgm).txn, "FULL_TRANSFER_SUCCESSFUL")

EgmStep ==
  \/ RegisterLock \/ ForbidLock
  \/ Unlock \/ UnlockRefused
  \/ TransferRefused \/ TransferFunds \/ TransferOut \/ TransferOutDebit

\* The player wins, or plays and loses, a credit meanwhile.
PlayerStep ==
  /\ \/ credits > 0 /\ credits' = credits - 1
     \/ credits < MaxCredits /\ credits' = credits + 1
  /\ UNCHANGED <<egmVars, toEgm, toHost, hostVars, histVars, countVars>>

\* The emulator stops and starts again: the credits were saved, the statics
\* were not, and a poll it had not read, or not done with, is gone.
Restart ==
  /\ restarts < MaxRestarts
  /\ restarts' = restarts + 1
  /\ credits' = credits + StartupCredits
  /\ registered' = EgmStatics.registered
  /\ lockCode' = EgmStatics.lockCode
  /\ lockStatus' = EgmStatics.lockStatus
  /\ transferStatus' = EgmStatics.transferStatus
  /\ lastTxn' = EgmStatics.lastTxn
  /\ lastAmount' = EgmStatics.lastAmount
  /\ gameLocked' = EgmStatics.gameLocked
  /\ available' = EgmStatics.available
  /\ debiting' = FALSE
  /\ toEgm' = <<>>
  /\ UNCHANGED <<toHost, hostVars, histVars, losses, earlyTimeouts, lockChanges>>

-----------------------------------------------------------------------------
(* The link                                                                *)

LosePoll ==
  /\ losses < MaxLosses /\ toEgm # <<>> /\ ~debiting
  /\ toEgm' = Tail(toEgm)
  /\ losses' = losses + 1
  /\ UNCHANGED <<egmVars, credits, toHost, hostVars, histVars,
                 restarts, earlyTimeouts, lockChanges>>

LoseAnswer ==
  /\ losses < MaxLosses /\ toHost # <<>>
  /\ toHost' = Tail(toHost)
  /\ losses' = losses + 1
  /\ UNCHANGED <<egmVars, credits, toEgm, hostVars, histVars,
                 restarts, earlyTimeouts, lockChanges>>

-----------------------------------------------------------------------------
(* The host                                                                *)

\* An answer that says what became of the transfer.
Settled(t) == answer[t] \notin {"none", "GAME_NOT_REGISTERED"}

Send(m) == ~awaiting /\ awaiting' = TRUE /\ toEgm' = Append(toEgm, m)
SendTransfer(t) == Send([op |-> "transfer", txn |-> t])

\* A new transaction, whether or not the current one is settled.
HostStart ==
  \E t \in Txns, r \in Requests :
    /\ request[t] = NoRequest
    /\ request' = [request EXCEPT ![t] = r]
    /\ current' = t
    /\ SendTransfer(t)
    /\ UNCHANGED <<egmVars, credits, toHost, answer, resumed, histVars, countVars>>

\* The current one again, under its ID.
HostRepeat ==
  /\ current \in Txns
  /\ answer[current] = "none"
  /\ SendTransfer(current)
  /\ UNCHANGED <<egmVars, credits, toHost, request, current, answer, resumed,
                 histVars, countVars>>

\* Told that the machine is not registered, the host registers it first.
HostRegister ==
  \E k \in LockCodes \ {ZeroCode} :
    /\ current \in Txns
    /\ answer[current] = "GAME_NOT_REGISTERED"
    /\ answer' = [answer EXCEPT ![current] = "none"]
    /\ Send([op |-> "register", code |-> k])
    /\ UNCHANGED <<egmVars, credits, toHost, request, current, resumed, histVars, countVars>>

\* Back to a transaction it had given up.
HostResume ==
  \E t \in Txns \ {current} :
    /\ request[t] # NoRequest /\ ~Settled(t)
    /\ resumed[t] < MaxResumes
    /\ resumed' = [resumed EXCEPT ![t] = @ + 1]
    /\ current' = t
    /\ SendTransfer(t)
    /\ UNCHANGED <<egmVars, credits, toHost, request, answer, histVars, countVars>>

\* A registration, a cancelled lock or an unlock of the host's own accord.
HostChangesLock ==
  \E k \in LockCodes, op \in {"register", "unlock"} :
    /\ lockChanges < MaxLockChanges
    /\ lockChanges' = lockChanges + 1
    /\ Send([op |-> op, code |-> k])
    /\ UNCHANGED <<egmVars, credits, toHost, request, current, answer, resumed,
                   histVars, restarts, losses, earlyTimeouts>>

\* The next answer ends the wait; it counts when it carries the ID of the
\* current transaction, or the zero ID of a machine that is not registered.
HostReceive ==
  /\ awaiting /\ toHost # <<>>
  /\ toHost' = Tail(toHost)
  /\ awaiting' = FALSE
  /\ LET m == Head(toHost) IN
       answer' = IF m.op = "transfer" /\ m.txn \in {current, NoTxn}
                   THEN [answer EXCEPT ![current] = m.status] ELSE answer
  /\ UNCHANGED <<egmVars, credits, toEgm, request, current, resumed, histVars, countVars>>

\* No answer: the poll or its answer was lost ...
HostTimeout ==
  /\ awaiting /\ toEgm = <<>> /\ toHost = <<>>
  /\ awaiting' = FALSE
  /\ UNCHANGED <<egmVars, credits, toEgm, toHost, request, current, answer, resumed,
                 histVars, countVars>>

\* ... or is only late.
HostEarlyTimeout ==
  /\ awaiting /\ ~(toEgm = <<>> /\ toHost = <<>>)
  /\ earlyTimeouts < MaxEarlyTimeouts
  /\ earlyTimeouts' = earlyTimeouts + 1
  /\ awaiting' = FALSE
  /\ UNCHANGED <<egmVars, credits, toEgm, toHost, request, current, answer, resumed,
                 histVars, restarts, losses, lockChanges>>

HostStep ==
  \/ HostStart \/ HostRepeat \/ HostRegister \/ HostResume \/ HostChangesLock
  \/ HostReceive \/ HostTimeout \/ HostEarlyTimeout

-----------------------------------------------------------------------------

Next == EgmStep \/ HostStep \/ LosePoll \/ LoseAnswer \/ PlayerStep \/ Restart

\* The machine answers the polls it has, and the host goes on with its current
\* transaction: it takes answers, times out, repeats and registers.  Nothing
\* obliges the player, the link, a restart or a change of the host's plans.
Fairness ==
  /\ WF_vars(EgmStep)
  /\ WF_vars(HostReceive)
  /\ WF_vars(HostTimeout)
  /\ WF_vars(HostRepeat)
  /\ WF_vars(HostRegister)

Spec == Init /\ [][Next]_vars /\ Fairness

-----------------------------------------------------------------------------
(* Properties                                                              *)

Poll ==
  [op : {"transfer"}, txn : Txns] \cup [op : {"register", "unlock"}, code : LockCodes]
Answer ==
  [op : {"transfer"}, txn : Txns \cup {NoTxn}, status : Statuses] \cup [op : {"lock"}, status : LockStatuses]

\* Types.  The status the machine keeps is one a transfer ended with, never one a
\* refusal was only answered with.  The credits are a number of either sign.
TypeOK ==
  /\ registered \in BOOLEAN /\ gameLocked \in BOOLEAN /\ available \in BOOLEAN
  /\ debiting \in BOOLEAN
  /\ lockCode \in LockCodes
  /\ lockStatus \in LockStatuses
  /\ transferStatus \in KeptStatuses
  /\ lastTxn \in Txns \cup {NoTxn}
  /\ lastAmount \in Nat
  /\ credits \in Int
  /\ toEgm \in Seq(Poll) /\ toHost \in Seq(Answer)
  /\ awaiting \in BOOLEAN
  /\ request \in [Txns -> Requests \cup {NoRequest}]
  /\ current \in Txns \cup {NoTxn}
  /\ answer \in [Txns -> Statuses \cup {"none"}]
  /\ applied \in [Txns -> Nat]
  /\ processed \in [Txns -> BOOLEAN]
  /\ resumed \in [Txns -> Nat]

\* The duplicate check remembers one transaction, in memory.  Repeats, lost and
\* late answers, unlocking and registering again never move money twice; only a
\* restart, or a host that comes back to a transaction after another one, can,
\* and each of those once.
AppliedOncePerReturn ==
  \A t \in Txns : applied[t] <= 1 + restarts + resumed[t]

\* What the host is told is true.  A success of a transfer to or from the machine
\* means credits moved; a "not unique" means the machine dealt with that ID; and
\* a refusal means none moved, for a host that did not come back to the
\* transaction and a machine that did not restart.
AnswersTruthful ==
  \A t \in Txns :
    /\ answer[t] = "FULL_TRANSFER_SUCCESSFUL" /\ request[t].kind # "TO_PRINTER"
         => applied[t] > 0
    /\ answer[t] = "TRANSACTION_ID_NOT_UNIQUE" => processed[t]
    /\ answer[t] \in {"GAMING_MACHINE_UNABLE", "NOT_VALID_AMOUNT", "NOT_VALID_FUNCTION"}
         /\ restarts = 0 /\ resumed[t] = 0
         => applied[t] = 0

\* The four statics that say whether the game is locked always agree (0x71
\* reports one of them, 0x74 two others), whatever the order of registrations,
\* refused codes, unlocks and restarts; and an established lock is a
\* registration with a code.
LockStateConsistent ==
  /\ gameLocked = available
  /\ gameLocked <=> lockStatus = "LOCK_ESTABLISHED"
  /\ gameLocked => registered
  /\ registered <=> lockCode # ZeroCode

\* A transaction the host stays with is settled, however many messages the link
\* loses or delays and whenever the machine restarts (of each finitely many).
TransferSettles ==
  \A t \in Txns : current = t ~> Settled(t) \/ current # t

\* PHASE5_COMPLETE.md:140 "Transaction ID tracking (prevents duplicate
\* transactions)".
AppliedAtMostOnce == \A t \in Txns : applied[t] <= 1

\* AFTCommands.cpp:101 "No transfers available": a step that moves credits by a
\* transfer is taken while transfers are available.
TransfersOnlyWhenAvailable == [][applied' # applied => available]_vars

=============================================================================
