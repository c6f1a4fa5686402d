------------------------- MODULE AftProtocol_proof --------------------------
(***************************************************************************)
(* Proofs about AftProtocol for every set of transactions, lock codes and  *)
(* requests, and every bound on losses, restarts and time-outs.            *)
(***************************************************************************)
EXTENDS AftProtocol, TLAPS

-----------------------------------------------------------------------------
(* Types                                                                   *)

\* Every transfer poll under way, and the host's current transaction, have been
\* asked for.
RequestsKnown ==
  /\ \A i \in 1..Len(toEgm) :
       toEgm[i].op = "transfer" => request[toEgm[i].txn] # NoRequest
  /\ current \in Txns => request[current] # NoRequest

\* A transfer out that waits for its debit is the first poll, and was accepted.
DebitInv ==
  debiting =>
    /\ toEgm # <<>> /\ Head(toEgm).op = "transfer"
    /\ TransferRefusal(Head(toEgm).txn) = "none"
    /\ request[Head(toEgm).txn].kind = "FROM_MACHINE"

TypeInv == TypeOK /\ RequestsKnown /\ DebitInv

\* The steps that end a transfer which is not refused.
Transferring == TransferFunds \/ TransferOutDebit

\* The first poll: what its fields are, and what is left when it is taken.
LEMMA FirstPoll ==
  ASSUME TypeInv, toEgm # <<>>
  PROVE  /\ Head(toEgm) \in Poll
         /\ Head(toEgm).op = "transfer" =>
              /\ Head(toEgm).txn \in Txns
              /\ request[Head(toEgm).txn] \in Requests
         /\ Head(toEgm).op # "transfer" => Head(toEgm).code \in LockCodes
         /\ Tail(toEgm) \in Seq(Poll)
         /\ \A i \in 1..Len(Tail(toEgm)) :
              Tail(toEgm)[i].op = "transfer" => request[Tail(toEgm)[i].txn] # NoRequest
<1>1. toEgm \in Seq(Poll) /\ Len(toEgm) \in Nat /\ Len(toEgm) >= 1
  BY DEF TypeInv, TypeOK
<1>2. Head(toEgm) = toEgm[1] /\ toEgm[1] \in Poll
  BY <1>1
<1>3. /\ Tail(toEgm) \in Seq(Poll)
      /\ Len(Tail(toEgm)) = Len(toEgm) - 1
      /\ \A i \in 1..Len(Tail(toEgm)) : Tail(toEgm)[i] = toEgm[i + 1]
  BY <1>1
<1>4. \A i \in 1..Len(Tail(toEgm)) :
        Tail(toEgm)[i].op = "transfer" => request[Tail(toEgm)[i].txn] # NoRequest
  BY <1>1, <1>3 DEF TypeInv, RequestsKnown
<1>5. /\ Head(toEgm).op = "transfer" => Head(toEgm).txn \in Txns
      /\ Head(toEgm).op # "transfer" => Head(toEgm).code \in LockCodes
  BY <1>2 DEF Poll
<1>6. Head(toEgm).op = "transfer" => request[Head(toEgm).txn] \in Requests
  <2>. HAVE Head(toEgm).op = "transfer"
  <2>1. request[Head(toEgm).txn] # NoRequest
    BY <1>1, <1>2 DEF TypeInv, RequestsKnown
  <2>. QED
    BY <1>5, <2>1 DEF TypeInv, TypeOK
<1>. QED
  BY <1>2, <1>3, <1>4, <1>5, <1>6

\* Sending a poll whose transaction has been asked for keeps the polls typed.
LEMMA SendTyped ==
  ASSUME NEW m \in Poll, NEW reqs,
         toEgm \in Seq(Poll),
         \A i \in 1..Len(toEgm) : toEgm[i].op = "transfer" => reqs[toEgm[i].txn] # NoRequest,
         m.op = "transfer" => reqs[m.txn] # NoRequest
  PROVE  /\ Append(toEgm, m) \in Seq(Poll)
         /\ \A i \in 1..Len(Append(toEgm, m)) :
              Append(toEgm, m)[i].op = "transfer" => reqs[Append(toEgm, m)[i].txn] # NoRequest
OBVIOUS

\* An answer is a verdict or a refusal that the host knows.
LEMMA VerdictTyped ==
  ASSUME AftAssumption, TypeInv, NEW t \in Txns, request[t] \in Requests
  PROVE  /\ request[t].amount \in Nat
         /\ TransferVerdict(t) \in KeptStatuses
         /\ TransferRefusal(t) # "none" => TransferRefusal(t) \in RefusedStatuses
         /\ credits + TransferEffect(t) \in Int
<1>1. request[t].kind \in Kinds /\ request[t].amount \in Nat
  BY DEF AftAssumption
<1>2. credits \in Int
  BY DEF TypeInv, TypeOK
<1>. QED
  BY <1>1, <1>2
  DEF TransferVerdict, TransferRefusal, TransferEffect, KeptStatuses, RefusedStatuses, Kinds

\* Taking a poll and answering it keeps the link typed.
LEMMA ReplyTyped ==
  ASSUME TypeInv, toEgm # <<>>, NEW r \in Answer, Reply(r), UNCHANGED <<request, current>>
  PROVE  /\ toEgm' \in Seq(Poll) /\ toHost' \in Seq(Answer)
         /\ RequestsKnown'
<1>1. toHost \in Seq(Answer)
  BY DEF TypeInv, TypeOK
<1>2. toHost' \in Seq(Answer)
  BY <1>1 DEF Reply
<1>. QED
  BY <1>2, FirstPoll DEF Reply, RequestsKnown, TypeInv

\* A transfer ends with a verdict that belongs to its kind, and was not refused.
LEMMA Transferred ==
  ASSUME TypeInv, Transferring
  PROVE  \E v \in {"FULL_TRANSFER_SUCCESSFUL", "GAMING_MACHINE_UNABLE", "NOT_VALID_FUNCTION"} :
           /\ toEgm # <<>> /\ Head(toEgm).op = "transfer"
           /\ TransferRefusal(Head(toEgm).txn) = "none"
           /\ v = "NOT_VALID_FUNCTION" <=> request[Head(toEgm).txn].kind = "DEBIT"
           /\ TransferDone(Head(toEgm).txn, v)
<1>1. CASE TransferFunds
  <2>1. PICK t, v : t = Head(toEgm).txn /\ v = TransferVerdict(t)
    OBVIOUS
  <2>2. /\ toEgm # <<>> /\ Head(toEgm).op = "transfer"
        /\ TransferRefusal(t) = "none" /\ TransferDone(t, v)
    BY <1>1, <2>1 DEF TransferFunds, Polled
  <2>3. request[t].kind \in Kinds
    BY <2>1, <2>2, FirstPoll, AftAssumption DEF AftAssumption
  <2>4. /\ v \in {"FULL_TRANSFER_SUCCESSFUL", "GAMING_MACHINE_UNABLE", "NOT_VALID_FUNCTION"}
        /\ v = "NOT_VALID_FUNCTION" <=> request[t].kind = "DEBIT"
    BY <2>1, <2>3 DEF TransferVerdict, Kinds
  <2>. QED
    BY <2>1, <2>2, <2>4
<1>2. CASE TransferOutDebit
  BY <1>2 DEF TransferOutDebit, TypeInv, DebitInv
<1>. QED
  BY <1>1, <1>2 DEF Transferring

\* Every handler keeps the types.
LEMMA EgmTyped ==
  ASSUME TypeInv, EgmStep
  PROVE  TypeOK' /\ RequestsKnown'
<1> USE AftAssumption
<1>1. ASSUME NEW status \in LockStatuses, toEgm # <<>>, LockReply(status),
             UNCHANGED <<request, current>>
      PROVE  toEgm' \in Seq(Poll) /\ toHost' \in Seq(Answer) /\ RequestsKnown'
  <2>1. [op |-> "lock", status |-> status] \in Answer
    BY DEF Answer
  <2>. QED
    BY <1>1, <2>1, ReplyTyped DEF LockReply
<1>2. /\ {"LOCK_ESTABLISHED", "LOCK_FORBIDDEN", "LOCK_AVAILABLE"} \subseteq LockStatuses
      /\ "TRANSFER_PENDING" \in KeptStatuses
  BY DEF LockStatuses, KeptStatuses
<1>3. CASE RegisterLock
  <2>1. toEgm' \in Seq(Poll) /\ toHost' \in Seq(Answer) /\ RequestsKnown'
    BY <1>1, <1>2, <1>3 DEF RegisterLock, Polled, hostVars
  <2>2. Head(toEgm).code \in LockCodes
    BY <1>3, FirstPoll DEF RegisterLock, Polled
  <2>. QED
    BY <1>2, <1>3, <2>1, <2>2 DEF RegisterLock, TypeInv, TypeOK, hostVars, histVars
<1>4. CASE ForbidLock
  <2>1. toEgm' \in Seq(Poll) /\ toHost' \in Seq(Answer) /\ RequestsKnown'
    BY <1>1, <1>2, <1>4 DEF ForbidLock, Polled, hostVars
  <2>. QED
    BY <1>2, <1>4, <2>1 DEF ForbidLock, TypeInv, TypeOK, hostVars, histVars
<1>5. CASE Unlock
  <2>1. toEgm' \in Seq(Poll) /\ toHost' \in Seq(Answer) /\ RequestsKnown'
    BY <1>1, <1>2, <1>5 DEF Unlock, Polled, hostVars
  <2>. QED
    BY <1>2, <1>5, <2>1 DEF Unlock, TypeInv, TypeOK, hostVars, histVars
<1>6. CASE UnlockRefused
  <2>1. toEgm' \in Seq(Poll) /\ toHost' \in Seq(Answer) /\ RequestsKnown'
    BY <1>1, <1>2, <1>6 DEF UnlockRefused, Polled, hostVars
  <2>. QED
    BY <1>6, <2>1 DEF UnlockRefused, TypeInv, TypeOK, egmVars, hostVars, histVars
<1>7. CASE TransferRefused
  <2> DEFINE t == Head(toEgm).txn
             r == [op |-> "transfer", txn |-> IF registered THEN t ELSE NoTxn,
                   status |-> TransferRefusal(t)]
  <2>1. toEgm # <<>> /\ t \in Txns /\ request[t] \in Requests
    BY <1>7, FirstPoll DEF TransferRefused, Polled
  <2>2. TransferRefusal(t) \in RefusedStatuses
    BY <1>7, <2>1, VerdictTyped DEF TransferRefused
  <2>3. r \in Answer
    BY <2>1, <2>2 DEF Answer, Statuses
  <2>4. toEgm' \in Seq(Poll) /\ toHost' \in Seq(Answer) /\ RequestsKnown'
    <3>1. Reply(r) /\ UNCHANGED <<request, current>>
      BY <1>7 DEF TransferRefused, hostVars
    <3>. QED
      BY <2>1, <2>3, <3>1, ReplyTyped
  <2>. QED
    BY <1>7, <2>4 DEF TransferRefused, TypeInv, TypeOK, egmVars, hostVars, histVars
<1>8. CASE Transferring
  <2> DEFINE t == Head(toEgm).txn
  <2>1. PICK v \in {"FULL_TRANSFER_SUCCESSFUL", "GAMING_MACHINE_UNABLE",
                     "NOT_VALID_FUNCTION"} :
          /\ toEgm # <<>> /\ Head(toEgm).op = "transfer"
          /\ TransferDone(t, v)
    BY <1>8, Transferred
  <2>2. t \in Txns /\ request[t] \in Requests
    BY <2>1, FirstPoll
  <2>3. /\ request[t].amount \in Nat
        /\ credits + TransferEffect(t) \in Int
    BY <2>2, VerdictTyped
  <2> DEFINE effect == IF v = "FULL_TRANSFER_SUCCESSFUL" THEN TransferEffect(t) ELSE 0
             r == [op |-> "transfer", txn |-> t, status |-> v]
  <2>4. v \in KeptStatuses /\ r \in Answer
    BY <2>1, <2>2 DEF Answer, Statuses, KeptStatuses
  <2>5. /\ credits' = credits + effect
        /\ debiting' = FALSE
        /\ lastTxn' = t
        /\ lastAmount' = request[t].amount
        /\ transferStatus' = v
        /\ applied' = IF effect # 0 THEN [applied EXCEPT ![t] = @ + 1] ELSE applied
        /\ processed' = [processed EXCEPT ![t] = TRUE]
        /\ Reply(r)
        /\ UNCHANGED <<registered, lockCode, lockStatus, gameLocked, available, hostVars>>
    BY <2>1 DEF TransferDone
  <2>6. credits + effect \in Int
    BY <2>3 DEF TypeInv, TypeOK
  <2>7. toEgm' \in Seq(Poll) /\ toHost' \in Seq(Answer) /\ RequestsKnown'
    <3>1. Reply(r) /\ UNCHANGED <<request, current>>
      BY <2>5 DEF hostVars
    <3>. QED
      BY <2>1, <2>4, <3>1, ReplyTyped
  <2> HIDE DEF t, effect, r
  <2>8. applied' \in [Txns -> Nat]
    BY <2>2, <2>5 DEF TypeInv, TypeOK
  <2>9. processed' \in [Txns -> BOOLEAN]
    BY <2>2, <2>5, Zenon DEF TypeInv, TypeOK
  <2>. QED
    BY <2>2, <2>3, <2>4, <2>5, <2>6, <2>7, <2>8, <2>9 DEF TypeInv, TypeOK, hostVars
<1>9. CASE TransferOut
  BY <1>9 DEF TransferOut, TypeInv, TypeOK, RequestsKnown, hostVars, histVars
<1>. QED
  BY <1>3, <1>4, <1>5, <1>6, <1>7, <1>8, <1>9 DEF EgmStep, Transferring

\* Every step of the host keeps the types: it repeats only what it has asked for.
LEMMA HostTyped ==
  ASSUME TypeInv, HostStep
  PROVE  TypeOK' /\ RequestsKnown'
<1> USE AftAssumption
<1> DEFINE Known(reqs) == \A i \in 1..Len(toEgm) :
             toEgm[i].op = "transfer" => reqs[toEgm[i].txn] # NoRequest
<1>1. toEgm \in Seq(Poll) /\ Known(request)
  BY DEF TypeInv, TypeOK, RequestsKnown
<1>2. ASSUME NEW m \in Poll, Send(m), m.op = "transfer" => request'[m.txn] # NoRequest,
             Known(request')
      PROVE  /\ awaiting' \in BOOLEAN /\ toEgm' \in Seq(Poll)
             /\ \A i \in 1..Len(toEgm') :
                  toEgm'[i].op = "transfer" => request'[toEgm'[i].txn] # NoRequest
  BY <1>1, <1>2, SendTyped DEF Send
<1>3. ASSUME NEW t \in Txns, SendTransfer(t), request'[t] # NoRequest, Known(request')
      PROVE  /\ awaiting' \in BOOLEAN /\ toEgm' \in Seq(Poll)
             /\ \A i \in 1..Len(toEgm') :
                  toEgm'[i].op = "transfer" => request'[toEgm'[i].txn] # NoRequest
  <2>1. [op |-> "transfer", txn |-> t] \in Poll
    BY DEF Poll
  <2>. QED
    BY <1>2, <1>3, <2>1 DEF SendTransfer
<1> HIDE DEF Known
<1>4. CASE HostStart
  <2>1. PICK t \in Txns, r \in Requests :
          /\ request[t] = NoRequest
          /\ request' = [request EXCEPT ![t] = r]
          /\ current' = t
          /\ SendTransfer(t)
          /\ UNCHANGED <<egmVars, credits, toHost, answer, resumed, histVars, countVars>>
    BY <1>4 DEF HostStart
  <2>2. request' \in [Txns -> Requests \cup {NoRequest}] /\ request'[t] = r
    BY <2>1 DEF TypeInv, TypeOK
  <2>3. \A i \in 1..Len(toEgm) : toEgm[i].op = "transfer" => toEgm[i].txn \in Txns
    BY <1>1 DEF Poll
  <2>4. Known(request')
    BY <1>1, <2>1, <2>2, <2>3 DEF Known, TypeInv, TypeOK
  <2>5. /\ awaiting' \in BOOLEAN /\ toEgm' \in Seq(Poll)
        /\ RequestsKnown'
    BY <1>3, <2>1, <2>2, <2>4 DEF RequestsKnown
  <2>. QED
    BY <2>1, <2>2, <2>5 DEF TypeInv, TypeOK, egmVars, histVars
<1>5. CASE HostRepeat
  <2>1. current \in Txns /\ SendTransfer(current)
        /\ UNCHANGED <<egmVars, credits, toHost, request, current, answer, resumed, histVars>>
    BY <1>5 DEF HostRepeat
  <2>2. /\ awaiting' \in BOOLEAN /\ toEgm' \in Seq(Poll)
        /\ RequestsKnown'
    <3>1. request'[current] # NoRequest /\ Known(request')
      BY <1>1, <2>1 DEF TypeInv, RequestsKnown
    <3>. QED
      BY <1>3, <2>1, <3>1 DEF RequestsKnown
  <2>. QED
    BY <2>1, <2>2 DEF TypeInv, TypeOK, egmVars, histVars
<1>6. CASE HostRegister
  <2>1. PICK k \in LockCodes :
          /\ current \in Txns
          /\ answer' = [answer EXCEPT ![current] = "none"]
          /\ Send([op |-> "register", code |-> k])
          /\ UNCHANGED <<egmVars, credits, toHost, request, current, resumed, histVars>>
    BY <1>6 DEF HostRegister
  <2>2. [op |-> "register", code |-> k] \in Poll
    BY DEF Poll
  <2>3. /\ awaiting' \in BOOLEAN /\ toEgm' \in Seq(Poll)
        /\ RequestsKnown'
    <3>1. Known(request')
      BY <1>1, <2>1
    <3>2. request'[current] # NoRequest
      BY <2>1 DEF TypeInv, RequestsKnown
    <3>. QED
      BY <1>2, <2>1, <2>2, <3>1, <3>2 DEF RequestsKnown
  <2>. QED
    BY <2>1, <2>3 DEF TypeInv, TypeOK, egmVars, histVars
<1>7. CASE HostResume
  <2>1. PICK t \in Txns :
          /\ request[t] # NoRequest
          /\ resumed' = [resumed EXCEPT ![t] = @ + 1]
          /\ current' = t
          /\ SendTransfer(t)
          /\ UNCHANGED <<egmVars, credits, toHost, request, answer, histVars>>
    BY <1>7 DEF HostResume
  <2>2. /\ awaiting' \in BOOLEAN /\ toEgm' \in Seq(Poll)
        /\ RequestsKnown'
    <3>1. request'[t] # NoRequest /\ Known(request')
      BY <1>1, <2>1
    <3>. QED
      BY <1>3, <2>1, <3>1 DEF RequestsKnown
  <2>. QED
    BY <2>1, <2>2 DEF TypeInv, TypeOK, egmVars, histVars
<1>8. CASE HostChangesLock
  <2>1. PICK k \in LockCodes, op \in {"register", "unlock"} :
          /\ Send([op |-> op, code |-> k])
          /\ UNCHANGED <<egmVars, credits, toHost, request, current, answer, resumed, histVars>>
    BY <1>8 DEF HostChangesLock
  <2>2. [op |-> op, code |-> k] \in Poll
    BY DEF Poll
  <2>3. /\ awaiting' \in BOOLEAN /\ toEgm' \in Seq(Poll)
        /\ RequestsKnown'
    <3>1. Known(request')
      BY <1>1, <2>1
    <3>2. current' \in Txns => request'[current'] # NoRequest
      BY <2>1 DEF TypeInv, RequestsKnown
    <3>. QED
      BY <1>2, <2>1, <2>2, <3>1, <3>2 DEF RequestsKnown
  <2>. QED
    BY <2>1, <2>3 DEF TypeInv, TypeOK, egmVars, histVars
<1>9. CASE HostReceive
  <2>1. toHost \in Seq(Answer) /\ toHost # <<>> /\ Head(toHost) \in Answer
        /\ Tail(toHost) \in Seq(Answer)
    BY <1>9 DEF HostReceive, TypeInv, TypeOK
  <2>2. Head(toHost).op = "transfer" => Head(toHost).status \in Statuses
    BY <2>1 DEF Answer
  <2>3. answer' \in [Txns -> Statuses \cup {"none"}]
    BY <1>9, <2>2 DEF HostReceive, TypeInv, TypeOK
  <2>. QED
    BY <1>9, <2>1, <2>3 DEF HostReceive, TypeInv, TypeOK, RequestsKnown, egmVars, histVars
<1>10. CASE HostTimeout
  BY <1>10 DEF HostTimeout, TypeInv, TypeOK, RequestsKnown, egmVars, histVars
<1>11. CASE HostEarlyTimeout
  BY <1>11 DEF HostEarlyTimeout, TypeInv, TypeOK, RequestsKnown, egmVars, histVars
<1>. QED
  BY <1>4, <1>5, <1>6, <1>7, <1>8, <1>9, <1>10, <1>11 DEF HostStep

\* So do the player, a restart and the link.
LEMMA OthersTyped ==
  ASSUME TypeInv, LosePoll \/ LoseAnswer \/ PlayerStep \/ Restart
  PROVE  TypeOK' /\ RequestsKnown'
<1> USE AftAssumption
<1>1. CASE LosePoll
  BY <1>1, FirstPoll
  DEF LosePoll, TypeInv, TypeOK, RequestsKnown, egmVars, hostVars, histVars
<1>2. CASE LoseAnswer
  BY <1>2 DEF LoseAnswer, TypeInv, TypeOK, RequestsKnown, egmVars, hostVars, histVars
<1>3. CASE PlayerStep
  <2>1. credits' \in Int /\ UNCHANGED <<egmVars, toEgm, toHost, hostVars, histVars>>
    BY <1>3 DEF PlayerStep, TypeInv, TypeOK
  <2>. QED
    BY <2>1 DEF TypeInv, TypeOK, RequestsKnown, egmVars, hostVars, histVars
<1>4. CASE Restart
  <2>1. /\ credits' = credits + StartupCredits
        /\ toEgm' = <<>>
        /\ UNCHANGED <<toHost, awaiting, request, current, answer, resumed, applied, processed>>
    BY <1>4 DEF Restart, hostVars, histVars
  <2>2. /\ registered' = FALSE /\ gameLocked' = FALSE /\ available' = FALSE
        /\ debiting' = FALSE
        /\ lockCode' = ZeroCode /\ lockStatus' = "LOCK_AVAILABLE"
        /\ transferStatus' = "TRANSFER_PENDING" /\ lastTxn' = NoTxn /\ lastAmount' = 0
    BY <1>4 DEF Restart, EgmStatics
  <2>3. StartupCredits \in Nat /\ ZeroCode \in LockCodes
    BY DEF AftAssumption
  <2>4. credits' \in Int
    BY <2>1, <2>3 DEF TypeInv, TypeOK
  <2>5. toEgm' \in Seq(Poll) /\ Len(toEgm') = 0
    BY <2>1
  <2>6. RequestsKnown'
    BY <2>1, <2>5 DEF TypeInv, RequestsKnown
  <2>7. TypeOK'
    BY <2>1, <2>2, <2>3, <2>4, <2>5 DEF TypeInv, TypeOK, LockStatuses, KeptStatuses
  <2>. QED
    BY <2>6, <2>7 DEF TypeInv
<1>. QED
  BY <1>1, <1>2, <1>3, <1>4

\* No other poll is taken, and this one is not lost, before the debit.
LEMMA DebitKept ==
  ASSUME TypeInv, [Next]_vars
  PROVE  DebitInv'
<1>1. CASE TransferOut
  BY <1>1 DEF TransferOut, Polled, TakesCredits, TransferRefusal, DebitInv, hostVars
<1>2. CASE Transferring
  <2>1. debiting' = FALSE
    BY <1>2, Transferred DEF TransferDone
  <2>. QED
    BY <2>1 DEF DebitInv
<1>3. CASE RegisterLock \/ ForbidLock \/ Unlock \/ UnlockRefused \/ TransferRefused
           \/ LosePoll \/ Restart
  <2>1. debiting' = FALSE
    BY <1>3 DEF RegisterLock, ForbidLock, Unlock, UnlockRefused, TransferRefused, LosePoll,
                Restart, Polled, egmVars, TypeInv, TypeOK
  <2>. QED
    BY <2>1 DEF DebitInv
\* The host sends behind it, and asks for another transaction.
<1>4. ASSUME debiting' = debiting, debiting => toEgm' # <<>> /\ Head(toEgm') = Head(toEgm),
             UNCHANGED <<registered, lastTxn, lastAmount>>,
             debiting => request'[Head(toEgm).txn] = request[Head(toEgm).txn]
      PROVE  DebitInv'
  BY <1>4 DEF TypeInv, DebitInv, TransferRefusal
<1>5. ASSUME NEW m \in Poll, toEgm' = Append(toEgm, m), debiting
      PROVE  toEgm' # <<>> /\ Head(toEgm') = Head(toEgm)
  BY <1>5 DEF TypeInv, TypeOK, DebitInv
<1>6. CASE HostStart
  <2>1. PICK t \in Txns, r \in Requests :
          /\ request[t] = NoRequest /\ request' = [request EXCEPT ![t] = r]
          /\ toEgm' = Append(toEgm, [op |-> "transfer", txn |-> t])
          /\ UNCHANGED egmVars
    BY <1>6 DEF HostStart, SendTransfer, Send
  <2>2. PICK m \in Poll : toEgm' = Append(toEgm, m)
    BY <2>1 DEF Poll
  <2>3. debiting => Head(toEgm).txn \in Txns /\ request[Head(toEgm).txn] # NoRequest
    BY FirstPoll, AftAssumption DEF TypeInv, DebitInv, AftAssumption
  <2>4. debiting => request'[Head(toEgm).txn] = request[Head(toEgm).txn]
    BY <2>1, <2>3 DEF TypeInv, TypeOK
  <2>. QED
    BY <1>4, <1>5, <2>1, <2>2, <2>4 DEF egmVars
<1>7. CASE HostRepeat \/ HostRegister \/ HostResume \/ HostChangesLock
  <2>1. PICK m \in Poll : toEgm' = Append(toEgm, m)
    <3>1. CASE HostRepeat
      <4>1. /\ current \in Txns
            /\ toEgm' = Append(toEgm, [op |-> "transfer", txn |-> current])
        BY <3>1 DEF HostRepeat, SendTransfer, Send
      <4>. QED
        BY <4>1 DEF Poll
    <3>2. CASE HostRegister
      <4>1. PICK k \in LockCodes : toEgm' = Append(toEgm, [op |-> "register", code |-> k])
        BY <3>2 DEF HostRegister, Send
      <4>. QED
        BY <4>1 DEF Poll
    <3>3. CASE HostResume
      <4>1. PICK t \in Txns : toEgm' = Append(toEgm, [op |-> "transfer", txn |-> t])
        BY <3>3 DEF HostResume, SendTransfer, Send
      <4>. QED
        BY <4>1 DEF Poll
    <3>4. CASE HostChangesLock
      <4>1. PICK k \in LockCodes, op \in {"register", "unlock"} :
              toEgm' = Append(toEgm, [op |-> op, code |-> k])
        BY <3>4 DEF HostChangesLock, Send
      <4>. QED
        BY <4>1 DEF Poll
    <3>. QED
      BY <1>7, <3>1, <3>2, <3>3, <3>4
  <2>2. UNCHANGED <<egmVars, request>>
    BY <1>7 DEF HostRepeat, HostRegister, HostResume, HostChangesLock
  <2>. QED
    BY <1>4, <1>5, <2>1, <2>2 DEF egmVars
<1>8. CASE HostReceive \/ HostTimeout \/ HostEarlyTimeout \/ LoseAnswer \/ PlayerStep
           \/ UNCHANGED vars
  <2>1. UNCHANGED <<egmVars, toEgm, request>>
    BY <1>8 DEF HostReceive, HostTimeout, HostEarlyTimeout, LoseAnswer, PlayerStep, vars,
                hostVars
  <2>. QED
    BY <1>4, <2>1 DEF egmVars, TypeInv, DebitInv
<1>. QED
  BY <1>1, <1>2, <1>3, <1>6, <1>7, <1>8 DEF Next, EgmStep, HostStep, Transferring

\* Types, with what they rest on: only what was asked for is ever polled.
THEOREM TypesKnown == Spec => []TypeInv
<1>1. Init => TypeInv
  <2>. SUFFICES ASSUME Init PROVE TypeInv
    OBVIOUS
  <2>1. /\ registered = FALSE /\ gameLocked = FALSE /\ available = FALSE
        /\ lockCode = ZeroCode /\ lockStatus = "LOCK_AVAILABLE"
        /\ transferStatus = "TRANSFER_PENDING" /\ lastTxn = NoTxn /\ lastAmount = 0
    BY DEF Init, EgmStatics
  <2>2. OpeningCredits \in Nat /\ ZeroCode \in LockCodes /\ NoTxn \notin Txns
    BY AftAssumption DEF AftAssumption
  <2>3. /\ toEgm \in Seq(Poll) /\ Len(toEgm) = 0 /\ toHost \in Seq(Answer)
        /\ credits = OpeningCredits /\ awaiting = FALSE /\ current = NoTxn
    BY DEF Init
  <2>4. /\ request \in [Txns -> Requests \cup {NoRequest}]
        /\ answer \in [Txns -> Statuses \cup {"none"}]
        /\ applied \in [Txns -> Nat] /\ resumed \in [Txns -> Nat]
        /\ processed \in [Txns -> BOOLEAN]
    BY DEF Init
  <2>5. RequestsKnown
    BY <2>2, <2>3 DEF RequestsKnown
  <2>6. debiting = FALSE /\ DebitInv
    BY DEF Init, DebitInv
  <2>7. credits \in Int
    BY <2>2, <2>3
  <2>8. TypeOK
    BY <2>1, <2>2, <2>3, <2>4, <2>6, <2>7 DEF TypeOK, LockStatuses, KeptStatuses
  <2>. QED
    BY <2>5, <2>6, <2>8 DEF TypeInv
<1>2. TypeInv /\ [Next]_vars => TypeInv'
  <2>. SUFFICES ASSUME TypeInv, [Next]_vars PROVE TypeInv'
    OBVIOUS
  <2>1. CASE UNCHANGED vars
    BY <2>1, DebitKept DEF vars, egmVars, hostVars, histVars, TypeInv, TypeOK, RequestsKnown
  <2>. QED
    BY <2>1, EgmTyped, HostTyped, OthersTyped, DebitKept DEF Next, TypeInv
<1>. QED
  BY <1>1, <1>2, PTL DEF Spec

\* The machine, the messages and the host's records always have their types; above
\* all, the status the machine keeps is one a transfer ended with.
THEOREM TypeCorrect == Spec => []TypeOK
<1>1. TypeInv => TypeOK
  BY DEF TypeInv
<1>. QED
  BY <1>1, TypesKnown, PTL

-----------------------------------------------------------------------------
(* The lock                                                                *)

\* The lock variables agree when the emulator starts, and every handler that
\* sets one of them sets the others with it.
LEMMA LockInductive ==
  /\ Init => LockStateConsistent
  /\ LockStateConsistent /\ [Next]_vars => LockStateConsistent'
<1>1. Init => LockStateConsistent
  BY DEF Init, EgmStatics, LockStateConsistent
<1>2. ASSUME LockStateConsistent, [Next]_vars PROVE LockStateConsistent'
  <2>1. CASE RegisterLock
    BY <2>1 DEF RegisterLock, LockStateConsistent
  <2>2. CASE ForbidLock
    BY <1>2, <2>2 DEF ForbidLock, LockStateConsistent
  <2>3. CASE Unlock
    BY <2>3 DEF Unlock, LockStateConsistent
  <2>4. CASE Restart
    BY <2>4 DEF Restart, EgmStatics, LockStateConsistent
  <2>5. CASE UNCHANGED <<registered, lockCode, lockStatus, gameLocked, available>>
    BY <1>2, <2>5 DEF LockStateConsistent
  <2>6. UnlockRefused \/ TransferRefused \/ TransferFunds \/ TransferOut
        \/ TransferOutDebit \/ HostStep
        \/ LosePoll \/ LoseAnswer \/ PlayerStep \/ UNCHANGED vars
        => UNCHANGED <<registered, lockCode, lockStatus, gameLocked, available>>
    BY DEF UnlockRefused, TransferRefused, TransferFunds, TransferOut, TransferOutDebit,
           TransferDone, LosePoll, LoseAnswer,
           PlayerStep, HostStep, HostStart, HostRepeat, HostRegister, HostResume,
           HostChangesLock, HostReceive, HostTimeout, HostEarlyTimeout, egmVars, vars
  <2>. QED
    BY <1>2, <2>1, <2>2, <2>3, <2>4, <2>5, <2>6 DEF Next, EgmStep
<1>. QED
  BY <1>1, <1>2

\* Whatever the order of registrations, refused codes, unlocks and restarts, the
\* variables that 0x70 to 0x74 report never contradict each other.
THEOREM LockIsConsistent == Spec => []LockStateConsistent
BY LockInductive, PTL DEF Spec

=============================================================================
