--------------------------- MODULE AftOnce_proof ----------------------------
(***************************************************************************)
(* Proof that a transaction of AftProtocol is applied again only after a   *)
(* restart or a return of the host to it, and, in the second part, that    *)
(* what the host is told of a transaction is true.                         *)
(*                                                                         *)
(* The duplicate check remembers one transaction, so what it refuses       *)
(* depends on the order of the polls under way.  Each of them is given the *)
(* turn in which the host sent it: the number of its returns to that       *)
(* transaction by then.  Between two polls of one turn there is no poll    *)
(* for another transaction, so that the first of them to be handled makes  *)
(* the machine refuse the rest.                                            *)
(***************************************************************************)
EXTENDS AftProtocol_proof

\* A transfer poll for another transaction than t among polls i to j of q.
Rival(q, t, i, j) == \E k \in i..j : q[k].op = "transfer" /\ q[k].txn # t

\* A poll for t sent in turn n, with the polls up to i before it, will not be one
\* too many: it finds fewer than n + 1 applications, or is refused.
Guarded(t, n, i) ==
  \/ applied[t] <= restarts + n
  \/ /\ lastTxn = t /\ ~Rival(toEgm, t, 1, i)
     /\ applied[t] <= restarts + n + 1

\* e gives the turns of the polls under way: they go up, and past a rival strictly.
Ordered(e) ==
  /\ \A i \in 1..Len(toEgm) : toEgm[i].op = "transfer" =>
       /\ e[i] <= resumed[toEgm[i].txn]
       /\ toEgm[i].txn = current /\ Rival(toEgm, current, i, Len(toEgm))
            => e[i] < resumed[current]
  /\ \A i, j \in 1..Len(toEgm) :
       /\ i < j /\ toEgm[i].op = "transfer" /\ toEgm[j].op = "transfer"
       /\ toEgm[i].txn = toEgm[j].txn
       => /\ e[i] <= e[j]
          /\ Rival(toEgm, toEgm[i].txn, i, j) => e[i] < e[j]

\* None of them will be one too many.
PollsGuarded(e) ==
  \A i \in 1..Len(toEgm) :
    toEgm[i].op = "transfer" => Guarded(toEgm[i].txn, e[i], i)

\* The duplicate record holds what it should, and so does what has been applied.
RecordOk ==
  /\ restarts \in Nat
  /\ lastTxn \in Txns =>
       request[lastTxn] # NoRequest /\ lastAmount = request[lastTxn].amount
  /\ \A t \in Txns : request[t] = NoRequest => applied[t] = 0

OnceInv ==
  /\ TypeInv
  /\ RecordOk
  /\ AppliedOncePerReturn
  /\ current \in Txns => Guarded(current, resumed[current], Len(toEgm))
  /\ \E e \in [1..Len(toEgm) -> Nat] : Ordered(e) /\ PollsGuarded(e)

-----------------------------------------------------------------------------
(* The queue of polls                                                      *)

\* Taking the first poll away leaves the rivals of the others as they were.
LEMMA TailRivals ==
  ASSUME NEW q \in Seq(Poll), q # <<>>, NEW t, NEW i \in Nat, NEW j \in Nat,
         1 <= i, j <= Len(Tail(q))
  PROVE  Rival(Tail(q), t, i, j) <=> Rival(q, t, i + 1, j + 1)
<1>1. /\ Len(q) \in Nat /\ Len(Tail(q)) = Len(q) - 1
      /\ \A k \in 1..Len(Tail(q)) : Tail(q)[k] = q[k + 1]
  OBVIOUS
<1>2. ASSUME Rival(Tail(q), t, i, j) PROVE Rival(q, t, i + 1, j + 1)
  <2>1. PICK k \in i..j : Tail(q)[k].op = "transfer" /\ Tail(q)[k].txn # t
    BY <1>2 DEF Rival
  <2>2. k + 1 \in (i + 1)..(j + 1) /\ Tail(q)[k] = q[k + 1]
    BY <1>1, <2>1
  <2>. QED
    BY <2>1, <2>2 DEF Rival
<1>3. ASSUME Rival(q, t, i + 1, j + 1) PROVE Rival(Tail(q), t, i, j)
  <2>1. PICK k \in (i + 1)..(j + 1) : q[k].op = "transfer" /\ q[k].txn # t
    BY <1>3 DEF Rival
  <2>2. k - 1 \in i..j /\ Tail(q)[k - 1] = q[k]
    BY <1>1, <2>1
  <2>. QED
    BY <2>1, <2>2 DEF Rival
<1>. QED
  BY <1>2, <1>3

\* A poll sent behind them leaves them as they were, and is itself a rival to the
\* polls for other transactions only.
LEMMA AppendRivals ==
  ASSUME NEW q \in Seq(Poll), NEW m \in Poll, NEW t, NEW i \in Nat, 1 <= i
  PROVE  /\ \A j \in 1..Len(q) : Rival(Append(q, m), t, i, j) <=> Rival(q, t, i, j)
         /\ ~(m.op = "transfer" /\ m.txn # t) =>
              (Rival(Append(q, m), t, i, Len(q) + 1) <=> Rival(q, t, i, Len(q)))
<1>1. /\ Len(q) \in Nat /\ Append(q, m)[Len(q) + 1] = m
      /\ \A k \in 1..Len(q) : Append(q, m)[k] = q[k]
  OBVIOUS
<1>2. ASSUME NEW j \in 1..Len(q)
      PROVE  Rival(Append(q, m), t, i, j) <=> Rival(q, t, i, j)
  <2>1. \A k \in i..j : Append(q, m)[k] = q[k]
    BY <1>1, <1>2
  <2>. QED
    BY <2>1 DEF Rival
<1>3. ASSUME ~(m.op = "transfer" /\ m.txn # t)
      PROVE  Rival(Append(q, m), t, i, Len(q) + 1) <=> Rival(q, t, i, Len(q))
  <2>1. \A k \in i..(Len(q) + 1) :
          IF k = Len(q) + 1 THEN Append(q, m)[k] = m
                            ELSE k \in i..Len(q) /\ Append(q, m)[k] = q[k]
    BY <1>1
  <2>2. \A k \in i..Len(q) : k \in i..(Len(q) + 1) /\ k # Len(q) + 1
    BY <1>1
  <2>. QED
    BY <1>3, <2>1, <2>2 DEF Rival
<1>. QED
  BY <1>2, <1>3

-----------------------------------------------------------------------------
(* Steps                                                                   *)

\* The polls behind the first keep their turns when it is taken.
LEMMA TailOrdered ==
  ASSUME TypeInv, TypeInv', toEgm # <<>>, toEgm' = Tail(toEgm),
         UNCHANGED <<current, resumed>>,
         NEW e \in [1..Len(toEgm) -> Nat], Ordered(e)
  PROVE  \E f \in [1..Len(toEgm') -> Nat] :
           (\A i \in 1..Len(toEgm') : f[i] = e[i + 1]) /\ Ordered(f)'
<1>1. /\ toEgm \in Seq(Poll) /\ Len(toEgm) \in Nat /\ Len(toEgm') = Len(toEgm) - 1
      /\ Len(toEgm') \in Nat
      /\ \A i \in 1..Len(toEgm') : i + 1 \in 1..Len(toEgm) /\ toEgm'[i] = toEgm[i + 1]
  BY DEF TypeInv, TypeOK
<1>2. PICK f \in [1..Len(toEgm') -> Nat] : \A i \in 1..Len(toEgm') : f[i] = e[i + 1]
  <2>1. [i \in 1..Len(toEgm') |-> e[i + 1]] \in [1..Len(toEgm') -> Nat]
    BY <1>1
  <2>. QED
    BY <2>1
<1>3. \A t, i, j : i \in 1..Len(toEgm') /\ j \in 1..Len(toEgm') =>
        (Rival(toEgm', t, i, j) <=> Rival(toEgm, t, i + 1, j + 1))
  BY <1>1, TailRivals
<1>4. ASSUME NEW i \in 1..Len(toEgm'), toEgm'[i].op = "transfer"
      PROVE  /\ f[i] <= resumed'[toEgm'[i].txn]
             /\ toEgm'[i].txn = current' /\ Rival(toEgm', current', i, Len(toEgm'))
                  => f[i] < resumed'[current']
  <2>1. /\ toEgm[i + 1].op = "transfer" /\ toEgm'[i].txn = toEgm[i + 1].txn
        /\ i + 1 \in 1..Len(toEgm) /\ f[i] = e[i + 1]
        /\ Len(toEgm') \in 1..Len(toEgm')
    BY <1>1, <1>2, <1>4
  <2>2. Rival(toEgm', current, i, Len(toEgm')) <=> Rival(toEgm, current, i + 1, Len(toEgm') + 1)
    BY <1>3, <2>1
  <2>3. Len(toEgm') + 1 = Len(toEgm)
    BY <1>1
  <2>. QED
    BY <2>1, <2>2, <2>3 DEF Ordered
<1>5. ASSUME NEW i \in 1..Len(toEgm'), NEW j \in 1..Len(toEgm'),
             i < j, toEgm'[i].op = "transfer", toEgm'[j].op = "transfer",
             toEgm'[i].txn = toEgm'[j].txn
      PROVE  /\ f[i] <= f[j]
             /\ Rival(toEgm', toEgm'[i].txn, i, j) => f[i] < f[j]
  <2>1. /\ toEgm'[i] = toEgm[i + 1] /\ toEgm'[j] = toEgm[j + 1]
        /\ i + 1 \in 1..Len(toEgm) /\ j + 1 \in 1..Len(toEgm)
        /\ f[i] = e[i + 1] /\ f[j] = e[j + 1] /\ i + 1 < j + 1
    BY <1>1, <1>2, <1>5
  <2>2. Rival(toEgm', toEgm'[i].txn, i, j) <=> Rival(toEgm, toEgm[i + 1].txn, i + 1, j + 1)
    BY <1>3, <2>1
  <2>. QED
    BY <1>5, <2>1, <2>2 DEF Ordered
<1>6. Ordered(f)'
  BY <1>4, <1>5 DEF Ordered
<1>. QED
  BY <1>2, <1>6

\* A poll is lost, or answered without effect.
LEMMA DequeuedKeepsOnce ==
  ASSUME OnceInv, TypeInv', toEgm # <<>>, toEgm' = Tail(toEgm),
         UNCHANGED <<lastTxn, lastAmount, request, current, applied, resumed, restarts>>
  PROVE  OnceInv'
<1>1. PICK e \in [1..Len(toEgm) -> Nat] : Ordered(e) /\ PollsGuarded(e)
  BY DEF OnceInv
<1>2. PICK f \in [1..Len(toEgm') -> Nat] :
        (\A i \in 1..Len(toEgm') : f[i] = e[i + 1]) /\ Ordered(f)'
  BY <1>1, TailOrdered DEF OnceInv
<1>3. /\ toEgm \in Seq(Poll) /\ Len(toEgm) \in Nat /\ Len(toEgm') = Len(toEgm) - 1
      /\ \A i \in 1..Len(toEgm') : i + 1 \in 1..Len(toEgm) /\ toEgm'[i] = toEgm[i + 1]
  BY DEF OnceInv, TypeInv, TypeOK
<1>4. ASSUME NEW t, NEW n, NEW i \in 0..Len(toEgm'), Guarded(t, n, i + 1)
      PROVE  Guarded(t, n, i)'
  <2>1. Rival(toEgm', t, 1, i) <=> Rival(toEgm, t, 2, i + 1)
    BY <1>3, TailRivals
  <2>2. Rival(toEgm, t, 2, i + 1) => Rival(toEgm, t, 1, i + 1)
    BY <1>3 DEF Rival
  <2>. QED
    BY <1>4, <2>1, <2>2 DEF Guarded
<1>5. PollsGuarded(f)'
  <2>1. ASSUME NEW i \in 1..Len(toEgm'), toEgm'[i].op = "transfer"
        PROVE  (Guarded(toEgm[i].txn, f[i], i))'
    <3>1. PICK t : t = toEgm[i + 1].txn /\ t = toEgm'[i].txn
      BY <1>3
    <3>2. Guarded(t, e[i + 1], i + 1) /\ e[i + 1] = f[i]
      BY <1>1, <1>2, <1>3, <2>1, <3>1 DEF PollsGuarded
    <3>3. Guarded(t, f[i], i)'
      BY <1>4, <3>2
    <3>. QED
      BY <3>1, <3>3 DEF Guarded
  <2>. QED
    BY <2>1 DEF PollsGuarded
<1>6. (current \in Txns => Guarded(current, resumed[current], Len(toEgm)))'
  <2>1. Len(toEgm') \in 0..Len(toEgm') /\ Len(toEgm) = Len(toEgm') + 1
    BY <1>3
  <2>. QED
    BY <1>4, <2>1 DEF OnceInv
<1>. QED
  BY <1>2, <1>5, <1>6 DEF OnceInv, RecordOk, AppliedOncePerReturn

\* A transfer is processed.  Its poll was not a duplicate, so it was in time for
\* its turn; the polls of that turn left behind it will find its ID.
LEMMA TransferKeepsOnce ==
  ASSUME OnceInv, TypeInv', Transferring
  PROVE  OnceInv'
<1>1. PICK e \in [1..Len(toEgm) -> Nat] : Ordered(e) /\ PollsGuarded(e)
  BY DEF OnceInv
<1>2. PICK t : t = Head(toEgm).txn
  OBVIOUS
<1>0. /\ toEgm # <<>> /\ Head(toEgm).op = "transfer" /\ TransferRefusal(t) = "none"
      /\ \E v : TransferDone(t, v)
  BY <1>2, Transferred DEF OnceInv
<1>3. /\ toEgm # <<>> /\ toEgm[1].op = "transfer" /\ toEgm[1].txn = t
      /\ toEgm \in Seq(Poll) /\ Len(toEgm) \in Nat /\ 1 \in 1..Len(toEgm)
      /\ t \in Txns /\ request[t] \in Requests
  <2>1. toEgm \in Seq(Poll) /\ Head(toEgm) = toEgm[1] /\ 1 \in 1..Len(toEgm)
    BY <1>0 DEF OnceInv, TypeInv, TypeOK
  <2>. QED
    BY <1>0, <1>2, <2>1, FirstPoll DEF OnceInv
<1>4. /\ toEgm' = Tail(toEgm) /\ Len(toEgm') = Len(toEgm) - 1
      /\ \A i \in 1..Len(toEgm') : i + 1 \in 1..Len(toEgm) /\ toEgm'[i] = toEgm[i + 1]
  BY <1>0, <1>3 DEF TransferDone, Reply
<1>5. /\ lastTxn' = t /\ lastAmount' = request[t].amount
      /\ UNCHANGED <<request, current, resumed, restarts>>
  BY <1>0 DEF TransferDone, hostVars, countVars
<1>6. /\ applied'[t] <= applied[t] + 1 /\ applied'[t] \in Nat /\ applied[t] \in Nat
      /\ \A u \in Txns \ {t} : applied'[u] = applied[u]
      /\ \A u \in Txns : applied[u] \in Nat /\ applied'[u] \in Nat
      /\ restarts \in Nat
  <2>1. applied' = applied \/ applied' = [applied EXCEPT ![t] = @ + 1]
    BY <1>0 DEF TransferDone
  <2>. QED
    BY <1>3, <2>1 DEF OnceInv, RecordOk, TypeInv, TypeOK
<1>7. lastTxn # t
  BY <1>0, <1>3 DEF OnceInv, RecordOk, TransferRefusal
<1>8. e[1] \in Nat /\ applied[t] <= restarts + e[1] /\ e[1] <= resumed[t]
  BY <1>1, <1>3, <1>7 DEF PollsGuarded, Guarded, Ordered
<1>9. PICK f \in [1..Len(toEgm') -> Nat] :
        (\A i \in 1..Len(toEgm') : f[i] = e[i + 1]) /\ Ordered(f)'
  BY <1>1, <1>3, <1>4, <1>5, TailOrdered DEF OnceInv
\* A poll for t is guarded when its turn is no less, and greater past a rival.
<1>10. ASSUME NEW n \in Nat, NEW i \in 0..Len(toEgm'),
              e[1] <= n, Rival(toEgm, t, 1, i + 1) => e[1] < n
       PROVE  Guarded(t, n, i)'
  <2>1. Rival(toEgm', t, 1, i) => Rival(toEgm, t, 1, i + 1)
    <3>1. Rival(toEgm', t, 1, i) <=> Rival(toEgm, t, 2, i + 1)
      BY <1>3, <1>4, TailRivals
    <3>. QED
      BY <3>1 DEF Rival
  <2>2. applied'[t] <= restarts + n + 1
    BY <1>6, <1>8, <1>10
  <2>3. CASE Rival(toEgm', t, 1, i)
    <3>1. applied'[t] <= restarts + n
      BY <1>6, <1>8, <1>10, <2>1, <2>3
    <3>. QED
      BY <1>5, <3>1 DEF Guarded
  <2>4. CASE ~Rival(toEgm', t, 1, i)
    BY <1>5, <2>2, <2>4 DEF Guarded
  <2>. QED
    BY <2>3, <2>4
\* For another transaction the poll taken was a rival, so it was in time already.
<1>11. ASSUME NEW u \in Txns \ {t}, NEW n \in Nat, NEW i \in 0..Len(toEgm'),
              Guarded(u, n, i + 1)
       PROVE  Guarded(u, n, i)'
  <2>1. Rival(toEgm, u, 1, i + 1)
    BY <1>3 DEF Rival
  <2>. QED
    BY <1>5, <1>6, <1>11, <2>1 DEF Guarded
<1>12. PollsGuarded(f)'
  <2>1. ASSUME NEW i \in 1..Len(toEgm'), toEgm'[i].op = "transfer"
        PROVE  (Guarded(toEgm[i].txn, f[i], i))'
    <3>1. PICK u \in Txns : u = toEgm[i + 1].txn /\ u = toEgm'[i].txn
      BY <1>3, <1>4, <2>1 DEF Poll
    <3>2. /\ Guarded(u, e[i + 1], i + 1) /\ e[i + 1] = f[i] /\ f[i] \in Nat
          /\ i + 1 \in 1..Len(toEgm) /\ toEgm[i + 1].op = "transfer" /\ 1 < i + 1
      BY <1>1, <1>4, <1>9, <2>1, <3>1 DEF PollsGuarded
    <3>3. u = t => e[1] <= f[i] /\ (Rival(toEgm, t, 1, i + 1) => e[1] < f[i])
      BY <1>1, <1>3, <3>1, <3>2 DEF Ordered
    <3>4. Guarded(u, f[i], i)'
      BY <1>10, <1>11, <3>2, <3>3
    <3>. QED
      BY <3>1, <3>4 DEF Guarded
  <2>. QED
    BY <2>1 DEF PollsGuarded
<1>13. (current \in Txns => Guarded(current, resumed[current], Len(toEgm)))'
  <2>1. SUFFICES ASSUME current \in Txns
                 PROVE  Guarded(current, resumed[current], Len(toEgm))'
    BY <1>5
  <2>2. PICK u \in Txns, n \in Nat : u = current /\ n = resumed[current]
    BY <2>1 DEF OnceInv, TypeInv, TypeOK
  <2>3. Guarded(u, n, Len(toEgm)) /\ Len(toEgm') \in 0..Len(toEgm')
        /\ Len(toEgm) = Len(toEgm') + 1
    BY <1>3, <1>4, <2>1, <2>2 DEF OnceInv
  <2>4. u = t => e[1] <= n /\ (Rival(toEgm, t, 1, Len(toEgm)) => e[1] < n)
    BY <1>1, <1>3, <1>8, <2>2 DEF Ordered
  <2>5. \A i : i = Len(toEgm') => Guarded(u, n, i)'
    BY <1>10, <1>11, <2>3, <2>4
  <2>. QED
    BY <1>5, <2>2, <2>5 DEF Guarded
<1>14. RecordOk'
  <2>1. request[t] # NoRequest
    BY <1>3, AftAssumption DEF AftAssumption
  <2>2. \A u \in Txns : request[u] = NoRequest => applied'[u] = 0
    BY <1>6, <2>1 DEF OnceInv, RecordOk
  <2>. QED
    BY <1>5, <1>6, <2>1, <2>2 DEF RecordOk
<1>15. AppliedOncePerReturn'
  <2>1. ASSUME NEW u \in Txns PROVE applied'[u] <= 1 + restarts + resumed[u]
    <3>1. resumed[u] \in Nat /\ applied[u] <= 1 + restarts + resumed[u]
      BY DEF OnceInv, AppliedOncePerReturn, TypeInv, TypeOK
    <3>2. CASE u = t
      BY <1>6, <1>8, <3>1, <3>2
    <3>3. CASE u # t
      BY <1>6, <3>1, <3>3
    <3>. QED
      BY <3>2, <3>3
  <2>. QED
    BY <1>5, <2>1 DEF AppliedOncePerReturn
<1>. QED
  BY <1>9, <1>12, <1>13, <1>14, <1>15 DEF OnceInv

\* The host sends a poll.  One for a transfer is for what is then its current
\* transaction, in the turn n that its returns to it make; it is guarded, and no
\* poll for that transaction under way has a later turn, or that turn before a rival.
LEMMA SentKeepsOnce ==
  ASSUME OnceInv, TypeInv', NEW m \in Poll, toEgm' = Append(toEgm, m),
         UNCHANGED <<lastTxn, lastAmount, applied, restarts>>,
         NEW e \in [1..Len(toEgm) -> Nat], Ordered(e), PollsGuarded(e),
         RecordOk', AppliedOncePerReturn',
         \A t \in Txns : resumed[t] <= resumed'[t],
         m.op # "transfer" => UNCHANGED <<current, resumed>>,
         m.op = "transfer" =>
           /\ m.txn \in Txns /\ current' = m.txn
           /\ Guarded(m.txn, resumed'[m.txn], Len(toEgm))
           /\ \A i \in 1..Len(toEgm) :
                toEgm[i].op = "transfer" /\ toEgm[i].txn = m.txn
                /\ Rival(toEgm, m.txn, i, Len(toEgm)) => e[i] < resumed'[m.txn]
  PROVE  OnceInv'
<1> DEFINE n == Len(toEgm)
           c == IF m.op = "transfer" THEN m.txn ELSE current
<1>1. /\ toEgm \in Seq(Poll) /\ n \in Nat /\ Len(toEgm') = n + 1
      /\ toEgm'[n + 1] = m
      /\ \A i \in 1..n : toEgm'[i] = toEgm[i]
  BY DEF OnceInv, TypeInv, TypeOK
<1>2. /\ resumed \in [Txns -> Nat] /\ resumed' \in [Txns -> Nat]
      /\ current \in Txns \cup {NoTxn} /\ current' = c
      /\ m.op = "transfer" => c \in Txns
  BY DEF OnceInv, TypeInv, TypeOK
<1>3. PICK k : k = IF m.op = "transfer" THEN resumed'[m.txn] ELSE 0
  OBVIOUS
<1>4. k \in Nat
  BY <1>2, <1>3
<1>5. PICK f \in [1..Len(toEgm') -> Nat] : f[n + 1] = k /\ \A i \in 1..n : f[i] = e[i]
  <2>1. PICK g : g = [i \in 1..(n + 1) |-> IF i = n + 1 THEN k ELSE e[i]]
    OBVIOUS
  <2>2. n + 1 \in 1..(n + 1) /\ \A i \in 1..n : i \in 1..(n + 1) /\ i # n + 1
    BY <1>1
  <2>3. g[n + 1] = k /\ \A i \in 1..n : g[i] = e[i]
    BY <2>1, <2>2
  <2>4. g \in [1..(n + 1) -> Nat]
    BY <1>1, <1>4, <2>1
  <2>. QED
    BY <1>1, <2>3, <2>4
<1>6. \A t, i, j : i \in 1..(n + 1) /\ j \in 1..n =>
        (Rival(toEgm', t, i, j) <=> Rival(toEgm, t, i, j))
  <2>1. ASSUME NEW t, NEW i \in 1..(n + 1)
        PROVE  \A j \in 1..n : Rival(toEgm', t, i, j) <=> Rival(toEgm, t, i, j)
    <3>1. i \in Nat /\ 1 <= i
      BY <1>1
    <3>. QED
      BY <1>1, <3>1, AppendRivals
  <2>. QED
    BY <2>1
<1>7. \A t, i : i \in 1..(n + 1) /\ ~(m.op = "transfer" /\ m.txn # t) =>
        (Rival(toEgm', t, i, n + 1) <=> Rival(toEgm, t, i, n))
  BY <1>1, AppendRivals
<1>8. \A i \in 1..n : toEgm[i].op = "transfer" =>
        /\ toEgm[i].txn \in Txns
        /\ e[i] \in Nat /\ e[i] <= resumed[toEgm[i].txn]
        /\ toEgm[i].txn = c /\ Rival(toEgm, c, i, n) => e[i] < resumed'[c]
  <2>1. \A i \in 1..n : toEgm[i].op = "transfer" => toEgm[i].txn \in Txns
    BY <1>1 DEF Poll
  <2>. QED
    BY <1>1, <2>1 DEF Ordered
<1> HIDE DEF n, c
<1>9. ASSUME NEW i \in 1..(n + 1), toEgm'[i].op = "transfer"
      PROVE  /\ f[i] <= resumed'[toEgm'[i].txn]
             /\ toEgm'[i].txn = c /\ Rival(toEgm', c, i, n + 1) => f[i] < resumed'[c]
  <2>1. CASE i = n + 1
    <3>1. m.op = "transfer" /\ toEgm'[i].txn = m.txn /\ f[i] = resumed'[m.txn] /\ c = m.txn
      BY <1>1, <1>3, <1>5, <1>9, <2>1 DEF c
    <3>2. ~Rival(toEgm', c, n + 1, n + 1)
      BY <1>1, <3>1 DEF Rival
    <3>. QED
      BY <1>2, <2>1, <3>1, <3>2
  <2>2. CASE i \in 1..n
    <3>1. /\ toEgm'[i] = toEgm[i] /\ toEgm[i].op = "transfer" /\ f[i] = e[i]
          /\ toEgm[i].txn \in Txns
      BY <1>1, <1>5, <1>8, <1>9, <2>2
    <3>2. e[i] <= resumed'[toEgm[i].txn]
      BY <1>2, <1>8, <2>2, <3>1
    <3>3. Rival(toEgm', c, i, n + 1) <=> Rival(toEgm, c, i, n)
      BY <1>7 DEF c
    <3>. QED
      BY <1>8, <2>2, <3>1, <3>2, <3>3
  <2>. QED
    BY <1>1, <2>1, <2>2
<1>10. ASSUME NEW i \in 1..(n + 1), NEW j \in 1..(n + 1), i < j,
              toEgm'[i].op = "transfer", toEgm'[j].op = "transfer",
              toEgm'[i].txn = toEgm'[j].txn
       PROVE  f[i] <= f[j] /\ (Rival(toEgm', toEgm'[i].txn, i, j) => f[i] < f[j])
  <2>1. i \in 1..n /\ toEgm'[i] = toEgm[i] /\ f[i] = e[i]
    BY <1>1, <1>5, <1>10
  <2>2. CASE j \in 1..n
    <3>1. toEgm'[j] = toEgm[j] /\ f[j] = e[j]
      BY <1>1, <1>5, <2>2
    <3>2. e[i] <= e[j] /\ (Rival(toEgm, toEgm[i].txn, i, j) => e[i] < e[j])
      BY <1>10, <2>1, <2>2, <3>1 DEF Ordered, n
    <3>. QED
      BY <1>6, <2>1, <2>2, <3>1, <3>2
  <2>3. CASE j = n + 1
    <3>1. m.op = "transfer" /\ toEgm[i].txn = m.txn /\ c = m.txn /\ f[j] = resumed'[c]
      BY <1>1, <1>3, <1>5, <1>10, <2>1, <2>3 DEF c
    <3>. QED
      BY <1>9, <1>10, <2>1, <2>3, <3>1
  <2>. QED
    BY <1>1, <2>2, <2>3
<1>11. Ordered(f)'
  BY <1>1, <1>2, <1>9, <1>10 DEF Ordered
<1>12. ASSUME NEW t, NEW k1, NEW i \in 0..n, Guarded(t, k1, i)
       PROVE  Guarded(t, k1, i)'
  <2>1. Rival(toEgm', t, 1, i) <=> Rival(toEgm, t, 1, i)
    <3>1. CASE i = 0
      BY <3>1 DEF Rival
    <3>2. CASE i \in 1..n
      <4>1. 1 \in 1..(n + 1)
        BY <1>1
      <4>. QED
        BY <1>6, <3>2, <4>1
    <3>. QED
      BY <3>1, <3>2
  <2>. QED
    BY <1>12, <2>1 DEF Guarded
<1>13. ASSUME NEW t, NEW k1, Guarded(t, k1, n), m.op = "transfer" => m.txn = t
       PROVE  \A i : i = n + 1 => Guarded(t, k1, i)'
  <2>1. Rival(toEgm', t, 1, n + 1) <=> Rival(toEgm, t, 1, n)
    BY <1>1, <1>7, <1>13
  <2>. QED
    BY <1>13, <2>1 DEF Guarded
<1>14. PollsGuarded(f)'
  <2>1. ASSUME NEW i \in 1..(n + 1), toEgm'[i].op = "transfer"
        PROVE  (Guarded(toEgm[i].txn, f[i], i))'
    <3>1. PICK t, k1 : t = toEgm'[i].txn /\ k1 = f[i]
      OBVIOUS
    <3>2. CASE i \in 1..n
      <4>1. Guarded(t, k1, i)
        BY <1>1, <1>5, <2>1, <3>1, <3>2 DEF PollsGuarded, n
      <4>2. Guarded(t, k1, i)'
        BY <1>12, <3>2, <4>1
      <4>. QED
        BY <3>1, <4>2 DEF Guarded
    <3>3. CASE i = n + 1
      <4>1. m.op = "transfer" /\ t = m.txn /\ k1 = resumed'[m.txn]
        BY <1>1, <1>3, <1>5, <2>1, <3>1, <3>3
      <4>2. Guarded(t, k1, n)
        BY <4>1 DEF n
      <4>3. Guarded(t, k1, i)'
        BY <1>13, <3>3, <4>1, <4>2
      <4>. QED
        BY <3>1, <4>3 DEF Guarded
    <3>. QED
      BY <1>1, <3>2, <3>3
  <2>. QED
    BY <1>1, <2>1 DEF PollsGuarded
<1>15. (current \in Txns => Guarded(current, resumed[current], Len(toEgm)))'
  <2>1. SUFFICES ASSUME c \in Txns
                 PROVE  (Guarded(current, resumed[current], Len(toEgm)))'
    BY <1>2
  <2>2. PICK t, k1 : t = c /\ k1 = resumed'[c]
    OBVIOUS
  <2>3. Guarded(t, k1, n)
    BY <2>1, <2>2 DEF OnceInv, c, n
  <2>4. \A i : i = n + 1 => Guarded(t, k1, i)'
    BY <1>13, <2>2, <2>3 DEF c
  <2>. QED
    BY <1>1, <1>2, <2>2, <2>4 DEF Guarded
<1>. QED
  BY <1>11, <1>14, <1>15 DEF OnceInv

\* The host's polls: a new transaction is in its first turn, a repeat in the turn of
\* the polls before it, and a return begins another.
LEMMA HostKeepsOnce ==
  ASSUME OnceInv, TypeInv', HostStep
  PROVE  OnceInv'
<1>1. PICK e \in [1..Len(toEgm) -> Nat] : Ordered(e) /\ PollsGuarded(e)
  BY DEF OnceInv
<1>2. /\ toEgm \in Seq(Poll) /\ Len(toEgm) \in Nat /\ restarts \in Nat
      /\ request \in [Txns -> Requests \cup {NoRequest}]
      /\ resumed \in [Txns -> Nat] /\ applied \in [Txns -> Nat]
      /\ \A t \in Txns : applied[t] <= 1 + restarts + resumed[t]
  BY DEF OnceInv, RecordOk, AppliedOncePerReturn, TypeInv, TypeOK
<1>3. CASE HostStart
  <2>1. PICK t \in Txns, r \in Requests :
          /\ request[t] = NoRequest
          /\ request' = [request EXCEPT ![t] = r]
          /\ current' = t
          /\ toEgm' = Append(toEgm, [op |-> "transfer", txn |-> t])
          /\ UNCHANGED <<lastTxn, lastAmount, applied, restarts, resumed>>
    BY <1>3 DEF HostStart, SendTransfer, Send, egmVars, histVars, countVars
  <2>2. PICK m \in Poll :
          m.op = "transfer" /\ m.txn = t /\ toEgm' = Append(toEgm, m)
    BY <2>1 DEF Poll
  <2>3. r # NoRequest /\ request'[t] = r /\ \A u \in Txns \ {t} : request'[u] = request[u]
    BY <1>2, <2>1, AftAssumption DEF AftAssumption
  <2>4. RecordOk' /\ AppliedOncePerReturn'
    BY <1>2, <2>1, <2>3 DEF OnceInv, RecordOk, AppliedOncePerReturn
  <2>5. \A i \in 1..Len(toEgm) : ~(toEgm[i].op = "transfer" /\ toEgm[i].txn = t)
    BY <2>1 DEF OnceInv, TypeInv, RequestsKnown
  <2>6. Guarded(t, resumed'[t], Len(toEgm))
    BY <1>2, <2>1 DEF OnceInv, RecordOk, Guarded
  <2>7. \A u \in Txns : resumed[u] <= resumed'[u]
    BY <1>2, <2>1
  <2>. QED
    BY <1>1, <2>1, <2>2, <2>4, <2>5, <2>6, <2>7, SentKeepsOnce
<1>4. CASE HostRepeat
  <2>1. /\ current \in Txns
        /\ toEgm' = Append(toEgm, [op |-> "transfer", txn |-> current])
        /\ UNCHANGED <<lastTxn, lastAmount, applied, restarts, resumed, request, current>>
    BY <1>4 DEF HostRepeat, SendTransfer, Send, egmVars, histVars, countVars
  <2>2. PICK m \in Poll :
          m.op = "transfer" /\ m.txn = current /\ toEgm' = Append(toEgm, m)
    BY <2>1 DEF Poll
  <2>3. RecordOk' /\ AppliedOncePerReturn'
    BY <2>1 DEF OnceInv, RecordOk, AppliedOncePerReturn
  <2>4. Guarded(current, resumed'[current], Len(toEgm))
    BY <2>1 DEF OnceInv
  <2>5. \A i \in 1..Len(toEgm) :
          toEgm[i].op = "transfer" /\ toEgm[i].txn = current
          /\ Rival(toEgm, current, i, Len(toEgm)) => e[i] < resumed'[current]
    BY <1>1, <2>1 DEF Ordered
  <2>6. \A u \in Txns : resumed[u] <= resumed'[u]
    BY <1>2, <2>1
  <2>. QED
    BY <1>1, <2>1, <2>2, <2>3, <2>4, <2>5, <2>6, SentKeepsOnce
<1>5. CASE HostResume
  <2>1. PICK t \in Txns :
          /\ resumed' = [resumed EXCEPT ![t] = @ + 1]
          /\ current' = t
          /\ toEgm' = Append(toEgm, [op |-> "transfer", txn |-> t])
          /\ UNCHANGED <<lastTxn, lastAmount, applied, restarts, request>>
    BY <1>5 DEF HostResume, SendTransfer, Send, egmVars, histVars, countVars
  <2>2. PICK m \in Poll :
          m.op = "transfer" /\ m.txn = t /\ toEgm' = Append(toEgm, m)
    BY <2>1 DEF Poll
  <2>3. resumed'[t] = resumed[t] + 1 /\ \A u \in Txns : resumed[u] <= resumed'[u]
    BY <1>2, <2>1
  <2>4. RecordOk' /\ AppliedOncePerReturn'
    <3>1. \A u \in Txns : applied[u] <= 1 + restarts + resumed'[u]
      <4>1. ASSUME NEW u \in Txns PROVE applied[u] <= 1 + restarts + resumed'[u]
        <5>1. /\ applied[u] \in Nat /\ resumed[u] \in Nat
              /\ resumed'[u] = IF u = t THEN resumed[u] + 1 ELSE resumed[u]
          BY <1>2, <2>1
        <5>. QED
          BY <1>2, <5>1
      <4>. QED
        BY <4>1
    <3>. QED
      BY <2>1, <3>1 DEF OnceInv, RecordOk, AppliedOncePerReturn
  <2>5. Guarded(t, resumed'[t], Len(toEgm))
    BY <1>2, <2>3 DEF Guarded
  <2>6. ASSUME NEW i \in 1..Len(toEgm), toEgm[i].op = "transfer", toEgm[i].txn = t
        PROVE  e[i] < resumed'[t]
    <3>1. e[i] \in Nat /\ resumed[t] \in Nat /\ e[i] <= resumed[t]
      BY <1>1, <1>2, <2>6 DEF Ordered
    <3>. QED
      BY <2>3, <3>1
  <2>. QED
    BY <1>1, <2>1, <2>2, <2>3, <2>4, <2>5, <2>6, SentKeepsOnce
<1>6. CASE HostRegister \/ HostChangesLock
  <2>1. PICK op \in {"register", "unlock"}, k \in LockCodes :
          /\ toEgm' = Append(toEgm, [op |-> op, code |-> k])
          /\ UNCHANGED <<lastTxn, lastAmount, applied, restarts, resumed, request, current>>
    <3>1. CASE HostRegister
      BY <3>1 DEF HostRegister, Send, egmVars, histVars, countVars
    <3>2. CASE HostChangesLock
      <4>1. PICK k \in LockCodes, op \in {"register", "unlock"} :
              /\ Send([op |-> op, code |-> k])
              /\ UNCHANGED <<egmVars, request, current, resumed, histVars, restarts>>
        BY <3>2 DEF HostChangesLock
      <4>. QED
        BY <4>1 DEF Send, egmVars, histVars
    <3>. QED
      BY <1>6, <3>1, <3>2
  <2>2. PICK m \in Poll : m.op # "transfer" /\ toEgm' = Append(toEgm, m)
    BY <2>1 DEF Poll
  <2>3. RecordOk' /\ AppliedOncePerReturn'
    BY <2>1 DEF OnceInv, RecordOk, AppliedOncePerReturn
  <2>4. \A u \in Txns : resumed[u] <= resumed'[u]
    BY <1>2, <2>1
  <2>. QED
    BY <1>1, <2>1, <2>2, <2>3, <2>4, SentKeepsOnce
<1>7. CASE HostReceive \/ HostTimeout \/ HostEarlyTimeout
  <2>1. UNCHANGED <<toEgm, lastTxn, lastAmount, applied, restarts, resumed, request, current>>
    BY <1>7 DEF HostReceive, HostTimeout, HostEarlyTimeout, egmVars, histVars, countVars
  <2>. QED
    BY <2>1 DEF OnceInv, RecordOk, AppliedOncePerReturn, Guarded, Ordered, PollsGuarded
<1>. QED
  BY <1>3, <1>4, <1>5, <1>6, <1>7 DEF HostStep

\* A restart forgets the record and the polls, and allows one more application.
LEMMA RestartKeepsOnce ==
  ASSUME OnceInv, TypeInv', Restart
  PROVE  OnceInv'
<1>1. /\ restarts' = restarts + 1 /\ lastTxn' = NoTxn /\ toEgm' = <<>>
      /\ UNCHANGED <<request, applied, resumed, current>>
  BY DEF Restart, EgmStatics, hostVars, histVars
<1>2. /\ restarts \in Nat
      /\ \A t \in Txns : /\ applied[t] \in Nat /\ resumed[t] \in Nat
                         /\ applied[t] <= 1 + restarts + resumed[t]
  BY DEF OnceInv, RecordOk, AppliedOncePerReturn, TypeInv, TypeOK
<1>3. RecordOk'
  BY <1>1, <1>2, AftAssumption DEF AftAssumption, OnceInv, RecordOk
<1>4. AppliedOncePerReturn'
  BY <1>1, <1>2 DEF AppliedOncePerReturn
<1>5. (current \in Txns => Guarded(current, resumed[current], Len(toEgm)))'
  BY <1>1, <1>2 DEF Guarded
<1>6. \E e \in [1..Len(toEgm') -> Nat] : Ordered(e)' /\ PollsGuarded(e)'
  <2>1. 1..Len(toEgm') = {}
    BY <1>1
  <2>2. PICK e : e = [i \in 1..Len(toEgm') |-> 0]
    OBVIOUS
  <2>3. e \in [1..Len(toEgm') -> Nat]
    BY <2>2
  <2>4. Ordered(e)' /\ PollsGuarded(e)'
    BY <2>1 DEF Ordered, PollsGuarded
  <2>. QED
    BY <2>3, <2>4
<1>. QED
  BY <1>3, <1>4, <1>5, <1>6 DEF OnceInv

\* The invariant, for every set of transactions and every bound.
THEOREM OnceInvHolds == Spec => []OnceInv
<1>1. Init /\ TypeInv => OnceInv
  <2>. SUFFICES ASSUME Init, TypeInv PROVE OnceInv
    OBVIOUS
  <2>1. /\ restarts = 0 /\ lastTxn = NoTxn /\ current = NoTxn /\ NoTxn \notin Txns
        /\ \A t \in Txns : applied[t] = 0 /\ resumed[t] = 0
        /\ 1..Len(toEgm) = {}
    BY AftAssumption DEF AftAssumption, Init, EgmStatics
  <2>2. RecordOk /\ AppliedOncePerReturn
    BY <2>1 DEF RecordOk, AppliedOncePerReturn
  <2>3. PICK e : e = [i \in 1..Len(toEgm) |-> 0]
    OBVIOUS
  <2>4. e \in [1..Len(toEgm) -> Nat]
    BY <2>3
  <2>5. Ordered(e) /\ PollsGuarded(e)
    BY <2>1 DEF Ordered, PollsGuarded
  <2>. QED
    BY <2>1, <2>2, <2>4, <2>5 DEF OnceInv
<1>2. OnceInv /\ TypeInv' /\ [Next]_vars => OnceInv'
  <2>. SUFFICES ASSUME OnceInv, TypeInv', [Next]_vars PROVE OnceInv'
    OBVIOUS
  <2>1. CASE RegisterLock \/ ForbidLock \/ Unlock \/ UnlockRefused \/ TransferRefused
             \/ LosePoll
    <3>1. /\ toEgm # <<>> /\ toEgm' = Tail(toEgm)
          /\ UNCHANGED <<lastTxn, lastAmount, request, current, applied, resumed, restarts>>
      BY <2>1 DEF RegisterLock, ForbidLock, Unlock, UnlockRefused, TransferRefused, LosePoll,
                  Polled, LockReply, Reply, egmVars, hostVars, histVars, countVars
    <3>. QED
      BY <3>1, DequeuedKeepsOnce
  <2>2. CASE TransferOut \/ LoseAnswer \/ PlayerStep \/ UNCHANGED vars
    <3>1. UNCHANGED <<toEgm, lastTxn, lastAmount, request, current, applied, resumed, restarts>>
      BY <2>2 DEF TransferOut, LoseAnswer, PlayerStep, vars, egmVars, hostVars, histVars, countVars
    <3>. QED
      BY <3>1 DEF OnceInv, RecordOk, AppliedOncePerReturn, Guarded, Ordered, PollsGuarded
  <2>. QED
    BY <2>1, <2>2, TransferKeepsOnce, HostKeepsOnce, RestartKeepsOnce DEF Next, EgmStep, Transferring
<1>. QED
  BY <1>1, <1>2, TypesKnown, PTL DEF Spec

\* Whatever is lost, late or repeated, a transaction moves credits again only after a
\* restart or when the host comes back to it, once for each.
THEOREM AppliedOnce == Spec => []AppliedOncePerReturn
<1>1. OnceInv => AppliedOncePerReturn
  BY DEF OnceInv
<1>. QED
  BY <1>1, OnceInvHolds, PTL

-----------------------------------------------------------------------------
(* What the host is told                                                   *)

\* A transaction dealt with in its first turn, with no restart, is the one on
\* record, and no poll up to i makes the machine forget it.
Recorded(t, i) ==
  processed[t] /\ restarts = 0 /\ resumed[t] = 0 => lastTxn = t /\ ~Rival(toEgm, t, 1, i)

\* So are those that the polls under way, and the next repeat, are for.
TurnInv ==
  /\ \A i \in 1..Len(toEgm) : toEgm[i].op = "transfer" => Recorded(toEgm[i].txn, i)
  /\ current \in Txns => Recorded(current, Len(toEgm))

\* Credits move for a transaction that was dealt with, and for one that may.
UseInv ==
  /\ lastTxn \in Txns => processed[lastTxn]
  /\ \A t \in Txns :
       /\ request[t] = NoRequest => ~processed[t]
       /\ ~processed[t] => applied[t] = 0
       /\ request[t] # NoRequest /\ (request[t].amount = 0 \/ request[t].kind = "DEBIT")
            => applied[t] = 0

\* What a status says of a transaction, and goes on saying.
Told(t, s) ==
  /\ s # "none" => request[t] # NoRequest
  /\ s = "FULL_TRANSFER_SUCCESSFUL" /\ request[t].kind # "TO_PRINTER" => applied[t] > 0
  /\ s = "TRANSACTION_ID_NOT_UNIQUE" => processed[t]
  /\ s = "NOT_VALID_AMOUNT" => request[t].amount = 0
  /\ s = "NOT_VALID_FUNCTION" => request[t].kind = "DEBIT"
  /\ s = "GAMING_MACHINE_UNABLE" =>
       processed[t] /\ (restarts = 0 /\ resumed[t] = 0 => applied[t] = 0)

\* The answers under way, and those received, are true.
AnswerTrue(m) ==
  m.op = "transfer" =>
    IF m.txn = NoTxn THEN m.status = "GAME_NOT_REGISTERED" ELSE Told(m.txn, m.status)
ToldInv ==
  /\ \A i \in 1..Len(toHost) : AnswerTrue(toHost[i])
  /\ \A t \in Txns : Told(t, answer[t])

\* A poll is lost, or answered without effect.
LEMMA DequeuedKeepsTurns ==
  ASSUME OnceInv, TurnInv, toEgm # <<>>, toEgm' = Tail(toEgm),
         UNCHANGED <<lastTxn, current, processed, resumed, restarts>>
  PROVE  TurnInv'
<1>1. /\ toEgm \in Seq(Poll) /\ Len(toEgm) \in Nat /\ Len(toEgm') = Len(toEgm) - 1
      /\ \A i \in 1..Len(toEgm') : i + 1 \in 1..Len(toEgm) /\ toEgm'[i] = toEgm[i + 1]
  BY DEF OnceInv, TypeInv, TypeOK
<1>2. ASSUME NEW t, NEW i \in 0..Len(toEgm'), Recorded(t, i + 1)
      PROVE  Recorded(t, i)'
  <2>1. Rival(toEgm', t, 1, i) <=> Rival(toEgm, t, 2, i + 1)
    BY <1>1, TailRivals
  <2>2. Rival(toEgm, t, 2, i + 1) => Rival(toEgm, t, 1, i + 1)
    BY <1>1 DEF Rival
  <2>. QED
    BY <1>2, <2>1, <2>2 DEF Recorded
<1>3. ASSUME NEW i \in 1..Len(toEgm'), toEgm'[i].op = "transfer"
      PROVE  Recorded(toEgm[i].txn, i)'
  <2>1. PICK t : t = toEgm[i + 1].txn /\ t = toEgm'[i].txn
    BY <1>1
  <2>2. Recorded(t, i + 1)
    BY <1>1, <1>3, <2>1 DEF TurnInv
  <2>3. Recorded(t, i)'
    BY <1>2, <2>2
  <2>. QED
    BY <2>1, <2>3 DEF Recorded
<1>4. (current \in Txns => Recorded(current, Len(toEgm)))'
  <2>1. Len(toEgm') \in 0..Len(toEgm') /\ Len(toEgm) = Len(toEgm') + 1
    BY <1>1
  <2>. QED
    BY <1>2, <2>1 DEF TurnInv
<1>. QED
  BY <1>3, <1>4 DEF TurnInv

\* A transfer is processed: in its first turn there is no rival between its poll and
\* the next for it, and it was the rival to all others.
LEMMA TransferKeepsTurns ==
  ASSUME OnceInv, TypeInv', TurnInv, Transferring
  PROVE  TurnInv'
<1>1. PICK e \in [1..Len(toEgm) -> Nat] : Ordered(e) /\ PollsGuarded(e)
  BY DEF OnceInv
<1>2. PICK t : t = Head(toEgm).txn
  OBVIOUS
<1>0. /\ toEgm # <<>> /\ Head(toEgm).op = "transfer" /\ TransferRefusal(t) = "none"
      /\ \E v : TransferDone(t, v)
  BY <1>2, Transferred DEF OnceInv
<1>3. /\ toEgm # <<>> /\ toEgm[1].op = "transfer" /\ toEgm[1].txn = t
      /\ toEgm \in Seq(Poll) /\ Len(toEgm) \in Nat /\ 1 \in 1..Len(toEgm)
      /\ t \in Txns
  <2>1. toEgm \in Seq(Poll) /\ Head(toEgm) = toEgm[1] /\ 1 \in 1..Len(toEgm)
    BY <1>0 DEF OnceInv, TypeInv, TypeOK
  <2>. QED
    BY <1>0, <1>2, <2>1, FirstPoll DEF OnceInv
<1>4. /\ toEgm' = Tail(toEgm) /\ Len(toEgm') = Len(toEgm) - 1
      /\ \A i \in 1..Len(toEgm') : i + 1 \in 1..Len(toEgm) /\ toEgm'[i] = toEgm[i + 1]
  BY <1>0, <1>3 DEF TransferDone, Reply
<1>5. /\ lastTxn' = t /\ UNCHANGED <<current, resumed, restarts>>
      /\ \A u \in Txns \ {t} : processed'[u] = processed[u]
      /\ \A u \in Txns : resumed[u] \in Nat
  BY <1>0 DEF TransferDone, hostVars, countVars, OnceInv, TypeInv, TypeOK
<1>6. ASSUME NEW i \in 0..Len(toEgm'), resumed[t] = 0 => ~Rival(toEgm, t, 1, i + 1)
      PROVE  Recorded(t, i)'
  <2>1. Rival(toEgm', t, 1, i) <=> Rival(toEgm, t, 2, i + 1)
    BY <1>3, <1>4, TailRivals
  <2>2. Rival(toEgm, t, 2, i + 1) => Rival(toEgm, t, 1, i + 1)
    BY <1>3 DEF Rival
  <2>. QED
    BY <1>5, <1>6, <2>1, <2>2 DEF Recorded
<1>7. ASSUME NEW u \in Txns \ {t}, NEW i \in 0..Len(toEgm'), Recorded(u, i + 1)
      PROVE  Recorded(u, i)'
  <2>1. Rival(toEgm, u, 1, i + 1)
    BY <1>3 DEF Rival
  <2>. QED
    BY <1>5, <1>7, <2>1 DEF Recorded
<1>8. ASSUME NEW i \in 1..Len(toEgm'), toEgm'[i].op = "transfer"
      PROVE  Recorded(toEgm[i].txn, i)'
  <2>1. PICK u \in Txns : u = toEgm[i + 1].txn /\ u = toEgm'[i].txn
    BY <1>3, <1>4, <1>8 DEF Poll
  <2>2. /\ Recorded(u, i + 1) /\ i + 1 \in 1..Len(toEgm)
        /\ toEgm[i + 1].op = "transfer" /\ 1 < i + 1 /\ i \in 0..Len(toEgm')
    BY <1>4, <1>8, <2>1 DEF TurnInv
  <2>3. u = t /\ resumed[t] = 0 => ~Rival(toEgm, t, 1, i + 1)
    <3>1. e[1] \in Nat /\ e[i + 1] \in Nat
      BY <1>3, <2>2
    <3>2. u = t => /\ e[i + 1] <= resumed[t]
                   /\ Rival(toEgm, t, 1, i + 1) => e[1] < e[i + 1]
      BY <1>1, <1>3, <2>1, <2>2 DEF Ordered
    <3>. QED
      BY <3>1, <3>2
  <2>4. Recorded(u, i)'
    BY <1>6, <1>7, <2>2, <2>3
  <2>. QED
    BY <2>1, <2>4 DEF Recorded
<1>9. (current \in Txns => Recorded(current, Len(toEgm)))'
  <2>1. SUFFICES ASSUME current \in Txns
                 PROVE  Recorded(current, Len(toEgm))'
    BY <1>5
  <2>2. PICK u \in Txns : u = current
    BY <2>1
  <2>3. Recorded(u, Len(toEgm)) /\ Len(toEgm') \in 0..Len(toEgm')
        /\ Len(toEgm) = Len(toEgm') + 1
    BY <1>3, <1>4, <2>1, <2>2 DEF TurnInv
  <2>4. u = t /\ resumed[t] = 0 => ~Rival(toEgm, t, 1, Len(toEgm))
    <3>1. e[1] \in Nat
      BY <1>3
    <3>. QED
      BY <1>1, <1>3, <2>2, <3>1 DEF Ordered
  <2>5. \A i : i = Len(toEgm') => Recorded(u, i)'
    BY <1>6, <1>7, <2>3, <2>4
  <2>. QED
    BY <1>5, <2>2, <2>5 DEF Recorded
<1>. QED
  BY <1>8, <1>9 DEF TurnInv

\* The host sends a poll, which is no rival to those for its own transaction.
LEMMA SentKeepsTurns ==
  ASSUME OnceInv, TurnInv, NEW m \in Poll, toEgm' = Append(toEgm, m),
         UNCHANGED <<lastTxn, processed, restarts>>,
         \A t \in Txns : resumed'[t] = 0 => resumed[t] = 0,
         m.op # "transfer" => current' = current,
         m.op = "transfer" =>
           /\ m.txn \in Txns /\ current' = m.txn
           /\ resumed'[m.txn] = 0 => Recorded(m.txn, Len(toEgm))
  PROVE  TurnInv'
<1> DEFINE n == Len(toEgm)
<1>1. /\ toEgm \in Seq(Poll) /\ n \in Nat /\ Len(toEgm') = n + 1
      /\ toEgm'[n + 1] = m
      /\ \A i \in 1..n : toEgm'[i] = toEgm[i]
  BY DEF OnceInv, TypeInv, TypeOK
<1>2. ASSUME NEW t \in Txns, NEW i \in 1..n, Recorded(t, i)
      PROVE  Recorded(t, i)'
  <2>1. Rival(toEgm', t, 1, i) <=> Rival(toEgm, t, 1, i)
    BY <1>1, AppendRivals
  <2>. QED
    BY <1>2, <2>1 DEF Recorded
<1>3. ASSUME NEW t \in Txns, resumed'[t] = 0 => Recorded(t, n), m.op = "transfer" => m.txn = t
      PROVE  \A i : i = n + 1 => Recorded(t, i)'
  <2>1. Rival(toEgm', t, 1, n + 1) <=> Rival(toEgm, t, 1, n)
    BY <1>1, <1>3, AppendRivals
  <2>. QED
    BY <1>3, <2>1 DEF Recorded
<1>4. ASSUME NEW i \in 1..(n + 1), toEgm'[i].op = "transfer"
      PROVE  Recorded(toEgm[i].txn, i)'
  <2>1. PICK t : t = toEgm'[i].txn
    OBVIOUS
  <2>2. CASE i \in 1..n
    <3>1. Recorded(t, i) /\ t \in Txns
      BY <1>1, <1>4, <2>1, <2>2 DEF TurnInv, Poll
    <3>2. Recorded(t, i)'
      BY <1>2, <2>2, <3>1
    <3>. QED
      BY <2>1, <3>2 DEF Recorded
  <2>3. CASE i = n + 1
    <3>1. m.op = "transfer" /\ t = m.txn /\ t \in Txns
      BY <1>1, <1>4, <2>1, <2>3
    <3>2. Recorded(t, i)'
      BY <1>3, <2>3, <3>1
    <3>. QED
      BY <2>1, <3>2 DEF Recorded
  <2>. QED
    BY <1>1, <2>2, <2>3
<1>5. (current \in Txns => Recorded(current, Len(toEgm)))'
  <2>1. SUFFICES ASSUME current' \in Txns
                 PROVE  Recorded(current, Len(toEgm))'
    OBVIOUS
  <2>2. PICK t \in Txns : t = current'
    BY <2>1
  <2>3. (resumed'[t] = 0 => Recorded(t, n)) /\ (m.op = "transfer" => m.txn = t)
    BY <2>2 DEF TurnInv
  <2>4. \A i : i = n + 1 => Recorded(t, i)'
    BY <1>3, <2>3
  <2>. QED
    BY <1>1, <2>2, <2>4 DEF Recorded
<1>. QED
  BY <1>1, <1>4, <1>5 DEF TurnInv

\* The host's steps: a new transaction has not been dealt with, a repeat finds what
\* the polls before it find, and a return begins another turn.
LEMMA HostKeepsTurns ==
  ASSUME OnceInv, TurnInv, UseInv, HostStep
  PROVE  TurnInv'
<1>1. resumed \in [Txns -> Nat] /\ processed \in [Txns -> BOOLEAN]
  BY DEF OnceInv, TypeInv, TypeOK
<1>2. CASE HostStart
  <2>1. PICK t \in Txns :
          /\ request[t] = NoRequest /\ current' = t
          /\ toEgm' = Append(toEgm, [op |-> "transfer", txn |-> t])
          /\ UNCHANGED <<lastTxn, processed, restarts, resumed>>
    BY <1>2 DEF HostStart, SendTransfer, Send, egmVars, histVars, countVars
  <2>2. PICK m \in Poll :
          m.op = "transfer" /\ m.txn = t /\ toEgm' = Append(toEgm, m)
    BY <2>1 DEF Poll
  <2>3. Recorded(t, Len(toEgm))
    BY <2>1 DEF UseInv, Recorded
  <2>. QED
    BY <2>1, <2>2, <2>3, SentKeepsTurns
<1>3. CASE HostRepeat
  <2>1. /\ current \in Txns /\ current' = current
        /\ toEgm' = Append(toEgm, [op |-> "transfer", txn |-> current])
        /\ UNCHANGED <<lastTxn, processed, restarts, resumed>>
    BY <1>3 DEF HostRepeat, SendTransfer, Send, egmVars, histVars, countVars
  <2>2. PICK m \in Poll :
          m.op = "transfer" /\ m.txn = current /\ toEgm' = Append(toEgm, m)
    BY <2>1 DEF Poll
  <2>3. Recorded(current, Len(toEgm))
    BY <2>1 DEF TurnInv
  <2>. QED
    BY <2>1, <2>2, <2>3, SentKeepsTurns
<1>4. CASE HostResume
  <2>1. PICK t \in Txns :
          /\ resumed' = [resumed EXCEPT ![t] = @ + 1]
          /\ current' = t
          /\ toEgm' = Append(toEgm, [op |-> "transfer", txn |-> t])
          /\ UNCHANGED <<lastTxn, processed, restarts>>
    BY <1>4 DEF HostResume, SendTransfer, Send, egmVars, histVars, countVars
  <2>2. PICK m \in Poll :
          m.op = "transfer" /\ m.txn = t /\ toEgm' = Append(toEgm, m)
    BY <2>1 DEF Poll
  <2>3. resumed'[t] # 0 /\ \A u \in Txns : resumed'[u] = 0 => resumed[u] = 0
    BY <1>1, <2>1
  <2>. QED
    BY <2>1, <2>2, <2>3, SentKeepsTurns
<1>5. CASE HostRegister \/ HostChangesLock
  <2>1. PICK op \in {"register", "unlock"}, k \in LockCodes :
          /\ toEgm' = Append(toEgm, [op |-> op, code |-> k])
          /\ UNCHANGED <<lastTxn, processed, restarts, resumed, current>>
    <3>1. CASE HostRegister
      BY <3>1 DEF HostRegister, Send, egmVars, histVars, countVars
    <3>2. CASE HostChangesLock
      <4>1. PICK k \in LockCodes, op \in {"register", "unlock"} :
              /\ Send([op |-> op, code |-> k])
              /\ UNCHANGED <<egmVars, current, resumed, histVars, restarts>>
        BY <3>2 DEF HostChangesLock
      <4>. QED
        BY <4>1 DEF Send, egmVars, histVars
    <3>. QED
      BY <1>5, <3>1, <3>2
  <2>2. PICK m \in Poll : m.op # "transfer" /\ toEgm' = Append(toEgm, m)
    BY <2>1 DEF Poll
  <2>. QED
    BY <2>1, <2>2, SentKeepsTurns
<1>6. CASE HostReceive \/ HostTimeout \/ HostEarlyTimeout
  <2>1. UNCHANGED <<toEgm, lastTxn, processed, restarts, resumed, current>>
    BY <1>6 DEF HostReceive, HostTimeout, HostEarlyTimeout, egmVars, histVars, countVars
  <2>. QED
    BY <2>1 DEF TurnInv, Recorded
<1>. QED
  BY <1>2, <1>3, <1>4, <1>5, <1>6 DEF HostStep

\* Every step keeps the records of first turns.
LEMMA NextKeepsTurns ==
  ASSUME OnceInv, TypeInv', TurnInv, UseInv, [Next]_vars
  PROVE  TurnInv'
<1>1. CASE RegisterLock \/ ForbidLock \/ Unlock \/ UnlockRefused \/ TransferRefused
           \/ LosePoll
  <2>1. /\ toEgm # <<>> /\ toEgm' = Tail(toEgm)
        /\ UNCHANGED <<lastTxn, current, processed, resumed, restarts>>
    BY <1>1 DEF RegisterLock, ForbidLock, Unlock, UnlockRefused, TransferRefused, LosePoll,
                Polled, LockReply, Reply, egmVars, hostVars, histVars, countVars
  <2>. QED
    BY <2>1, DequeuedKeepsTurns
<1>2. CASE TransferOut \/ LoseAnswer \/ PlayerStep \/ UNCHANGED vars
  <2>1. UNCHANGED <<toEgm, lastTxn, current, processed, resumed, restarts>>
    BY <1>2 DEF TransferOut, LoseAnswer, PlayerStep, vars, egmVars, hostVars, histVars, countVars
  <2>. QED
    BY <2>1 DEF TurnInv, Recorded
<1>3. CASE Restart
  <2>1. restarts' # 0
    BY <1>3 DEF Restart, OnceInv, RecordOk
  <2>. QED
    BY <2>1 DEF TurnInv, Recorded
<1>. QED
  BY <1>1, <1>2, <1>3, TransferKeepsTurns, HostKeepsTurns DEF Next, EgmStep, Transferring

\* A transfer that is processed: what is then true of its transaction, and of the
\* status it is answered with.  One that is not in its first turn, or finds its ID
\* on record, does not get here.
LEMMA TransferTells ==
  ASSUME OnceInv, TypeInv', TurnInv, UseInv, NEW t, t = Head(toEgm).txn,
         toEgm # <<>>, Head(toEgm).op = "transfer", TransferRefusal(t) = "none",
         NEW v \in {"FULL_TRANSFER_SUCCESSFUL", "GAMING_MACHINE_UNABLE", "NOT_VALID_FUNCTION"},
         v = "NOT_VALID_FUNCTION" <=> request[t].kind = "DEBIT",
         TransferDone(t, v)
  PROVE  /\ t \in Txns /\ request[t] \in Requests /\ request[t] # NoRequest
         /\ request' = request /\ restarts' = restarts /\ resumed' = resumed
         /\ processed'[t] /\ \A u \in Txns \ {t} : processed'[u] = processed[u]
         /\ \A u \in Txns \ {t} : applied'[u] = applied[u]
         /\ applied[t] \in Nat /\ applied'[t] \in {applied[t], applied[t] + 1}
         /\ request[t].amount # 0
         /\ request[t].kind = "DEBIT" => applied'[t] = applied[t]
         /\ restarts = 0 /\ resumed[t] = 0 => applied[t] = 0
         /\ Told(t, v)'
<1>1. /\ toEgm # <<>> /\ toEgm[1].op = "transfer" /\ toEgm[1].txn = t
      /\ 1 \in 1..Len(toEgm) /\ t \in Txns /\ request[t] \in Requests
  <2>1. toEgm \in Seq(Poll) /\ Head(toEgm) = toEgm[1] /\ 1 \in 1..Len(toEgm)
    BY DEF OnceInv, TypeInv, TypeOK
  <2>. QED
    BY <2>1, FirstPoll DEF OnceInv
<1>2. /\ request[t] # NoRequest /\ request[t].kind \in Kinds /\ request[t].amount \in Nat
  BY <1>1, AftAssumption DEF AftAssumption
<1>3. UNCHANGED <<request, restarts, resumed>>
  BY DEF TransferDone, hostVars, countVars
<1>4. request[t].amount # 0 /\ lastTxn # t
  BY <1>1 DEF TransferRefusal, OnceInv, RecordOk
<1>5. request[t].amount \in Nat /\ request[t].amount # 0
  BY <1>2, <1>4
<1> DEFINE effect == IF v = "FULL_TRANSFER_SUCCESSFUL" THEN TransferEffect(t) ELSE 0
<1>6. /\ applied' = IF effect # 0 THEN [applied EXCEPT ![t] = @ + 1] ELSE applied
      /\ processed' = [processed EXCEPT ![t] = TRUE]
  BY DEF TransferDone
<1>7. /\ applied \in [Txns -> Nat] /\ processed \in [Txns -> BOOLEAN]
  BY DEF OnceInv, TypeInv, TypeOK
<1>8. processed'[t] /\ \A u \in Txns \ {t} : processed'[u] = processed[u]
  BY <1>1, <1>6, <1>7
<1>9. /\ applied[t] \in Nat /\ \A u \in Txns \ {t} : applied'[u] = applied[u]
      /\ applied'[t] = IF effect # 0 THEN applied[t] + 1 ELSE applied[t]
  BY <1>1, <1>6, <1>7
<1>10. restarts = 0 /\ resumed[t] = 0 => applied[t] = 0
  <2>1. Recorded(t, 1)
    BY <1>1 DEF TurnInv
  <2>. QED
    BY <1>1, <1>4, <2>1 DEF Recorded, UseInv
<1>11. v = "FULL_TRANSFER_SUCCESSFUL" /\ request[t].kind # "TO_PRINTER" => effect # 0
  BY <1>2, <1>5 DEF TransferEffect, Kinds
<1>12. /\ request[t].kind = "DEBIT" => applied'[t] = applied[t]
       /\ v = "GAMING_MACHINE_UNABLE" => applied'[t] = applied[t]
       /\ v = "FULL_TRANSFER_SUCCESSFUL" /\ request[t].kind # "TO_PRINTER" => applied'[t] > 0
       /\ applied'[t] \in {applied[t], applied[t] + 1}
  BY <1>9, <1>11
<1> HIDE DEF effect
<1>13. Told(t, v)'
  BY <1>2, <1>3, <1>4, <1>8, <1>10, <1>12 DEF Told
<1>. QED
  BY <1>1, <1>2, <1>3, <1>4, <1>8, <1>9, <1>10, <1>12, <1>13

\* Every step keeps what has been used.
LEMMA NextKeepsUse ==
  ASSUME OnceInv, TypeInv', TurnInv, UseInv, [Next]_vars
  PROVE  UseInv'
<1>1. CASE Transferring
  <2>1. PICK t, v : /\ t = Head(toEgm).txn /\ toEgm # <<>> /\ Head(toEgm).op = "transfer"
                    /\ TransferRefusal(t) = "none"
                    /\ v \in {"FULL_TRANSFER_SUCCESSFUL", "GAMING_MACHINE_UNABLE",
                              "NOT_VALID_FUNCTION"}
                    /\ v = "NOT_VALID_FUNCTION" <=> request[t].kind = "DEBIT"
                    /\ TransferDone(t, v)
    BY <1>1, Transferred DEF OnceInv
  <2>0. lastTxn' = t
    BY <2>1 DEF TransferDone
  <2>2. /\ request[t] # NoRequest /\ UNCHANGED request /\ processed'[t]
        /\ \A u \in Txns \ {t} : processed'[u] = processed[u] /\ applied'[u] = applied[u]
        /\ request[t].amount # 0
        /\ request[t].kind = "DEBIT" => applied'[t] = applied[t]
    BY <2>1, TransferTells
  <2>. QED
    BY <2>0, <2>2 DEF UseInv
<1>2. CASE HostStart
  <2>1. PICK t \in Txns, r \in Requests :
          /\ request[t] = NoRequest /\ request' = [request EXCEPT ![t] = r]
          /\ UNCHANGED <<applied, processed, lastTxn>>
    BY <1>2 DEF HostStart, histVars, egmVars
  <2>2. /\ request \in [Txns -> Requests \cup {NoRequest}] /\ r # NoRequest
    BY <2>1, AftAssumption DEF AftAssumption, OnceInv, TypeInv, TypeOK
  <2>3. applied[t] = 0 /\ request'[t] = r /\ \A u \in Txns \ {t} : request'[u] = request[u]
    BY <2>1, <2>2 DEF UseInv
  <2>. QED
    BY <2>1, <2>2, <2>3 DEF UseInv
<1>3. CASE UNCHANGED <<request, applied, processed>> /\ lastTxn' \in {lastTxn, NoTxn}
  BY <1>3, AftAssumption DEF UseInv, AftAssumption
<1>4. RegisterLock \/ ForbidLock \/ Unlock \/ UnlockRefused \/ TransferRefused \/ LosePoll
      \/ TransferOut \/ LoseAnswer \/ PlayerStep \/ Restart \/ UNCHANGED vars
        => UNCHANGED <<request, applied, processed>> /\ lastTxn' \in {lastTxn, NoTxn}
  BY DEF RegisterLock, ForbidLock, Unlock, UnlockRefused, TransferRefused, LosePoll,
         TransferOut, LoseAnswer, PlayerStep, Restart, EgmStatics, vars, egmVars, hostVars,
         histVars, countVars
<1>5. HostRepeat \/ HostRegister \/ HostResume \/ HostChangesLock \/ HostReceive
      \/ HostTimeout \/ HostEarlyTimeout
        => UNCHANGED <<request, applied, processed, lastTxn>>
  BY DEF HostRepeat, HostRegister, HostResume, HostChangesLock, HostReceive,
         HostTimeout, HostEarlyTimeout, histVars, egmVars
<1>. QED
  BY <1>1, <1>2, <1>3, <1>4, <1>5 DEF Next, EgmStep, HostStep, Transferring

\* What is true of a transaction stays true of it.
LEMMA ToldStays ==
  ASSUME OnceInv, TypeInv', TurnInv, UseInv, [Next]_vars, NEW t \in Txns, NEW s, Told(t, s)
  PROVE  Told(t, s)'
<1>1. /\ applied[t] \in Nat /\ resumed[t] \in Nat /\ restarts \in Nat
      /\ request \in [Txns -> Requests \cup {NoRequest}]
  BY DEF OnceInv, RecordOk, TypeInv, TypeOK
<1>2. CASE Transferring
  <2>1. PICK u, v : /\ u = Head(toEgm).txn /\ toEgm # <<>> /\ Head(toEgm).op = "transfer"
                    /\ TransferRefusal(u) = "none"
                    /\ v \in {"FULL_TRANSFER_SUCCESSFUL", "GAMING_MACHINE_UNABLE",
                              "NOT_VALID_FUNCTION"}
                    /\ v = "NOT_VALID_FUNCTION" <=> request[u].kind = "DEBIT"
                    /\ TransferDone(u, v)
    BY <1>2, Transferred DEF OnceInv
  <2>2. /\ u \in Txns /\ UNCHANGED <<request, restarts, resumed>>
        /\ processed'[u] /\ \A w \in Txns \ {u} : processed'[w] = processed[w]
        /\ \A w \in Txns \ {u} : applied'[w] = applied[w]
        /\ applied'[u] \in {applied[u], applied[u] + 1}
    BY <2>1, TransferTells
  <2>3. CASE t # u
    BY <2>2, <2>3 DEF Told
  <2>4. CASE t = u
    <3>1. applied[t] > 0 => applied'[t] > 0
      BY <1>1, <2>2, <2>4
    <3>2. ~(processed[t] /\ restarts = 0 /\ resumed[t] = 0)
      <4>1. toEgm # <<>> /\ toEgm[1].op = "transfer" /\ toEgm[1].txn = t /\ 1 \in 1..Len(toEgm)
            /\ TransferRefusal(t) = "none"
        <5>1. toEgm # <<>> /\ Head(toEgm).op = "transfer" /\ TransferRefusal(t) = "none"
          BY <2>1, <2>4
        <5>2. toEgm \in Seq(Poll) /\ Head(toEgm) = toEgm[1] /\ 1 \in 1..Len(toEgm)
          BY <5>1 DEF OnceInv, TypeInv, TypeOK
        <5>. QED
          BY <2>1, <2>4, <5>1, <5>2
      <4>2. lastTxn # t
        BY <4>1 DEF TransferRefusal, OnceInv, RecordOk
      <4>3. Recorded(t, 1)
        BY <4>1 DEF TurnInv
      <4>. QED
        BY <4>2, <4>3 DEF Recorded
    <3>. QED
      BY <2>2, <2>4, <3>1, <3>2 DEF Told
  <2>. QED
    BY <2>3, <2>4
<1>3. CASE HostStart
  <2>1. PICK u \in Txns, r \in Requests :
          /\ request[u] = NoRequest /\ request' = [request EXCEPT ![u] = r]
          /\ UNCHANGED <<applied, processed, restarts, resumed>>
    BY <1>3 DEF HostStart, histVars, countVars
  <2>2. CASE t # u
    <3>1. request'[t] = request[t]
      BY <1>1, <2>1, <2>2
    <3>. QED
      BY <2>1, <3>1 DEF Told
  <2>3. CASE t = u
    <3>1. s = "none"
      BY <2>1, <2>3 DEF Told
    <3>. QED
      BY <3>1 DEF Told
  <2>. QED
    BY <2>2, <2>3
<1>4. CASE HostResume
  <2>1. PICK u \in Txns : /\ resumed' = [resumed EXCEPT ![u] = @ + 1]
                          /\ UNCHANGED <<request, applied, processed, restarts>>
    BY <1>4 DEF HostResume, histVars, countVars
  <2>2. resumed'[t] = 0 => resumed[t] = 0
    BY <1>1, <2>1 DEF OnceInv, TypeInv, TypeOK
  <2>. QED
    BY <2>1, <2>2 DEF Told
<1>5. CASE Restart
  <2>1. restarts' # 0 /\ UNCHANGED <<request, applied, processed>>
    BY <1>1, <1>5 DEF Restart, hostVars, histVars
  <2>. QED
    BY <2>1 DEF Told
<1>6. CASE UNCHANGED <<request, applied, processed, restarts, resumed>>
  BY <1>6 DEF Told
<1>7. RegisterLock \/ ForbidLock \/ Unlock \/ UnlockRefused \/ TransferRefused \/ LosePoll
      \/ TransferOut \/ LoseAnswer \/ PlayerStep \/ UNCHANGED vars
        => UNCHANGED <<request, applied, processed, restarts, resumed>>
  BY DEF RegisterLock, ForbidLock, Unlock, UnlockRefused, TransferRefused, LosePoll,
         TransferOut, LoseAnswer, PlayerStep, vars, egmVars, hostVars, histVars, countVars
<1>8. HostRepeat \/ HostRegister \/ HostChangesLock \/ HostReceive
      \/ HostTimeout \/ HostEarlyTimeout
        => UNCHANGED <<request, applied, processed, restarts, resumed>>
  BY DEF HostRepeat, HostRegister, HostChangesLock, HostReceive,
         HostTimeout, HostEarlyTimeout, histVars, countVars
<1>. QED
  BY <1>2, <1>3, <1>4, <1>5, <1>6, <1>7, <1>8 DEF Next, EgmStep, HostStep, Transferring

\* The answer to a transfer is true when it is given.
LEMMA ReplyTrue ==
  ASSUME OnceInv, TypeInv', TurnInv, UseInv, TransferRefused \/ Transferring
  PROVE  \E m : toHost' = Append(toHost, m) /\ m \in Answer /\ AnswerTrue(m)'
<1>1. CASE Transferring
  <2>1. PICK t, v : /\ t = Head(toEgm).txn /\ toEgm # <<>> /\ Head(toEgm).op = "transfer"
                    /\ TransferRefusal(t) = "none"
                    /\ v \in {"FULL_TRANSFER_SUCCESSFUL", "GAMING_MACHINE_UNABLE",
                              "NOT_VALID_FUNCTION"}
                    /\ v = "NOT_VALID_FUNCTION" <=> request[t].kind = "DEBIT"
                    /\ TransferDone(t, v)
    BY <1>1, Transferred DEF OnceInv
  <2>2. t \in Txns /\ Told(t, v)'
    BY <2>1, TransferTells
  <2>3. PICK m : m = [op |-> "transfer", txn |-> t, status |-> v]
    OBVIOUS
  <2>4. toHost' = Append(toHost, m)
    BY <2>1, <2>3 DEF TransferDone, Reply
  <2>5. v \in Statuses
    BY <2>1 DEF Statuses, KeptStatuses
  <2>6. m \in Answer
    BY <2>2, <2>3, <2>5 DEF Answer
  <2>7. AnswerTrue(m)'
    BY <2>2, <2>3, AftAssumption DEF AnswerTrue, AftAssumption
  <2>. QED
    BY <2>4, <2>6, <2>7
<1>2. CASE TransferRefused
  <2>1. PICK t, v : t = Head(toEgm).txn /\ v = TransferRefusal(t)
    OBVIOUS
  <2>2. /\ toEgm # <<>> /\ Head(toEgm).op = "transfer"
        /\ v # "none"
        /\ UNCHANGED <<request, applied, processed, restarts, resumed>>
    BY <1>2, <2>1 DEF TransferRefused, Polled, hostVars, histVars, countVars
  <2>3. t \in Txns /\ request[t] \in Requests
    BY <2>1, <2>2, FirstPoll DEF OnceInv
  <2>4. request[t] # NoRequest
    BY <2>3, AftAssumption DEF AftAssumption
  <2>5. PICK m : m = [op |-> "transfer", txn |-> IF registered THEN t ELSE NoTxn, status |-> v]
    OBVIOUS
  <2>6. toHost' = Append(toHost, m)
    BY <1>2, <2>1, <2>5 DEF TransferRefused, Reply
  <2>7. v \in RefusedStatuses
    BY <2>1, <2>2 DEF TransferRefusal, RefusedStatuses
  <2>8. m \in Answer
    BY <2>3, <2>5, <2>7 DEF Answer, Statuses
  <2>9. CASE registered
    <3>1. m.txn = t /\ m.status = v /\ t # NoTxn
      BY <2>3, <2>5, <2>9, AftAssumption DEF AftAssumption
    <3>2. \/ v = "NOT_VALID_AMOUNT" /\ request[t].amount = 0
          \/ v = "TRANSACTION_ID_NOT_UNIQUE" /\ lastTxn = t
      <4>1. v = IF request[t].amount = 0 THEN "NOT_VALID_AMOUNT"
                ELSE IF t = lastTxn /\ request[t].amount = lastAmount
                  THEN "TRANSACTION_ID_NOT_UNIQUE"
                ELSE "none"
        BY <2>1, <2>9, Zenon DEF TransferRefusal
      <4>2. v # "none"
        BY <2>2
      <4>3. \/ request[t].amount = 0 /\ v = "NOT_VALID_AMOUNT"
            \/ t = lastTxn /\ v = "TRANSACTION_ID_NOT_UNIQUE"
            \/ v = "none"
        BY <4>1, Zenon
      <4>. QED
        BY <4>2, <4>3
    <3>3. lastTxn = t => processed[t]
      BY <2>3 DEF UseInv
    <3>4. Told(t, v)'
      BY <2>2, <2>4, <3>2, <3>3 DEF Told
    <3>. QED
      BY <2>6, <2>8, <3>1, <3>4 DEF AnswerTrue
  <2>10. CASE ~registered
    <3>1. m.txn = NoTxn /\ m.status = "GAME_NOT_REGISTERED"
      BY <2>1, <2>5, <2>10 DEF TransferRefusal
    <3>. QED
      BY <2>6, <2>8, <3>1 DEF AnswerTrue
  <2>. QED
    BY <2>9, <2>10
<1>. QED
  BY <1>1, <1>2

\* The answers stay true: those under way, and what the host makes of the next.
LEMMA NextKeepsTold ==
  ASSUME OnceInv, TypeInv', TurnInv, UseInv, ToldInv, [Next]_vars
  PROVE  ToldInv'
<1>1. /\ toHost \in Seq(Answer) /\ Len(toHost) \in Nat
      /\ answer \in [Txns -> Statuses \cup {"none"}]
      /\ current \in Txns \cup {NoTxn} /\ NoTxn \notin Txns
  <2>1. NoTxn \notin Txns
    BY AftAssumption DEF AftAssumption
  <2>2. toHost \in Seq(Answer) /\ current \in Txns \cup {NoTxn}
        /\ answer \in [Txns -> Statuses \cup {"none"}]
    BY Zenon DEF OnceInv, TypeInv, TypeOK
  <2>. QED
    BY <2>1, <2>2
<1>2. ASSUME NEW m \in Answer, AnswerTrue(m)
      PROVE  AnswerTrue(m)'
  <2>1. CASE m.op = "transfer" /\ m.txn # NoTxn
    <3>1. PICK t \in Txns, s \in {m.status} : t = m.txn /\ s = m.status
      BY <2>1 DEF Answer
    <3>2. Told(t, s)
      BY <1>2, <2>1, <3>1 DEF AnswerTrue
    <3>3. Told(t, s)'
      BY <3>2, ToldStays
    <3>. QED
      BY <2>1, <3>1, <3>3 DEF AnswerTrue
  <2>2. CASE ~(m.op = "transfer" /\ m.txn # NoTxn)
    BY <1>2, <2>2 DEF AnswerTrue
  <2>. QED
    BY <2>1, <2>2
<1>3. \A i \in 1..Len(toHost) : toHost[i] \in Answer /\ AnswerTrue(toHost[i])
  BY <1>1 DEF ToldInv
<1>4. ASSUME NEW t \in Txns
      PROVE  Told(t, answer[t])'  \/ answer'[t] # answer[t]
  <2>1. PICK s : s = answer[t]
    OBVIOUS
  <2>2. Told(t, s)'
    BY <2>1, ToldStays DEF ToldInv
  <2>. QED
    BY <2>1, <2>2 DEF Told
\* The answers under way.
<1>5. ASSUME NEW i \in 1..Len(toHost')
      PROVE  AnswerTrue(toHost[i])'
  <2>1. PICK m : m = toHost'[i]
    OBVIOUS
  <2>2. ASSUME toHost' = toHost \/ (toHost # <<>> /\ toHost' = Tail(toHost))
        PROVE  AnswerTrue(m)'
    <3>1. PICK k \in 1..Len(toHost) : m = toHost[k]
      BY <1>1, <2>1, <2>2
    <3>. QED
      BY <1>2, <1>3, <3>1
  <2>3. ASSUME NEW r, toHost' = Append(toHost, r), AnswerTrue(r)'
        PROVE  AnswerTrue(m)'
    <3>1. CASE i \in 1..Len(toHost)
      <4>1. m = toHost[i]
        BY <1>1, <2>1, <2>3, <3>1
      <4>. QED
        BY <1>2, <1>3, <3>1, <4>1
    <3>2. CASE i \notin 1..Len(toHost)
      <4>1. m = r
        BY <1>1, <2>1, <2>3, <3>2
      <4>. QED
        BY <2>3, <4>1
    <3>. QED
      BY <3>1, <3>2
  <2>4. ASSUME TransferRefused \/ Transferring
        PROVE  AnswerTrue(m)'
    BY <2>3, <2>4, ReplyTrue
  <2>5. ASSUME RegisterLock \/ ForbidLock \/ Unlock \/ UnlockRefused
        PROVE  AnswerTrue(m)'
    <3>1. PICK status : toHost' = Append(toHost, [op |-> "lock", status |-> status])
      BY <2>5 DEF RegisterLock, ForbidLock, Unlock, UnlockRefused, LockReply, Reply
    <3>2. PICK r : r = [op |-> "lock", status |-> status]
      OBVIOUS
    <3>3. r.op # "transfer"
      BY <3>2
    <3>4. AnswerTrue(r)'
      BY <3>3 DEF AnswerTrue
    <3>. QED
      BY <2>3, <3>1, <3>2, <3>4
  <2>6. ASSUME \/ HostStep \/ LosePoll \/ LoseAnswer \/ PlayerStep \/ Restart
               \/ TransferOut \/ UNCHANGED vars
        PROVE  AnswerTrue(m)'
    <3>1. toHost' = toHost \/ (toHost # <<>> /\ toHost' = Tail(toHost))
      BY <2>6 DEF HostStep, HostStart, HostRepeat, HostRegister, HostResume, HostChangesLock,
                  HostReceive, HostTimeout, HostEarlyTimeout, LosePoll, LoseAnswer,
                  PlayerStep, Restart, TransferOut, vars
    <3>. QED
      BY <2>2, <3>1
  <2>7. AnswerTrue(m)'
    BY <2>4, <2>5, <2>6 DEF Next, EgmStep, Transferring
  <2>. QED
    BY <2>1, <2>7 DEF AnswerTrue
\* The answers received.
<1>6. ASSUME NEW t \in Txns
      PROVE  Told(t, answer[t])'
  <2>1. CASE answer' = answer
    BY <1>4, <2>1
  <2>2. CASE HostRegister
    <3>1. answer'[t] = answer[t] \/ answer'[t] = "none"
      BY <1>1, <2>2 DEF HostRegister
    <3>. QED
      BY <1>4, <3>1 DEF Told
  <2>3. CASE HostReceive
    <3>1. PICK m : m = Head(toHost)
      OBVIOUS
    <3>2. toHost # <<>> /\ current' = current
          /\ answer' = IF m.op = "transfer" /\ m.txn \in {current, NoTxn}
                         THEN [answer EXCEPT ![current] = m.status] ELSE answer
      BY <2>3, <3>1 DEF HostReceive
    <3>3. m \in Answer /\ AnswerTrue(m)
      BY <1>1, <1>3, <3>1, <3>2
    <3>4. \/ answer'[t] = answer[t]
          \/ m.op = "transfer" /\ m.txn \in {t, NoTxn} /\ t = current /\ answer'[t] = m.status
      BY <1>1, <3>2
    <3>5. CASE m.op = "transfer" /\ m.txn \in {t, NoTxn} /\ t = current /\ answer'[t] = m.status
      <4>1. PICK s : s = m.status
        OBVIOUS
      <4>2. Told(t, s)
        <5>1. CASE m.txn = NoTxn
          <6>1. s = "GAME_NOT_REGISTERED"
            BY <3>3, <3>5, <4>1, <5>1 DEF AnswerTrue
          <6>2. request[t] # NoRequest
            BY <3>5 DEF OnceInv, TypeInv, RequestsKnown
          <6>. QED
            BY <6>1, <6>2 DEF Told
        <5>2. CASE m.txn # NoTxn
          BY <3>3, <3>5, <4>1, <5>2 DEF AnswerTrue
        <5>. QED
          BY <5>1, <5>2
      <4>3. Told(t, s)'
        BY <4>2, ToldStays
      <4>. QED
        BY <3>5, <4>1, <4>3 DEF Told
    <3>. QED
      BY <1>4, <3>4, <3>5
  <2>4. EgmStep \/ LosePoll \/ LoseAnswer \/ PlayerStep \/ Restart \/ UNCHANGED vars
        \/ HostStart \/ HostRepeat \/ HostResume \/ HostChangesLock \/ HostTimeout
        \/ HostEarlyTimeout
          => answer' = answer
    BY DEF EgmStep, RegisterLock, ForbidLock, Unlock, UnlockRefused, TransferRefused,
           TransferFunds, TransferOut, TransferOutDebit, TransferDone, LosePoll, LoseAnswer,
           PlayerStep, Restart, vars, hostVars, HostStart,
           HostRepeat, HostResume, HostChangesLock, HostTimeout, HostEarlyTimeout
  <2>. QED
    BY <2>1, <2>2, <2>3, <2>4 DEF Next, HostStep
<1>. QED
  BY <1>5, <1>6 DEF ToldInv

\* What the host is told is true: a success moved credits, a "not unique" was dealt
\* with, and a refusal stands, for a host that did not come back to the transaction
\* and a machine that did not restart.
THEOREM TruthTold == Spec => []AnswersTruthful
<1> DEFINE TruthInv == TurnInv /\ UseInv /\ ToldInv
<1>1. Init => TruthInv
  <2>. SUFFICES ASSUME Init PROVE TruthInv
    OBVIOUS
  <2>1. /\ lastTxn = NoTxn /\ current = NoTxn /\ NoTxn \notin Txns
        /\ \A t \in Txns : /\ applied[t] = 0 /\ ~processed[t]
                           /\ request[t] = NoRequest /\ answer[t] = "none"
        /\ 1..Len(toEgm) = {} /\ 1..Len(toHost) = {}
    BY AftAssumption DEF AftAssumption, Init, EgmStatics
  <2>. QED
    BY <2>1 DEF TurnInv, UseInv, ToldInv, Told
<1>2. OnceInv /\ TypeInv' /\ TruthInv /\ [Next]_vars => TruthInv'
  BY NextKeepsTurns, NextKeepsUse, NextKeepsTold
<1>3. OnceInv /\ TruthInv => AnswersTruthful
  <2>. SUFFICES ASSUME OnceInv, UseInv, ToldInv PROVE AnswersTruthful
    OBVIOUS
  <2>1. ASSUME NEW t \in Txns, answer[t] \in {"NOT_VALID_AMOUNT", "NOT_VALID_FUNCTION"}
        PROVE  applied[t] = 0
    BY <2>1 DEF ToldInv, Told, UseInv
  <2>. QED
    BY <2>1 DEF ToldInv, Told, AnswersTruthful
<1> HIDE DEF TruthInv
<1>. QED
  BY <1>1, <1>2, <1>3, OnceInvHolds, TypesKnown, PTL DEF Spec

=============================================================================
