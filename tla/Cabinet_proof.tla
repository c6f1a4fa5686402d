--------------------------- MODULE Cabinet_proof ---------------------------
(***************************************************************************)
(* Proofs about Cabinet for every set of levels, values and bonuses, every *)
(* limit and any number of calls.                                          *)
(***************************************************************************)
EXTENDS Cabinet, TLAPS, SequenceTheorems, WellFoundedInduction

-----------------------------------------------------------------------------
(* The sum of a queue of amounts                                           *)

\* Induction up to n, over a set.
LEMMA UpToN ==
  ASSUME NEW n \in Nat, NEW S, 0 \in S, \A i \in 0..(n - 1) : i \in S => i + 1 \in S
  PROVE  \A i \in 0..n : i \in S
<1>. DEFINE Missing == {i \in 0..n : i \notin S}
<1>1. SUFFICES ASSUME Missing # {}
               PROVE  FALSE
  OBVIOUS
<1>2. Missing \in SUBSET Nat
  OBVIOUS
<1>. HIDE DEF Missing
<1>3. PICK k \in Missing : \A y \in Missing : ~(<<y, k>> \in OpToRel(<, Nat))
  BY <1>1, <1>2, NatLessThanWellFounded, WFMin
<1>4. \A y \in Missing : ~(y < k)
  BY <1>2, <1>3 DEF OpToRel
<1>. USE DEF Missing
<1>5. k \in 1..n
  OBVIOUS
<1>6. k - 1 \in 0..(n - 1) /\ k - 1 \in 0..n /\ k - 1 < k
  BY <1>5
<1>7. k - 1 \in S
  BY <1>4, <1>6
<1>8. (k - 1) + 1 \in S
  BY <1>6, <1>7
<1>9. k \in S
  BY <1>5, <1>8
<1>. QED
  BY <1>9

\* The partial sums of a queue.
Sums(f, amounts) == f = [n \in 0..Len(amounts) |-> IF n = 0 THEN 0 ELSE amounts[n] + f[n - 1]]

\* Every queue has them: by induction on the number of amounts summed up.
LEMMA SumsExist ==
  ASSUME NEW a \in Seq(Int)
  PROVE  \E f \in [0..Len(a) -> Int] : Sums(f, a)
<1>. DEFINE Upto(n, g) == g = [i \in 0..n |-> IF i = 0 THEN 0 ELSE a[i] + g[i - 1]]
            S == {n \in 0..Len(a) : \E g \in [0..n -> Int] : Upto(n, g)}
<1>1. Len(a) \in Nat /\ \A i \in 1..Len(a) : a[i] \in Int
  OBVIOUS
<1>2. 0 \in S
  <2>1. 0 \in 0..Len(a)
    BY <1>1
  <2>. DEFINE g == [i \in 0..0 |-> 0]
  <2>2. g \in [0..0 -> Int] /\ Upto(0, g)
    OBVIOUS
  <2>. QED
    BY <2>1, <2>2
<1>3. ASSUME NEW n \in 0..(Len(a) - 1), n \in S
      PROVE  n + 1 \in S
  <2>1. PICK g \in [0..n -> Int] : Upto(n, g)
    BY <1>3
  <2>2. n \in Nat /\ n + 1 \in 1..Len(a) /\ n + 1 \in 0..Len(a) /\ a[n + 1] \in Int
    BY <1>1
  <2>. DEFINE h == [i \in 0..(n + 1) |-> IF i = n + 1 THEN a[n + 1] + g[n] ELSE g[i]]
  <2>3. h \in [0..(n + 1) -> Int]
    BY <2>2
  <2>4. ASSUME NEW i \in 0..(n + 1)
        PROVE  h[i] = IF i = 0 THEN 0 ELSE a[i] + h[i - 1]
    <3>1. CASE i = n + 1
      BY <2>2, <3>1
    <3>2. CASE i # n + 1
      <4>1. i \in 0..n
        BY <2>2, <3>2
      <4>2. h[i] = IF i = 0 THEN 0 ELSE a[i] + g[i - 1]
        BY <2>1, <2>2, <3>2, <4>1
      <4>3. i # 0 => i - 1 \in 0..n /\ i - 1 # n + 1 /\ i - 1 \in 0..(n + 1)
        BY <2>2, <4>1
      <4>. QED
        BY <4>2, <4>3
    <3>. QED
      BY <3>1, <3>2
  <2>. HIDE DEF h
  <2>5. Upto(n + 1, h)
    BY <2>3, <2>4
  <2>. QED
    BY <2>2, <2>3, <2>5
<1>. HIDE DEF S
<1>4. Len(a) \in S
  <2>1. \A i \in 0..(Len(a) - 1) : i \in S => i + 1 \in S
    BY <1>3
  <2>2. \A i \in 0..Len(a) : i \in S
    BY <1>1, <1>2, <2>1, UpToN
  <2>. QED
    BY <1>1, <2>2
<1>5. \E g \in [0..Len(a) -> Int] : Upto(Len(a), g)
  BY <1>4 DEF S
<1>. QED
  BY <1>5 DEF Sums

\* f has the first n of them.
Summing(f, n, amounts) == \A i \in 0..n : f[i] = IF i = 0 THEN 0 ELSE amounts[i] + f[i - 1]
Same(f, g, n) == \A i \in 0..n : f[i] = g[i]

\* And there is one of them only.
LEMMA SumsAgree ==
  ASSUME NEW a \in Seq(Int), NEW n \in 0..Len(a),
         NEW f, NEW g,
         Summing(f, n, a), Summing(g, n, a)
  PROVE  Same(f, g, n)
<1>. DEFINE S == {i \in 0..n : f[i] = g[i]}
<1>1. n \in Nat
  OBVIOUS
<1>2. 0 \in S
  BY <1>1 DEF Summing
<1>3. ASSUME NEW i \in 0..(n - 1), i \in S
      PROVE  i + 1 \in S
  <2>1. i + 1 \in 0..n /\ i + 1 # 0 /\ (i + 1) - 1 = i
    BY <1>1
  <2>2. f[i + 1] = a[i + 1] + f[i] /\ g[i + 1] = a[i + 1] + g[i]
    BY <2>1 DEF Summing
  <2>. QED
    BY <1>3, <2>1, <2>2
<1>4. \A i \in 0..(n - 1) : i \in S => i + 1 \in S
  BY <1>3
<1>. HIDE DEF S
<1>5. \A i \in 0..n : i \in S
  BY <1>1, <1>2, <1>4, UpToN
<1>. QED
  BY <1>5 DEF S, Same

\* Sum is the last of the partial sums.
LEMMA SumIs ==
  ASSUME NEW a \in Seq(Int)
  PROVE  \E f \in [0..Len(a) -> Int] : Sums(f, a) /\ Sum(a) = f[Len(a)]
<1>1. PICK f \in [0..Len(a) -> Int] : Sums(f, a)
  BY SumsExist
<1>. DEFINE h == CHOOSE u : Sums(u, a)
<1>2. Sums(h, a)
  BY <1>1
<1>3. Sum(a) = h[Len(a)]
  BY DEF Sum, Sums
<1>. HIDE DEF h
<1>4. Len(a) \in Nat /\ Len(a) \in 0..Len(a)
  OBVIOUS
<1>5. Summing(f, Len(a), a)
  BY <1>1 DEF Sums, Summing
<1>6. Summing(h, Len(a), a)
  BY <1>2 DEF Sums, Summing
<1>7. h[Len(a)] = f[Len(a)]
  BY <1>4, <1>5, <1>6, SumsAgree DEF Same
<1>. QED
  BY <1>1, <1>3, <1>4, <1>7

\* A queue grows at its end, and its sum by what is put there.
LEMMA SumAppend ==
  ASSUME NEW a \in Seq(Int), NEW x \in Int
  PROVE  Sum(Append(a, x)) = Sum(a) + x
<1>. DEFINE b == Append(a, x)
            n == Len(a)
<1>1. /\ b \in Seq(Int) /\ Len(b) = n + 1 /\ n \in Nat
      /\ b[n + 1] = x /\ \A i \in 1..n : b[i] = a[i]
  OBVIOUS
<1>2. PICK f \in [0..n -> Int] : Sums(f, a) /\ Sum(a) = f[n]
  BY SumIs
<1>3. PICK g \in [0..(n + 1) -> Int] : Sums(g, b) /\ Sum(b) = g[n + 1]
  BY <1>1, SumIs
<1>. HIDE DEF b, n
<1>4. \A i \in 0..(n + 1) : g[i] = IF i = 0 THEN 0 ELSE b[i] + g[i - 1]
  BY <1>1, <1>3 DEF Sums
<1>5. Summing(g, n, a)
  BY <1>1, <1>4 DEF Summing
<1>6. n \in 0..n
  BY <1>1
<1>7. f[n] = g[n]
  <2>1. Summing(f, n, a)
    BY <1>2 DEF Sums, n, Summing
  <2>2. n \in 0..Len(a)
    BY <1>6 DEF n
  <2>. QED
    BY <1>5, <1>6, <2>1, <2>2, SumsAgree DEF Same
<1>8. g[n + 1] = x + g[n]
  BY <1>1, <1>4
<1>. QED
  BY <1>2, <1>3, <1>6, <1>7, <1>8 DEF b

\* It shrinks at its head.
LEMMA SumTail ==
  ASSUME NEW a \in Seq(Int), a # <<>>
  PROVE  Sum(Tail(a)) = Sum(a) - Head(a)
<1>. DEFINE b == Tail(a)
            m == Len(b)
            x == Head(a)
<1>1. /\ b \in Seq(Int) /\ Len(a) = m + 1 /\ m \in Nat
      /\ a[1] = x /\ x \in Int /\ \A i \in 1..m : b[i] = a[i + 1]
  OBVIOUS
<1>2. PICK f \in [0..m -> Int] : Sums(f, b) /\ Sum(b) = f[m]
  BY <1>1, SumIs
<1>3. PICK g \in [0..(m + 1) -> Int] : Sums(g, a) /\ Sum(a) = g[m + 1]
  BY <1>1, SumIs
<1>. DEFINE h == [i \in 0..m |-> g[i + 1] - x]
<1>. HIDE DEF b, m, x
<1>4. \A i \in 0..(m + 1) : g[i] = IF i = 0 THEN 0 ELSE a[i] + g[i - 1]
  BY <1>1, <1>3 DEF Sums
<1>5. ASSUME NEW i \in 0..m
      PROVE  h[i] = IF i = 0 THEN 0 ELSE b[i] + h[i - 1]
  <2>1. CASE i = 0
    <3>1. 0 \in 0..(m + 1) /\ 1 \in 0..(m + 1)
      BY <1>1
    <3>2. g[1] = a[1] + g[0] /\ g[0] = 0
      BY <1>4, <3>1
    <3>. QED
      BY <1>1, <2>1, <3>2
  <2>2. CASE i # 0
    <3>1. i \in 1..m /\ i + 1 \in 0..(m + 1) /\ (i + 1) - 1 = i /\ i - 1 \in 0..m /\ (i - 1) + 1 = i
      BY <1>1, <2>2
    <3>2. i \in 0..(m + 1) /\ i + 1 # 0
      BY <1>1, <2>2
    <3>3. g[i + 1] = a[i + 1] + g[i]
      BY <1>4, <3>1, <3>2
    <3>4. h[i] = g[i + 1] - x /\ h[i - 1] = g[i] - x
      BY <3>1
    <3>5. g[i] \in Int /\ g[i + 1] \in Int /\ a[i + 1] \in Int /\ b[i] = a[i + 1]
      BY <1>1, <1>3, <3>1, <3>2
    <3>6. h[i] = b[i] + h[i - 1]
      BY <1>1, <3>3, <3>4, <3>5
    <3>. QED
      BY <2>2, <3>6
  <2>. QED
    BY <2>1, <2>2
<1>6. m \in 0..m /\ h[m] = g[m + 1] - x
  BY <1>1
<1>. HIDE DEF h
<1>7. f[m] = h[m]
  <2>1. Summing(f, m, b) /\ Summing(h, m, b)
    BY <1>2, <1>5 DEF Sums, m, Summing
  <2>2. m \in 0..Len(b)
    BY <1>6 DEF m
  <2>. QED
    BY <1>1, <1>6, <2>1, <2>2, SumsAgree DEF Same
<1>. QED
  BY <1>2, <1>3, <1>6, <1>7 DEF b, x

\* Nothing is in an empty queue.
LEMMA SumEmpty == Sum(<<>>) = 0
<1>1. <<>> \in Seq(Int) /\ Len(<<>>) = 0
  OBVIOUS
<1>2. PICK f \in [0..0 -> Int] : Sums(f, <<>>) /\ Sum(<<>>) = f[0]
  BY <1>1, SumIs
<1>. QED
  BY <1>1, <1>2 DEF Sums

\* A sum of amounts is a number.
LEMMA SumType == ASSUME NEW a \in Seq(Int) PROVE Sum(a) \in Int
<1>1. Len(a) \in 0..Len(a)
  OBVIOUS
<1>. QED
  BY <1>1, SumIs

-----------------------------------------------------------------------------
(* The inductive invariant                                                 *)

\* The type of every variable by itself.
Flags == auto \in BOOLEAN /\ ignore \in BOOLEAN /\ straddled \in BOOLEAN
Types ==
  /\ on \subseteq Switches
  /\ handpays \in Seq(Int) /\ hits \in Seq(Nat)
  /\ value \in [Levels -> Nat]
  /\ age \in 0..(Limit + 1) /\ since \in 0..(Limit + 1)
  /\ credits \in Int /\ given \in Int /\ settled \in Int
  /\ cashed \in Nat /\ awarded \in Nat
  /\ mutex \in Threads \cup {Nobody} /\ service \in Threads \cup {Nobody}
  /\ arg \in [Threads -> Int]
  /\ stage \in 0..5
  /\ throughout \subseteq {Order[i] : i \in 1..6}

\* Where each thread can be, and what the player and the host carry there.
Phases == {"idle", "check", "play", "tell", "record", "owe", "deduct", "owe cashout",
           "credit", "zero", "restore", "publish", "clear"}
PhaseInv ==
  /\ pc \in [Threads -> Phases]
  /\ pc["player"] \in {"idle", "check", "play", "tell", "record", "owe", "deduct",
                       "owe cashout"}
  /\ pc["host"] \in {"idle", "credit", "owe"}
  /\ pc["attendant"] \in {"idle", "zero", "restore"}
  /\ pc["server"] \in {"idle", "publish"}
  /\ pc["watchdog"] \in {"idle", "clear", "publish"}
  /\ want \in Levels \cup {"game"}
  /\ pc["player"] \in {"tell", "record"} => arg["player"] \in Nat
  /\ pc["host"] # "idle" => arg["host"] \in Nat

\* A mutex is held by a thread inside the call that took it.
HeldInv ==
  /\ mutex # Nobody => pc[mutex] = "publish"
  /\ service # Nobody => pc[service] = "credit"

\* None of the conditions the player has passed has blocked all along, and
\* behind the last of them none is left.
CheckInv ==
  /\ \A i \in 1..stage : Order[i] \notin throughout
  /\ pc["player"] # "check" => throughout = {}

\* The watchdog does not renew the link.
LinkInv == age = since

\* Until a change of the credits meets it, a RAM clear carries what there is.
ClearInv == pc["attendant"] = "zero" /\ ~straddled => arg["attendant"] = credits

\* What the player and what the attendant has on its way.
Cashing == IF pc["player"] = "owe cashout" THEN arg["player"] ELSE 0
Restoring == IF pc["attendant"] = "restore" THEN arg["attendant"] ELSE 0

\* Nor does a cash-out take what is not there: it errs to one side only.
CoverInv ==
  ~straddled =>
    /\ credits >= 0
    /\ pc["attendant"] \in {"zero", "restore"} => arg["attendant"] >= 0
    /\ pc["player"] = "deduct" =>
         0 <= arg["player"] /\ arg["player"] <= credits + Restoring

IInv ==
  /\ Flags /\ Types /\ PhaseInv /\ HeldInv /\ CheckInv /\ LinkInv
  /\ ClearInv /\ CoverInv /\ MoneyKept

\* The order of the conditions, taken apart.
LEMMA OrderIs ==
  /\ Len(Order) = 6
  /\ ToSet(Order) = {Order[i] : i \in 1..6}
BY DEF Order, ToSet

\* The types together are TypeOK.
LEMMA TypesAre == ASSUME Flags, Types, HeldInv PROVE TypeOK
<1>1. auto \in BOOLEAN /\ ignore \in BOOLEAN /\ straddled \in BOOLEAN
  BY DEF Flags
<1>. QED
  BY <1>1, OrderIs DEF TypeOK, Types, HeldInv

\* What the constants are.
LEMMA ConstantTypes ==
  /\ Values \subseteq Nat /\ Bonuses \subseteq Nat
  /\ Limit \in Nat /\ Limit # 0
  /\ HandpayLimit \in Nat /\ Credits0 \in Nat
BY CabinetAssumption

\* An amount in dollars and back: the amount, or one credit nearer to none.
LEMMA ConvertedIs ==
  ASSUME NEW n \in Int
  PROVE  /\ Converted(n) \in Int
         /\ n >= 0 => Converted(n) >= 0 /\ Converted(n) \in {n - 1, n}
         /\ n <= 0 => Converted(n) \in {n, n + 1}
<1>1. \A k \in Short : k \in Nat /\ k # 0
  BY CabinetAssumption
<1>2. /\ n \in Short => Converted(n) = n - 1
      /\ n \notin Short /\ -n \in Short => Converted(n) = n + 1
      /\ n \notin Short /\ -n \notin Short => Converted(n) = n
  BY DEF Converted
<1>3. CASE n \in Short
  BY <1>1, <1>2, <1>3
<1>4. CASE n \notin Short /\ -n \in Short
  <2>1. -n \in Nat /\ -n # 0
    BY <1>1, <1>4
  <2>. QED
    BY <1>2, <1>4, <2>1
<1>5. CASE n \notin Short /\ -n \notin Short
  BY <1>2, <1>5
<1>. QED
  BY <1>3, <1>4, <1>5

\* It holds at the start.
LEMMA InitIInv == Init => IInv
<1>. SUFFICES ASSUME Init PROVE IInv
  OBVIOUS
<1>1. Flags
  BY Zenon DEF Init, Flags
<1>2. Types
  <2>1. /\ on = {} /\ handpays = <<>> /\ hits = <<>> /\ value = [l \in Levels |-> 0]
        /\ age = Limit + 1 /\ since = Limit + 1
        /\ credits = Credits0 /\ given = Credits0 /\ settled = 0
        /\ cashed = 0 /\ awarded = 0
        /\ mutex = Nobody /\ service = Nobody /\ arg = [t \in Threads |-> 0]
        /\ stage = 0 /\ throughout = {}
    BY Zenon DEF Init
  <2>. QED
    BY <2>1, ConstantTypes DEF Types
<1>3. /\ pc = [t \in Threads |-> "idle"] /\ arg = [t \in Threads |-> 0]
      /\ want = "game" /\ stage = 0 /\ throughout = {} /\ age = Limit + 1 /\ since = Limit + 1
      /\ mutex = Nobody /\ service = Nobody
  BY Zenon DEF Init
<1>4. PhaseInv
  <2>1. want \in Levels \cup {"game"}
    BY <1>3, Zenon
  <2>2. /\ pc \in [Threads -> Phases]
        /\ pc["player"] = "idle" /\ pc["host"] = "idle" /\ pc["attendant"] = "idle"
        /\ pc["server"] = "idle" /\ pc["watchdog"] = "idle"
    <3>1. pc = [t \in Threads |-> "idle"]
      BY Zenon DEF Init
    <3>2. \A t \in Threads : pc[t] = "idle"
      BY <3>1
    <3>3. pc \in [Threads -> Phases]
      BY <3>1 DEF Phases
    <3>. QED
      BY <3>2, <3>3, Zenon DEF Threads
  <2>. QED
    BY <2>1, <2>2, Zenon DEF PhaseInv
<1>7. CheckInv /\ HeldInv /\ LinkInv
  BY <1>3 DEF CheckInv, HeldInv, LinkInv, Threads
<1>5. ClearInv
  BY <1>3 DEF ClearInv, Threads
<1>8. CoverInv
  <2>1. credits = Credits0
    BY Zenon DEF Init
  <2>. QED
    BY <1>3, <2>1, ConstantTypes DEF CoverInv, Threads
<1>6. MoneyKept
  <2>1. /\ credits = Credits0 /\ given = Credits0 /\ settled = 0 /\ handpays = <<>>
        /\ cashed = 0 /\ awarded = 0
    BY Zenon DEF Init
  <2>. QED
    BY <1>3, <2>1, SumEmpty, ConstantTypes DEF MoneyKept, InTransit, Threads
<1>. QED
  BY <1>1, <1>2, <1>4, <1>5, <1>6, <1>7, <1>8 DEF IInv

-----------------------------------------------------------------------------
(* Types                                                                   *)

\* What blocks the machine is one of the conditions it looks at.
LEMMA BlockingKnown == Blocking \subseteq {Order[i] : i \in 1..6}
<1>1. {Order[i] : i \in 1..6}
        = {"handpay", "door", "link", "disabled", "locked", "voucher"}
  <2>1. /\ Order[1] = "handpay" /\ Order[2] = "door" /\ Order[3] = "link"
        /\ Order[4] = "disabled" /\ Order[5] = "locked" /\ Order[6] = "voucher"
    BY DEF Order
  <2>. HIDE DEF Order
  <2>. QED
    BY <2>1
<1>. QED
  BY <1>1 DEF Blocking

\* The history of the check stays a set of conditions.
LEMMA WatchedTyped ==
  ASSUME Types, Watched
  PROVE  throughout' \subseteq {Order[i] : i \in 1..6}
BY BlockingKnown DEF Types, Watched

\* Every step keeps the types.
LEMMA TypesKept ==
  ASSUME Types, PhaseInv, Next
  PROVE  Types'
<1>0. /\ arg["player"] \in Int /\ arg["host"] \in Int
      /\ Values \subseteq Nat /\ Bonuses \subseteq Int /\ Limit \in Nat
      /\ -arg["player"] \in Int
  BY ConstantTypes DEF Types, Threads
<1>1. throughout' \subseteq {Order[i] : i \in 1..6}
  BY WatchedTyped DEF Next
<1>2. CASE BeginCheck
  BY <1>2, <1>1, <1>0 DEF BeginCheck, Goto, Calls, switches, link, locks, check, money,
     owed,
       Types, Threads
<1>3. CASE Refuse
  BY <1>3, <1>1, <1>0 DEF Refuse, Goto, switches, link, locks, check, money, owed, Types,
       Threads
<1>4. CASE Pass
  <2>1. stage + 1 # 6 => stage + 1 \in 0..5
    BY DEF Types
  <2>2. handpays # <<>> => Tail(handpays) \in Seq(Int) /\ settled + Head(handpays) \in Int
    BY DEF Types
  <2>3. stage' = 0 \/ (stage' = stage + 1 /\ stage + 1 # 6)
    BY <1>4, OrderIs DEF Pass
  <2>4. settled' \in Int /\ handpays' \in Seq(Int)
    <3>1. \/ handpays # <<>> /\ handpays' = Tail(handpays) /\ settled' = settled + Head(handpays)
          \/ handpays' = handpays /\ settled' = settled
      BY <1>4, Zenon DEF Pass, owed
    <3>. QED
      BY <2>2, <3>1 DEF Types
  <2>. QED
    BY <1>4, <1>1, <1>0, <2>1, <2>3, <2>4 DEF Pass, Goto, switches, link, locks, check,
       money, owed, Types, Threads
<1>5. CASE Play
  <2>2. want # "game" => want \in Levels
    BY Zenon DEF PhaseInv
  <2>3. want \in Levels => value[want] \in Int
    BY DEF Types
  <2>1. (IF want = "game" THEN 0 ELSE value[want]) \in Int
    BY <2>2, <2>3
  <2>. QED
    BY <1>5, <1>1, <1>0, <2>1 DEF Play, Goto, Carry, switches, link, locks, check, money,
       owed, Types, Threads
<1>6. CASE Tell
  BY <1>6, <1>1, <1>0 DEF Tell, Goto, switches, link, locks, check, money, owed, Types,
     Threads
<1>7. CASE Record
  <2>1. arg["player"] \in Nat
    BY <1>7 DEF Record, Goto, PhaseInv
  <2>2. Append(hits, arg["player"]) \in Seq(Nat)
    BY <2>1 DEF Types
  <2>. QED
    BY <1>7, <1>1, <1>0, <2>2 DEF Record, Goto, switches, link, locks, check, money, owed,
       Types, Threads
<1>8. CASE BeginCashout
  BY <1>8, <1>1, <1>0 DEF BeginCashout, Goto, Calls, Carry, switches, link, locks, check,
     money,
       owed, Types, Threads
<1>9. CASE Deduct
  <2>1. Converted(-arg["player"]) \in Int
    BY <1>0, ConvertedIs
  <2>2. credits \in Int /\ cashed \in Nat
    BY DEF Types
  <2>3. credits + Converted(-arg["player"]) \in Int /\ cashed + 1 \in Nat
    BY <2>1, <2>2
  <2>. QED
    BY <1>9, <1>1, <1>0, <2>3 DEF Deduct, Goto, AddCredits, switches, link, locks, check,
       owed, Types, Threads
<1>10. CASE OweCashout
  <2>1. Append(handpays, arg["player"]) \in Seq(Int)
    BY <1>0 DEF Types
  <2>. QED
    BY <1>10, <1>1, <1>0, <2>1 DEF OweCashout, Goto, switches, link, locks, check, money,
       Types, Threads
<1>11. CASE Owe("player", "idle")
  <2>1. Append(handpays, arg["player"]) \in Seq(Int) /\ given + arg["player"] \in Int
    BY <1>0 DEF Types
  <2>. QED
    BY <1>11, <1>1, <1>0, <2>1 DEF Owe, Goto, switches, link, locks, check, Types, Threads
<1>12. ASSUME NEW amount \in Bonuses, Award(amount)
       PROVE  Types'
  BY <1>12, <1>1, <1>0 DEF Award, Goto, Calls, Carry, AfterAward, switches, link, check,
     money,
       owed, Types, Threads
<1>13. CASE CreditBonus
  <2>1. Converted(arg["host"]) \in Int
    BY <1>0, ConvertedIs
  <2>2. credits \in Int /\ awarded \in Nat
    BY DEF Types
  <2>3. credits + Converted(arg["host"]) \in Int /\ awarded + 1 \in Nat
    BY <2>1, <2>2
  <2>. QED
    BY <1>13, <1>1, <1>0, <2>3 DEF CreditBonus, Goto, AddCredits, AfterAward, switches,
       link, check, owed, Types, Threads
<1>14. CASE Owe("host", "idle")
  <2>1. Append(handpays, arg["host"]) \in Seq(Int) /\ given + arg["host"] \in Int
    BY <1>0 DEF Types
  <2>. QED
    BY <1>14, <1>1, <1>0, <2>1 DEF Owe, Goto, switches, link, locks, check, Types, Threads
<1>15. CASE HandpayReset
  <2>1. handpays # <<>> => Tail(handpays) \in Seq(Int) /\ settled + Head(handpays) \in Int
    BY DEF Types
  <2>. QED
    BY <1>15, <1>1, <1>0, <2>1 DEF HandpayReset, Calls, switches, link, locks, check,
       money, Types, Threads
<1>16. CASE GetOldestHit
  BY <1>16, <1>1, <1>0 DEF GetOldestHit, Calls, switches, link, locks, check, money, owed,
       Types, Threads
<1>17. CASE BeginRamClear
  BY <1>17, <1>1, <1>0 DEF BeginRamClear, Goto, Calls, Carry, switches, link, locks, check,
       money, owed, Types, Threads
<1>18. CASE ZeroMeters
  BY <1>18, <1>1, <1>0 DEF ZeroMeters, Goto, switches, link, locks, check, owed, Types,
     Threads
<1>19. CASE RestoreCredits
  BY <1>19, <1>1, <1>0 DEF RestoreCredits, Goto, switches, link, locks, check, owed, Types,
       Threads
<1>20. ASSUME NEW l \in Levels, NEW amount \in Values, SetLevel(l, amount)
       PROVE  Types'
  BY <1>20, <1>1, <1>0 DEF SetLevel, Goto, Calls, switches, check, money, owed, Types,
     Threads
<1>21. CASE Published("server")
  BY <1>21, <1>1, <1>0 DEF Published, Goto, switches, link, check, money, owed, Types,
     Threads
<1>22. CASE Look
  BY <1>22, <1>1, <1>0 DEF Look, Goto, switches, link, locks, check, money, owed, Types,
     Threads
<1>23. CASE Clear
  BY <1>23, <1>1, <1>0 DEF Clear, Goto, switches, check, money, owed, Types, Threads
<1>24. CASE Published("watchdog")
  BY <1>24, <1>1, <1>0 DEF Published, Goto, switches, link, check, money, owed, Types,
     Threads
<1>25. ASSUME NEW s \in Switches, Switch(s)
       PROVE  Types'
  BY <1>25, <1>1, <1>0 DEF Switch, switches, link, locks, check, money, owed, Types, Threads
<1>26. CASE Second
  BY <1>26, <1>1, <1>0 DEF Second, switches, locks, check, money, owed, Types, Threads
<1>. QED
  BY <1>2, <1>3, <1>4, <1>5, <1>6, <1>7, <1>8, <1>9, <1>10, <1>11, <1>12, <1>13, <1>14,
     <1>15, <1>16, <1>17, <1>18, <1>19, <1>20, <1>21, <1>22, <1>23, <1>24, <1>25, <1>26
     DEF Next, Player, Host, Attendant, Server, Watchdog

\* Every step keeps the flags.
LEMMA FlagsKept ==
  ASSUME Flags, Next
  PROVE  Flags'
<1>2. CASE BeginCheck
  BY <1>2, Zenon DEF BeginCheck, Goto, Calls, switches, link, locks, check, money, owed,
     Flags
<1>3. CASE Refuse
  BY <1>3, Zenon DEF Refuse, Goto, switches, link, locks, check, money, owed, Flags
<1>4. CASE Pass
  BY <1>4, Zenon DEF Pass, Goto, switches, link, locks, check, money, owed, Flags
<1>5. CASE Play
  BY <1>5, Zenon DEF Play, Goto, Carry, switches, link, locks, check, money, owed, Flags
<1>6. CASE Tell
  BY <1>6, Zenon DEF Tell, Goto, switches, link, locks, check, money, owed, Flags
<1>7. CASE Record
  BY <1>7, Zenon DEF Record, Goto, switches, link, locks, check, money, owed, Flags
<1>8. CASE BeginCashout
  BY <1>8, Zenon DEF BeginCashout, Goto, Calls, Carry, switches, link, locks, check,
     money, owed, Flags
<1>9. CASE Deduct
  BY <1>9, Zenon DEF Deduct, Goto, AddCredits, switches, link, locks, check, owed, Flags
<1>10. CASE OweCashout
  BY <1>10, Zenon DEF OweCashout, Goto, switches, link, locks, check, money, Flags
<1>11. CASE Owe("player", "idle")
  BY <1>11, Zenon DEF Owe, Goto, switches, link, locks, check, Flags
<1>12. ASSUME NEW amount \in Bonuses, Award(amount)
       PROVE  Flags'
  BY <1>12, Zenon DEF Award, Goto, Calls, Carry, AfterAward, switches, link, check, money,
     owed, Flags
<1>13. CASE CreditBonus
  BY <1>13, Zenon DEF CreditBonus, Goto, AddCredits, AfterAward, switches, link, check,
     owed, Flags
<1>14. CASE Owe("host", "idle")
  BY <1>14, Zenon DEF Owe, Goto, switches, link, locks, check, Flags
<1>15. CASE HandpayReset
  BY <1>15, Zenon DEF HandpayReset, Calls, switches, link, locks, check, money, Flags
<1>16. CASE GetOldestHit
  BY <1>16, Zenon DEF GetOldestHit, Calls, switches, link, locks, check, money, owed, Flags
<1>17. CASE BeginRamClear
  BY <1>17, Zenon DEF BeginRamClear, Goto, Calls, Carry, switches, link, locks, check,
     money, owed, Flags
<1>18. CASE ZeroMeters
  BY <1>18, Zenon DEF ZeroMeters, Goto, switches, link, locks, check, owed, Flags
<1>19. CASE RestoreCredits
  BY <1>19, Zenon DEF RestoreCredits, Goto, switches, link, locks, check, owed, Flags
<1>20. ASSUME NEW l \in Levels, NEW amount \in Values, SetLevel(l, amount)
       PROVE  Flags'
  BY <1>20, Zenon DEF SetLevel, Goto, Calls, switches, check, money, owed, Flags
<1>21. CASE Published("server")
  BY <1>21, Zenon DEF Published, Goto, switches, link, check, money, owed, Flags
<1>22. CASE Look
  BY <1>22, Zenon DEF Look, Goto, switches, link, locks, check, money, owed, Flags
<1>23. CASE Clear
  BY <1>23, Zenon DEF Clear, Goto, switches, check, money, owed, Flags
<1>24. CASE Published("watchdog")
  BY <1>24, Zenon DEF Published, Goto, switches, link, check, money, owed, Flags
<1>25. ASSUME NEW s \in Switches, Switch(s)
       PROVE  Flags'
  BY <1>25, Zenon DEF Switch, switches, link, locks, check, money, owed, Flags
<1>26. CASE Second
  BY <1>26, Zenon DEF Second, switches, locks, check, money, owed, Flags
<1>. QED
  BY <1>2, <1>3, <1>4, <1>5, <1>6, <1>7, <1>8, <1>9, <1>10, <1>11, <1>12, <1>13, <1>14,
     <1>15, <1>16, <1>17, <1>18, <1>19, <1>20, <1>21, <1>22, <1>23, <1>24, <1>25, <1>26
     DEF Next, Player, Host, Attendant, Server, Watchdog

\* Every thread goes from where it can be to where it can be.
LEMMA PhaseKept ==
  ASSUME Types, PhaseInv, Next
  PROVE  PhaseInv'
<1>2. CASE BeginCheck
  BY <1>2 DEF BeginCheck, Goto, Calls, switches, link, locks, check, money, owed,
       PhaseInv, Phases, Threads, Types
<1>3. CASE Refuse
  BY <1>3 DEF Refuse, Goto, switches, link, locks, check, money, owed, PhaseInv, Phases,
       Threads, Types
<1>4. CASE Pass
  BY <1>4 DEF Pass, Goto, switches, link, locks, check, money, owed, PhaseInv, Phases,
       Threads, Types
<1>5. CASE Play
  <2>2. want # "game" => want \in Levels
    BY Zenon DEF PhaseInv
  <2>3. want \in Levels => value[want] \in Nat
    BY DEF Types
  <2>1. (IF want = "game" THEN 0 ELSE value[want]) \in Nat
    BY <2>2, <2>3
  <2>4. arg'["player"] \in Nat
    BY <1>5, <2>1 DEF Play, Carry, Types, Threads
  <2>5. want' \in Levels \cup {"game"}
    BY <1>5, Zenon DEF Play, check, PhaseInv
  <2>6. pc' = [pc EXCEPT !["player"] = "tell"]
    BY <1>5, Zenon DEF Play, Goto
  <2>7. arg'["host"] = arg["host"]
    BY <1>5 DEF Play, Carry, Types, Threads
  <2>. QED
    BY <2>4, <2>5, <2>6, <2>7 DEF PhaseInv, Phases, Threads
<1>6. CASE Tell
  BY <1>6 DEF Tell, Goto, switches, link, locks, check, money, owed, PhaseInv, Phases,
       Threads, Types
<1>7. CASE Record
  BY <1>7 DEF Record, Goto, switches, link, locks, check, money, owed, PhaseInv, Phases,
       Threads, Types
<1>8. CASE BeginCashout
  BY <1>8 DEF BeginCashout, Goto, Calls, Carry, switches, link, locks, check, money,
       owed, PhaseInv, Phases, Threads, Types
<1>9. CASE Deduct
  BY <1>9 DEF Deduct, Goto, AddCredits, switches, link, locks, check, owed, PhaseInv,
       Phases, Threads, Types
<1>10. CASE OweCashout
  BY <1>10 DEF OweCashout, Goto, switches, link, locks, check, money, PhaseInv, Phases,
       Threads, Types
<1>11. CASE Owe("player", "idle")
  BY <1>11 DEF Owe, Goto, switches, link, locks, check, PhaseInv, Phases, Threads, Types
<1>12. ASSUME NEW amount \in Bonuses, Award(amount)
       PROVE  PhaseInv'
  BY <1>12, ConstantTypes DEF Award, Goto, Calls, Carry, AfterAward, switches, link, check,
       money, owed, PhaseInv, Phases, Threads, Types
<1>13. CASE CreditBonus
  BY <1>13 DEF CreditBonus, Goto, AddCredits, AfterAward, switches, link, check, owed,
       PhaseInv, Phases, Threads, Types
<1>14. CASE Owe("host", "idle")
  BY <1>14 DEF Owe, Goto, switches, link, locks, check, PhaseInv, Phases, Threads, Types
<1>15. CASE HandpayReset
  BY <1>15 DEF HandpayReset, Calls, switches, link, locks, check, money, PhaseInv,
       Phases, Threads, Types
<1>16. CASE GetOldestHit
  BY <1>16 DEF GetOldestHit, Calls, switches, link, locks, check, money, owed, PhaseInv,
       Phases, Threads, Types
<1>17. CASE BeginRamClear
  BY <1>17 DEF BeginRamClear, Goto, Calls, Carry, switches, link, locks, check, money,
       owed, PhaseInv, Phases, Threads, Types
<1>18. CASE ZeroMeters
  BY <1>18 DEF ZeroMeters, Goto, switches, link, locks, check, owed, PhaseInv, Phases,
       Threads, Types
<1>19. CASE RestoreCredits
  BY <1>19 DEF RestoreCredits, Goto, switches, link, locks, check, owed, PhaseInv,
       Phases, Threads, Types
<1>20. ASSUME NEW l \in Levels, NEW amount \in Values, SetLevel(l, amount)
       PROVE  PhaseInv'
  BY <1>20 DEF SetLevel, Goto, Calls, switches, check, money, owed, PhaseInv, Phases,
       Threads, Types
<1>21. CASE Published("server")
  BY <1>21 DEF Published, Goto, switches, link, check, money, owed, PhaseInv, Phases,
       Threads, Types
<1>22. CASE Look
  BY <1>22 DEF Look, Goto, switches, link, locks, check, money, owed, PhaseInv, Phases,
       Threads, Types
<1>23. CASE Clear
  BY <1>23 DEF Clear, Goto, switches, check, money, owed, PhaseInv, Phases, Threads,
       Types
<1>24. CASE Published("watchdog")
  BY <1>24 DEF Published, Goto, switches, link, check, money, owed, PhaseInv, Phases,
       Threads, Types
<1>25. ASSUME NEW s \in Switches, Switch(s)
       PROVE  PhaseInv'
  BY <1>25 DEF Switch, switches, link, locks, check, money, owed, PhaseInv, Phases,
       Threads, Types
<1>26. CASE Second
  BY <1>26 DEF Second, switches, locks, check, money, owed, PhaseInv, Phases, Threads,
       Types
<1>. QED
  BY <1>2, <1>3, <1>4, <1>5, <1>6, <1>7, <1>8, <1>9, <1>10, <1>11, <1>12, <1>13, <1>14,
     <1>15, <1>16, <1>17, <1>18, <1>19, <1>20, <1>21, <1>22, <1>23, <1>24, <1>25, <1>26
     DEF Next, Player, Host, Attendant, Server, Watchdog

\* A mutex that is held over a step is held by a thread that is inside the call.
LEMMA HeldKept ==
  ASSUME Types, PhaseInv, HeldInv, Next
  PROVE  HeldInv'
<1>2. CASE BeginCheck
  BY <1>2 DEF BeginCheck, Goto, Calls, switches, link, locks, check, money, owed,
       HeldInv, PhaseInv, Phases, Threads, Types, Free, Nobody
<1>3. CASE Refuse
  BY <1>3 DEF Refuse, Goto, switches, link, locks, check, money, owed, HeldInv,
       PhaseInv, Phases, Threads, Types, Free, Nobody
<1>4. CASE Pass
  BY <1>4 DEF Pass, Goto, switches, link, locks, check, money, owed, HeldInv, PhaseInv,
       Phases, Threads, Types, Free, Nobody
<1>5. CASE Play
  BY <1>5 DEF Play, Goto, Carry, switches, link, locks, check, money, owed, HeldInv,
       PhaseInv, Phases, Threads, Types, Free, Nobody
<1>6. CASE Tell
  BY <1>6 DEF Tell, Goto, switches, link, locks, check, money, owed, HeldInv, PhaseInv,
       Phases, Threads, Types, Free, Nobody
<1>7. CASE Record
  BY <1>7 DEF Record, Goto, switches, link, locks, check, money, owed, HeldInv,
       PhaseInv, Phases, Threads, Types, Free, Nobody
<1>8. CASE BeginCashout
  BY <1>8 DEF BeginCashout, Goto, Calls, Carry, switches, link, locks, check, money,
       owed, HeldInv, PhaseInv, Phases, Threads, Types, Free, Nobody
<1>9. CASE Deduct
  BY <1>9 DEF Deduct, Goto, AddCredits, switches, link, locks, check, owed, HeldInv,
       PhaseInv, Phases, Threads, Types, Free, Nobody
<1>10. CASE OweCashout
  BY <1>10 DEF OweCashout, Goto, switches, link, locks, check, money, HeldInv, PhaseInv,
       Phases, Threads, Types, Free, Nobody
<1>11. CASE Owe("player", "idle")
  BY <1>11 DEF Owe, Goto, switches, link, locks, check, HeldInv, PhaseInv, Phases,
       Threads, Types, Free, Nobody
<1>12. ASSUME NEW amount \in Bonuses, Award(amount)
       PROVE  HeldInv'
  BY <1>12 DEF Award, Goto, Calls, Carry, AfterAward, switches, link, check, money,
       owed, HeldInv, PhaseInv, Phases, Threads, Types, Free, Nobody
<1>13. CASE CreditBonus
  BY <1>13 DEF CreditBonus, Goto, AddCredits, AfterAward, switches, link, check, owed,
       HeldInv, PhaseInv, Phases, Threads, Types, Free, Nobody
<1>14. CASE Owe("host", "idle")
  BY <1>14 DEF Owe, Goto, switches, link, locks, check, HeldInv, PhaseInv, Phases,
       Threads, Types, Free, Nobody
<1>15. CASE HandpayReset
  BY <1>15 DEF HandpayReset, Calls, switches, link, locks, check, money, HeldInv,
       PhaseInv, Phases, Threads, Types, Free, Nobody
<1>16. CASE GetOldestHit
  BY <1>16 DEF GetOldestHit, Calls, switches, link, locks, check, money, owed, HeldInv,
       PhaseInv, Phases, Threads, Types, Free, Nobody
<1>17. CASE BeginRamClear
  BY <1>17 DEF BeginRamClear, Goto, Calls, Carry, switches, link, locks, check, money,
       owed, HeldInv, PhaseInv, Phases, Threads, Types, Free, Nobody
<1>18. CASE ZeroMeters
  BY <1>18 DEF ZeroMeters, Goto, switches, link, locks, check, owed, HeldInv, PhaseInv,
       Phases, Threads, Types, Free, Nobody
<1>19. CASE RestoreCredits
  BY <1>19 DEF RestoreCredits, Goto, switches, link, locks, check, owed, HeldInv,
       PhaseInv, Phases, Threads, Types, Free, Nobody
<1>20. ASSUME NEW l \in Levels, NEW amount \in Values, SetLevel(l, amount)
       PROVE  HeldInv'
  BY <1>20 DEF SetLevel, Goto, Calls, switches, check, money, owed, HeldInv, PhaseInv,
       Phases, Threads, Types, Free, Nobody
<1>21. CASE Published("server")
  BY <1>21 DEF Published, Goto, switches, link, check, money, owed, HeldInv, PhaseInv,
       Phases, Threads, Types, Free, Nobody
<1>22. CASE Look
  BY <1>22 DEF Look, Goto, switches, link, locks, check, money, owed, HeldInv, PhaseInv,
       Phases, Threads, Types, Free, Nobody
<1>23. CASE Clear
  BY <1>23 DEF Clear, Goto, switches, check, money, owed, HeldInv, PhaseInv, Phases,
       Threads, Types, Free, Nobody
<1>24. CASE Published("watchdog")
  BY <1>24 DEF Published, Goto, switches, link, check, money, owed, HeldInv, PhaseInv,
       Phases, Threads, Types, Free, Nobody
<1>25. ASSUME NEW s \in Switches, Switch(s)
       PROVE  HeldInv'
  BY <1>25 DEF Switch, switches, link, locks, check, money, owed, HeldInv, PhaseInv,
       Phases, Threads, Types, Free, Nobody
<1>26. CASE Second
  BY <1>26 DEF Second, switches, locks, check, money, owed, HeldInv, PhaseInv, Phases,
       Threads, Types, Free, Nobody
<1>. QED
  BY <1>2, <1>3, <1>4, <1>5, <1>6, <1>7, <1>8, <1>9, <1>10, <1>11, <1>12, <1>13, <1>14,
     <1>15, <1>16, <1>17, <1>18, <1>19, <1>20, <1>21, <1>22, <1>23, <1>24, <1>25, <1>26
     DEF Next, Player, Host, Attendant, Server, Watchdog

\* Only what the server sends renews the link.
LEMMA LinkKept ==
  ASSUME Types, LinkInv, Next
  PROVE  LinkInv'
<1>2. CASE BeginCheck
  BY <1>2 DEF BeginCheck, Goto, Calls, switches, link, locks, check, money, owed,
       LinkInv, Types
<1>3. CASE Refuse
  BY <1>3 DEF Refuse, Goto, switches, link, locks, check, money, owed, LinkInv, Types
<1>4. CASE Pass
  BY <1>4 DEF Pass, Goto, switches, link, locks, check, money, owed, LinkInv, Types
<1>5. CASE Play
  BY <1>5 DEF Play, Goto, Carry, switches, link, locks, check, money, owed, LinkInv,
       Types
<1>6. CASE Tell
  BY <1>6 DEF Tell, Goto, switches, link, locks, check, money, owed, LinkInv, Types
<1>7. CASE Record
  BY <1>7 DEF Record, Goto, switches, link, locks, check, money, owed, LinkInv, Types
<1>8. CASE BeginCashout
  BY <1>8 DEF BeginCashout, Goto, Calls, Carry, switches, link, locks, check, money,
       owed, LinkInv, Types
<1>9. CASE Deduct
  BY <1>9 DEF Deduct, Goto, AddCredits, switches, link, locks, check, owed, LinkInv,
       Types
<1>10. CASE OweCashout
  BY <1>10 DEF OweCashout, Goto, switches, link, locks, check, money, LinkInv, Types
<1>11. CASE Owe("player", "idle")
  BY <1>11 DEF Owe, Goto, switches, link, locks, check, LinkInv, Types
<1>12. ASSUME NEW amount \in Bonuses, Award(amount)
       PROVE  LinkInv'
  BY <1>12 DEF Award, Goto, Calls, Carry, AfterAward, switches, link, check, money,
       owed, LinkInv, Types
<1>13. CASE CreditBonus
  BY <1>13 DEF CreditBonus, Goto, AddCredits, AfterAward, switches, link, check, owed,
       LinkInv, Types
<1>14. CASE Owe("host", "idle")
  BY <1>14 DEF Owe, Goto, switches, link, locks, check, LinkInv, Types
<1>15. CASE HandpayReset
  BY <1>15 DEF HandpayReset, Calls, switches, link, locks, check, money, LinkInv, Types
<1>16. CASE GetOldestHit
  BY <1>16 DEF GetOldestHit, Calls, switches, link, locks, check, money, owed, LinkInv,
       Types
<1>17. CASE BeginRamClear
  BY <1>17 DEF BeginRamClear, Goto, Calls, Carry, switches, link, locks, check, money,
       owed, LinkInv, Types
<1>18. CASE ZeroMeters
  BY <1>18 DEF ZeroMeters, Goto, switches, link, locks, check, owed, LinkInv, Types
<1>19. CASE RestoreCredits
  BY <1>19 DEF RestoreCredits, Goto, switches, link, locks, check, owed, LinkInv, Types
<1>20. ASSUME NEW l \in Levels, NEW amount \in Values, SetLevel(l, amount)
       PROVE  LinkInv'
  BY <1>20 DEF SetLevel, Goto, Calls, switches, check, money, owed, LinkInv, Types
<1>21. CASE Published("server")
  BY <1>21 DEF Published, Goto, switches, link, check, money, owed, LinkInv, Types
<1>22. CASE Look
  BY <1>22 DEF Look, Goto, switches, link, locks, check, money, owed, LinkInv, Types
<1>23. CASE Clear
  BY <1>23 DEF Clear, Goto, switches, check, money, owed, LinkInv, Types
<1>24. CASE Published("watchdog")
  BY <1>24 DEF Published, Goto, switches, link, check, money, owed, LinkInv, Types
<1>25. ASSUME NEW s \in Switches, Switch(s)
       PROVE  LinkInv'
  BY <1>25 DEF Switch, switches, link, locks, check, money, owed, LinkInv, Types
<1>26. CASE Second
  BY <1>26 DEF Second, switches, locks, check, money, owed, LinkInv, Types
<1>. QED
  BY <1>2, <1>3, <1>4, <1>5, <1>6, <1>7, <1>8, <1>9, <1>10, <1>11, <1>12, <1>13, <1>14,
     <1>15, <1>16, <1>17, <1>18, <1>19, <1>20, <1>21, <1>22, <1>23, <1>24, <1>25, <1>26
     DEF Next, Player, Host, Attendant, Server, Watchdog

\* A change of the credits behind a RAM clear is noticed.
LEMMA ClearKept ==
  ASSUME Flags, Types, PhaseInv, ClearInv, Next
  PROVE  ClearInv'
<1>2. CASE BeginCheck
  BY <1>2 DEF BeginCheck, Goto, Calls, switches, link, locks, check, money, owed,
       ClearInv, PhaseInv, Phases, Types, Threads
<1>3. CASE Refuse
  BY <1>3 DEF Refuse, Goto, switches, link, locks, check, money, owed, ClearInv,
       PhaseInv, Phases, Types, Threads
<1>4. CASE Pass
  BY <1>4 DEF Pass, Goto, switches, link, locks, check, money, owed, ClearInv, PhaseInv,
       Phases, Types, Threads
<1>5. CASE Play
  BY <1>5 DEF Play, Goto, Carry, switches, link, locks, check, money, owed, ClearInv,
       PhaseInv, Phases, Types, Threads
<1>6. CASE Tell
  BY <1>6 DEF Tell, Goto, switches, link, locks, check, money, owed, ClearInv, PhaseInv,
       Phases, Types, Threads
<1>7. CASE Record
  BY <1>7 DEF Record, Goto, switches, link, locks, check, money, owed, ClearInv,
       PhaseInv, Phases, Types, Threads
<1>8. CASE BeginCashout
  BY <1>8 DEF BeginCashout, Goto, Calls, Carry, switches, link, locks, check, money,
       owed, ClearInv, PhaseInv, Phases, Types, Threads
<1>9. CASE Deduct
  BY <1>9 DEF Deduct, Goto, AddCredits, switches, link, locks, check, owed, ClearInv,
       PhaseInv, Phases, Types, Threads
<1>10. CASE OweCashout
  BY <1>10 DEF OweCashout, Goto, switches, link, locks, check, money, ClearInv,
       PhaseInv, Phases, Types, Threads
<1>11. CASE Owe("player", "idle")
  BY <1>11 DEF Owe, Goto, switches, link, locks, check, ClearInv, PhaseInv, Phases,
       Types, Threads
<1>12. ASSUME NEW amount \in Bonuses, Award(amount)
       PROVE  ClearInv'
  BY <1>12 DEF Award, Goto, Calls, Carry, AfterAward, switches, link, check, money,
       owed, ClearInv, PhaseInv, Phases, Types, Threads
<1>13. CASE CreditBonus
  BY <1>13 DEF CreditBonus, Goto, AddCredits, AfterAward, switches, link, check, owed,
       ClearInv, PhaseInv, Phases, Types, Threads
<1>14. CASE Owe("host", "idle")
  BY <1>14 DEF Owe, Goto, switches, link, locks, check, ClearInv, PhaseInv, Phases,
       Types, Threads
<1>15. CASE HandpayReset
  BY <1>15 DEF HandpayReset, Calls, switches, link, locks, check, money, ClearInv,
       PhaseInv, Phases, Types, Threads
<1>16. CASE GetOldestHit
  BY <1>16 DEF GetOldestHit, Calls, switches, link, locks, check, money, owed, ClearInv,
       PhaseInv, Phases, Types, Threads
<1>17. CASE BeginRamClear
  BY <1>17 DEF BeginRamClear, Goto, Calls, Carry, switches, link, locks, check, money,
       owed, ClearInv, PhaseInv, Phases, Types, Threads
<1>18. CASE ZeroMeters
  BY <1>18 DEF ZeroMeters, Goto, switches, link, locks, check, owed, ClearInv, PhaseInv,
       Phases, Types, Threads
<1>19. CASE RestoreCredits
  BY <1>19 DEF RestoreCredits, Goto, switches, link, locks, check, owed, ClearInv,
       PhaseInv, Phases, Types, Threads
<1>20. ASSUME NEW l \in Levels, NEW amount \in Values, SetLevel(l, amount)
       PROVE  ClearInv'
  BY <1>20 DEF SetLevel, Goto, Calls, switches, check, money, owed, ClearInv, PhaseInv,
       Phases, Types, Threads
<1>21. CASE Published("server")
  BY <1>21 DEF Published, Goto, switches, link, check, money, owed, ClearInv, PhaseInv,
       Phases, Types, Threads
<1>22. CASE Look
  BY <1>22 DEF Look, Goto, switches, link, locks, check, money, owed, ClearInv,
       PhaseInv, Phases, Types, Threads
<1>23. CASE Clear
  BY <1>23 DEF Clear, Goto, switches, check, money, owed, ClearInv, PhaseInv, Phases,
       Types, Threads
<1>24. CASE Published("watchdog")
  BY <1>24 DEF Published, Goto, switches, link, check, money, owed, ClearInv, PhaseInv,
       Phases, Types, Threads
<1>25. ASSUME NEW s \in Switches, Switch(s)
       PROVE  ClearInv'
  BY <1>25 DEF Switch, switches, link, locks, check, money, owed, ClearInv, PhaseInv,
       Phases, Types, Threads
<1>26. CASE Second
  BY <1>26 DEF Second, switches, locks, check, money, owed, ClearInv, PhaseInv, Phases,
       Types, Threads
<1>. QED
  BY <1>2, <1>3, <1>4, <1>5, <1>6, <1>7, <1>8, <1>9, <1>10, <1>11, <1>12, <1>13, <1>14,
     <1>15, <1>16, <1>17, <1>18, <1>19, <1>20, <1>21, <1>22, <1>23, <1>24, <1>25, <1>26
     DEF Next, Player, Host, Attendant, Server, Watchdog

\* What another thread does can only end what blocks.
LEMMA CheckGoesOn ==
  ASSUME CheckInv, Watched, pc'["player"] = pc["player"], stage' = stage
  PROVE  CheckInv'
<1>1. throughout' \subseteq throughout \/ pc["player"] = "idle"
  BY DEF Watched
<1>2. pc["player"] = "idle" => throughout' = {}
  BY DEF Watched
<1>. QED
  BY <1>1, <1>2 DEF CheckInv

\* Outside a check there is nothing to remember.
LEMMA CheckEnds ==
  ASSUME Watched, pc'["player"] \notin {"check", "play"}
  PROVE  CheckInv'
BY DEF CheckInv, Watched

\* The player passes a condition only while it does not block, and by the end
\* has passed them all.
LEMMA CheckKept ==
  ASSUME Types, PhaseInv, CheckInv, Next
  PROVE  CheckInv'
<1>1. Watched
  BY DEF Next
<1>2. CASE BeginCheck
  <2>1. \A i \in 1..stage' : FALSE
    BY <1>2 DEF BeginCheck
  <2>2. pc'["player"] = "check"
    BY <1>2 DEF BeginCheck, Goto, PhaseInv, Threads
  <2>. QED
    BY <2>1, <2>2 DEF CheckInv
<1>3. CASE Refuse
  <2>1. pc'["player"] = "idle" /\ stage' = 0
    BY <1>3 DEF Refuse, Goto, PhaseInv, Threads
  <2>. QED
    BY <1>1, <2>1 DEF Watched, CheckInv
<1>4. CASE Pass
  <2>1. throughout' \subseteq throughout \cap Blocking'
    <3>1. pc["player"] = "check"
      BY <1>4 DEF Pass, Goto
    <3>. QED
      BY <1>1, <3>1 DEF Watched
  <2>2. Blocking' \subseteq Blocking
    <3>1. on' = on /\ LinkUp' = LinkUp /\ ignore' = ignore
      BY <1>4, Zenon DEF Pass, Goto, switches, link, LinkUp
    <3>2. handpays' # <<>> => handpays # <<>>
      BY <1>4 DEF Pass, owed
    <3>. QED
      BY <3>1, <3>2 DEF Blocking
  <2>3. Order[stage + 1] \notin throughout'
    BY <1>4, <2>1, <2>2 DEF Pass
  <2>4. \A i \in 1..(stage + 1) : Order[i] \notin throughout'
    <3>1. \A i \in 1..(stage + 1) : i = stage + 1 \/ i \in 1..stage
      BY DEF Types
    <3>. QED
      BY <2>1, <2>3, <3>1 DEF CheckInv
  <2>5. CASE stage + 1 = 6
    <3>1. \A i \in 1..6 : Order[i] \notin throughout'
      BY <2>4, <2>5
    <3>2. throughout' \subseteq {Order[i] : i \in 1..6}
      BY <2>1 DEF Types
    <3>3. throughout' = {}
      BY <3>1, <3>2
    <3>. QED
      BY <3>3 DEF CheckInv
  <2>6. CASE stage + 1 # 6
    <3>1. stage' = stage + 1
      BY <1>4, <2>6, OrderIs DEF Pass
    <3>2. pc'["player"] = "check"
      BY <1>4, <2>6, OrderIs DEF Pass, Goto, PhaseInv, Threads
    <3>. QED
      BY <2>4, <3>1, <3>2 DEF CheckInv
  <2>. QED
    BY <2>5, <2>6
<1>5. CASE Play
  <2>1. pc'["player"] \notin {"check", "play"}
    BY <1>5 DEF Play, Goto, PhaseInv, Threads
  <2>. QED
    BY <1>1, <2>1, CheckEnds
<1>6. CASE Tell
  <2>1. pc'["player"] \notin {"check", "play"}
    BY <1>6 DEF Tell, Goto, PhaseInv, Threads
  <2>. QED
    BY <1>1, <2>1, CheckEnds
<1>7. CASE Record
  <2>1. pc'["player"] \notin {"check", "play"}
    BY <1>7 DEF Record, Goto, PhaseInv, Threads
  <2>. QED
    BY <1>1, <2>1, CheckEnds
<1>8. CASE BeginCashout
  <2>1. pc'["player"] \notin {"check", "play"}
    BY <1>8 DEF BeginCashout, Goto, PhaseInv, Threads
  <2>. QED
    BY <1>1, <2>1, CheckEnds
<1>9. CASE Deduct
  <2>1. pc'["player"] \notin {"check", "play"}
    BY <1>9 DEF Deduct, Goto, PhaseInv, Threads
  <2>. QED
    BY <1>1, <2>1, CheckEnds
<1>10. CASE OweCashout
  <2>1. pc'["player"] \notin {"check", "play"}
    BY <1>10 DEF OweCashout, Goto, PhaseInv, Threads
  <2>. QED
    BY <1>1, <2>1, CheckEnds
<1>11. CASE Owe("player", "idle")
  <2>1. pc'["player"] \notin {"check", "play"}
    BY <1>11 DEF Owe, Goto, PhaseInv, Threads
  <2>. QED
    BY <1>1, <2>1, CheckEnds
<1>12. ASSUME NEW amount \in Bonuses, Award(amount)
       PROVE  CheckInv'
  <2>1. pc'["player"] = pc["player"] /\ stage' = stage
    BY <1>12 DEF Award, Goto, Calls, Carry, AfterAward, switches, link, check, money,
       owed, PhaseInv, Threads
  <2>. QED
    BY <1>1, <2>1, CheckGoesOn
<1>13. CASE CreditBonus
  <2>1. pc'["player"] = pc["player"] /\ stage' = stage
    BY <1>13 DEF CreditBonus, Goto, AddCredits, AfterAward, switches, link, check, owed,
       PhaseInv, Threads
  <2>. QED
    BY <1>1, <2>1, CheckGoesOn
<1>14. CASE Owe("host", "idle")
  <2>1. pc'["player"] = pc["player"] /\ stage' = stage
    BY <1>14 DEF Owe, Goto, switches, link, locks, check, PhaseInv, Threads
  <2>. QED
    BY <1>1, <2>1, CheckGoesOn
<1>15. CASE HandpayReset
  <2>1. pc'["player"] = pc["player"] /\ stage' = stage
    BY <1>15 DEF HandpayReset, Calls, switches, link, locks, check, money, PhaseInv, Threads
  <2>. QED
    BY <1>1, <2>1, CheckGoesOn
<1>16. CASE GetOldestHit
  <2>1. pc'["player"] = pc["player"] /\ stage' = stage
    BY <1>16 DEF GetOldestHit, Calls, switches, link, locks, check, money, owed, PhaseInv,
       Threads
  <2>. QED
    BY <1>1, <2>1, CheckGoesOn
<1>17. CASE BeginRamClear
  <2>1. pc'["player"] = pc["player"] /\ stage' = stage
    BY <1>17 DEF BeginRamClear, Goto, Calls, Carry, switches, link, locks, check, money,
       owed, PhaseInv, Threads
  <2>. QED
    BY <1>1, <2>1, CheckGoesOn
<1>18. CASE ZeroMeters
  <2>1. pc'["player"] = pc["player"] /\ stage' = stage
    BY <1>18 DEF ZeroMeters, Goto, switches, link, locks, check, owed, PhaseInv, Threads
  <2>. QED
    BY <1>1, <2>1, CheckGoesOn
<1>19. CASE RestoreCredits
  <2>1. pc'["player"] = pc["player"] /\ stage' = stage
    BY <1>19 DEF RestoreCredits, Goto, switches, link, locks, check, owed, PhaseInv, Threads
  <2>. QED
    BY <1>1, <2>1, CheckGoesOn
<1>20. ASSUME NEW l \in Levels, NEW amount \in Values, SetLevel(l, amount)
       PROVE  CheckInv'
  <2>1. pc'["player"] = pc["player"] /\ stage' = stage
    BY <1>20 DEF SetLevel, Goto, Calls, switches, check, money, owed, PhaseInv, Threads
  <2>. QED
    BY <1>1, <2>1, CheckGoesOn
<1>21. CASE Published("server")
  <2>1. pc'["player"] = pc["player"] /\ stage' = stage
    BY <1>21 DEF Published, Goto, switches, link, check, money, owed, PhaseInv, Threads
  <2>. QED
    BY <1>1, <2>1, CheckGoesOn
<1>22. CASE Look
  <2>1. pc'["player"] = pc["player"] /\ stage' = stage
    BY <1>22 DEF Look, Goto, switches, link, locks, check, money, owed, PhaseInv, Threads
  <2>. QED
    BY <1>1, <2>1, CheckGoesOn
<1>23. CASE Clear
  <2>1. pc'["player"] = pc["player"] /\ stage' = stage
    BY <1>23 DEF Clear, Goto, switches, check, money, owed, PhaseInv, Threads
  <2>. QED
    BY <1>1, <2>1, CheckGoesOn
<1>24. CASE Published("watchdog")
  <2>1. pc'["player"] = pc["player"] /\ stage' = stage
    BY <1>24 DEF Published, Goto, switches, link, check, money, owed, PhaseInv, Threads
  <2>. QED
    BY <1>1, <2>1, CheckGoesOn
<1>25. ASSUME NEW s \in Switches, Switch(s)
       PROVE  CheckInv'
  <2>1. pc'["player"] = pc["player"] /\ stage' = stage
    BY <1>25 DEF Switch, switches, link, locks, check, money, owed, PhaseInv, Threads
  <2>. QED
    BY <1>1, <2>1, CheckGoesOn
<1>26. CASE Second
  <2>1. pc'["player"] = pc["player"] /\ stage' = stage
    BY <1>26 DEF Second, switches, locks, check, money, owed, PhaseInv, Threads
  <2>. QED
    BY <1>1, <2>1, CheckGoesOn
<1>. QED
  BY <1>1, <1>2, <1>3, <1>4, <1>5, <1>6, <1>7, <1>8, <1>9, <1>10, <1>11, <1>12, <1>13,
     <1>14, <1>15, <1>16, <1>17, <1>18, <1>19, <1>20, <1>21, <1>22, <1>23, <1>24, <1>25,
     <1>26
     DEF Next, Player, Host, Attendant, Server, Watchdog

\* What the player has on its way and what the credits have is as before: so is
\* what covers them.
LEMMA CoverStays ==
  ASSUME Types, CoverInv, credits' = credits, straddled' = straddled,
         pc'["attendant"] = pc["attendant"], arg'["attendant"] = arg["attendant"],
         pc'["player"] = "deduct" =>
           pc["player"] = "deduct" /\ arg'["player"] = arg["player"]
  PROVE  CoverInv'
BY DEF CoverInv, Restoring, Types, Threads

\* What is read is there to be taken, or comes back.
LEMMA CoverKept ==
  ASSUME Flags, Types, PhaseInv, ClearInv, CoverInv, Next
  PROVE  CoverInv'
<1>0. /\ arg["player"] \in Int /\ arg["host"] \in Int /\ arg["attendant"] \in Int
      /\ -arg["player"] \in Int /\ credits \in Int
  BY DEF Types, Threads
<1>2. CASE BeginCheck
  <2>1. /\ credits' = credits /\ straddled' = straddled
        /\ pc'["attendant"] = pc["attendant"] /\ arg'["attendant"] = arg["attendant"]
        /\ pc'["player"] = "deduct" =>
             pc["player"] = "deduct" /\ arg'["player"] = arg["player"]
    BY <1>2 DEF BeginCheck, Goto, money, PhaseInv, Types, Threads
  <2>. QED
    BY <2>1, CoverStays
<1>3. CASE Refuse
  <2>1. /\ credits' = credits /\ straddled' = straddled
        /\ pc'["attendant"] = pc["attendant"] /\ arg'["attendant"] = arg["attendant"]
        /\ pc'["player"] = "deduct" =>
             pc["player"] = "deduct" /\ arg'["player"] = arg["player"]
    BY <1>3 DEF Refuse, Goto, money, PhaseInv, Types, Threads
  <2>. QED
    BY <2>1, CoverStays
<1>4. CASE Pass
  <2>1. /\ credits' = credits /\ straddled' = straddled
        /\ pc'["attendant"] = pc["attendant"] /\ arg'["attendant"] = arg["attendant"]
        /\ pc'["player"] = "deduct" =>
             pc["player"] = "deduct" /\ arg'["player"] = arg["player"]
    BY <1>4 DEF Pass, Goto, money, PhaseInv, Types, Threads
  <2>. QED
    BY <2>1, CoverStays
<1>5. CASE Play
  <2>1. /\ credits' = credits /\ straddled' = straddled
        /\ pc'["attendant"] = pc["attendant"] /\ arg'["attendant"] = arg["attendant"]
        /\ pc'["player"] = "deduct" =>
             pc["player"] = "deduct" /\ arg'["player"] = arg["player"]
    BY <1>5 DEF Play, Goto, Carry, money, PhaseInv, Types, Threads
  <2>. QED
    BY <2>1, CoverStays
<1>6. CASE Tell
  <2>1. /\ credits' = credits /\ straddled' = straddled
        /\ pc'["attendant"] = pc["attendant"] /\ arg'["attendant"] = arg["attendant"]
        /\ pc'["player"] = "deduct" =>
             pc["player"] = "deduct" /\ arg'["player"] = arg["player"]
    BY <1>6 DEF Tell, Goto, money, PhaseInv, Types, Threads
  <2>. QED
    BY <2>1, CoverStays
<1>7. CASE Record
  <2>1. /\ credits' = credits /\ straddled' = straddled
        /\ pc'["attendant"] = pc["attendant"] /\ arg'["attendant"] = arg["attendant"]
        /\ pc'["player"] = "deduct" =>
             pc["player"] = "deduct" /\ arg'["player"] = arg["player"]
    BY <1>7 DEF Record, Goto, money, PhaseInv, Types, Threads
  <2>. QED
    BY <2>1, CoverStays
<1>8. CASE BeginCashout
  <2>1. /\ credits' = credits /\ straddled' = straddled
        /\ pc["attendant"] \in {"idle", "zero", "restore"}
        /\ pc'["attendant"] = pc["attendant"] /\ arg'["attendant"] = arg["attendant"]
        /\ arg'["player"] = credits
    BY <1>8 DEF BeginCashout, Goto, Carry, money, PhaseInv, Types, Threads
  <2>2. /\ Restoring' = Restoring
        /\ ~straddled => Restoring \in Int /\ Restoring >= 0
    BY <1>0, <2>1 DEF Restoring, CoverInv
  <2>. QED
    BY <1>0, <2>1, <2>2 DEF CoverInv
<1>9. CASE Deduct
  <2>1. /\ pc["player"] = "deduct" /\ pc'["player"] # "deduct"
        /\ pc'["attendant"] = pc["attendant"]
        /\ credits' = credits + Converted(-arg["player"])
        /\ ~straddled' => ~straddled /\ pc["attendant"] \notin {"zero", "restore"}
    BY <1>9 DEF Deduct, Goto, AddCredits, PhaseInv, Threads, Flags
  <2>2. ~straddled' => 0 <= arg["player"] /\ arg["player"] <= credits + 0
    BY <2>1 DEF CoverInv, Restoring
  <2>3. /\ Converted(-arg["player"]) \in Int
        /\ 0 <= arg["player"] => Converted(-arg["player"]) >= -arg["player"]
    BY <1>0, ConvertedIs
  <2>4. ~straddled' => credits' >= 0
    BY <1>0, <2>1, <2>2, <2>3
  <2>. QED
    BY <2>1, <2>4 DEF CoverInv
<1>10. CASE OweCashout
  <2>1. /\ credits' = credits /\ straddled' = straddled
        /\ pc'["attendant"] = pc["attendant"] /\ arg'["attendant"] = arg["attendant"]
        /\ pc'["player"] = "deduct" =>
             pc["player"] = "deduct" /\ arg'["player"] = arg["player"]
    BY <1>10 DEF OweCashout, Goto, money, PhaseInv, Types, Threads
  <2>. QED
    BY <2>1, CoverStays
<1>11. CASE Owe("player", "idle")
  <2>1. /\ credits' = credits /\ straddled' = straddled
        /\ pc'["attendant"] = pc["attendant"] /\ arg'["attendant"] = arg["attendant"]
        /\ pc'["player"] = "deduct" =>
             pc["player"] = "deduct" /\ arg'["player"] = arg["player"]
    BY <1>11 DEF Owe, Goto, PhaseInv, Types, Threads
  <2>. QED
    BY <2>1, CoverStays
<1>12. ASSUME NEW amount \in Bonuses, Award(amount)
       PROVE  CoverInv'
  <2>1. /\ credits' = credits /\ straddled' = straddled
        /\ pc'["attendant"] = pc["attendant"] /\ arg'["attendant"] = arg["attendant"]
        /\ pc'["player"] = "deduct" =>
             pc["player"] = "deduct" /\ arg'["player"] = arg["player"]
    BY <1>12 DEF Award, Goto, Carry, AfterAward, money, PhaseInv, Types, Threads
  <2>. QED
    BY <2>1, CoverStays
<1>13. CASE CreditBonus
  <2>1. pc["host"] = "credit"
    BY <1>13, Zenon DEF CreditBonus, Goto
  <2>2. /\ arg["host"] >= 0 /\ arg' = arg
        /\ pc'["player"] = pc["player"] /\ pc'["attendant"] = pc["attendant"]
        /\ credits' = credits + Converted(arg["host"])
        /\ ~straddled' => ~straddled /\ pc["attendant"] \notin {"zero", "restore"}
    <3>1. arg["host"] \in Nat
      BY <2>1, Zenon DEF PhaseInv
    <3>2. arg["host"] >= 0
      BY <3>1
    <3>3. pc'["player"] = pc["player"] /\ pc'["attendant"] = pc["attendant"]
      BY <1>13 DEF CreditBonus, Goto, PhaseInv, Threads
    <3>4. arg' = arg /\ credits' = credits + Converted(arg["host"])
      BY <1>13, Zenon DEF CreditBonus, AddCredits
    <3>5. ~straddled' => ~straddled /\ pc["attendant"] \notin {"zero", "restore"}
      BY <1>13, Zenon DEF CreditBonus, AddCredits
    <3>. QED
      BY <3>2, <3>3, <3>4, <3>5
  <2>3. Converted(arg["host"]) \in Int /\ Converted(arg["host"]) >= 0
    BY <1>0, <2>2, ConvertedIs
  <2>4. credits' \in Int /\ credits' >= credits
    BY <1>0, <2>2, <2>3
  <2>5. ~straddled' => Restoring = 0 /\ Restoring' = 0
    BY <2>2 DEF Restoring
  <2>. QED
    BY <1>0, <2>2, <2>4, <2>5 DEF CoverInv
<1>14. CASE Owe("host", "idle")
  <2>1. /\ credits' = credits /\ straddled' = straddled
        /\ pc'["attendant"] = pc["attendant"] /\ arg'["attendant"] = arg["attendant"]
        /\ pc'["player"] = "deduct" =>
             pc["player"] = "deduct" /\ arg'["player"] = arg["player"]
    BY <1>14 DEF Owe, Goto, PhaseInv, Types, Threads
  <2>. QED
    BY <2>1, CoverStays
<1>15. CASE HandpayReset
  <2>1. /\ credits' = credits /\ straddled' = straddled
        /\ pc'["attendant"] = pc["attendant"] /\ arg'["attendant"] = arg["attendant"]
        /\ pc'["player"] = "deduct" =>
             pc["player"] = "deduct" /\ arg'["player"] = arg["player"]
    BY <1>15 DEF HandpayReset, money, PhaseInv, Types, Threads
  <2>. QED
    BY <2>1, CoverStays
<1>16. CASE GetOldestHit
  <2>1. /\ credits' = credits /\ straddled' = straddled
        /\ pc'["attendant"] = pc["attendant"] /\ arg'["attendant"] = arg["attendant"]
        /\ pc'["player"] = "deduct" =>
             pc["player"] = "deduct" /\ arg'["player"] = arg["player"]
    BY <1>16 DEF GetOldestHit, money, PhaseInv, Types, Threads
  <2>. QED
    BY <2>1, CoverStays
<1>17. CASE BeginRamClear
  <2>1. /\ credits' = credits /\ straddled' = straddled
        /\ pc["attendant"] = "idle" /\ pc'["attendant"] = "zero"
        /\ pc'["player"] = pc["player"] /\ arg'["player"] = arg["player"]
        /\ arg'["attendant"] = credits
    BY <1>17 DEF BeginRamClear, Goto, Carry, money, PhaseInv, Types, Threads
  <2>2. Restoring = 0 /\ Restoring' = 0
    BY <2>1 DEF Restoring
  <2>. QED
    BY <1>0, <2>1, <2>2 DEF CoverInv
<1>18. CASE ZeroMeters
  <2>1. /\ pc["attendant"] = "zero" /\ pc'["attendant"] = "restore"
        /\ pc'["player"] = pc["player"] /\ arg' = arg
        /\ ~straddled' => ~straddled /\ credits' = 0
    BY <1>18 DEF ZeroMeters, Goto, PhaseInv, Threads, Flags
  <2>2. ~straddled' => arg["attendant"] = credits
    BY <2>1 DEF ClearInv
  <2>3. Restoring = 0 /\ Restoring' = arg["attendant"]
    BY <2>1 DEF Restoring
  <2>. QED
    BY <1>0, <2>1, <2>2, <2>3 DEF CoverInv
<1>19. CASE RestoreCredits
  <2>1. /\ pc["attendant"] = "restore" /\ pc'["attendant"] = "idle"
        /\ pc'["player"] = pc["player"] /\ arg' = arg /\ straddled' = straddled
        /\ credits' = credits + arg["attendant"]
    BY <1>19 DEF RestoreCredits, Goto, PhaseInv, Threads
  <2>2. Restoring = arg["attendant"] /\ Restoring' = 0
    BY <2>1 DEF Restoring
  <2>. QED
    BY <1>0, <2>1, <2>2 DEF CoverInv
<1>20. ASSUME NEW l \in Levels, NEW amount \in Values, SetLevel(l, amount)
       PROVE  CoverInv'
  <2>1. /\ credits' = credits /\ straddled' = straddled
        /\ pc'["attendant"] = pc["attendant"] /\ arg'["attendant"] = arg["attendant"]
        /\ pc'["player"] = "deduct" =>
             pc["player"] = "deduct" /\ arg'["player"] = arg["player"]
    BY <1>20 DEF SetLevel, Goto, money, PhaseInv, Types, Threads
  <2>. QED
    BY <2>1, CoverStays
<1>21. CASE Published("server")
  <2>1. /\ credits' = credits /\ straddled' = straddled
        /\ pc'["attendant"] = pc["attendant"] /\ arg'["attendant"] = arg["attendant"]
        /\ pc'["player"] = "deduct" =>
             pc["player"] = "deduct" /\ arg'["player"] = arg["player"]
    BY <1>21 DEF Published, Goto, money, PhaseInv, Types, Threads
  <2>. QED
    BY <2>1, CoverStays
<1>22. CASE Look
  <2>1. /\ credits' = credits /\ straddled' = straddled
        /\ pc'["attendant"] = pc["attendant"] /\ arg'["attendant"] = arg["attendant"]
        /\ pc'["player"] = "deduct" =>
             pc["player"] = "deduct" /\ arg'["player"] = arg["player"]
    BY <1>22 DEF Look, Goto, money, PhaseInv, Types, Threads
  <2>. QED
    BY <2>1, CoverStays
<1>23. CASE Clear
  <2>1. /\ credits' = credits /\ straddled' = straddled
        /\ pc'["attendant"] = pc["attendant"] /\ arg'["attendant"] = arg["attendant"]
        /\ pc'["player"] = "deduct" =>
             pc["player"] = "deduct" /\ arg'["player"] = arg["player"]
    BY <1>23 DEF Clear, Goto, money, PhaseInv, Types, Threads
  <2>. QED
    BY <2>1, CoverStays
<1>24. CASE Published("watchdog")
  <2>1. /\ credits' = credits /\ straddled' = straddled
        /\ pc'["attendant"] = pc["attendant"] /\ arg'["attendant"] = arg["attendant"]
        /\ pc'["player"] = "deduct" =>
             pc["player"] = "deduct" /\ arg'["player"] = arg["player"]
    BY <1>24 DEF Published, Goto, money, PhaseInv, Types, Threads
  <2>. QED
    BY <2>1, CoverStays
<1>25. ASSUME NEW s \in Switches, Switch(s)
       PROVE  CoverInv'
  <2>1. /\ credits' = credits /\ straddled' = straddled
        /\ pc'["attendant"] = pc["attendant"] /\ arg'["attendant"] = arg["attendant"]
        /\ pc'["player"] = "deduct" =>
             pc["player"] = "deduct" /\ arg'["player"] = arg["player"]
    BY <1>25 DEF Switch, money, PhaseInv, Types, Threads
  <2>. QED
    BY <2>1, CoverStays
<1>26. CASE Second
  <2>1. /\ credits' = credits /\ straddled' = straddled
        /\ pc'["attendant"] = pc["attendant"] /\ arg'["attendant"] = arg["attendant"]
        /\ pc'["player"] = "deduct" =>
             pc["player"] = "deduct" /\ arg'["player"] = arg["player"]
    BY <1>26 DEF Second, money, PhaseInv, Types, Threads
  <2>. QED
    BY <2>1, CoverStays
<1>. QED
  BY <1>2, <1>3, <1>4, <1>5, <1>6, <1>7, <1>8, <1>9, <1>10, <1>11, <1>12, <1>13, <1>14,
     <1>15, <1>16, <1>17, <1>18, <1>19, <1>20, <1>21, <1>22, <1>23, <1>24, <1>25, <1>26
     DEF Next, Player, Host, Attendant, Server, Watchdog

\* A step that moves no money keeps it.
LEMMA MoneyStays ==
  ASSUME MoneyKept, credits' = credits, given' = given, handpays' = handpays,
         settled' = settled, straddled' = straddled, InTransit' = InTransit,
         cashed' = cashed, awarded' = awarded
  PROVE  MoneyKept'
BY DEF MoneyKept

\* Both are numbers.
LEMMA TransitType ==
  ASSUME Types
  PROVE  /\ Cashing \in Int /\ Restoring \in Int /\ InTransit \in Int
         /\ InTransit = Cashing + Restoring
<1>1. arg["player"] \in Int /\ arg["attendant"] \in Int
  BY DEF Types, Threads
<1>2. Cashing \in Int /\ Restoring \in Int
  <2>1. /\ Cashing = arg["player"] \/ Cashing = 0
        /\ Restoring = arg["attendant"] \/ Restoring = 0
    BY Zenon DEF Cashing, Restoring
  <2>. QED
    BY <1>1, <2>1
<1>3. InTransit = Cashing + Restoring
  BY DEF InTransit, Cashing, Restoring
<1>. QED
  BY <1>2, <1>3

\* By how much the money there is exceeds what has been given.
Excess == credits + Sum(handpays) + settled + InTransit - given

\* A step that leaves the excess as it is keeps the money.
LEMMA StillKept ==
  ASSUME MoneyKept, ~straddled' => ~straddled, ~straddled' => Excess' = Excess,
         cashed' = cashed, awarded' = awarded
  PROVE  MoneyKept'
BY Zenon DEF MoneyKept, Excess

\* So does a cash-out that adds a credit to it, and a bonus that takes one.
LEMMA OneOff ==
  ASSUME Types, MoneyKept, ~straddled' => ~straddled, Excess \in Int,
         \/ cashed' = cashed + 1 /\ awarded' = awarded
            /\ (~straddled' => Excess' = Excess \/ Excess' = Excess + 1)
         \/ cashed' = cashed /\ awarded' = awarded + 1
            /\ (~straddled' => Excess' = Excess \/ Excess' = Excess - 1)
  PROVE  MoneyKept'
<1>1. cashed \in Nat /\ awarded \in Nat
  BY DEF Types
<1>2. ~straddled => Excess \in (-awarded)..cashed
  BY Zenon DEF MoneyKept, Excess
<1>3. ~straddled' => Excess' \in (-(awarded'))..cashed'
  BY <1>1, <1>2
<1>. QED
  BY <1>3, Zenon DEF MoneyKept, Excess

\* A handpay that is reset is settled.
LEMMA OneSettled ==
  ASSUME Types, MoneyKept, credits' = credits, given' = given, straddled' = straddled,
         InTransit' = InTransit, cashed' = cashed, awarded' = awarded,
         handpays # <<>>, handpays' = Tail(handpays), settled' = settled + Head(handpays)
  PROVE  MoneyKept'
<1>1. Sum(handpays) \in Int /\ Head(handpays) \in Int /\ InTransit \in Int
  BY SumType, TransitType DEF Types
<1>2. Sum(handpays') = Sum(handpays) - Head(handpays)
  BY SumTail DEF Types
<1>3. Excess' = Excess
  BY <1>1, <1>2 DEF Excess, Types
<1>. QED
  BY <1>3, StillKept

\* What a step takes from the credits it puts on its way, to the handpays or to
\* what is settled, up to a credit for a cash-out or a bonus.
LEMMA MoneyStep ==
  ASSUME Types, PhaseInv, ClearInv, CoverInv, MoneyKept, Next
  PROVE  MoneyKept'
<1>0. InTransit = Cashing + Restoring /\ InTransit' = Cashing' + Restoring'
  BY DEF InTransit, Cashing, Restoring
<1>1. /\ arg["player"] \in Int /\ arg["host"] \in Int /\ arg["attendant"] \in Int
      /\ InTransit \in Int /\ Sum(handpays) \in Int
      /\ Cashing \in Int /\ Restoring \in Int /\ -arg["player"] \in Int
  BY SumType, TransitType DEF Types, Threads
<1>2. CASE BeginCheck
  <2>1. InTransit' = InTransit
    BY <1>2 DEF BeginCheck, Goto, Calls, switches, link, locks, check, money, owed,
       InTransit, PhaseInv, Types, Threads
  <2>2. /\ credits' = credits /\ given' = given /\ handpays' = handpays /\ settled' = settled
        /\ straddled' = straddled /\ cashed' = cashed /\ awarded' = awarded
    BY <1>2, Zenon DEF BeginCheck, Goto, Calls, switches, link, locks, check, money, owed
  <2>. QED
    BY <2>1, <2>2, MoneyStays
<1>3. CASE Refuse
  <2>1. InTransit' = InTransit
    BY <1>3 DEF Refuse, Goto, switches, link, locks, check, money, owed, InTransit,
       PhaseInv, Types, Threads
  <2>2. /\ credits' = credits /\ given' = given /\ handpays' = handpays /\ settled' = settled
        /\ straddled' = straddled /\ cashed' = cashed /\ awarded' = awarded
    BY <1>3, Zenon DEF Refuse, Goto, switches, link, locks, check, money, owed
  <2>. QED
    BY <2>1, <2>2, MoneyStays
<1>4. CASE Pass
  <2>1. InTransit' = InTransit
    BY <1>4 DEF Pass, Goto, InTransit, PhaseInv, Types, Threads
  <2>2. /\ credits' = credits /\ given' = given /\ straddled' = straddled
        /\ cashed' = cashed /\ awarded' = awarded
    BY <1>4, Zenon DEF Pass, money
  <2>3. CASE handpays # <<>> /\ handpays' = Tail(handpays) /\ settled' = settled + Head(handpays)
    BY <2>1, <2>2, <2>3, OneSettled
  <2>4. CASE handpays' = handpays /\ settled' = settled
    BY <2>1, <2>2, <2>4, MoneyStays
  <2>. QED
    BY <1>4, <2>3, <2>4, Zenon DEF Pass, owed
<1>5. CASE Play
  <2>1. InTransit' = InTransit
    BY <1>5 DEF Play, Goto, Carry, switches, link, locks, check, money, owed, InTransit,
       PhaseInv, Types, Threads
  <2>2. /\ credits' = credits /\ given' = given /\ handpays' = handpays /\ settled' = settled
        /\ straddled' = straddled /\ cashed' = cashed /\ awarded' = awarded
    BY <1>5, Zenon DEF Play, Goto, Carry, switches, link, locks, check, money, owed
  <2>. QED
    BY <2>1, <2>2, MoneyStays
<1>6. CASE Tell
  <2>1. InTransit' = InTransit
    BY <1>6 DEF Tell, Goto, switches, link, locks, check, money, owed, InTransit,
       PhaseInv, Types, Threads
  <2>2. /\ credits' = credits /\ given' = given /\ handpays' = handpays /\ settled' = settled
        /\ straddled' = straddled /\ cashed' = cashed /\ awarded' = awarded
    BY <1>6, Zenon DEF Tell, Goto, switches, link, locks, check, money, owed
  <2>. QED
    BY <2>1, <2>2, MoneyStays
<1>7. CASE Record
  <2>1. InTransit' = InTransit
    BY <1>7 DEF Record, Goto, switches, link, locks, check, money, owed, InTransit,
       PhaseInv, Types, Threads
  <2>2. /\ credits' = credits /\ given' = given /\ handpays' = handpays /\ settled' = settled
        /\ straddled' = straddled /\ cashed' = cashed /\ awarded' = awarded
    BY <1>7, Zenon DEF Record, Goto, switches, link, locks, check, money, owed
  <2>. QED
    BY <2>1, <2>2, MoneyStays
<1>8. CASE BeginCashout
  <2>1. InTransit' = InTransit
    BY <1>8 DEF BeginCashout, Goto, Calls, Carry, switches, link, locks, check, money,
       owed, InTransit, PhaseInv, Types, Threads
  <2>2. /\ credits' = credits /\ given' = given /\ handpays' = handpays /\ settled' = settled
        /\ straddled' = straddled /\ cashed' = cashed /\ awarded' = awarded
    BY <1>8, Zenon DEF BeginCashout, Goto, Calls, Carry, switches, link, locks, check,
       money, owed
  <2>. QED
    BY <2>1, <2>2, MoneyStays
<1>9. CASE Deduct
  <2>. DEFINE taken == Converted(-arg["player"])
  <2>1. Cashing = 0 /\ Cashing' = arg["player"] /\ Restoring' = Restoring
    BY <1>9 DEF Deduct, Goto, Cashing, Restoring, PhaseInv, Types, Threads
  <2>2. /\ handpays' = handpays /\ given' = given /\ settled' = settled
        /\ cashed' = cashed + 1 /\ awarded' = awarded
    BY <1>9, Zenon DEF Deduct, owed
  <2>3. credits' = credits + taken
    BY <1>9, Zenon DEF Deduct, AddCredits
  <2>4. ~straddled' => ~straddled
    BY <1>9, Zenon DEF Deduct, AddCredits
  <2>5. ~straddled => 0 <= arg["player"]
    BY <1>9, Zenon DEF Deduct, Goto, CoverInv
  <2>6. /\ taken \in Int
        /\ 0 <= arg["player"] => taken = -arg["player"] \/ taken = -arg["player"] + 1
    BY <1>1, ConvertedIs
  <2>7. /\ credits \in Int /\ settled \in Int /\ given \in Int
        /\ Sum(handpays') = Sum(handpays)
    BY <2>2 DEF Types
  <2>. HIDE DEF taken
  <2>8. Excess \in Int /\ Excess' = Excess + (taken + arg["player"])
    BY <1>0, <1>1, <2>1, <2>2, <2>3, <2>6, <2>7 DEF Excess
  <2>9. ~straddled' => Excess' = Excess \/ Excess' = Excess + 1
    BY <1>1, <2>4, <2>5, <2>6, <2>8
  <2>. QED
    BY <2>2, <2>4, <2>8, <2>9, OneOff
<1>10. CASE OweCashout
  <2>1. Cashing = arg["player"] /\ Cashing' = 0 /\ Restoring' = Restoring
    BY <1>10 DEF OweCashout, Goto, Cashing, Restoring, PhaseInv, Types, Threads
  <2>2. /\ credits' = credits /\ given' = given /\ settled' = settled
        /\ straddled' = straddled /\ cashed' = cashed /\ awarded' = awarded
    BY <1>10, Zenon DEF OweCashout, money
  <2>3. Sum(handpays') = Sum(handpays) + arg["player"]
    BY <1>10, <1>1, SumAppend DEF OweCashout, Types
  <2>5. /\ credits \in Int /\ settled \in Int /\ given \in Int
        /\ Sum(handpays) + arg["player"] \in Int
    BY <1>1 DEF Types
  <2>4. Excess' = Excess
    BY <1>1, <1>0, <2>1, <2>2, <2>3, <2>5 DEF Excess
  <2>. QED
    BY <2>2, <2>4, StillKept
<1>11. CASE Owe("player", "idle")
  <2>1. InTransit' = InTransit
    BY <1>11 DEF Owe, Goto, InTransit, PhaseInv, Types, Threads
  <2>2. /\ credits' = credits /\ settled' = settled /\ straddled' = straddled
        /\ cashed' = cashed /\ awarded' = awarded
    BY <1>11, Zenon DEF Owe
  <2>3. handpays' = Append(handpays, arg["player"])
    BY <1>11, Zenon DEF Owe
  <2>4. given' = given + arg["player"]
    BY <1>11, Zenon DEF Owe
  <2>5. Sum(handpays') = Sum(handpays) + arg["player"]
    BY <1>1, <2>3, SumAppend DEF Types
  <2>6. /\ credits \in Int /\ settled \in Int /\ given \in Int
        /\ Sum(handpays) + arg["player"] \in Int /\ given + arg["player"] \in Int
    BY <1>1 DEF Types
  <2>7. Excess' = Excess
    BY <1>1, <2>1, <2>2, <2>4, <2>5, <2>6 DEF Excess
  <2>. QED
    BY <2>2, <2>7, StillKept
<1>12. ASSUME NEW amount \in Bonuses, Award(amount)
       PROVE  MoneyKept'
  <2>1. InTransit' = InTransit
    BY <1>12 DEF Award, Goto, Calls, Carry, AfterAward, switches, link, check, money,
       owed, InTransit, PhaseInv, Types, Threads
  <2>2. /\ credits' = credits /\ given' = given /\ handpays' = handpays /\ settled' = settled
        /\ straddled' = straddled /\ cashed' = cashed /\ awarded' = awarded
    BY <1>12, Zenon DEF Award, Goto, Calls, Carry, AfterAward, switches, link, check,
       money, owed
  <2>. QED
    BY <2>1, <2>2, MoneyStays
<1>13. CASE CreditBonus
  <2>. DEFINE added == Converted(arg["host"])
  <2>1. InTransit' = InTransit
    BY <1>13 DEF CreditBonus, Goto, InTransit, PhaseInv, Types, Threads
  <2>2. /\ handpays' = handpays /\ settled' = settled /\ given' = given + arg["host"]
        /\ cashed' = cashed /\ awarded' = awarded + 1
    BY <1>13, Zenon DEF CreditBonus, owed
  <2>3. credits' = credits + added
    BY <1>13, Zenon DEF CreditBonus, AddCredits
  <2>4. ~straddled' => ~straddled
    BY <1>13, Zenon DEF CreditBonus, AddCredits
  <2>5. arg["host"] >= 0
    <3>1. pc["host"] = "credit"
      BY <1>13, Zenon DEF CreditBonus, Goto
    <3>2. arg["host"] \in Nat
      BY <3>1, Zenon DEF PhaseInv
    <3>. QED
      BY <3>2
  <2>6. added \in Int /\ (added = arg["host"] \/ added = arg["host"] - 1)
    BY <1>1, <2>5, ConvertedIs
  <2>7. /\ credits \in Int /\ settled \in Int /\ given \in Int
        /\ Sum(handpays') = Sum(handpays)
    BY <2>2 DEF Types
  <2>. HIDE DEF added
  <2>8. Excess \in Int /\ Excess' = Excess + (added - arg["host"])
    BY <1>1, <2>1, <2>2, <2>3, <2>6, <2>7 DEF Excess
  <2>9. ~straddled' => Excess' = Excess \/ Excess' = Excess - 1
    BY <1>1, <2>6, <2>8
  <2>. QED
    BY <2>2, <2>4, <2>8, <2>9, OneOff
<1>14. CASE Owe("host", "idle")
  <2>1. InTransit' = InTransit
    BY <1>14 DEF Owe, Goto, InTransit, PhaseInv, Types, Threads
  <2>2. /\ credits' = credits /\ settled' = settled /\ straddled' = straddled
        /\ cashed' = cashed /\ awarded' = awarded
    BY <1>14, Zenon DEF Owe
  <2>3. handpays' = Append(handpays, arg["host"])
    BY <1>14, Zenon DEF Owe
  <2>4. given' = given + arg["host"]
    BY <1>14, Zenon DEF Owe
  <2>5. Sum(handpays') = Sum(handpays) + arg["host"]
    BY <1>1, <2>3, SumAppend DEF Types
  <2>6. /\ credits \in Int /\ settled \in Int /\ given \in Int
        /\ Sum(handpays) + arg["host"] \in Int /\ given + arg["host"] \in Int
    BY <1>1 DEF Types
  <2>7. Excess' = Excess
    BY <1>1, <2>1, <2>2, <2>4, <2>5, <2>6 DEF Excess
  <2>. QED
    BY <2>2, <2>7, StillKept
<1>15. CASE HandpayReset
  <2>1. InTransit' = InTransit
    BY <1>15 DEF HandpayReset, InTransit, PhaseInv, Types, Threads
  <2>2. /\ credits' = credits /\ given' = given /\ straddled' = straddled
        /\ cashed' = cashed /\ awarded' = awarded
    BY <1>15, Zenon DEF HandpayReset, money
  <2>3. handpays # <<>> /\ handpays' = Tail(handpays) /\ settled' = settled + Head(handpays)
    BY <1>15, Zenon DEF HandpayReset
  <2>. QED
    BY <2>1, <2>2, <2>3, OneSettled
<1>16. CASE GetOldestHit
  <2>1. InTransit' = InTransit
    BY <1>16 DEF GetOldestHit, Calls, switches, link, locks, check, money, owed,
       InTransit, PhaseInv, Types, Threads
  <2>2. /\ credits' = credits /\ given' = given /\ handpays' = handpays /\ settled' = settled
        /\ straddled' = straddled /\ cashed' = cashed /\ awarded' = awarded
    BY <1>16, Zenon DEF GetOldestHit, Calls, switches, link, locks, check, money, owed
  <2>. QED
    BY <2>1, <2>2, MoneyStays
<1>17. CASE BeginRamClear
  <2>1. InTransit' = InTransit
    BY <1>17 DEF BeginRamClear, Goto, Calls, Carry, switches, link, locks, check, money,
       owed, InTransit, PhaseInv, Types, Threads
  <2>2. /\ credits' = credits /\ given' = given /\ handpays' = handpays /\ settled' = settled
        /\ straddled' = straddled /\ cashed' = cashed /\ awarded' = awarded
    BY <1>17, Zenon DEF BeginRamClear, Goto, Calls, Carry, switches, link, locks, check,
       money, owed
  <2>. QED
    BY <2>1, <2>2, MoneyStays
<1>18. CASE ZeroMeters
  <2>1. Restoring = 0 /\ Restoring' = arg["attendant"] /\ Cashing' = Cashing
    BY <1>18 DEF ZeroMeters, Goto, Cashing, Restoring, PhaseInv, Types, Threads
  <2>2. /\ handpays' = handpays /\ settled' = settled /\ given' = given
        /\ cashed' = cashed /\ awarded' = awarded
    BY <1>18, Zenon DEF ZeroMeters, owed
  <2>3. ~straddled' => ~straddled /\ credits' = 0
    BY <1>18, Zenon DEF ZeroMeters
  <2>4. ~straddled => arg["attendant"] = credits
    BY <1>18 DEF ZeroMeters, Goto, ClearInv
  <2>5. ASSUME arg["attendant"] = credits, credits' = 0
        PROVE  Excess' = Excess
    BY <1>1, <1>0, <2>1, <2>2, <2>5 DEF Excess, Types
  <2>. QED
    BY <2>2, <2>3, <2>4, <2>5, StillKept
<1>19. CASE RestoreCredits
  <2>1. Restoring = arg["attendant"] /\ Restoring' = 0 /\ Cashing' = Cashing
    BY <1>19 DEF RestoreCredits, Goto, Cashing, Restoring, PhaseInv, Types, Threads
  <2>2. /\ handpays' = handpays /\ settled' = settled /\ given' = given
        /\ straddled' = straddled /\ cashed' = cashed /\ awarded' = awarded
    BY <1>19, Zenon DEF RestoreCredits, owed
  <2>3. credits' = credits + arg["attendant"]
    BY <1>19, Zenon DEF RestoreCredits
  <2>5. /\ credits \in Int /\ settled \in Int /\ given \in Int /\ credits + arg["attendant"] \in Int
        /\ Sum(handpays') = Sum(handpays)
    BY <1>1, <2>2 DEF Types
  <2>4. Excess' = Excess
    BY <1>1, <1>0, <2>1, <2>2, <2>3, <2>5 DEF Excess
  <2>. QED
    BY <2>2, <2>4, StillKept
<1>20. ASSUME NEW l \in Levels, NEW amount \in Values, SetLevel(l, amount)
       PROVE  MoneyKept'
  <2>1. InTransit' = InTransit
    BY <1>20 DEF SetLevel, Goto, Calls, switches, check, money, owed, InTransit, PhaseInv,
       Types, Threads
  <2>2. /\ credits' = credits /\ given' = given /\ handpays' = handpays /\ settled' = settled
        /\ straddled' = straddled /\ cashed' = cashed /\ awarded' = awarded
    BY <1>20, Zenon DEF SetLevel, Goto, Calls, switches, check, money, owed
  <2>. QED
    BY <2>1, <2>2, MoneyStays
<1>21. CASE Published("server")
  <2>1. InTransit' = InTransit
    BY <1>21 DEF Published, Goto, switches, link, check, money, owed, InTransit, PhaseInv,
       Types, Threads
  <2>2. /\ credits' = credits /\ given' = given /\ handpays' = handpays /\ settled' = settled
        /\ straddled' = straddled /\ cashed' = cashed /\ awarded' = awarded
    BY <1>21, Zenon DEF Published, Goto, switches, link, check, money, owed
  <2>. QED
    BY <2>1, <2>2, MoneyStays
<1>22. CASE Look
  <2>1. InTransit' = InTransit
    BY <1>22 DEF Look, Goto, switches, link, locks, check, money, owed, InTransit,
       PhaseInv, Types, Threads
  <2>2. /\ credits' = credits /\ given' = given /\ handpays' = handpays /\ settled' = settled
        /\ straddled' = straddled /\ cashed' = cashed /\ awarded' = awarded
    BY <1>22, Zenon DEF Look, Goto, switches, link, locks, check, money, owed
  <2>. QED
    BY <2>1, <2>2, MoneyStays
<1>23. CASE Clear
  <2>1. InTransit' = InTransit
    BY <1>23 DEF Clear, Goto, switches, check, money, owed, InTransit, PhaseInv, Types,
       Threads
  <2>2. /\ credits' = credits /\ given' = given /\ handpays' = handpays /\ settled' = settled
        /\ straddled' = straddled /\ cashed' = cashed /\ awarded' = awarded
    BY <1>23, Zenon DEF Clear, Goto, switches, check, money, owed
  <2>. QED
    BY <2>1, <2>2, MoneyStays
<1>24. CASE Published("watchdog")
  <2>1. InTransit' = InTransit
    BY <1>24 DEF Published, Goto, switches, link, check, money, owed, InTransit, PhaseInv,
       Types, Threads
  <2>2. /\ credits' = credits /\ given' = given /\ handpays' = handpays /\ settled' = settled
        /\ straddled' = straddled /\ cashed' = cashed /\ awarded' = awarded
    BY <1>24, Zenon DEF Published, Goto, switches, link, check, money, owed
  <2>. QED
    BY <2>1, <2>2, MoneyStays
<1>25. ASSUME NEW s \in Switches, Switch(s)
       PROVE  MoneyKept'
  <2>1. InTransit' = InTransit
    BY <1>25 DEF Switch, switches, link, locks, check, money, owed, InTransit, PhaseInv,
       Types, Threads
  <2>2. /\ credits' = credits /\ given' = given /\ handpays' = handpays /\ settled' = settled
        /\ straddled' = straddled /\ cashed' = cashed /\ awarded' = awarded
    BY <1>25, Zenon DEF Switch, switches, link, locks, check, money, owed
  <2>. QED
    BY <2>1, <2>2, MoneyStays
<1>26. CASE Second
  <2>1. InTransit' = InTransit
    BY <1>26 DEF Second, switches, locks, check, money, owed, InTransit, PhaseInv, Types,
       Threads
  <2>2. /\ credits' = credits /\ given' = given /\ handpays' = handpays /\ settled' = settled
        /\ straddled' = straddled /\ cashed' = cashed /\ awarded' = awarded
    BY <1>26, Zenon DEF Second, switches, locks, check, money, owed
  <2>. QED
    BY <2>1, <2>2, MoneyStays
<1>. QED
  BY <1>2, <1>3, <1>4, <1>5, <1>6, <1>7, <1>8, <1>9, <1>10, <1>11, <1>12, <1>13, <1>14,
     <1>15, <1>16, <1>17, <1>18, <1>19, <1>20, <1>21, <1>22, <1>23, <1>24, <1>25, <1>26
     DEF Next, Player, Host, Attendant, Server, Watchdog

-----------------------------------------------------------------------------
(* The theorems                                                            *)

\* The invariant is inductive.
LEMMA IInvStep == ASSUME IInv, [Next]_vars PROVE IInv'
<1>1. CASE Next
  BY <1>1, FlagsKept, TypesKept, PhaseKept, HeldKept, CheckKept, LinkKept, ClearKept,
     CoverKept, MoneyStep DEF IInv
<1>2. CASE UNCHANGED vars
  <2>1. /\ switches' = switches /\ on' = on /\ owed' = owed /\ link' = link /\ money' = money
        /\ hits' = hits /\ locks' = locks /\ pc' = pc /\ arg' = arg /\ check' = check
        /\ throughout' = throughout /\ straddled' = straddled /\ calls' = calls
    BY <1>2, Zenon DEF vars
  <2>2. Flags'
    BY <2>1, Zenon DEF switches, IInv, Flags
  <2>3. Types' /\ HeldInv' /\ LinkInv' /\ CheckInv'
    BY <2>1 DEF owed, link, money, locks, check, IInv, Types, HeldInv, LinkInv, CheckInv
  <2>4. PhaseInv'
    BY <2>1, Zenon DEF check, IInv, PhaseInv
  <2>5. ClearInv' /\ CoverInv'
    BY <2>1 DEF money, IInv, ClearInv, CoverInv, Restoring
  <2>6. MoneyKept'
    BY <2>1 DEF owed, money, IInv, MoneyKept, InTransit
  <2>. QED
    BY <2>2, <2>3, <2>4, <2>5, <2>6 DEF IInv
<1>. QED
  BY <1>1, <1>2

\* It holds throughout.
THEOREM CabinetInvariant == Spec => []IInv
<1>1. IInv /\ [Next]_vars => IInv'
  BY IInvStep
<1>. QED
  BY InitIInv, <1>1, PTL DEF Spec

\* Every variable keeps its type, and a mutex of the machine or of the event
\* service is held over a step only by a thread that is publishing with it.
THEOREM CabinetTypeCorrect == Spec => []TypeOK
<1>1. IInv => TypeOK
  BY TypesAre DEF IInv
<1>. QED
  BY CabinetInvariant, <1>1, PTL

\* checkPlayable looks at one condition after another without a lock, and yet
\* nothing that has blocked the machine ever since the call began lets a game
\* start or a progressive hit count.
THEOREM BlockedGamesRefused == Spec => []NoBlockedGame
<1>1. IInv => NoBlockedGame
  BY DEF IInv, CheckInv, NoBlockedGame
<1>. QED
  BY CabinetInvariant, <1>1, PTL

\* The progressive link counts as up only while the server has been heard of
\* within the limit: what clearProgressiveValues writes is no sign of life.
THEOREM LinkTellsTruth == Spec => []LinkHonest
<1>1. IInv => LinkHonest
  BY DEF IInv, LinkInv, LinkHonest, LinkUp
<1>. QED
  BY CabinetInvariant, <1>1, PTL

\* However the steps of cash-outs, bonus awards, handpay resets and RAM clears
\* come between one another, and whatever amounts dollars lose: what is in the
\* credits, in the handpays, settled and on its way exceeds what has been given
\* by at most a credit for each cash-out, and falls short of it by at most a
\* credit for each bonus, unless a change of the credits has met a RAM clear.
THEOREM MoneyConserved == Spec => []MoneyKept
<1>1. IInv => MoneyKept
  BY DEF IInv
<1>. QED
  BY CabinetInvariant, <1>1, PTL

=============================================================================
