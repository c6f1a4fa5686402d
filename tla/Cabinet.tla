------------------------------ MODULE Cabinet ------------------------------
(***************************************************************************)
(* The cabinet behind the Machine API: what makes the machine unplayable   *)
(* (door, host, lock, voucher, progressive link, handpays), the handpay    *)
(* queue, the progressive levels with their watchdog thread, and the event *)
(* service that all of them publish to (Machine.cpp, EventService.h).      *)
(*                                                                         *)
(* The callers are external: a player, a host, an attendant and a server   *)
(* of progressive values, each a thread that makes one call after another. *)
(* The machine has one recursive mutex and the event service another;      *)
(* which of the two a call takes, in which order, and where it holds none, *)
(* is what is modelled.  A call that takes a mutex and releases it without *)
(* doing anything in between that could block is one step.                 *)
(***************************************************************************)
EXTENDS Integers, Sequences, SequencesExt

CONSTANTS
  Levels,        \* the progressive levels added to the machine
  Values,        \* the values the server sends
  Limit,         \* seconds after which the link counts as down: 5
  HandpayLimit,  \* handpayLimit_
  Bonuses,       \* the bonus amounts the host awards
  Short,         \* the amounts of credits that lose one in dollars and back
  Credits0,      \* credits when the calls begin
  MaxCalls       \* bound of the model: calls of all threads together

Threads == {"player", "host", "attendant", "server", "watchdog"}

ASSUME CabinetAssumption ==
  /\ Values \subseteq Nat /\ Bonuses \subseteq Nat \ {0}
  /\ Limit \in Nat \ {0}
  /\ Short \subseteq Nat \ {0}
  /\ {HandpayLimit, Credits0} \subseteq Nat
  /\ MaxCalls \in Nat

Nobody == "nobody"
\* What setDoorOpen, setEnabled, setAftLocked, setWaitingToPrintCashoutVoucher
\* and setMissingProgressiveUpdates switch.
Switches == {"door", "disabled", "locked", "voucher", "missing"}
\* The order in which checkPlayable looks.
Order == <<"handpay", "door", "link", "disabled", "locked", "voucher">>

VARIABLES
  auto,        \* autoProcessEvents() has been called
  ignore,      \* ignoreHandpay_
  on,          \* the switches that are on
  handpays,    \* pendingHandpayReset_, as the amounts
  value,       \* progressives_: the value of each level
  age,         \* seconds since lastProgressiveSetTime_, up to Limit + 1
  credits,     \* METER_CURRENT_CRD
  hits,        \* progressiveHits_
  mutex,       \* who holds Machine::mutex_ over a step
  service,     \* who holds EventService::mutex_ over a step
  pc, arg,     \* where each thread is, and the value it carries
  want,        \* what the player's check is for: a level, or a game
  stage,       \* how many of the conditions it has passed
  throughout,  \* history: the conditions that have blocked all along since
  since,       \* history: seconds since the server's last update, like age
  given,       \* history: money credited or owed to the player so far
  settled,     \* history: money of the handpays reset
  cashed,      \* history: how many cash-outs have been debited
  awarded,     \* history: how many bonuses have been credited
  straddled,   \* history: a credit change met a RAM clear
  calls        \* calls made

switches == <<auto, ignore>>
link == <<value, age, since>>
locks == <<mutex, service>>
check == <<want, stage>>
money == <<credits, given, cashed, awarded>>
owed == <<handpays, settled>>
vars == <<switches, on, owed, link, money, hits, locks, pc, arg, check,
          throughout, straddled, calls>>

Init ==
  /\ auto \in BOOLEAN /\ ignore \in BOOLEAN /\ (auto => ignore)
  /\ on = {} /\ handpays = <<>>
  /\ value = [l \in Levels |-> 0]
  /\ age = Limit + 1 /\ since = Limit + 1
  /\ credits = Credits0 /\ given = Credits0 /\ settled = 0
  /\ cashed = 0 /\ awarded = 0
  /\ hits = <<>>
  /\ mutex = Nobody /\ service = Nobody
  /\ pc = [t \in Threads |-> "idle"] /\ arg = [t \in Threads |-> 0]
  /\ want = "game" /\ stage = 0 /\ throughout = {}
  /\ straddled = FALSE
  /\ calls = 0

\* isProgressiveLinkUp: before the first update it is down.
LinkUp == "missing" \notin on /\ (Levels = {} \/ age < Limit)

\* The conditions of checkPlayable that hold.  With ignoreHandpay_ a handpay
\* does not block.
Blocking ==
  (on \cap {"door", "disabled", "locked", "voucher"})
    \cup (IF LinkUp THEN {} ELSE {"link"})
    \cup (IF handpays # <<>> /\ ~ignore THEN {"handpay"} ELSE {})

-----------------------------------------------------------------------------
(* Steps of a thread.                                                      *)

Free(lock) == lock = Nobody

Calls(t) ==
  /\ pc[t] = "idle"
  /\ calls < MaxCalls
  /\ calls' = calls + 1

\* What a step leaves alone unless it says otherwise.
Goto(t, from, to) ==
  /\ pc[t] = from
  /\ pc' = [pc EXCEPT ![t] = to]
  /\ UNCHANGED <<switches, on>>
Carry(t, amount) == arg' = [arg EXCEPT ![t] = amount]

\* The threads whose next step increments the credits.
Incrementing == {t \in Threads : pc[t] \in {"credit", "deduct"}}

\* An amount of credits as dollars, divided by the denomination and truncated:
\* 29 * 0.01 / 0.01 is 28.
Converted(n) ==
  IF n \in Short THEN n - 1 ELSE IF -n \in Short THEN n + 1 ELSE n

\* incrementMeter(METER_CURRENT_CRD, amount), with the mutex.
AddCredits(amount) ==
  /\ Free(mutex)
  /\ credits' = credits + amount
  /\ straddled' = (straddled \/ pc["attendant"] \in {"zero", "restore"})

\* addPendingHandpay, for money that was not on the credit meter.
Owe(t, next) ==
  /\ Goto(t, "owe", next)
  /\ Free(mutex)
  /\ handpays' = Append(handpays, arg[t])
  /\ given' = given + arg[t]
  /\ UNCHANGED <<settled, link, credits, cashed, awarded, hits, locks, arg, check, straddled, calls>>

-----------------------------------------------------------------------------
(* The player: gameStart, progressiveHit, cashoutButtonTriggerHandpay.     *)

BeginCheck ==
  /\ Calls("player")
  /\ Goto("player", "idle", "check")
  /\ want' \in Levels \cup {"game"}
  /\ stage' = 0
  /\ UNCHANGED <<owed, link, money, hits, locks, arg, straddled>>

Refuse ==
  /\ Goto("player", "check", "idle")
  /\ Order[stage + 1] \in Blocking
  /\ Order[stage + 1] = "handpay" => Free(mutex)
  /\ stage' = 0
  /\ UNCHANGED <<owed, link, money, hits, locks, arg, want, straddled, calls>>

\* Slip: the voucher is not looked at.
PassWithoutVoucher ==
  /\ Goto("player", "check", IF stage + 2 = Len(Order) THEN "play" ELSE "check")
  /\ Order[stage + 1] \notin Blocking
  /\ Order[stage + 1] = "handpay" => Free(mutex)
  /\ stage' = IF stage + 2 = Len(Order) THEN 0 ELSE stage + 1
  /\ IF Order[stage + 1] = "handpay" /\ handpays # <<>>
       THEN handpays' = Tail(handpays) /\ settled' = settled + Head(handpays)
       ELSE UNCHANGED owed
  /\ UNCHANGED <<link, money, hits, locks, arg, want, straddled, calls>>

\* One condition after another is looked at, each on its own.  Asking for
\* handpays resets one of them if they are to be ignored.
Pass ==
  /\ Goto("player", "check", IF stage + 1 = Len(Order) THEN "play" ELSE "check")
  /\ Order[stage + 1] \notin Blocking
  /\ Order[stage + 1] = "handpay" => Free(mutex)
  /\ stage' = IF stage + 1 = Len(Order) THEN 0 ELSE stage + 1
  /\ IF Order[stage + 1] = "handpay" /\ handpays # <<>>
       THEN handpays' = Tail(handpays) /\ settled' = settled + Head(handpays)
       ELSE UNCHANGED owed
  /\ UNCHANGED <<link, money, hits, locks, arg, want, straddled, calls>>

\* gameStart counts the game; progressiveHit reads the level.
Play ==
  /\ Goto("player", "play", "tell")
  /\ Free(mutex)
  /\ Carry("player", IF want = "game" THEN 0 ELSE value[want])
  /\ UNCHANGED <<owed, link, money, hits, locks, check, straddled, calls>>

\* Both publish.  A game is over then.
Tell ==
  /\ Goto("player", "tell", IF want = "game" THEN "idle" ELSE "record")
  /\ Free(service)
  /\ UNCHANGED <<owed, link, money, hits, locks, arg, check, straddled, calls>>

\* A hit below the limit is recorded and paid by nobody.
Record ==
  /\ Goto("player", "record", IF arg["player"] >= HandpayLimit THEN "owe" ELSE "idle")
  /\ Free(mutex)
  /\ hits' = Append(hits, arg["player"])
  /\ UNCHANGED <<owed, link, money, locks, arg, check, straddled, calls>>

\* cashoutButtonTriggerHandpay: read, subtract, owe.
BeginCashout ==
  /\ Calls("player")
  /\ Goto("player", "idle", "deduct")
  /\ Free(mutex)
  /\ Carry("player", credits)
  /\ UNCHANGED <<owed, link, money, hits, locks, check, straddled>>

\* Slip: what is there by now is taken off.
DeductAll ==
  /\ Goto("player", "deduct", "owe cashout")
  /\ AddCredits(Converted(-credits))
  /\ cashed' = cashed + 1
  /\ UNCHANGED <<owed, link, given, awarded, hits, locks, arg, check, calls>>

\* What was read is owed in dollars, and taken off by addCredits(dollars).
Deduct ==
  /\ Goto("player", "deduct", "owe cashout")
  /\ AddCredits(Converted(-arg["player"]))
  /\ cashed' = cashed + 1
  /\ UNCHANGED <<owed, link, given, awarded, hits, locks, arg, check, calls>>

OweCashout ==
  /\ Goto("player", "owe cashout", "idle")
  /\ Free(mutex)
  /\ handpays' = Append(handpays, arg["player"])
  /\ UNCHANGED <<settled, link, money, hits, locks, arg, check, straddled, calls>>

Player ==
  \/ BeginCheck \/ Refuse \/ Pass \/ Play \/ Tell \/ Record
  \/ BeginCashout \/ Deduct \/ OweCashout
  \/ Owe("player", "idle")

-----------------------------------------------------------------------------
(* The host: awardBonus.                                                   *)

AfterAward(amount) == IF amount >= HandpayLimit THEN "owe" ELSE "idle"

\* Slip: the award is credited by a subscriber there always is.
AwardSubscribed(amount) ==
  /\ Calls("host")
  /\ Goto("host", "idle", "credit")
  /\ Free(service)
  /\ service' = "host"
  /\ Carry("host", amount)
  /\ UNCHANGED <<owed, link, money, hits, mutex, check, straddled>>

\* publish(BonusAwardedEvent) holds the mutex of the service while the
\* subscriber that autoProcessEvents has put there calls back.
Award(amount) ==
  /\ Calls("host")
  /\ Goto("host", "idle", IF auto THEN "credit" ELSE AfterAward(amount))
  /\ Free(service)
  /\ service' = IF auto THEN "host" ELSE Nobody
  /\ Carry("host", amount)
  /\ UNCHANGED <<owed, link, money, hits, mutex, check, straddled>>

\* The subscriber: addJackpot of the dollars, and an event nobody listens to.
CreditBonus ==
  /\ Goto("host", "credit", AfterAward(arg["host"]))
  /\ AddCredits(Converted(arg["host"]))
  /\ given' = given + arg["host"]
  /\ awarded' = awarded + 1
  /\ service' = Nobody
  /\ UNCHANGED <<owed, link, cashed, hits, mutex, arg, check, calls>>

Host ==
  \/ \E amount \in Bonuses : Award(amount)
  \/ CreditBonus
  \/ Owe("host", "idle")

-----------------------------------------------------------------------------
(* The attendant: handpayReset, getOldestHit, ramClear.                    *)

\* With nothing pending it throws.
HandpayReset ==
  /\ Calls("attendant")
  /\ Free(mutex)
  /\ handpays # <<>>
  /\ handpays' = Tail(handpays)
  /\ settled' = settled + Head(handpays)
  /\ UNCHANGED <<switches, on, link, money, hits, locks, pc, arg, check, straddled>>

GetOldestHit ==
  /\ Calls("attendant")
  /\ Free(mutex)
  /\ hits # <<>>
  /\ hits' = Tail(hits)
  /\ UNCHANGED <<switches, on, owed, link, money, locks, pc, arg, check, straddled>>

BeginRamClear ==
  /\ Calls("attendant")
  /\ Goto("attendant", "idle", "zero")
  /\ Free(mutex)
  /\ Carry("attendant", credits)
  /\ UNCHANGED <<owed, link, money, hits, locks, check, straddled>>

\* initializeMeters writes without the mutex: between the two halves of
\* another thread's increment the zero is overwritten.
ZeroMeters ==
  /\ Goto("attendant", "zero", "restore")
  /\ credits' \in {0} \cup (IF Incrementing # {} THEN {credits} ELSE {})
  /\ straddled' = (straddled \/ credits' # 0)
  /\ UNCHANGED <<owed, link, given, cashed, awarded, hits, locks, arg, check, calls>>

RestoreCredits ==
  /\ Goto("attendant", "restore", "idle")
  /\ Free(mutex)
  /\ credits' = credits + arg["attendant"]
  /\ UNCHANGED <<owed, link, given, cashed, awarded, hits, locks, arg, check, straddled, calls>>

Attendant ==
  HandpayReset \/ GetOldestHit \/ BeginRamClear \/ ZeroMeters \/ RestoreCredits

-----------------------------------------------------------------------------
(* The server of progressive values and the watchdog.                      *)

\* setProgressiveValue: any level's update renews the link; a change is
\* published with the mutex held.
SetLevel(l, amount) ==
  /\ Calls("server")
  /\ Goto("server", "idle", IF amount = value[l] THEN "idle" ELSE "publish")
  /\ Free(mutex)
  /\ mutex' = IF amount = value[l] THEN Nobody ELSE "server"
  /\ value' = [value EXCEPT ![l] = amount]
  /\ age' = 0 /\ since' = 0
  /\ UNCHANGED <<owed, money, hits, service, arg, check, straddled>>

\* Slip: the mutex is not released.
PublishedHolding(t) ==
  /\ Goto(t, "publish", "idle")
  /\ Free(service)
  /\ UNCHANGED <<owed, link, money, hits, locks, arg, check, straddled, calls>>

\* The level has changed; the other threads see it when the mutex is free.
Published(t) ==
  /\ Goto(t, "publish", "idle")
  /\ Free(service)
  /\ mutex' = Nobody
  /\ UNCHANGED <<owed, link, money, hits, service, arg, check, straddled, calls>>

\* Once a second the watchdog looks, without the mutex.  Before the first
\* update there is nothing to clear.
Look ==
  /\ Goto("watchdog", "idle", "clear")
  /\ Levels # {} /\ age > Limit
  /\ \E l \in Levels : value[l] # 0
  /\ UNCHANGED <<owed, link, money, hits, locks, arg, check, straddled, calls>>

\* Slip: clearing counts as an update.
ClearRenewing ==
  LET changes == \E l \in Levels : value[l] # 0
  IN  /\ Goto("watchdog", "clear", IF changes THEN "publish" ELSE "idle")
      /\ Free(mutex)
      /\ mutex' = IF changes THEN "watchdog" ELSE Nobody
      /\ value' = [l \in Levels |-> 0]
      /\ age' = 0
      /\ UNCHANGED <<owed, since, money, hits, service, arg, check, straddled, calls>>

\* Slip: the loop ends with the first level.
ClearFirst ==
  LET first == CHOOSE l \in Levels : TRUE
  IN  /\ Goto("watchdog", "clear", IF value[first] # 0 THEN "publish" ELSE "idle")
      /\ Free(mutex)
      /\ mutex' = IF value[first] # 0 THEN "watchdog" ELSE Nobody
      /\ value' = [value EXCEPT ![first] = 0]
      /\ UNCHANGED <<owed, age, since, money, hits, service, arg, check, straddled, calls>>

\* clearProgressiveValues: whatever has been sent since it looked.
Clear ==
  LET changes == \E l \in Levels : value[l] # 0
  IN  /\ Goto("watchdog", "clear", IF changes THEN "publish" ELSE "idle")
      /\ Free(mutex)
      /\ mutex' = IF changes THEN "watchdog" ELSE Nobody
      /\ value' = [l \in Levels |-> 0]
      /\ UNCHANGED <<owed, age, since, money, hits, service, arg, check, straddled, calls>>

Server ==
  (\E l \in Levels, amount \in Values : SetLevel(l, amount)) \/ Published("server")
Watchdog == Look \/ Clear \/ Published("watchdog")

-----------------------------------------------------------------------------
(* The environment.                                                        *)

Switch(s) ==
  /\ calls < MaxCalls
  /\ calls' = calls + 1
  /\ on' = IF s \in on THEN on \ {s} ELSE on \cup {s}
  /\ UNCHANGED <<switches, owed, link, money, hits, locks, pc, arg, check, straddled>>

Second ==
  /\ age <= Limit \/ since <= Limit
  /\ age' = IF age > Limit THEN age ELSE age + 1
  /\ since' = IF since > Limit THEN since ELSE since + 1
  /\ UNCHANGED <<switches, on, owed, value, money, hits, locks, pc, arg, check,
                 straddled, calls>>

\* The history of the player's check.
Watched ==
  throughout' =
    IF pc'["player"] \notin {"check", "play"} THEN {}
    ELSE IF pc["player"] = "idle" THEN Blocking
    ELSE throughout \cap Blocking'

Next ==
  /\ \/ Player \/ Host \/ Attendant \/ Server \/ Watchdog
     \/ \E s \in Switches : Switch(s)
     \/ Second
  /\ Watched

Spec == Init /\ [][Next]_vars

\* Every thread that is inside a call goes on when it can, the watchdog looks
\* again and again, and time passes.
Inside(t, step) == pc[t] # "idle" /\ step /\ Watched
Fairness ==
  /\ WF_vars(Inside("player", Player))
  /\ WF_vars(Inside("host", Host))
  /\ WF_vars(Inside("attendant", Attendant))
  /\ WF_vars(Inside("server", Server))
  /\ WF_vars(Watchdog /\ Watched)
  /\ WF_vars(Second /\ Watched)
FairSpec == Spec /\ Fairness

-----------------------------------------------------------------------------

Sum(amounts) ==
  LET upTo[n \in 0..Len(amounts)] == IF n = 0 THEN 0 ELSE amounts[n] + upTo[n - 1]
  IN  upTo[Len(amounts)]

\* The types of the variables; and a mutex is held over a step only by a
\* thread inside the call that took it (lock_guard).
TypeOK ==
  /\ auto \in BOOLEAN /\ ignore \in BOOLEAN
  /\ on \subseteq Switches
  /\ handpays \in Seq(Int) /\ hits \in Seq(Nat)
  /\ value \in [Levels -> Nat]
  /\ {age, since} \subseteq 0..(Limit + 1)
  /\ {credits, given, settled} \subseteq Int
  /\ {cashed, awarded} \subseteq Nat
  /\ {mutex, service} \subseteq Threads \cup {Nobody}
  /\ mutex # Nobody => pc[mutex] = "publish"
  /\ service # Nobody => pc[service] = "credit"
  /\ arg \in [Threads -> Int]
  /\ stage \in 0..(Len(Order) - 1)
  /\ throughout \subseteq ToSet(Order)
  /\ straddled \in BOOLEAN

\* checkPlayable is a sequence of unlocked looks, so a door may open behind
\* its back; but what blocked the machine all the time from the call on lets
\* no game start and no progressive hit count.
NoBlockedGame == pc["player"] = "play" => throughout = {}

\* cashoutButtonTriggerHandpay, awardBonus and the RAM clear move money in
\* several steps between the credit meter and the handpays, and the first two
\* convert it to dollars and back.  Whatever comes between, a cash-out leaves at
\* most one credit on the meter that is owed as well, a bonus lacks at most one
\* credit, and no other money appears or vanishes, except in a RAM clear that a
\* change of the credits has met.
InTransit ==
  (IF pc["player"] = "owe cashout" THEN arg["player"] ELSE 0)
    + (IF pc["attendant"] = "restore" THEN arg["attendant"] ELSE 0)
MoneyKept ==
  ~straddled =>
    credits + Sum(handpays) + settled + InTransit - given \in (-awarded)..cashed

\* The link counts as up only while the server has been heard of within the
\* limit: what the watchdog writes is no sign of life.
LinkHonest == LinkUp /\ Levels # {} => since < Limit

\* A server that falls silent does not leave its values standing: they are
\* cleared, unless the event service is held by a callback that needs the
\* mutex the levels are published with.
SilenceClears ==
  \A l \in Levels :
    (value[l] # 0) ~> (value[l] = 0 \/ since < Limit \/ auto)

\* Two mutexes are taken in both orders (setProgressiveValue publishes with
\* the machine's, autoProcessEvents's subscribers call the machine with the
\* service's), so calls can wait for one another for ever.  Without those
\* subscribers every call returns.
CallsReturn ==
  \A t \in Threads : (pc[t] # "idle") ~> (pc[t] = "idle" \/ auto)

=============================================================================
