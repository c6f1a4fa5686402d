-------------------------- MODULE PowerCycle_proof --------------------------
(***************************************************************************)
(* Proofs about PowerCycle for every bound and every amount of initial     *)
(* credits.                                                                *)
(*                                                                         *)
(* The audit survives a restart because a save is never further off than   *)
(* the inflows that straddle it: a save in progress has read some meters   *)
(* and will find the others, and what it will have written is known up to  *)
(* the inflows that are half done.  The orderly restart rests on a second  *)
(* invariant, about who writes the file.                                   *)
(***************************************************************************)
EXTENDS PowerCycle, TLAPS

Bill == "CRD_FR_BILL_ACCEPTOR"
Aft == "AFT_IN"

-----------------------------------------------------------------------------
(* The invariant                                                           *)

\* Who can be at work when.
PhaseInv ==
  /\ Saving("main") <=> pc = "saving"
  /\ Saving("http") => httpOp = None
  /\ pc \in {"off", "loaded"} =>
       httpOp = None /\ sasOp = None /\ ~Saving("http") /\ ~rebootDue

\* What the histories count is bounded by what has been done.
Due == IF pc = "loaded" THEN boots - 1 ELSE boots
Within(t) ==
  t.bets <= ops /\ t.gifts <= Due /\ t.straddling <= ops + 2 * saves
WithinFile(f) == f.kind = "meters" => Within(f.tally)
CountInv ==
  /\ Within(tally)
  /\ \A s \in Savers : Within(buffer[s].tally) /\ before[s].ops <= ops
                       /\ before[s].tally = NoTally
  /\ WithinFile(file) /\ WithinFile(disk)

\* By how much credits are off the inflows, bets and gifts they should be from.
Paid(t) == Gift * t.gifts - t.bets
Off(credits, bill, aft, t) == credits - (bill + aft + Paid(t))
SasHalf == IF sasOp # None THEN 1 ELSE 0
HttpHalf == IF httpOp # None THEN 1 ELSE 0
Live == Off(meters[Credits], meters[Bill], meters[Aft], tally) - SasHalf - HttpHalf

\* The error of what a saver has read, the rest being what it is now.
ReadCredits(s) == Off(buffer[s].values[Credits], meters[Bill], meters[Aft], buffer[s].tally)
ReadBill(s) ==
  Off(buffer[s].values[Credits], buffer[s].values[Bill], meters[Aft], buffer[s].tally)
ReadAll(v, t) == Off(v[Credits], v[Bill], v[Aft], t)

\* The error of a save that has read k meters: up to the straddling inflows, the
\* half done ones on the safe side.
Err(k, most, live, half, sas, rc, rb, ra, mostRead) ==
  /\ k = 0 => -most <= live - half /\ live + half <= most
  /\ k = 1 => -most <= rc - half /\ rc <= most
  /\ k = 2 => -most <= rb - sas /\ rb <= most
  /\ k = 3 => -mostRead <= ra /\ ra <= mostRead
SaverErr(s) ==
  Err(saving[s], tally.straddling, Live, SasHalf + HttpHalf, SasHalf, ReadCredits(s),
      ReadBill(s), ReadAll(buffer[s].values, buffer[s].tally), buffer[s].tally.straddling)
FileErr(f) ==
  f.kind = "meters" =>
    /\ -f.tally.straddling <= ReadAll(f.values, f.tally)
    /\ ReadAll(f.values, f.tally) <= f.tally.straddling
AuditInv ==
  /\ -tally.straddling <= Live /\ Live <= tally.straddling
  /\ \A s \in Savers : SaverErr(s)
  /\ FileErr(file) /\ FileErr(disk)

\* A file whose meters are from between the beginning and the end of its save.
Good(f) ==
  /\ f.kind = "meters"
  /\ \A m \in Counters : f.values[m] \in f.from[m]..f.to[m]
  /\ f.from = f.to /\ f.ops = 0 => f.values = f.from

\* What a saver has read is from between the beginning of its save and now.
Between(s) ==
  Saving(s) =>
    /\ \A m \in Counters : before[s].values[m] <= meters[m]
    /\ \A i \in 2..saving[s] : /\ before[s].values[Keys[i]] <= buffer[s].values[Keys[i]]
                               /\ buffer[s].values[Keys[i]] <= meters[Keys[i]]
    /\ before[s].ops = ops =>
         /\ meters[Credits] = before[s].values[Credits]
         /\ saving[s] >= 1 => buffer[s].values[Credits] = before[s].values[Credits]

\* What the file is while nothing is unsafe.
FileInv ==
  /\ ~unsafe => /\ ~(Saving("main") /\ Saving("http"))
                /\ \A s \in Savers : Saving(s) => file = Torn
                /\ pc \in {"off", "loaded"} /\ saves > 0 => Good(file)
                /\ (\A s \in Savers : ~Saving(s)) /\ (pc = "stopping" \/ rebootDue)
                     => Good(file)
  /\ pc = "loaded" /\ file.kind = "meters" => meters = file.values
SaveInv == FileInv /\ \A s \in Savers : Between(s)

-----------------------------------------------------------------------------
(* Types                                                                   *)

Snapshot == [values : [Meters -> Nat], tally : Tally, ops : 0..MaxOps]
Saved3 == [kind : {"meters"}, values : [Meters -> Nat], tally : Tally,
           from : [Meters -> Nat], to : [Meters -> Nat], ops : 0..MaxOps]

\* The meters and the order in which they are read.
LEMMA KeysAre ==
  /\ Len(Keys) = 3 /\ Keys[1] = Credits /\ Keys[2] = Bill /\ Keys[3] = Aft
  /\ Meters = {Credits, Bill, Aft} /\ Counters = {Bill, Aft}
  /\ Credits # Bill /\ Credits # Aft /\ Bill # Aft
  /\ None # Bill /\ None # Aft
<1>1. Len(Keys) = 3 /\ Keys[1] = Credits /\ Keys[2] = Bill /\ Keys[3] = Aft
  BY DEF Keys, Bill, Aft
<1>2. DOMAIN Keys = {1, 2, 3}
  BY DEF Keys
<1>3. Meters = {Credits, Bill, Aft}
  BY <1>1, <1>2 DEF Meters
<1>4. /\ Credits # Bill /\ Credits # Aft /\ Bill # Aft
      /\ None # Bill /\ None # Aft
  BY DEF Credits, Bill, Aft, None
<1>. QED
  BY <1>1, <1>3, <1>4 DEF Counters

\* The bounds are numbers.
LEMMA BoundsAre ==
  /\ MaxOps \in Nat /\ MaxBoots \in Nat /\ MaxSaves \in Nat /\ Gift \in Nat
BY PowerAssumption DEF PowerAssumption

\* The variables, one by one.
Types ==
  /\ pc \in {"off", "loaded", "running", "saving", "stopping"}
  /\ meters \in [Meters -> Nat]
  /\ httpOp \in {None, Bill} /\ sasOp \in {None, Aft}
  /\ saving \in [Savers -> -1..3]
  /\ buffer \in [Savers -> Snapshot] /\ before \in [Savers -> Snapshot]
  /\ file \in {Absent, Torn} \cup Saved3 /\ disk \in {Absent, Torn} \cup Saved3
  /\ rebootDue \in BOOLEAN /\ unsafe \in BOOLEAN
  /\ tally \in Tally
  /\ ops \in 0..MaxOps /\ boots \in 0..MaxBoots /\ saves \in 0..MaxSaves

\* They are what TypeOK says.
LEMMA TypesAre == TypeOK <=> Types
BY KeysAre DEF TypeOK, Types, Snapshot, Saved3, Bill, Aft, Idle

\* What a machine without meters has.
LEMMA BlankTyped ==
  /\ Zero \in [Meters -> Nat] /\ NoTally \in Tally /\ Blank \in Snapshot
  /\ \A m \in Meters : Zero[m] = 0
  /\ Blank.values = Zero /\ Blank.tally = NoTally /\ Blank.ops = 0
<1>1. Zero \in [Meters -> Nat] /\ \A m \in Meters : Zero[m] = 0
  BY DEF Zero
<1>2. /\ 0 \in 0..MaxOps /\ 0 \in 0..MaxBoots /\ 0 \in 0..(MaxOps + 2 * MaxSaves)
  BY BoundsAre
<1>3. NoTally \in Tally
  BY <1>2 DEF NoTally, Tally
<1>. QED
  BY <1>1, <1>2, <1>3 DEF Blank, Snapshot

\* A tally's counts, as plain facts.
LEMMA TallyParts ==
  ASSUME NEW t \in Tally
  PROVE  /\ t.bets \in 0..MaxOps /\ t.gifts \in 0..MaxBoots
         /\ t.straddling \in 0..(MaxOps + 2 * MaxSaves)
         /\ t.bets \in Nat /\ t.gifts \in Nat /\ t.straddling \in Nat
BY BoundsAre DEF Tally

\* A snapshot's fields, and those of a file with meters.
LEMMA SnapshotParts ==
  ASSUME NEW b \in Snapshot
  PROVE  b.values \in [Meters -> Nat] /\ b.tally \in Tally /\ b.ops \in 0..MaxOps
BY DEF Snapshot

\* What a file with meters has.
LEMMA FileParts ==
  ASSUME NEW f \in {Absent, Torn} \cup Saved3, f.kind = "meters"
  PROVE  /\ f.values \in [Meters -> Nat] /\ f.tally \in Tally
         /\ f.from \in [Meters -> Nat] /\ f.to \in [Meters -> Nat]
BY DEF Absent, Torn, Saved3

-----------------------------------------------------------------------------
(* Types and counts                                                        *)

\* The bounds only grow.
LEMMA BoundsGrow ==
  ASSUME Types, Next
  PROVE  /\ ops' \in 0..MaxOps /\ saves' \in 0..MaxSaves /\ boots' \in 0..MaxBoots
         /\ ops <= ops' /\ saves <= saves' /\ Due <= Due'
<1>1. /\ ops \in Nat /\ saves \in Nat /\ boots \in Nat
      /\ ops <= MaxOps /\ saves <= MaxSaves /\ boots <= MaxBoots
  BY BoundsAre DEF Types
<1>. USE <1>1, BoundsAre
<1>2. CASE Load
  BY <1>2 DEF Load, Due
<1>3. CASE StartUp
  BY <1>3 DEF StartUp, Due
<1>4. CASE PortFails \/ Exit \/ Restart \/ PowerFails
  BY <1>4 DEF PortFails, Exit, Restart, PowerFails, Ended, Due
<1>5. CASE InsertBill \/ Bet \/ Transfer
  BY <1>5 DEF InsertBill, Bet, Transfer, Credited, Due
<1>6. CASE CountBill \/ CountTransfer \/ WriteBack \/ \E s \in Savers : ReadMeter(s)
  <2>1. UNCHANGED <<pc, ops, boots, saves>>
    BY <1>6, Zenon DEF CountBill, CountTransfer, WriteBack, ReadMeter
  <2>. QED
    BY <2>1 DEF Due
<1>7. CASE ShutDown \/ Reboot
  BY <1>7 DEF ShutDown, Reboot, Begin, ThreadsRun, Due
<1>8. CASE Saved \/ RebootScheduled
  BY <1>8 DEF Saved, RebootScheduled, Close, Due
<1>. QED
  BY <1>2, <1>3, <1>4, <1>5, <1>6, <1>7, <1>8 DEF Next

\* Counts within the bounds stay within them.
LEMMA WithinKept ==
  ASSUME Types, Next, NEW t \in Tally, Within(t)
  PROVE  t.bets <= ops' /\ t.gifts <= Due' /\ t.straddling <= ops' + 2 * saves'
<1>1. t.bets \in Nat /\ t.gifts \in Nat /\ t.straddling \in Nat
  BY TallyParts
<1>2. /\ ops \in Nat /\ saves \in Nat /\ ops' \in Nat /\ saves' \in Nat
      /\ ops <= ops' /\ saves <= saves' /\ Due <= Due'
  BY BoundsGrow, BoundsAre DEF Types
<1>3. Due \in Int /\ Due' \in Int
  BY BoundsGrow, BoundsAre DEF Types, Due
<1>4. t.bets <= ops /\ t.gifts <= Due /\ t.straddling <= ops + 2 * saves
  BY DEF Within
<1>. QED
  BY <1>1, <1>2, <1>3, <1>4

\* What ends a run of main() leaves is typed.
LEMMA EndedTyped ==
  ASSUME Types, Ended, unsafe' \in BOOLEAN,
         file' \in {file, disk}, disk' \in {file, disk}
  PROVE  Types'
<1>1. /\ pc' = "off" /\ meters' = Zero /\ tally' = NoTally
      /\ httpOp' = None /\ sasOp' = None /\ rebootDue' = FALSE
      /\ saving' = [s \in Savers |-> Idle]
      /\ buffer' = [s \in Savers |-> Blank] /\ before' = [s \in Savers |-> Blank]
      /\ UNCHANGED <<ops, boots, saves>>
  BY DEF Ended
<1>2. Idle \in -1..3
  BY DEF Idle
<1>3. /\ saving' \in [Savers -> -1..3]
      /\ buffer' \in [Savers -> Snapshot] /\ before' \in [Savers -> Snapshot]
  BY <1>1, <1>2, BlankTyped
<1>4. file' \in {Absent, Torn} \cup Saved3 /\ disk' \in {Absent, Torn} \cup Saved3
  BY DEF Types
<1>. QED
  BY <1>1, <1>3, <1>4, BlankTyped DEF Types

\* Counts below the model's bounds.
LEMMA BelowBounds ==
  \A b, g, r, o, v, n \in Nat, d \in Int :
    /\ b <= o /\ g <= d /\ r <= o + 2 * v
    /\ o <= MaxOps /\ v <= MaxSaves /\ n <= MaxBoots /\ (d = n \/ d = n - 1)
    => b \in 0..MaxOps /\ g \in 0..MaxBoots /\ r \in 0..(MaxOps + 2 * MaxSaves)
BY BoundsAre

\* A tally within the bounds o, d and v of the next state.
LEMMA TallyFits ==
  ASSUME Types, Next, NEW b \in Nat, NEW g \in Nat, NEW r \in Nat,
         NEW o \in Nat, NEW d \in Int, NEW v \in Nat, o = ops', d = Due', v = saves',
         b <= o, g <= d, r <= o + 2 * v,
         tally' = [bets |-> b, gifts |-> g, straddling |-> r]
  PROVE  tally' \in Tally /\ Within(tally)'
<1>1. o <= MaxOps /\ v <= MaxSaves
  BY BoundsGrow, BoundsAre
<1>2. PICK n \in Nat : n = boots' /\ n <= MaxBoots
  BY BoundsGrow, BoundsAre
<1>3. d = IF pc' = "loaded" THEN n - 1 ELSE n
  BY <1>2 DEF Due
<1>4. d = n \/ d = n - 1
  BY <1>3, Zenon
<1>5. b \in 0..MaxOps /\ g \in 0..MaxBoots /\ r \in 0..(MaxOps + 2 * MaxSaves)
  BY <1>1, <1>2, <1>4, BelowBounds
<1>. QED
  BY <1>5 DEF Tally, Within

\* The tally of the meters stays within the bounds.
LEMMA TallyKept ==
  ASSUME Types, PhaseInv, CountInv, Next
  PROVE  tally' \in Tally /\ Within(tally)'
<1>. DEFINE T(b, g, r) == [bets |-> b, gifts |-> g, straddling |-> r]
<1>1. PICK b \in Nat, g \in Nat, r \in Nat :
        tally = T(b, g, r) /\ b <= ops /\ g <= Due /\ r <= ops + 2 * saves
  <2>1. /\ tally \in Tally /\ tally.bets <= ops /\ tally.gifts <= Due
        /\ tally.straddling <= ops + 2 * saves
    BY DEF Types, CountInv, Within
  <2>2. tally.bets \in Nat /\ tally.gifts \in Nat /\ tally.straddling \in Nat
    BY <2>1, TallyParts
  <2>3. tally = T(tally.bets, tally.gifts, tally.straddling)
    BY <2>1 DEF Tally
  <2>. QED
    BY <2>1, <2>2, <2>3
<1>2. PICK o \in Nat, v \in Nat, d \in Int, o2 \in Nat, v2 \in Nat, d2 \in Int :
        /\ o = ops /\ v = saves /\ d = Due
        /\ o2 = ops' /\ v2 = saves' /\ d2 = Due'
        /\ o <= o2 /\ v <= v2 /\ d <= d2
  <2>1. Due \in Int /\ Due' \in Int
    BY BoundsGrow, BoundsAre DEF Types, Due
  <2>2. ops \in Nat /\ saves \in Nat /\ ops' \in Nat /\ saves' \in Nat
    BY BoundsGrow, BoundsAre DEF Types
  <2>. QED
    BY <2>1, <2>2, BoundsGrow
<1>3. b <= o /\ g <= d /\ r <= o + 2 * v /\ o <= o2 /\ v <= v2 /\ d <= d2
  BY <1>1, <1>2
<1>4. b <= o2 /\ g <= d2 /\ r <= o2 + 2 * v2 /\ 0 <= d2
  BY <1>3
<1>5. CASE tally' = tally
  BY <1>1, <1>2, <1>4, <1>5, TallyFits
<1>6. CASE tally' = NoTally
  <2>1. tally' = T(0, 0, 0)
    BY <1>6 DEF NoTally
  <2>2. 0 \in Nat /\ 0 <= o2 /\ 0 <= d2 /\ 0 <= o2 + 2 * v2
    BY <1>4
  <2>. QED
    BY <1>2, <2>1, <2>2, TallyFits
<1>7. CASE file.kind = "meters" /\ tally' = file.tally
  <2>. DEFINE t == file.tally
  <2>1. t \in Tally /\ Within(t)
    BY <1>7, FileParts DEF Types, CountInv, WithinFile
  <2>2. t.bets \in Nat /\ t.gifts \in Nat /\ t.straddling \in Nat
    BY <2>1, TallyParts
  <2>3. t = T(t.bets, t.gifts, t.straddling)
    BY <2>1 DEF Tally
  <2>4. t.bets <= o /\ t.gifts <= d /\ t.straddling <= o + 2 * v
    BY <2>1, <1>2 DEF Within
  <2>. HIDE DEF t
  <2>5. t.bets <= o2 /\ t.gifts <= d2 /\ t.straddling <= o2 + 2 * v2
    BY <2>2, <2>4, <1>3
  <2>6. tally' = T(t.bets, t.gifts, t.straddling)
    BY <1>7, <2>3 DEF t
  <2>. QED
    BY <1>2, <2>2, <2>5, <2>6, TallyFits
<1>8. CASE StartUp
  <2>1. d2 = d + 1
    BY <1>2, <1>8, BoundsAre DEF StartUp, Due, Types
  <2>2. tally' = T(b, g + 1, r)
    BY <1>1, <1>8 DEF StartUp
  <2>3. g + 1 <= d2 /\ g + 1 \in Nat
    BY <1>3, <2>1
  <2>. QED
    BY <1>2, <1>4, <2>2, <2>3, TallyFits
<1>9. CASE Bet
  <2>1. o2 = o + 1 /\ tally' = T(b + 1, g, r)
    BY <1>1, <1>2, <1>9 DEF Bet
  <2>2. b + 1 <= o2 /\ b + 1 \in Nat
    BY <1>3, <2>1
  <2>. QED
    BY <1>2, <1>4, <2>1, <2>2, TallyFits
<1>10. CASE InsertBill \/ Transfer
  <2>1. tally' = T(b, g, r + 1) \/ tally' = tally
    BY <1>1, <1>10 DEF InsertBill, Transfer, Credited
  <2>2. o2 = o + 1
    BY <1>2, <1>10 DEF InsertBill, Transfer, Credited
  <2>3. r + 1 <= o2 + 2 * v2 /\ r + 1 \in Nat
    BY <1>3, <2>2
  <2>. QED
    BY <1>2, <1>4, <1>5, <2>1, <2>3, TallyFits
<1>11. CASE ShutDown \/ Reboot
  <2>1. PICK half \in {0, 1, 2} : tally' = T(b, g, r + half)
    BY <1>1, <1>11 DEF ShutDown, Reboot, Begin
  <2>2. v2 = v + 1
    BY <1>2, <1>11 DEF ShutDown, Reboot, Begin
  <2>3. r + half <= o2 + 2 * v2 /\ r + half \in Nat
    BY <1>3, <2>2
  <2>. QED
    BY <1>2, <1>4, <2>1, <2>3, TallyFits
<1>12. CASE Load
  BY <1>6, <1>7, <1>12 DEF Load
<1>13. CASE PortFails \/ Exit \/ Restart \/ PowerFails
  BY <1>6, <1>13 DEF PortFails, Exit, Restart, PowerFails, Ended
<1>14. CASE \/ CountBill \/ CountTransfer \/ WriteBack \/ Saved \/ RebootScheduled
            \/ \E s \in Savers : ReadMeter(s)
  <2>1. tally' = tally
    BY <1>14, Zenon DEF CountBill, CountTransfer, WriteBack, ReadMeter, Saved,
       RebootScheduled, Close
  <2>. QED
    BY <1>5, <2>1
<1>. QED
  BY <1>8, <1>9, <1>10, <1>11, <1>12, <1>13, <1>14 DEF Next

\* The meters are numbers.
LEMMA MetersAre ==
  ASSUME Types
  PROVE  /\ meters[Credits] \in Nat /\ meters[Bill] \in Nat /\ meters[Aft] \in Nat
         /\ ops \in Nat /\ boots \in Nat /\ saves \in Nat
BY KeysAre, BoundsAre DEF Types

\* Meters after an addition.
LEMMA Added ==
  ASSUME Types, NEW m \in Meters, NEW n \in Nat
  PROVE  /\ [meters EXCEPT ![m] = @ + n] \in [Meters -> Nat]
         /\ [meters EXCEPT ![m] = @ + n][m] = meters[m] + n
         /\ \A k \in Meters \ {m} : [meters EXCEPT ![m] = @ + n][k] = meters[k]
<1>1. meters \in [Meters -> Nat] /\ meters[m] + n \in Nat
  BY DEF Types
<1>. QED
  BY <1>1

\* What a saver has read after one more meter.
LEMMA ReadTyped ==
  ASSUME Types, CountInv, NEW s \in Savers, ReadMeter(s)
  PROVE  /\ buffer' \in [Savers -> Snapshot] /\ saving' \in [Savers -> -1..3]
         /\ saving[s] \in 0..2 /\ saving'[s] = saving[s] + 1
         /\ \A t \in Savers : t # s => buffer'[t] = buffer[t] /\ saving'[t] = saving[t]
         /\ buffer'[s].tally \in {tally, [buffer[s].tally EXCEPT !.straddling = tally.straddling]}
         /\ buffer'[s].ops = buffer[s].ops
         /\ buffer'[s].values =
              [buffer[s].values EXCEPT ![Keys[saving[s] + 1]] = meters[Keys[saving[s] + 1]]]
         /\ saving[s] = 0 => buffer'[s].tally = tally
         /\ saving[s] > 0 => buffer'[s].tally =
                               [buffer[s].tally EXCEPT !.straddling = tally.straddling]
<1>. DEFINE k == saving[s]
            key == Keys[k + 1]
            v == [buffer[s].values EXCEPT ![key] = meters[key]]
            t == IF key = Credits THEN tally
                 ELSE [buffer[s].tally EXCEPT !.straddling = tally.straddling]
<1>1. k \in -1..3 /\ k # -1 /\ k < 3
  BY KeysAre DEF Types, ReadMeter, Saving, Idle
<1>2. k \in 0..2
  BY <1>1
<1>3. key \in Meters /\ (key = Credits <=> k = 0)
  BY <1>2, KeysAre
<1>4. /\ buffer \in [Savers -> Snapshot] /\ saving \in [Savers -> -1..3]
      /\ meters \in [Meters -> Nat] /\ tally \in Tally
  BY DEF Types
<1>5. buffer[s] \in Snapshot /\ buffer[s].tally \in Tally /\ buffer[s].values \in [Meters -> Nat]
  BY <1>4, SnapshotParts
<1>6. v \in [Meters -> Nat]
  BY <1>3, <1>4, <1>5
<1>7. t \in Tally
  BY <1>4, <1>5 DEF Tally
<1>8. buffer' = [buffer EXCEPT ![s].values[key] = meters[key], ![s].tally = t]
  BY DEF ReadMeter
<1>9. saving' = [saving EXCEPT ![s] = k + 1]
  BY DEF ReadMeter
<1>. HIDE DEF k, key, t
<1>10. buffer[s] = [values |-> buffer[s].values, tally |-> buffer[s].tally, ops |-> buffer[s].ops]
  BY <1>5 DEF Snapshot
<1>11. buffer' = [buffer EXCEPT ![s] = [values |-> v, tally |-> t, ops |-> buffer[s].ops]]
  <2>. DEFINE b1 == [buffer EXCEPT ![s].values[key] = meters[key]]
  <2>1. buffer' = [b1 EXCEPT ![s].tally = t]
    BY <1>8
  <2>2. b1 = [buffer EXCEPT ![s] = [buffer[s] EXCEPT !.values = v]]
    BY <1>4
  <2>3. [buffer[s] EXCEPT !.values = v] =
          [values |-> v, tally |-> buffer[s].tally, ops |-> buffer[s].ops]
    BY <1>10
  <2>4. b1[s] = [values |-> v, tally |-> buffer[s].tally, ops |-> buffer[s].ops]
    BY <2>2, <2>3, <1>4
  <2>. HIDE DEF v, b1
  <2>5. buffer' = [b1 EXCEPT ![s] = [b1[s] EXCEPT !.tally = t]]
    BY <2>1
  <2>6. [b1[s] EXCEPT !.tally = t] = [values |-> v, tally |-> t, ops |-> buffer[s].ops]
    BY <2>4
  <2>7. buffer' = [b1 EXCEPT ![s] = [values |-> v, tally |-> t, ops |-> buffer[s].ops]]
    BY <2>5, <2>6
  <2>. QED
    BY <2>2, <2>7, <1>4
<1>12. [values |-> v, tally |-> t, ops |-> buffer[s].ops] \in Snapshot
  BY <1>5, <1>6, <1>7 DEF Snapshot
<1>13. buffer' \in [Savers -> Snapshot] /\ buffer'[s] = [values |-> v, tally |-> t, ops |-> buffer[s].ops]
  BY <1>4, <1>11, <1>12
<1>14. \A u \in Savers : u # s => buffer'[u] = buffer[u] /\ saving'[u] = saving[u]
  BY <1>4, <1>9, <1>11
<1>15. k + 1 \in -1..3
  BY <1>2
<1>16. saving' \in [Savers -> -1..3] /\ saving'[s] = k + 1
  BY <1>4, <1>9, <1>15
<1>17. /\ k = 0 => t = tally
       /\ k > 0 => t = [buffer[s].tally EXCEPT !.straddling = tally.straddling]
       /\ t \in {tally, [buffer[s].tally EXCEPT !.straddling = tally.straddling]}
  BY <1>2, <1>3 DEF t
<1>. QED
  BY <1>2, <1>13, <1>14, <1>16, <1>17 DEF k, key

\* What a save writes.
LEMMA ContentsTyped ==
  ASSUME Types, CountInv, NEW s \in Savers
  PROVE  Contents(s) \in Saved3
<1>1. /\ buffer[s].values \in [Meters -> Nat] /\ buffer[s].tally \in Tally
      /\ before[s].values \in [Meters -> Nat] /\ before[s].ops \in 0..MaxOps
      /\ meters \in [Meters -> Nat]
  <2>1. buffer[s] \in Snapshot /\ before[s] \in Snapshot /\ meters \in [Meters -> Nat]
    BY DEF Types
  <2>. QED
    BY <2>1, SnapshotParts
<1>2. before[s].ops <= ops /\ ops \in 0..MaxOps
  BY DEF Types, CountInv
<1>3. ops - before[s].ops \in 0..MaxOps
  BY <1>1, <1>2, BoundsAre
<1>. QED
  BY <1>1, <1>3 DEF Contents, Saved3

\* Every step keeps the types.
LEMMA TypesKept ==
  ASSUME Types, PhaseInv, CountInv, Next
  PROVE  Types'
<1>1. /\ tally' \in Tally
      /\ ops' \in 0..MaxOps /\ saves' \in 0..MaxSaves /\ boots' \in 0..MaxBoots
  BY TallyKept, BoundsGrow
<1>2. CASE Load
  <2>1. meters' \in [Meters -> Nat]
    BY <1>2, FileParts, BlankTyped DEF Load, Types
  <2>2. /\ pc' = "loaded"
        /\ UNCHANGED <<httpOp, sasOp, saving, buffer, file, disk, rebootDue, before, unsafe>>
    BY <1>2 DEF Load
  <2>. QED
    BY <1>1, <2>1, <2>2 DEF Types
<1>3. CASE StartUp
  <2>1. meters' \in [Meters -> Nat]
    BY <1>3, Added, BoundsAre, KeysAre DEF StartUp
  <2>2. /\ pc' = "running" /\ unsafe' = FALSE
        /\ UNCHANGED <<httpOp, sasOp, saving, buffer, file, disk, rebootDue, before>>
    BY <1>3 DEF StartUp
  <2>. QED
    BY <1>1, <2>1, <2>2 DEF Types
<1>4. CASE PortFails \/ Exit \/ Restart \/ PowerFails
  <2>1. Interrupted \in BOOLEAN
    BY DEF Interrupted
  <2>2. unsafe \in BOOLEAN
    BY DEF Types
  <2>3. /\ Ended /\ unsafe' \in BOOLEAN
        /\ file' \in {file, disk} /\ disk' \in {file, disk}
    BY <1>4, <2>1, <2>2 DEF PortFails, Exit, Restart, PowerFails
  <2>. QED
    BY <2>3, EndedTyped
<1>5. CASE InsertBill
  <2>1. meters' \in [Meters -> Nat]
    BY <1>5, Added, KeysAre DEF InsertBill, Credited
  <2>2. /\ httpOp' = Bill
        /\ UNCHANGED <<pc, sasOp, saving, buffer, file, disk, rebootDue, before, unsafe>>
    BY <1>5 DEF InsertBill, Bill
  <2>. QED
    BY <1>1, <2>1, <2>2 DEF Types
<1>6. CASE Transfer
  <2>1. meters' \in [Meters -> Nat]
    BY <1>6, Added, KeysAre DEF Transfer, Credited
  <2>2. /\ sasOp' = Aft
        /\ UNCHANGED <<pc, httpOp, saving, buffer, file, disk, rebootDue, before, unsafe>>
    BY <1>6 DEF Transfer, Aft
  <2>. QED
    BY <1>1, <2>1, <2>2 DEF Types
<1>7. CASE CountBill \/ CountTransfer
  <2>1. meters' \in [Meters -> Nat]
    BY <1>7 DEF CountBill, CountTransfer, Counted, Types
  <2>2. /\ httpOp' \in {None, httpOp} /\ sasOp' \in {None, sasOp}
        /\ UNCHANGED <<pc, saving, buffer, file, disk, rebootDue, before, unsafe>>
    BY <1>7 DEF CountBill, CountTransfer
  <2>. QED
    BY <1>1, <2>1, <2>2 DEF Types
<1>8. CASE Bet
  <2>1. meters[Credits] > 0 /\ meters' = [meters EXCEPT ![Credits] = @ - 1]
    BY <1>8 DEF Bet
  <2>2. meters' \in [Meters -> Nat]
    BY <2>1, KeysAre DEF Types
  <2>3. UNCHANGED <<pc, httpOp, sasOp, saving, buffer, file, disk, rebootDue, before, unsafe>>
    BY <1>8 DEF Bet
  <2>. QED
    BY <1>1, <2>2, <2>3 DEF Types
<1>9. ASSUME NEW s \in Savers, Begin(s), pc' \in {pc, "saving"}, UNCHANGED rebootDue
      PROVE  Types'
  <2>1. /\ saving' = [saving EXCEPT ![s] = 0]
        /\ before' = [before EXCEPT ![s] = [values |-> meters, tally |-> NoTally, ops |-> ops]]
        /\ file' = Torn
        /\ unsafe' = (unsafe \/ \E t \in Savers : Saving(t))
        /\ UNCHANGED <<meters, httpOp, sasOp, buffer, disk>>
    BY <1>9 DEF Begin
  <2>2. [values |-> meters, tally |-> NoTally, ops |-> ops] \in Snapshot
    BY BlankTyped DEF Snapshot, Types
  <2>3. before' \in [Savers -> Snapshot]
    BY <2>1, <2>2 DEF Types
  <2>4. saving' \in [Savers -> -1..3]
    BY <2>1 DEF Types
  <2>5. unsafe' \in BOOLEAN
    BY <2>1
  <2>. QED
    BY <1>1, <1>9, <2>1, <2>3, <2>4, <2>5 DEF Types
<1>10. CASE ShutDown \/ Reboot
  <2>1. "main" \in Savers /\ "http" \in Savers
    BY DEF Savers
  <2>. QED
    BY <1>9, <1>10, <2>1 DEF ShutDown, Reboot
<1>11. ASSUME NEW s \in Savers, Close(s), pc' \in {pc, "stopping"},
              rebootDue' \in {rebootDue, TRUE}
       PROVE  Types'
  <2>1. /\ saving' = [saving EXCEPT ![s] = Idle]
        /\ buffer' = [buffer EXCEPT ![s] = Blank] /\ before' = [before EXCEPT ![s] = Blank]
        /\ file' \in {Contents(s), Torn}
        /\ UNCHANGED <<meters, httpOp, sasOp, disk, unsafe>>
    BY <1>11 DEF Close
  <2>2. file' \in {Absent, Torn} \cup Saved3
    BY <2>1, ContentsTyped
  <2>3. buffer' \in [Savers -> Snapshot] /\ before' \in [Savers -> Snapshot]
    BY <2>1, BlankTyped DEF Types
  <2>4. saving' \in [Savers -> -1..3]
    BY <2>1 DEF Types, Idle
  <2>5. rebootDue' \in BOOLEAN
    BY <1>11 DEF Types
  <2>. QED
    BY <1>1, <1>11, <2>1, <2>2, <2>3, <2>4, <2>5 DEF Types
<1>12. CASE Saved \/ RebootScheduled
  <2>1. "main" \in Savers /\ "http" \in Savers
    BY DEF Savers
  <2>. QED
    BY <1>11, <1>12, <2>1 DEF Saved, RebootScheduled
<1>13. ASSUME NEW s \in Savers, ReadMeter(s)
       PROVE  Types'
  <2>1. buffer' \in [Savers -> Snapshot] /\ saving' \in [Savers -> -1..3]
    BY <1>13, ReadTyped
  <2>2. UNCHANGED <<pc, meters, httpOp, sasOp, file, disk, rebootDue, before, unsafe>>
    BY <1>13, Zenon DEF ReadMeter
  <2>. QED
    BY <1>1, <2>1, <2>2 DEF Types
<1>14. CASE WriteBack
  BY <1>1, <1>14 DEF WriteBack, Types
<1>. QED
  BY <1>2, <1>3, <1>4, <1>5, <1>6, <1>7, <1>8, <1>10, <1>12, <1>13, <1>14 DEF Next

-----------------------------------------------------------------------------
(* Who is at work                                                          *)

\* Both savers, and when neither saves.
LEMMA SaversAre == "main" \in Savers /\ "http" \in Savers /\ \A s \in Savers : s \in {"main", "http"}
BY DEF Savers

\* After the end of a run nothing is at work.
LEMMA EndedQuiet ==
  ASSUME Ended
  PROVE  /\ pc' = "off" /\ httpOp' = None /\ sasOp' = None /\ rebootDue' = FALSE
         /\ \A s \in Savers : saving'[s] = Idle
BY DEF Ended

\* Before main() runs its threads, nothing saves.
LEMMA NothingSaves ==
  ASSUME PhaseInv, pc \in {"off", "loaded"}
  PROVE  \A s \in Savers : ~Saving(s)
BY SaversAre DEF PhaseInv

\* A save begun, and one closed.
LEMMA Begun ==
  ASSUME Types, NEW s \in Savers, Begin(s)
  PROVE  /\ saving'[s] = 0 /\ saving'[s] # Idle
         /\ \A t \in Savers : t # s => saving'[t] = saving[t]
BY DEF Types, Begin, Idle

\* It ends a save, and the other saver is where it was.
LEMMA Closed ==
  ASSUME Types, NEW s \in Savers, Close(s)
  PROVE  /\ saving[s] = 3 /\ saving[s] # Idle /\ saving'[s] = Idle
         /\ \A t \in Savers : t # s => saving'[t] = saving[t]
BY KeysAre DEF Types, Close, Idle

\* A read keeps who saves.
LEMMA StillSaving ==
  ASSUME Types, CountInv, NEW s \in Savers, ReadMeter(s)
  PROVE  \A t \in Savers : Saving(t)' <=> Saving(t)
<1>1. /\ saving[s] \in 0..2 /\ saving'[s] = saving[s] + 1
      /\ \A t \in Savers : t # s => saving'[t] = saving[t]
  BY ReadTyped
<1>2. saving[s] # -1 /\ saving[s] + 1 # -1
  BY <1>1
<1>. QED
  BY <1>1, <1>2 DEF Saving, Idle

\* Every step keeps who can be at work when.
LEMMA PhaseKept ==
  ASSUME Types, PhaseInv, CountInv, Next
  PROVE  PhaseInv'
<1>. USE SaversAre
<1>1. CASE Load
  BY <1>1 DEF Load, PhaseInv, Saving
<1>2. CASE StartUp
  BY <1>2 DEF StartUp, PhaseInv, Saving
<1>3. CASE PortFails \/ Exit \/ Restart \/ PowerFails
  BY <1>3, EndedQuiet DEF PortFails, Exit, Restart, PowerFails, PhaseInv, Saving
<1>4. CASE InsertBill \/ Bet
  BY <1>4 DEF InsertBill, Bet, HttpIdle, ThreadsRun, PhaseInv, Saving
<1>5. CASE Transfer
  BY <1>5 DEF Transfer, ThreadsRun, PhaseInv, Saving
<1>6. CASE CountBill \/ CountTransfer
  BY <1>6 DEF CountBill, CountTransfer, PhaseInv, Saving
<1>7. CASE ShutDown
  BY <1>7, Begun DEF ShutDown, Begin, PhaseInv, Saving
<1>8. CASE Reboot
  BY <1>8, Begun DEF Reboot, Begin, HttpIdle, ThreadsRun, PhaseInv, Saving
<1>9. CASE Saved
  BY <1>9, Closed DEF Saved, Close, PhaseInv, Saving
<1>10. CASE RebootScheduled
  BY <1>10, Closed DEF RebootScheduled, Close, PhaseInv, Saving
<1>11. ASSUME NEW s \in Savers, ReadMeter(s)
       PROVE  PhaseInv'
  <2>1. Saving("main")' <=> Saving("main")
    BY <1>11, StillSaving
  <2>2. Saving("http")' <=> Saving("http")
    BY <1>11, StillSaving
  <2>3. UNCHANGED <<pc, httpOp, sasOp, rebootDue>>
    BY <1>11, Zenon DEF ReadMeter
  <2>. QED
    BY <2>1, <2>2, <2>3 DEF PhaseInv
<1>12. CASE WriteBack
  BY <1>12 DEF WriteBack, PhaseInv, Saving
<1>. QED
  BY <1>1, <1>2, <1>3, <1>4, <1>5, <1>6, <1>7, <1>8, <1>9, <1>10, <1>11, <1>12 DEF Next

-----------------------------------------------------------------------------
(* What the histories count                                                *)

\* The empty tally is within any bounds.
LEMMA NoTallyWithin ==
  ASSUME Types, CountInv
  PROVE  Within(NoTally)
<1>1. tally.gifts \in Nat /\ tally.gifts <= Due
  BY TallyParts DEF Types, CountInv, Within
<1>2. Due \in Int
  BY BoundsAre DEF Types, Due
<1>3. 0 <= Due /\ 0 <= ops /\ 0 <= ops + 2 * saves
  BY <1>1, <1>2, MetersAre
<1>. QED
  BY <1>3 DEF NoTally, Within

\* A read keeps what a saver counts within the bounds.
LEMMA ReadWithin ==
  ASSUME Types, CountInv, NEW s \in Savers, ReadMeter(s)
  PROVE  buffer'[s].tally \in Tally /\ Within(buffer'[s].tally)
<1>1. buffer[s].tally \in Tally /\ Within(buffer[s].tally) /\ tally \in Tally /\ Within(tally)
  BY SnapshotParts DEF Types, CountInv
<1>2. buffer'[s].tally \in {tally, [buffer[s].tally EXCEPT !.straddling = tally.straddling]}
  BY ReadTyped
<1>3. [buffer[s].tally EXCEPT !.straddling = tally.straddling] =
        [bets |-> buffer[s].tally.bets, gifts |-> buffer[s].tally.gifts,
         straddling |-> tally.straddling]
  BY <1>1 DEF Tally
<1>4. [bets |-> buffer[s].tally.bets, gifts |-> buffer[s].tally.gifts,
       straddling |-> tally.straddling] \in Tally
  BY <1>1 DEF Tally
<1>. QED
  BY <1>1, <1>2, <1>3, <1>4 DEF Within

\* Every step keeps the histories' counts within what was done.
LEMMA CountsKept ==
  ASSUME Types, PhaseInv, CountInv, Next
  PROVE  CountInv'
<1>1. Within(tally)'
  BY TallyKept
<1>2. /\ NoTally \in Tally /\ Within(NoTally)
      /\ Blank.tally = NoTally /\ Blank.ops = 0
  BY NoTallyWithin, BlankTyped
<1>3. \A s \in Savers : /\ buffer[s].tally \in Tally /\ Within(buffer[s].tally)
                        /\ before[s].ops \in Nat /\ before[s].ops <= ops
                        /\ before[s].tally = NoTally
  BY SnapshotParts, BoundsAre DEF Types, CountInv
<1>4. ops \in Nat /\ ops' \in Nat /\ ops <= ops'
  BY BoundsGrow, BoundsAre, MetersAre
<1>5. ASSUME NEW s \in Savers,
             \/ buffer'[s] = buffer[s]
             \/ buffer'[s] = Blank
             \/ buffer'[s].tally \in Tally /\ Within(buffer'[s].tally)
      PROVE  Within(buffer[s].tally)'
  <2>1. buffer'[s].tally \in Tally /\ Within(buffer'[s].tally)
    BY <1>2, <1>3, <1>5
  <2>. DEFINE t == buffer'[s].tally
  <2>. HIDE DEF t
  <2>2. t.bets <= ops' /\ t.gifts <= Due' /\ t.straddling <= ops' + 2 * saves'
    BY <2>1, WithinKept DEF t
  <2>. QED
    BY <2>2 DEF Within, t
<1>6. ASSUME NEW s \in Savers,
             \/ before'[s] = before[s]
             \/ before'[s] = Blank
             \/ before'[s] = [values |-> meters, tally |-> NoTally, ops |-> ops]
      PROVE  before'[s].ops <= ops' /\ before'[s].tally = NoTally
  <2>1. before'[s].ops \in {before[s].ops, 0, ops} /\ before'[s].tally = NoTally
    BY <1>2, <1>3, <1>6
  <2>. QED
    BY <2>1, <1>3, <1>4
<1>7. \A f \in {Absent, Torn} \cup Saved3 :
        WithinFile(f) /\ f.kind = "meters" =>
          f.tally.bets <= ops' /\ f.tally.gifts <= Due' /\ f.tally.straddling <= ops' + 2 * saves'
  BY FileParts, WithinKept DEF WithinFile
<1>8. /\ file \in {Absent, Torn} \cup Saved3 /\ WithinFile(file)
      /\ disk \in {Absent, Torn} \cup Saved3 /\ WithinFile(disk)
  BY DEF Types, CountInv
<1>9. ASSUME NEW s \in Savers
      PROVE  Contents(s) \in Saved3 /\ WithinFile(Contents(s))
  BY <1>3, ContentsTyped DEF Contents, WithinFile
<1>10. Torn \in {Absent, Torn} \cup Saved3 /\ WithinFile(Torn)
  BY DEF Torn, WithinFile
<1>11. ASSUME \/ file' \in {file, disk, Torn}
              \/ \E s \in Savers : file' = Contents(s)
       PROVE  WithinFile(file)'
  <2>1. file' \in {Absent, Torn} \cup Saved3 /\ WithinFile(file')
    BY <1>8, <1>9, <1>10, <1>11
  <2>. DEFINE f == file'
  <2>. HIDE DEF f
  <2>2. f.kind = "meters" =>
          f.tally.bets <= ops' /\ f.tally.gifts <= Due' /\ f.tally.straddling <= ops' + 2 * saves'
    BY <1>7, <2>1 DEF f
  <2>. QED
    BY <2>2 DEF f, WithinFile, Within
<1>12. ASSUME disk' \in {file, disk}
       PROVE  WithinFile(disk)'
  <2>1. disk' \in {Absent, Torn} \cup Saved3 /\ WithinFile(disk')
    BY <1>8, <1>12
  <2>. DEFINE f == disk'
  <2>. HIDE DEF f
  <2>2. f.kind = "meters" =>
          f.tally.bets <= ops' /\ f.tally.gifts <= Due' /\ f.tally.straddling <= ops' + 2 * saves'
    BY <1>7, <2>1 DEF f
  <2>. QED
    BY <2>2 DEF f, WithinFile, Within
<1>13. SUFFICES /\ \A s \in Savers : \/ buffer'[s] = buffer[s]
                                     \/ buffer'[s] = Blank
                                     \/ buffer'[s].tally \in Tally /\ Within(buffer'[s].tally)
                /\ \A s \in Savers :
                     \/ before'[s] = before[s]
                     \/ before'[s] = Blank
                     \/ before'[s] = [values |-> meters, tally |-> NoTally, ops |-> ops]
                /\ file' \in {file, disk, Torn} \/ \E s \in Savers : file' = Contents(s)
                /\ disk' \in {file, disk}
  BY <1>1, <1>5, <1>6, <1>11, <1>12 DEF CountInv
<1>14. CASE \/ Load \/ StartUp \/ InsertBill \/ CountBill \/ Bet \/ Transfer
            \/ CountTransfer \/ WriteBack
  <2>1. buffer' = buffer /\ before' = before /\ file' = file /\ disk' \in {file, disk}
    BY <1>14 DEF Load, StartUp, InsertBill, CountBill, Bet, Transfer, CountTransfer, WriteBack
  <2>. QED
    BY <2>1
<1>15. CASE PortFails \/ Exit \/ Restart \/ PowerFails
  <2>1. /\ buffer' = [s \in Savers |-> Blank] /\ before' = [s \in Savers |-> Blank]
        /\ file' \in {file, disk} /\ disk' \in {file, disk}
    BY <1>15 DEF PortFails, Exit, Restart, PowerFails, Ended
  <2>. QED
    BY <2>1
<1>16. CASE ShutDown \/ Reboot
  <2>1. PICK s \in Savers : Begin(s)
    BY <1>16, SaversAre DEF ShutDown, Reboot
  <2>2. /\ before' = [before EXCEPT ![s] = [values |-> meters, tally |-> NoTally, ops |-> ops]]
        /\ buffer' = buffer /\ file' = Torn /\ disk' = disk
    BY <2>1 DEF Begin
  <2>3. \A t \in Savers : before'[t] \in
          {before[t], [values |-> meters, tally |-> NoTally, ops |-> ops]}
    BY <2>2 DEF Types
  <2>. QED
    BY <2>2, <2>3
<1>17. CASE Saved \/ RebootScheduled
  <2>1. PICK s \in Savers : Close(s)
    BY <1>17, SaversAre DEF Saved, RebootScheduled
  <2>2. /\ buffer' = [buffer EXCEPT ![s] = Blank] /\ before' = [before EXCEPT ![s] = Blank]
        /\ file' \in {Contents(s), Torn} /\ disk' = disk
    BY <2>1 DEF Close
  <2>3. \A t \in Savers : buffer'[t] \in {buffer[t], Blank} /\ before'[t] \in {before[t], Blank}
    BY <2>2 DEF Types
  <2>. QED
    BY <2>2, <2>3
<1>18. ASSUME NEW s \in Savers, ReadMeter(s)
       PROVE  /\ \A t \in Savers : \/ buffer'[t] = buffer[t]
                                   \/ buffer'[t].tally \in Tally /\ Within(buffer'[t].tally)
              /\ before' = before /\ file' = file /\ disk' = disk
  <2>1. before' = before /\ file' = file /\ disk' = disk
    BY <1>18, Zenon DEF ReadMeter
  <2>2. \A t \in Savers : t # s => buffer'[t] = buffer[t]
    BY <1>18, ReadTyped
  <2>3. buffer'[s].tally \in Tally /\ Within(buffer'[s].tally)
    BY <1>18, ReadWithin
  <2>. QED
    BY <2>1, <2>2, <2>3
<1>. QED
  BY <1>14, <1>15, <1>16, <1>17, <1>18, Zenon DEF Next

-----------------------------------------------------------------------------
(* The audit: what becomes of the errors                                   *)

\* What the initial credits and the bets come to.
LEMMA PaidIs ==
  ASSUME NEW t \in Tally
  PROVE  /\ Paid(t) \in Int /\ Paid(NoTally) = 0
         /\ \A r : Paid([t EXCEPT !.straddling = r]) = Paid(t)
         /\ Paid([t EXCEPT !.bets = @ + 1]) = Paid(t) - 1
         /\ Paid([t EXCEPT !.gifts = @ + 1]) = Paid(t) + Gift
<1>1. t.bets \in Nat /\ t.gifts \in Nat /\ Gift \in Nat
  BY TallyParts, BoundsAre
<1>2. \A g \in Nat : Gift * g \in Nat /\ Gift * (g + 1) = Gift * g + Gift
  BY <1>1
<1>3. Paid(t) \in Int
  BY <1>1, <1>2 DEF Paid
<1>4. Paid(NoTally) = 0
  BY <1>1 DEF Paid, NoTally
<1>5. \A r : /\ [t EXCEPT !.straddling = r].gifts = t.gifts
             /\ [t EXCEPT !.straddling = r].bets = t.bets
  BY DEF Tally
<1>6. /\ [t EXCEPT !.bets = @ + 1].gifts = t.gifts
      /\ [t EXCEPT !.bets = @ + 1].bets = t.bets + 1
      /\ [t EXCEPT !.gifts = @ + 1].gifts = t.gifts + 1
      /\ [t EXCEPT !.gifts = @ + 1].bets = t.bets
  BY DEF Tally
<1>7. Paid([t EXCEPT !.bets = @ + 1]) = Gift * t.gifts - (t.bets + 1)
  BY <1>6 DEF Paid
<1>8. Paid([t EXCEPT !.gifts = @ + 1]) = Gift * (t.gifts + 1) - t.bets
  BY <1>6 DEF Paid
<1>9. Paid(t) = Gift * t.gifts - t.bets
  BY DEF Paid
<1>10. Paid([t EXCEPT !.bets = @ + 1]) = Paid(t) - 1
  BY <1>1, <1>2, <1>7, <1>9
<1>11. Paid([t EXCEPT !.gifts = @ + 1]) = Paid(t) + Gift
  BY <1>1, <1>2, <1>8, <1>9
<1>. QED
  BY <1>3, <1>4, <1>5, <1>10, <1>11 DEF Paid

\* How a step that reads nothing can move the straddling inflows, the half done
\* ones and what a saver has read: an inflow credited, a bill counted, a transfer
\* counted, a save begun.
Move(dm, dh, ds, drc, drb) ==
  \/ dm = 1 /\ dh \in {0, 1} /\ ds = 1 - dh /\ drc = 0 /\ drb = 0
  \/ dm = 0 /\ dh = -1 /\ ds = 0 /\ drc = -1 /\ drb = 0
  \/ dm = 0 /\ dh = 0 /\ ds = -1 /\ drc = -1 /\ drb = -1
  \/ dm >= 0 /\ dh = 0 /\ ds = 0 /\ drc = 0 /\ drb = 0

\* An error is a number.
LEMMA OffIsInt == \A c, b, a \in Int, t \in Tally : Off(c, b, a, t) \in Int
<1>1. ASSUME NEW c \in Int, NEW b \in Int, NEW a \in Int, NEW t \in Tally
      PROVE  Off(c, b, a, t) \in Int
  <2>1. PICK p \in Int : p = Paid(t)
    BY PaidIs
  <2>. QED
    BY <2>1 DEF Off
<1>. QED
  BY <1>1

\* The errors are numbers.
LEMMA NumbersAre ==
  ASSUME Types
  PROVE  /\ Live \in Int /\ tally.straddling \in Nat
         /\ SasHalf \in {0, 1} /\ HttpHalf \in {0, 1}
         /\ Off(meters[Credits], meters[Bill], meters[Aft], tally) \in Int
         /\ \A s \in Savers :
              /\ saving[s] \in Int /\ buffer[s].tally \in Tally
              /\ buffer[s].tally.straddling \in Nat
              /\ buffer[s].values[Credits] \in Nat /\ buffer[s].values[Bill] \in Nat
              /\ buffer[s].values[Aft] \in Nat
              /\ ReadCredits(s) \in Int /\ ReadBill(s) \in Int
              /\ ReadAll(buffer[s].values, buffer[s].tally) \in Int
<1>1. /\ meters[Credits] \in Int /\ meters[Bill] \in Int /\ meters[Aft] \in Int
      /\ tally \in Tally /\ tally.straddling \in Nat
  BY MetersAre, TallyParts DEF Types
<1>2. SasHalf \in {0, 1} /\ HttpHalf \in {0, 1}
  BY DEF SasHalf, HttpHalf
<1>3. Off(meters[Credits], meters[Bill], meters[Aft], tally) \in Int
  BY <1>1, OffIsInt
<1>4. Live \in Int
  BY <1>2, <1>3 DEF Live
<1>5. ASSUME NEW s \in Savers
      PROVE  /\ saving[s] \in Int /\ buffer[s].tally \in Tally
             /\ buffer[s].tally.straddling \in Nat
             /\ buffer[s].values[Credits] \in Nat /\ buffer[s].values[Bill] \in Nat
             /\ buffer[s].values[Aft] \in Nat
             /\ ReadCredits(s) \in Int /\ ReadBill(s) \in Int
             /\ ReadAll(buffer[s].values, buffer[s].tally) \in Int
  <2>1. buffer[s] \in Snapshot /\ saving[s] \in Int
    BY DEF Types
  <2>2. /\ buffer[s].tally \in Tally /\ buffer[s].tally.straddling \in Nat
        /\ buffer[s].values[Credits] \in Nat /\ buffer[s].values[Bill] \in Nat
        /\ buffer[s].values[Aft] \in Nat
    BY <2>1, SnapshotParts, TallyParts, KeysAre
  <2>. QED
    BY <1>1, <2>1, <2>2, OffIsInt DEF ReadCredits, ReadBill, ReadAll
<1>. QED
  BY <1>1, <1>2, <1>3, <1>4, <1>5

\* How a step moves the meters, what the tally comes to, and the half done inflows.
Moved(dc, db, da, dp, ds, dh) ==
  /\ meters'[Credits] = meters[Credits] + dc
  /\ meters'[Bill] = meters[Bill] + db
  /\ meters'[Aft] = meters[Aft] + da
  /\ Paid(tally') = Paid(tally) + dp
  /\ SasHalf' = SasHalf + ds /\ HttpHalf' = HttpHalf + dh

\* How the errors move when the meters, the tally and the half done inflows do
\* and the savers read nothing.
LEMMA LiveMoves ==
  ASSUME Types, tally' \in Tally,
         NEW dc \in Int, NEW db \in Int, NEW da \in Int, NEW dp \in Int,
         NEW ds \in Int, NEW dh \in Int, Moved(dc, db, da, dp, ds, dh)
  PROVE  /\ Live' = Live + (dc - db - da - dp - ds - dh)
         /\ \A s \in Savers :
              buffer'[s] = buffer[s] =>
                /\ ReadCredits(s)' = ReadCredits(s) - db - da
                /\ ReadBill(s)' = ReadBill(s) - da
                /\ ReadAll(buffer'[s].values, buffer'[s].tally)
                     = ReadAll(buffer[s].values, buffer[s].tally)
<1>1. PICK c \in Int, b \in Int, a \in Int, t \in Tally, u \in Tally, sh \in Int, hh \in Int :
        /\ c = meters[Credits] /\ b = meters[Bill] /\ a = meters[Aft]
        /\ t = tally /\ u = tally' /\ sh = SasHalf /\ hh = HttpHalf
  <2>1. SasHalf \in Int /\ HttpHalf \in Int
    BY NumbersAre
  <2>. QED
    BY <2>1, MetersAre DEF Types
<1>2. Live = Off(c, b, a, t) - sh - hh
  BY <1>1 DEF Live
<1>3. Live' = Off(c + dc, b + db, a + da, u) - (sh + ds) - (hh + dh)
  BY <1>1 DEF Live, Moved
<1>4. PICK p \in Int : p = Paid(t)
  BY PaidIs
<1>5. Paid(u) = p + dp
  BY <1>1, <1>4 DEF Moved
<1>6. Live = (c - (b + a + p)) - sh - hh
  BY <1>2, <1>4 DEF Off
<1>7. Live' = ((c + dc) - ((b + db) + (a + da) + (p + dp))) - (sh + ds) - (hh + dh)
  BY <1>3, <1>5 DEF Off
<1>8. Live' = Live + (dc - db - da - dp - ds - dh)
  <2>1. ((c + dc) - ((b + db) + (a + da) + (p + dp))) - (sh + ds) - (hh + dh)
          = ((c - (b + a + p)) - sh - hh) + (dc - db - da - dp - ds - dh)
    OBVIOUS
  <2>. QED
    BY <1>6, <1>7, <2>1
<1>9. ASSUME NEW s \in Savers, buffer'[s] = buffer[s]
      PROVE  /\ ReadCredits(s)' = ReadCredits(s) - db - da
             /\ ReadBill(s)' = ReadBill(s) - da
             /\ ReadAll(buffer'[s].values, buffer'[s].tally)
                  = ReadAll(buffer[s].values, buffer[s].tally)
  <2>1. PICK rc \in Int, rb \in Int, rt \in Tally :
          rc = buffer[s].values[Credits] /\ rb = buffer[s].values[Bill] /\ rt = buffer[s].tally
    BY NumbersAre
  <2>2. /\ ReadCredits(s) = Off(rc, b, a, rt) /\ ReadCredits(s)' = Off(rc, b + db, a + da, rt)
        /\ ReadBill(s) = Off(rc, rb, a, rt) /\ ReadBill(s)' = Off(rc, rb, a + da, rt)
    BY <1>1, <1>9, <2>1 DEF ReadCredits, ReadBill, Moved
  <2>3. PICK pd \in Int : pd = Paid(rt)
    BY PaidIs
  <2>4. /\ Off(rc, b + db, a + da, rt) = rc - ((b + db) + (a + da) + pd)
        /\ Off(rc, b, a, rt) = rc - (b + a + pd)
        /\ Off(rc, rb, a + da, rt) = rc - (rb + (a + da) + pd)
        /\ Off(rc, rb, a, rt) = rc - (rb + a + pd)
    BY <2>3 DEF Off
  <2>5. /\ rc - ((b + db) + (a + da) + pd) = (rc - (b + a + pd)) - db - da
        /\ rc - (rb + (a + da) + pd) = (rc - (rb + a + pd)) - da
    OBVIOUS
  <2>. QED
    BY <1>9, <2>2, <2>4, <2>5
<1>. QED
  BY <1>8, <1>9

\* Such a step keeps the error of a save within its bounds.
LEMMA SaverMoves ==
  ASSUME Types, NEW s \in Savers, SaverErr(s),
         NEW dm \in Int, NEW dh \in Int, NEW ds \in Int, NEW drc \in Int, NEW drb \in Int,
         Move(dm, dh, ds, drc, drb),
         saving'[s] = saving[s], buffer'[s] = buffer[s], Live' = Live,
         tally'.straddling = tally.straddling + dm,
         SasHalf' = SasHalf + ds, HttpHalf' = HttpHalf + dh,
         ReadCredits(s)' = ReadCredits(s) + drc, ReadBill(s)' = ReadBill(s) + drb,
         ReadAll(buffer'[s].values, buffer'[s].tally) = ReadAll(buffer[s].values, buffer[s].tally)
  PROVE  SaverErr(s)'
<1>. DEFINE k == saving[s]
            most == tally.straddling
            live == Live
            sas == SasHalf
            http == HttpHalf
            rc == ReadCredits(s)
            rb == ReadBill(s)
            ra == ReadAll(buffer[s].values, buffer[s].tally)
            mr == buffer[s].tally.straddling
<1>1. /\ k \in Int /\ most \in Int /\ live \in Int /\ sas \in Int /\ http \in Int
      /\ rc \in Int /\ rb \in Int /\ ra \in Int /\ mr \in Int
  <2>1. SasHalf \in Int /\ HttpHalf \in Int /\ tally.straddling \in Int
    BY NumbersAre
  <2>. QED
    BY <2>1, NumbersAre
<1>2. Err(k, most, live, sas + http, sas, rc, rb, ra, mr)
  BY Zenon DEF SaverErr
<1>6. SaverErr(s)' = Err(k, most + dm, live, (sas + ds) + (http + dh), sas + ds, rc + drc,
                         rb + drb, ra, mr)
  BY Zenon DEF SaverErr
<1>. HIDE DEF k, most, live, sas, http, rc, rb, ra, mr
<1>3. Err(k, most + dm, live, (sas + http) + dh + ds, sas + ds, rc + drc, rb + drb, ra, mr)
  BY <1>1, <1>2 DEF Err, Move
<1>4. (sas + http) + dh + ds = (sas + ds) + (http + dh)
  BY <1>1
<1>5. Err(k, most + dm, live, (sas + ds) + (http + dh), sas + ds, rc + drc, rb + drb, ra, mr)
  BY <1>3, <1>4
<1>. QED
  BY <1>5, <1>6

\* A saver that does not save has no error.
LEMMA IdleSaver ==
  ASSUME NEW s \in Savers, saving'[s] = Idle
  PROVE  SaverErr(s)'
<1>1. saving'[s] = -1
  BY DEF Idle
<1>2. \A most, live, half, sas, rc, rb, ra, mr : Err(-1, most, live, half, sas, rc, rb, ra, mr)
  BY DEF Err
<1>. QED
  BY <1>1, <1>2 DEF SaverErr

\* The audit of the meters, after a step that leaves their error alone.
LEMMA LiveKept ==
  ASSUME Types, AuditInv, NEW dm \in Nat, Live' = Live,
         tally'.straddling = tally.straddling + dm
  PROVE  -tally'.straddling <= Live' /\ Live' <= tally'.straddling
<1>. DEFINE m == tally.straddling
            x == Live
<1>1. m \in Nat /\ x \in Int /\ -m <= x /\ x <= m
  BY NumbersAre DEF AuditInv
<1>2. tally'.straddling = m + dm /\ Live' = x
  OBVIOUS
<1>. HIDE DEF m, x
<1>3. -(m + dm) <= x /\ x <= m + dm
  BY <1>1
<1>. QED
  BY <1>2, <1>3

\* A credited inflow straddles every save it can overlap with.
LEMMA CreditedAudit ==
  ASSUME Types, PhaseInv, AuditInv, tally' \in Tally, NEW who \in {"sas", "http"},
         Credited(who), NEW ds \in {0, 1}, NEW dh \in {0, 1}, ds + dh = 1,
         SasHalf' = SasHalf + ds, HttpHalf' = HttpHalf + dh,
         who = "http" => HttpIdle,
         UNCHANGED <<saving, buffer, file, disk>>
  PROVE  AuditInv'
<1>1. PICK dm \in {0, 1} :
        /\ tally'.straddling = tally.straddling + dm
        /\ (\E t \in Savers : Saving(t)) => dm = 1
  <2>1. tally.straddling \in Nat /\ tally \in Tally
    BY NumbersAre DEF Types
  <2>2. (\E t \in Savers : Saving(t)) => Straddles(who)
    BY SaversAre DEF Straddles, HttpIdle
  <2>3. tally'.straddling = IF Straddles(who) THEN tally.straddling + 1 ELSE tally.straddling
    BY <2>1 DEF Credited, Tally
  <2>4. CASE Straddles(who)
    BY <2>3, <2>4
  <2>5. CASE ~Straddles(who)
    BY <2>1, <2>2, <2>3, <2>5
  <2>. QED
    BY <2>4, <2>5
<1>2. Paid(tally') = Paid(tally) + 0
  <2>1. tally' = [tally EXCEPT !.straddling = IF Straddles(who) THEN @ + 1 ELSE @]
    BY DEF Credited
  <2>2. Paid(tally') = Paid(tally) /\ Paid(tally) \in Int
    BY <2>1, PaidIs DEF Types
  <2>. QED
    BY <2>2
<1>3. /\ meters'[Credits] = meters[Credits] + 1
      /\ meters'[Bill] = meters[Bill] + 0 /\ meters'[Aft] = meters[Aft] + 0
  <2>1. meters' = [meters EXCEPT ![Credits] = @ + 1]
    BY DEF Credited
  <2>2. /\ meters'[Credits] = meters[Credits] + 1
        /\ meters'[Bill] = meters[Bill] /\ meters'[Aft] = meters[Aft]
    BY <2>1, Added, KeysAre
  <2>. QED
    BY <2>2, MetersAre
<1>4. 0 \in Int /\ 1 \in Int /\ ds \in Int /\ dh \in Int /\ dm \in Int
  OBVIOUS
<1>5. /\ Live' = Live + (1 - 0 - 0 - 0 - ds - dh)
      /\ \A s \in Savers :
           buffer'[s] = buffer[s] =>
             /\ ReadCredits(s)' = ReadCredits(s) - 0 - 0
             /\ ReadBill(s)' = ReadBill(s) - 0
             /\ ReadAll(buffer'[s].values, buffer'[s].tally)
                  = ReadAll(buffer[s].values, buffer[s].tally)
  <2>1. Moved(1, 0, 0, 0, ds, dh)
    BY <1>2, <1>3 DEF Moved
  <2>. QED
    BY <1>4, <2>1, LiveMoves
<1>6. Live' = Live
  <2>1. 1 - 0 - 0 - 0 - ds - dh = 0
    OBVIOUS
  <2>2. Live + 0 = Live
    BY NumbersAre
  <2>. QED
    BY <1>5, <2>1, <2>2
<1>7. ASSUME NEW s \in Savers
      PROVE  SaverErr(s)'
  <2>1. CASE saving[s] = Idle
    BY <2>1, IdleSaver
  <2>2. CASE saving[s] # Idle
    <3>1. dm = 1
      BY <1>1, <2>2 DEF Saving
    <3>2. Move(dm, dh, ds, 0, 0)
      BY <3>1 DEF Move
    <3>3. /\ ReadCredits(s) \in Int /\ ReadBill(s) \in Int
      BY NumbersAre
    <3>4. /\ ReadCredits(s) - 0 - 0 = ReadCredits(s) + 0 /\ ReadBill(s) - 0 = ReadBill(s) + 0
      BY <3>3
    <3>5. /\ ReadCredits(s)' = ReadCredits(s) + 0 /\ ReadBill(s)' = ReadBill(s) + 0
          /\ ReadAll(buffer'[s].values, buffer'[s].tally)
               = ReadAll(buffer[s].values, buffer[s].tally)
      BY <1>5, <3>4
    <3>6. SaverErr(s)
      BY DEF AuditInv
    <3>. QED
      BY <1>1, <1>4, <1>6, <3>2, <3>5, <3>6, SaverMoves
  <2>. QED
    BY <2>1, <2>2
<1>8. -tally'.straddling <= Live' /\ Live' <= tally'.straddling
  BY <1>1, <1>6, LiveKept
<1>9. FileErr(file)' /\ FileErr(disk)'
  BY DEF AuditInv, FileErr
<1>. QED
  BY <1>7, <1>8, <1>9 DEF AuditInv

\* Counting an inflow makes it whole.
LEMMA CountedAudit ==
  ASSUME Types, AuditInv, NEW db \in {0, 1}, NEW da \in {0, 1}, db + da = 1,
         NEW nb \in Int, NEW na \in Int, nb = 0 - db, na = 0 - da,
         meters'[Credits] = meters[Credits] + 0,
         meters'[Bill] = meters[Bill] + db, meters'[Aft] = meters[Aft] + da,
         SasHalf' = SasHalf + na, HttpHalf' = HttpHalf + nb,
         UNCHANGED <<saving, buffer, file, disk, tally>>
  PROVE  AuditInv'
<1>1. /\ tally' \in Tally /\ tally'.straddling = tally.straddling + 0
      /\ Paid(tally') = Paid(tally) + 0
  <2>1. tally.straddling \in Nat /\ tally \in Tally
    BY NumbersAre DEF Types
  <2>2. Paid(tally) \in Int
    BY <2>1, PaidIs
  <2>3. tally.straddling = tally.straddling + 0 /\ Paid(tally) = Paid(tally) + 0
    BY <2>1, <2>2
  <2>. QED
    BY <2>1, <2>3
<1>2. /\ 0 \in Int /\ 0 \in Nat /\ db \in Int /\ da \in Int
      /\ na \in Int /\ nb \in Int
  OBVIOUS
<1>3. /\ Live' = Live + (0 - db - da - 0 - na - nb)
      /\ \A s \in Savers :
           buffer'[s] = buffer[s] =>
             /\ ReadCredits(s)' = ReadCredits(s) - db - da
             /\ ReadBill(s)' = ReadBill(s) - da
             /\ ReadAll(buffer'[s].values, buffer'[s].tally)
                  = ReadAll(buffer[s].values, buffer[s].tally)
  <2>1. Moved(0, db, da, 0, na, nb)
    BY <1>1 DEF Moved
  <2>. QED
    BY <1>1, <1>2, <2>1, LiveMoves
<1>4. Live' = Live
  <2>1. 0 - db - da - 0 - na - nb = 0
    OBVIOUS
  <2>2. Live + 0 = Live
    BY NumbersAre
  <2>. QED
    BY <1>3, <2>1, <2>2
<1>5. ASSUME NEW s \in Savers
      PROVE  SaverErr(s)'
  <2>1. Move(0, nb, na, 0 - 1, na)
    BY DEF Move
  <2>2. /\ ReadCredits(s) \in Int /\ ReadBill(s) \in Int
    BY NumbersAre
  <2>3. /\ ReadCredits(s) - db - da = ReadCredits(s) + (0 - 1)
        /\ ReadBill(s) - da = ReadBill(s) + na
    BY <2>2
  <2>4. /\ ReadCredits(s)' = ReadCredits(s) + (0 - 1) /\ ReadBill(s)' = ReadBill(s) + na
        /\ ReadAll(buffer'[s].values, buffer'[s].tally)
             = ReadAll(buffer[s].values, buffer[s].tally)
    BY <1>3, <2>3
  <2>5. SaverErr(s) /\ 0 - 1 \in Int
    BY DEF AuditInv
  <2>. QED
    BY <1>1, <1>2, <1>4, <2>1, <2>4, <2>5, SaverMoves
<1>6. -tally'.straddling <= Live' /\ Live' <= tally'.straddling
  BY <1>1, <1>2, <1>4, LiveKept
<1>7. FileErr(file)' /\ FileErr(disk)'
  BY DEF AuditInv, FileErr
<1>. QED
  BY <1>5, <1>6, <1>7 DEF AuditInv

\* A bet takes from the credits what it adds to the bets.
LEMMA BetAudit ==
  ASSUME Types, AuditInv, Bet, tally' \in Tally
  PROVE  AuditInv'
<1>1. /\ meters' = [meters EXCEPT ![Credits] = @ - 1]
      /\ tally' = [tally EXCEPT !.bets = @ + 1]
      /\ UNCHANGED <<httpOp, sasOp, saving, buffer, file, disk>>
  BY DEF Bet
<1>2. /\ tally'.straddling = tally.straddling + 0
      /\ Paid(tally') = Paid(tally) + (0 - 1)
  <2>1. /\ tally.straddling \in Nat /\ tally \in Tally /\ tally.bets \in Nat
    BY NumbersAre, TallyParts DEF Types
  <2>2. tally'.straddling = tally.straddling
    BY <1>1, <2>1 DEF Tally
  <2>3. Paid(tally') = Paid(tally) - 1 /\ Paid(tally) \in Int
    BY <1>1, <2>1, PaidIs
  <2>4. Paid(tally) - 1 = Paid(tally) + (0 - 1) /\ tally.straddling = tally.straddling + 0
    BY <2>1, <2>3
  <2>. QED
    BY <2>2, <2>3, <2>4
<1>3. /\ meters'[Credits] = meters[Credits] + (0 - 1)
      /\ meters'[Bill] = meters[Bill] + 0 /\ meters'[Aft] = meters[Aft] + 0
  <2>1. /\ meters'[Credits] = meters[Credits] - 1
        /\ meters'[Bill] = meters[Bill] /\ meters'[Aft] = meters[Aft]
    BY <1>1, KeysAre DEF Types
  <2>2. meters[Credits] - 1 = meters[Credits] + (0 - 1)
    BY MetersAre
  <2>3. meters[Bill] = meters[Bill] + 0 /\ meters[Aft] = meters[Aft] + 0
    BY MetersAre
  <2>. QED
    BY <2>1, <2>2, <2>3
<1>4. SasHalf' = SasHalf + 0 /\ HttpHalf' = HttpHalf + 0
  <2>1. SasHalf = SasHalf + 0 /\ HttpHalf = HttpHalf + 0
    BY NumbersAre
  <2>. QED
    BY <1>1, <2>1 DEF SasHalf, HttpHalf
<1>5. 0 \in Int /\ 0 \in Nat /\ 0 - 1 \in Int
  OBVIOUS
<1>6. /\ Live' = Live + ((0 - 1) - 0 - 0 - (0 - 1) - 0 - 0)
      /\ \A s \in Savers :
           buffer'[s] = buffer[s] =>
             /\ ReadCredits(s)' = ReadCredits(s) - 0 - 0
             /\ ReadBill(s)' = ReadBill(s) - 0
             /\ ReadAll(buffer'[s].values, buffer'[s].tally)
                  = ReadAll(buffer[s].values, buffer[s].tally)
  <2>1. Moved(0 - 1, 0, 0, 0 - 1, 0, 0)
    BY <1>2, <1>3, <1>4 DEF Moved
  <2>. QED
    BY <1>5, <2>1, LiveMoves
<1>7. Live' = Live
  <2>1. (0 - 1) - 0 - 0 - (0 - 1) - 0 - 0 = 0
    OBVIOUS
  <2>2. Live + 0 = Live
    BY NumbersAre
  <2>. QED
    BY <1>6, <2>1, <2>2
<1>8. ASSUME NEW s \in Savers
      PROVE  SaverErr(s)'
  <2>1. Move(0, 0, 0, 0, 0)
    BY DEF Move
  <2>2. /\ ReadCredits(s) \in Int /\ ReadBill(s) \in Int
    BY NumbersAre
  <2>3. /\ ReadCredits(s) - 0 - 0 = ReadCredits(s) + 0 /\ ReadBill(s) - 0 = ReadBill(s) + 0
    BY <2>2
  <2>4. /\ ReadCredits(s)' = ReadCredits(s) + 0 /\ ReadBill(s)' = ReadBill(s) + 0
        /\ ReadAll(buffer'[s].values, buffer'[s].tally)
             = ReadAll(buffer[s].values, buffer[s].tally)
    BY <1>1, <1>6, <2>3
  <2>5. SaverErr(s) /\ saving'[s] = saving[s] /\ buffer'[s] = buffer[s]
    BY <1>1 DEF AuditInv
  <2>. QED
    BY <1>2, <1>4, <1>5, <1>7, <2>1, <2>4, <2>5, SaverMoves
<1>9. -tally'.straddling <= Live' /\ Live' <= tally'.straddling
  BY <1>2, <1>5, <1>7, LiveKept
<1>10. FileErr(file)' /\ FileErr(disk)'
  BY <1>1 DEF AuditInv, FileErr
<1>. QED
  BY <1>8, <1>9, <1>10 DEF AuditInv

\* The errors while nothing but the straddling inflows is counted.
LEMMA NothingMoves ==
  ASSUME UNCHANGED <<meters, httpOp, sasOp>>, Paid(tally') = Paid(tally)
  PROVE  /\ Live' = Live /\ SasHalf' = SasHalf /\ HttpHalf' = HttpHalf
         /\ \A s \in Savers :
              buffer'[s] = buffer[s] =>
                /\ ReadCredits(s)' = ReadCredits(s) /\ ReadBill(s)' = ReadBill(s)
                /\ ReadAll(buffer'[s].values, buffer'[s].tally)
                     = ReadAll(buffer[s].values, buffer[s].tally)
BY DEF Live, Off, SasHalf, HttpHalf, ReadCredits, ReadBill

\* A saver the step does not touch.
LEMMA SaverStays ==
  ASSUME Types, UNCHANGED <<meters, httpOp, sasOp>>, Paid(tally') = Paid(tally),
         NEW dm \in Nat, tally'.straddling = tally.straddling + dm,
         NEW s \in Savers, SaverErr(s), saving'[s] = saving[s], buffer'[s] = buffer[s]
  PROVE  SaverErr(s)'
<1>1. /\ Live' = Live /\ SasHalf' = SasHalf /\ HttpHalf' = HttpHalf
      /\ ReadCredits(s)' = ReadCredits(s) /\ ReadBill(s)' = ReadBill(s)
      /\ ReadAll(buffer'[s].values, buffer'[s].tally)
           = ReadAll(buffer[s].values, buffer[s].tally)
  BY NothingMoves
<1>2. Move(dm, 0, 0, 0, 0) /\ dm \in Int /\ 0 \in Int
  BY DEF Move
<1>3. /\ SasHalf = SasHalf + 0 /\ HttpHalf = HttpHalf + 0
      /\ ReadCredits(s) = ReadCredits(s) + 0 /\ ReadBill(s) = ReadBill(s) + 0
  BY NumbersAre
<1>4. /\ SasHalf' = SasHalf + 0 /\ HttpHalf' = HttpHalf + 0
      /\ ReadCredits(s)' = ReadCredits(s) + 0 /\ ReadBill(s)' = ReadBill(s) + 0
  BY <1>1, <1>3
<1>. QED
  BY <1>1, <1>2, <1>4, SaverMoves

\* A save begins no further off than what straddles it.
LEMMA BegunAudit ==
  ASSUME Types, PhaseInv, AuditInv, NEW s \in Savers, Begin(s),
         s = "http" => HttpIdle
  PROVE  AuditInv'
<1>. DEFINE half == SasHalf + HttpHalf
<1>1. half \in Nat
  BY NumbersAre
<1>2. /\ tally' = [tally EXCEPT !.straddling = @ + half]
      /\ UNCHANGED <<meters, httpOp, sasOp, buffer, disk>> /\ file' = Torn
  <2>1. s # "main" => HttpHalf = 0
    BY SaversAre DEF HttpHalf, HttpIdle
  <2>2. (IF s = "main" /\ httpOp # None THEN 1 ELSE 0) = HttpHalf
    BY <2>1 DEF HttpHalf
  <2>3. (IF sasOp # None THEN 1 ELSE 0) = SasHalf
    BY DEF SasHalf
  <2>4. tally' = [tally EXCEPT !.straddling = @ +
                   ((IF sasOp # None THEN 1 ELSE 0)
                      + (IF s = "main" /\ httpOp # None THEN 1 ELSE 0))]
    BY DEF Begin
  <2>5. UNCHANGED <<meters, httpOp, sasOp, buffer, disk>> /\ file' = Torn
    BY DEF Begin
  <2>. QED
    BY <2>2, <2>3, <2>4, <2>5, Zenon
<1>. HIDE DEF half
<1>3. Paid(tally') = Paid(tally) /\ tally'.straddling = tally.straddling + half
  BY <1>2, PaidIs DEF Types, Tally
<1>4. Live' = Live /\ SasHalf' = SasHalf /\ HttpHalf' = HttpHalf
  BY <1>2, <1>3, NothingMoves
<1>5. -tally'.straddling <= Live' /\ Live' <= tally'.straddling
  BY <1>1, <1>3, <1>4, LiveKept
<1>6. SaverErr(s)'
  <2>. DEFINE m == tally.straddling
              x == Live
  <2>1. m \in Nat /\ x \in Int /\ -m <= x /\ x <= m
    BY NumbersAre DEF AuditInv
  <2>2. tally'.straddling = m + half /\ Live' = x /\ SasHalf' + HttpHalf' = half
    BY <1>3, <1>4 DEF half
  <2>. HIDE DEF m, x
  <2>3. -(m + half) <= x - half /\ x + half <= m + half
    BY <2>1, <1>1
  <2>4. saving'[s] = 0
    BY Begun
  <2>5. \A sas, rc, rb, ra, mr : Err(0, m + half, x, half, sas, rc, rb, ra, mr)
    BY <2>3 DEF Err
  <2>. QED
    BY <2>2, <2>4, <2>5 DEF SaverErr
<1>7. ASSUME NEW t \in Savers, t # s
      PROVE  SaverErr(t)'
  <2>1. saving'[t] = saving[t] /\ buffer'[t] = buffer[t] /\ SaverErr(t)
    BY <1>2, <1>7, Begun DEF AuditInv
  <2>. QED
    BY <1>1, <1>2, <1>3, <2>1, SaverStays
<1>8. FileErr(file)' /\ FileErr(disk)'
  BY <1>2 DEF AuditInv, FileErr, Torn
<1>. QED
  BY <1>5, <1>6, <1>7, <1>8 DEF AuditInv

\* A save that reads one more meter is off by what it was off before, less what
\* was half done for that meter.
LEMMA ReadAudit ==
  ASSUME Types, CountInv, AuditInv, NEW s \in Savers, ReadMeter(s)
  PROVE  AuditInv'
<1>. DEFINE k == saving[s]
            m == tally.straddling
            x == Live
            sas == SasHalf
            http == HttpHalf
            rc == ReadCredits(s)
            rb == ReadBill(s)
            v == buffer[s].values
            t == buffer'[s].tally
<1>1. UNCHANGED <<meters, httpOp, sasOp, file, disk, tally>>
  BY Zenon DEF ReadMeter
<1>2. /\ m \in Nat /\ x \in Int /\ -m <= x /\ x <= m
      /\ sas \in {0, 1} /\ http \in {0, 1} /\ rc \in Int /\ rb \in Int
  <2>1. SasHalf \in {0, 1} /\ HttpHalf \in {0, 1}
    BY NumbersAre
  <2>. QED
    BY <2>1, NumbersAre DEF AuditInv
<1>3. /\ k \in 0..2 /\ saving'[s] = k + 1
      /\ \A u \in Savers : u # s => buffer'[u] = buffer[u] /\ saving'[u] = saving[u]
      /\ buffer'[s].values = [v EXCEPT ![Keys[k + 1]] = meters[Keys[k + 1]]]
      /\ k = 0 => t = tally
      /\ k > 0 => t = [buffer[s].tally EXCEPT !.straddling = m]
  BY ReadTyped
<1>4. /\ Live' = x /\ SasHalf' = sas /\ HttpHalf' = http
      /\ tally'.straddling = m + 0 /\ Paid(tally') = Paid(tally) /\ tally'.straddling = m
  <2>1. m = m + 0
    BY <1>2
  <2>2. Paid(tally') = Paid(tally) /\ UNCHANGED <<meters, httpOp, sasOp>>
    BY <1>1
  <2>. QED
    BY <1>1, <2>1, <2>2, NothingMoves
<1>5. SaverErr(s) /\ buffer[s].tally \in Tally /\ v \in [Meters -> Nat]
  BY SnapshotParts DEF AuditInv, Types
<1>6. Err(k, m, x, sas + http, sas, rc, rb, ReadAll(v, buffer[s].tally), buffer[s].tally.straddling)
  BY <1>5, Zenon DEF SaverErr
<1>7. SaverErr(s)' = Err(saving'[s], m, x, sas + http, sas, ReadCredits(s)', ReadBill(s)',
                         ReadAll(buffer'[s].values, t), t.straddling)
  BY <1>4, Zenon DEF SaverErr
<1>8. ASSUME k = 0 PROVE SaverErr(s)'
  <2>1. buffer'[s].values[Credits] = meters[Credits] /\ t = tally
    BY <1>3, <1>5, <1>8, KeysAre
  <2>2. ReadCredits(s)' = Off(meters[Credits], meters[Bill], meters[Aft], tally)
    BY <1>1, <2>1 DEF ReadCredits
  <2>3. x + (sas + http) = Off(meters[Credits], meters[Bill], meters[Aft], tally)
    <3>1. PICK y \in Int : y = Off(meters[Credits], meters[Bill], meters[Aft], tally)
      BY NumbersAre
    <3>2. x = y - sas - http
      BY <3>1 DEF Live
    <3>. QED
      BY <1>2, <3>1, <3>2
  <2>4. saving'[s] = 1
    BY <1>3, <1>8
  <2>. HIDE DEF m, x, sas, http, rc, rb, k
  <2>5. \A y, z, w : Err(1, m, x, sas + http, sas, x + (sas + http), y, z, w)
    <3>1. x + (sas + http) <= m
      BY <1>6, <1>8 DEF Err
    <3>2. -m <= (x + (sas + http)) - (sas + http)
      BY <1>2
    <3>. QED
      BY <3>1, <3>2 DEF Err
  <2>. QED
    BY <1>7, <2>2, <2>3, <2>4, <2>5
<1>9. ASSUME k = 1 PROVE SaverErr(s)'
  <2>1. /\ buffer'[s].values[Credits] = v[Credits] /\ buffer'[s].values[Bill] = meters[Bill]
        /\ Paid(t) = Paid(buffer[s].tally)
    <3>1. t = [buffer[s].tally EXCEPT !.straddling = m]
      BY <1>3, <1>9
    <3>2. Paid(t) = Paid(buffer[s].tally)
      BY <1>5, <3>1, PaidIs
    <3>3. buffer'[s].values[Credits] = v[Credits] /\ buffer'[s].values[Bill] = meters[Bill]
      BY <1>3, <1>5, <1>9, KeysAre
    <3>. QED
      BY <3>2, <3>3
  <2>2. ReadBill(s)' = rc
    BY <1>1, <2>1 DEF ReadBill, ReadCredits, Off
  <2>3. saving'[s] = 2
    BY <1>3, <1>9
  <2>. HIDE DEF m, x, sas, http, rc, rb, k
  <2>4. \A y, z, w : Err(2, m, x, sas + http, sas, y, rc, z, w)
    <3>1. -m <= rc - (sas + http) /\ rc <= m
      BY <1>6, <1>9 DEF Err
    <3>2. -m <= rc - sas
      BY <1>2, <3>1
    <3>. QED
      BY <3>1, <3>2 DEF Err
  <2>. QED
    BY <1>7, <2>2, <2>3, <2>4
<1>10. ASSUME k = 2 PROVE SaverErr(s)'
  <2>1. /\ buffer'[s].values[Credits] = v[Credits] /\ buffer'[s].values[Bill] = v[Bill]
        /\ buffer'[s].values[Aft] = meters[Aft]
        /\ Paid(t) = Paid(buffer[s].tally) /\ t.straddling = m
    <3>1. t = [buffer[s].tally EXCEPT !.straddling = m]
      BY <1>3, <1>10
    <3>2. t.straddling = m
      BY <1>5, <3>1 DEF Tally
    <3>3. Paid(t) = Paid(buffer[s].tally)
      BY <1>5, <3>1, PaidIs
    <3>4. /\ buffer'[s].values[Credits] = v[Credits] /\ buffer'[s].values[Bill] = v[Bill]
          /\ buffer'[s].values[Aft] = meters[Aft]
      BY <1>3, <1>5, <1>10, KeysAre
    <3>. QED
      BY <3>2, <3>3, <3>4
  <2>2. ReadAll(buffer'[s].values, t) = rb
    BY <2>1 DEF ReadBill, ReadAll, Off
  <2>3. saving'[s] = 3
    BY <1>3, <1>10
  <2>. HIDE DEF m, x, sas, http, rc, rb, k
  <2>4. \A y, z : Err(3, m, x, sas + http, sas, y, z, rb, m)
    <3>1. -m <= rb - sas /\ rb <= m
      BY <1>6, <1>10 DEF Err
    <3>2. -m <= rb
      BY <1>2, <3>1
    <3>. QED
      BY <3>1, <3>2 DEF Err
  <2>. QED
    BY <1>7, <2>1, <2>2, <2>3, <2>4
<1>11. SaverErr(s)'
  BY <1>3, <1>8, <1>9, <1>10
<1>12. ASSUME NEW u \in Savers, u # s
       PROVE  SaverErr(u)'
  <2>1. saving'[u] = saving[u] /\ buffer'[u] = buffer[u] /\ SaverErr(u) /\ 0 \in Nat
    BY <1>3, <1>12 DEF AuditInv
  <2>. QED
    BY <1>1, <1>4, <2>1, SaverStays
<1>13. (-tally'.straddling <= Live' /\ Live' <= tally'.straddling)
  BY <1>4, LiveKept
<1>14. FileErr(file)' /\ FileErr(disk)'
  BY <1>1 DEF AuditInv, FileErr
<1>. QED
  BY <1>11, <1>12, <1>13, <1>14 DEF AuditInv

\* What a save writes is as far off as what it has read.
LEMMA ClosedAudit ==
  ASSUME Types, AuditInv, NEW s \in Savers, Close(s), UNCHANGED <<httpOp, sasOp>>
  PROVE  AuditInv'
<1>1. /\ UNCHANGED <<meters, disk, tally>>
      /\ buffer' = [buffer EXCEPT ![s] = Blank]
      /\ file' \in {Contents(s), Torn}
  BY DEF Close
<1>2. /\ saving[s] = 3 /\ saving'[s] = Idle
      /\ \A t \in Savers : t # s => saving'[t] = saving[t]
  BY Closed
<1>3. FileErr(Contents(s))
  <2>1. SaverErr(s)
    BY DEF AuditInv
  <2>2. /\ -buffer[s].tally.straddling <= ReadAll(buffer[s].values, buffer[s].tally)
        /\ ReadAll(buffer[s].values, buffer[s].tally) <= buffer[s].tally.straddling
    BY <1>2, <2>1 DEF SaverErr, Err
  <2>3. /\ Contents(s).values = buffer[s].values /\ Contents(s).tally = buffer[s].tally
    BY DEF Contents
  <2>. QED
    BY <2>2, <2>3 DEF FileErr
<1>4. FileErr(file)' /\ FileErr(disk)'
  BY <1>1, <1>3 DEF AuditInv, FileErr, Torn
<1>5. /\ Paid(tally') = Paid(tally) /\ tally'.straddling = tally.straddling + 0 /\ 0 \in Nat
      /\ UNCHANGED <<meters, httpOp, sasOp>>
  <2>1. tally.straddling = tally.straddling + 0
    BY NumbersAre
  <2>. QED
    BY <1>1, <2>1
<1>6. ASSUME NEW t \in Savers
      PROVE  SaverErr(t)'
  <2>1. CASE t = s
    BY <1>2, <2>1, IdleSaver
  <2>2. CASE t # s
    <3>1. saving'[t] = saving[t] /\ buffer'[t] = buffer[t] /\ SaverErr(t)
      BY <1>1, <1>2, <2>2 DEF AuditInv, Types
    <3>. QED
      BY <1>5, <3>1, SaverStays
  <2>. QED
    BY <2>1, <2>2
<1>7. -tally'.straddling <= Live' /\ Live' <= tally'.straddling
  <2>1. Live' = Live
    BY <1>5, NothingMoves
  <2>. QED
    BY <1>5, <2>1, LiveKept
<1>. QED
  BY <1>4, <1>6, <1>7 DEF AuditInv

\* The end of a run leaves nothing to be off, and the error of a file it had.
LEMMA EndedAudit ==
  ASSUME AuditInv, Ended, file' \in {file, disk}, disk' \in {file, disk}
  PROVE  AuditInv'
<1>1. /\ meters' = Zero /\ tally' = NoTally /\ httpOp' = None /\ sasOp' = None
      /\ \A s \in Savers : saving'[s] = Idle
  BY DEF Ended
<1>2. /\ meters'[Credits] = 0 /\ meters'[Bill] = 0 /\ meters'[Aft] = 0
  BY <1>1, BlankTyped, KeysAre
<1>3. Paid(tally') = 0 /\ tally'.straddling = 0
  BY <1>1, PaidIs, BlankTyped DEF NoTally
<1>4. SasHalf' = 0 /\ HttpHalf' = 0
  BY <1>1 DEF SasHalf, HttpHalf
<1>5. Live' = (0 - (0 + 0 + 0)) - 0 - 0
  BY <1>2, <1>3, <1>4 DEF Live, Off
<1>6. Live' = 0
  BY <1>5
<1>7. -tally'.straddling <= Live' /\ Live' <= tally'.straddling
  <2>1. -0 <= 0 /\ 0 <= 0
    OBVIOUS
  <2>. QED
    BY <1>3, <1>6, <2>1
<1>8. \A s \in Savers : SaverErr(s)'
  BY <1>1, IdleSaver
<1>9. FileErr(file)' /\ FileErr(disk)'
  BY DEF AuditInv, FileErr
<1>. QED
  BY <1>7, <1>8, <1>9 DEF AuditInv

\* The meters loaded are as far off as the file.
LEMMA LoadedAudit ==
  ASSUME Types, PhaseInv, AuditInv, Load
  PROVE  AuditInv'
<1>1. /\ pc = "off" /\ UNCHANGED <<httpOp, sasOp, saving, buffer, file, disk>>
      /\ IF file.kind = "meters"
           THEN meters' = file.values /\ tally' = file.tally
           ELSE meters' = Zero /\ tally' = NoTally
  BY DEF Load
<1>2. sasOp = None /\ httpOp = None /\ \A s \in Savers : saving'[s] = Idle
  BY <1>1, NothingSaves DEF PhaseInv, Saving
<1>3. SasHalf' = 0 /\ HttpHalf' = 0
  BY <1>1, <1>2 DEF SasHalf, HttpHalf
<1>4. ASSUME file.kind = "meters"
      PROVE  -tally'.straddling <= Live' /\ Live' <= tally'.straddling
  <2>1. FileErr(file) /\ file.tally \in Tally /\ file.values \in [Meters -> Nat]
    BY <1>4, FileParts DEF AuditInv, Types
  <2>2. PICK x \in Int : x = ReadAll(file.values, file.tally)
    BY <2>1, OffIsInt, KeysAre DEF ReadAll
  <2>3. Live' = x - 0 - 0
    BY <1>1, <1>3, <1>4, <2>2 DEF Live, ReadAll
  <2>4. x - 0 - 0 = x
    OBVIOUS
  <2>. QED
    <3>1. /\ -file.tally.straddling <= x /\ x <= file.tally.straddling
      BY <1>4, <2>1, <2>2 DEF FileErr
    <3>2. Live' = x
      BY <2>3, <2>4
    <3>3. tally' = file.tally
      BY <1>1, <1>4
    <3>. QED
      BY <3>1, <3>2, <3>3, Zenon
<1>5. ASSUME file.kind # "meters"
      PROVE  -tally'.straddling <= Live' /\ Live' <= tally'.straddling
  <2>1. /\ meters'[Credits] = 0 /\ meters'[Bill] = 0 /\ meters'[Aft] = 0
        /\ Paid(tally') = 0 /\ tally'.straddling = 0
    <3>1. meters' = Zero /\ tally' = NoTally
      BY <1>1, <1>5
    <3>2. Paid(NoTally) = 0 /\ NoTally.straddling = 0
      BY PaidIs, BlankTyped DEF NoTally
    <3>3. Zero[Credits] = 0 /\ Zero[Bill] = 0 /\ Zero[Aft] = 0
      BY BlankTyped, KeysAre
    <3>. QED
      BY <3>1, <3>2, <3>3
  <2>2. Live' = (0 - (0 + 0 + 0)) - 0 - 0
    BY <1>3, <2>1 DEF Live, Off
  <2>3. -0 <= (0 - (0 + 0 + 0)) - 0 - 0 /\ (0 - (0 + 0 + 0)) - 0 - 0 <= 0
    OBVIOUS
  <2>. QED
    BY <2>1, <2>2, <2>3
<1>. QED
  <2>1. -tally'.straddling <= Live' /\ Live' <= tally'.straddling
    BY <1>4, <1>5
  <2>2. \A s \in Savers : SaverErr(s)'
    BY <1>2, IdleSaver
  <2>3. FileErr(file)' /\ FileErr(disk)'
    BY <1>1 DEF AuditInv, FileErr
  <2>. QED
    BY <2>1, <2>2, <2>3 DEF AuditInv

\* The initial credits are a gift, and counted as one.
LEMMA StartedAudit ==
  ASSUME Types, PhaseInv, AuditInv, StartUp, tally' \in Tally
  PROVE  AuditInv'
<1>1. /\ pc = "loaded" /\ UNCHANGED <<httpOp, sasOp, saving, buffer, file, disk>>
      /\ meters' = [meters EXCEPT ![Credits] = @ + Gift]
      /\ tally' = [tally EXCEPT !.gifts = @ + 1]
  BY DEF StartUp
<1>2. \A s \in Savers : saving'[s] = Idle
  BY <1>1, NothingSaves DEF Saving
<1>3. Moved(Gift, 0, 0, Gift, 0, 0)
  <2>1. /\ meters'[Credits] = meters[Credits] + Gift
        /\ meters'[Bill] = meters[Bill] /\ meters'[Aft] = meters[Aft]
    BY <1>1, Added, KeysAre, BoundsAre
  <2>2. Paid(tally') = Paid(tally) + Gift
    BY <1>1, PaidIs DEF Types
  <2>3. /\ meters[Bill] = meters[Bill] + 0 /\ meters[Aft] = meters[Aft] + 0
        /\ SasHalf = SasHalf + 0 /\ HttpHalf = HttpHalf + 0
    BY MetersAre, NumbersAre
  <2>4. SasHalf' = SasHalf /\ HttpHalf' = HttpHalf
    BY <1>1 DEF SasHalf, HttpHalf
  <2>. QED
    BY <2>1, <2>2, <2>3, <2>4 DEF Moved
<1>4. 0 \in Int /\ 0 \in Nat /\ Gift \in Int
  BY BoundsAre
<1>5. Live' = Live + (Gift - 0 - 0 - Gift - 0 - 0)
  BY <1>3, <1>4, LiveMoves
<1>6. Live' = Live
  <2>1. Gift - 0 - 0 - Gift - 0 - 0 = 0
    BY <1>4
  <2>2. Live + 0 = Live
    BY NumbersAre
  <2>. QED
    BY <1>5, <2>1, <2>2
<1>7. tally'.straddling = tally.straddling + 0
  <2>1. tally'.straddling = tally.straddling
    BY <1>1 DEF Types, Tally
  <2>2. tally.straddling = tally.straddling + 0
    BY NumbersAre
  <2>. QED
    BY <2>1, <2>2
<1>8. -tally'.straddling <= Live' /\ Live' <= tally'.straddling
  BY <1>4, <1>6, <1>7, LiveKept
<1>9. \A s \in Savers : SaverErr(s)'
  BY <1>2, IdleSaver
<1>10. FileErr(file)' /\ FileErr(disk)'
  BY <1>1 DEF AuditInv, FileErr
<1>. QED
  BY <1>8, <1>9, <1>10 DEF AuditInv

\* Every step keeps the errors within the straddling inflows.
LEMMA AuditKept ==
  ASSUME Types, PhaseInv, CountInv, AuditInv, Next
  PROVE  AuditInv'
<1>1. tally' \in Tally
  BY TallyKept
<1>. USE SaversAre
<1>2. CASE Load
  BY <1>2, LoadedAudit
<1>3. CASE StartUp
  BY <1>1, <1>3, StartedAudit
<1>4. CASE PortFails \/ Exit \/ Restart \/ PowerFails
  <2>1. Ended /\ file' \in {file, disk} /\ disk' \in {file, disk}
    BY <1>4 DEF PortFails, Exit, Restart, PowerFails
  <2>. QED
    BY <2>1, EndedAudit
<1>5. CASE InsertBill
  <2>1. /\ Credited("http") /\ HttpIdle
        /\ httpOp = None /\ httpOp' # None /\ sasOp' = sasOp
        /\ UNCHANGED <<saving, buffer, file, disk>>
    BY <1>5 DEF InsertBill, HttpIdle, None
  <2>2. HttpHalf = 0 /\ HttpHalf' = 1 /\ SasHalf' = SasHalf
    BY <2>1 DEF HttpHalf, SasHalf
  <2>3. SasHalf = SasHalf + 0 /\ 1 = 0 + 1 /\ 0 + 1 = 1
    BY NumbersAre
  <2>4. SasHalf' = SasHalf + 0 /\ HttpHalf' = HttpHalf + 1
    BY <2>2, <2>3
  <2>. QED
    BY <1>1, <2>1, <2>3, <2>4, CreditedAudit
<1>6. CASE Transfer
  <2>1. /\ Credited("sas")
        /\ sasOp = None /\ sasOp' # None /\ httpOp' = httpOp
        /\ UNCHANGED <<saving, buffer, file, disk>>
    BY <1>6 DEF Transfer, None
  <2>2. SasHalf = 0 /\ SasHalf' = 1 /\ HttpHalf' = HttpHalf
    BY <2>1 DEF HttpHalf, SasHalf
  <2>3. HttpHalf = HttpHalf + 0 /\ 1 = 0 + 1 /\ 1 + 0 = 1
    BY NumbersAre
  <2>4. SasHalf' = SasHalf + 1 /\ HttpHalf' = HttpHalf + 0
    BY <2>2, <2>3
  <2>. QED
    BY <1>1, <2>1, <2>3, <2>4, CreditedAudit
<1>7. CASE CountBill
  <2>1. /\ httpOp = Bill /\ meters' = [meters EXCEPT ![Bill] = @ + 1]
        /\ httpOp' = None /\ sasOp' = sasOp
        /\ UNCHANGED <<saving, buffer, file, disk, tally>>
    BY <1>7 DEF CountBill, Counted, Types
  <2>2. HttpHalf = 1 /\ HttpHalf' = 0 /\ SasHalf' = SasHalf
    BY <2>1, KeysAre DEF HttpHalf, SasHalf
  <2>3. /\ meters'[Bill] = meters[Bill] + 1
        /\ meters'[Credits] = meters[Credits] /\ meters'[Aft] = meters[Aft]
    BY <2>1, Added, KeysAre
  <2>4. /\ meters[Credits] = meters[Credits] + 0 /\ meters[Aft] = meters[Aft] + 0
        /\ SasHalf = SasHalf + 0 /\ 0 = 1 + -1 /\ -1 = 0 - 1 /\ 0 = 0 - 0
        /\ -1 \in Int /\ 1 + 0 = 1
    BY MetersAre, NumbersAre
  <2>5. /\ meters'[Credits] = meters[Credits] + 0 /\ meters'[Aft] = meters[Aft] + 0
        /\ SasHalf' = SasHalf + 0 /\ HttpHalf' = HttpHalf + -1
    BY <2>2, <2>3, <2>4
  <2>. QED
    BY <2>1, <2>3, <2>4, <2>5, CountedAudit
<1>8. CASE CountTransfer
  <2>1. /\ sasOp = Aft /\ meters' = [meters EXCEPT ![Aft] = @ + 1]
        /\ sasOp' = None /\ httpOp' = httpOp
        /\ UNCHANGED <<saving, buffer, file, disk, tally>>
    BY <1>8 DEF CountTransfer, Counted, Types
  <2>2. SasHalf = 1 /\ SasHalf' = 0 /\ HttpHalf' = HttpHalf
    BY <2>1, KeysAre DEF HttpHalf, SasHalf
  <2>3. /\ meters'[Aft] = meters[Aft] + 1
        /\ meters'[Credits] = meters[Credits] /\ meters'[Bill] = meters[Bill]
    BY <2>1, Added, KeysAre
  <2>4. /\ meters[Credits] = meters[Credits] + 0 /\ meters[Bill] = meters[Bill] + 0
        /\ HttpHalf = HttpHalf + 0 /\ 0 = 1 + -1 /\ -1 = 0 - 1 /\ 0 = 0 - 0
        /\ -1 \in Int /\ 0 + 1 = 1
    BY MetersAre, NumbersAre
  <2>5. /\ meters'[Credits] = meters[Credits] + 0 /\ meters'[Bill] = meters[Bill] + 0
        /\ SasHalf' = SasHalf + -1 /\ HttpHalf' = HttpHalf + 0
    BY <2>2, <2>3, <2>4
  <2>. QED
    BY <2>1, <2>3, <2>4, <2>5, CountedAudit
<1>9. CASE Bet
  BY <1>1, <1>9, BetAudit
<1>10. CASE ShutDown \/ Reboot
  <2>1. \E s \in Savers : Begin(s) /\ (s = "http" => HttpIdle)
    BY <1>10 DEF ShutDown, Reboot
  <2>. QED
    BY <2>1, BegunAudit
<1>11. CASE Saved \/ RebootScheduled
  <2>1. \E s \in Savers : Close(s)
    BY <1>11 DEF Saved, RebootScheduled
  <2>2. UNCHANGED <<httpOp, sasOp>>
    BY <2>1 DEF Close
  <2>. QED
    BY <2>1, <2>2, ClosedAudit
<1>12. ASSUME NEW s \in Savers, ReadMeter(s)
       PROVE  AuditInv'
  BY <1>12, ReadAudit
<1>13. CASE WriteBack
  <2>1. UNCHANGED <<meters, httpOp, sasOp, saving, buffer, file, tally>> /\ disk' = file
    BY <1>13 DEF WriteBack
  <2>. QED
    BY <2>1 DEF AuditInv, SaverErr, FileErr, Live, ReadCredits, ReadBill, SasHalf, HttpHalf
<1>. QED
  BY <1>2, <1>3, <1>4, <1>5, <1>6, <1>7, <1>8, <1>9, <1>10, <1>11, <1>12, <1>13 DEF Next

-----------------------------------------------------------------------------
(* The orderly restart                                                     *)

\* A bound of a save and a meter that only grows.
LEMMA StillBetween ==
  ASSUME Types, Types', NEW s \in Savers, Between(s), Saving(s)' => Saving(s),
         saving'[s] = saving[s], buffer'[s] = buffer[s], before'[s] = before[s],
         \A m \in Counters : meters'[m] \in {meters[m], meters[m] + 1},
         \/ ops' = ops /\ meters'[Credits] = meters[Credits]
         \/ ops' = ops + 1,
         before[s].ops <= ops
  PROVE  Between(s)'
<1>1. CASE ~Saving(s)
  BY <1>1 DEF Between
<1>2. CASE Saving(s)
  <2>. DEFINE lo == before[s].values
              got == buffer[s].values
  <2>1. /\ lo \in [Meters -> Nat] /\ got \in [Meters -> Nat] /\ meters \in [Meters -> Nat]
        /\ saving[s] \in -1..3 /\ before[s].ops \in Nat /\ ops \in Nat
    BY SnapshotParts, BoundsAre, MetersAre DEF Types
  <2>2. ASSUME NEW m \in Counters
        PROVE  lo[m] <= meters'[m]
    <3>1. m \in Meters
      BY <2>2, KeysAre
    <3>2. PICK n \in Nat : n = meters[m]
      BY <2>1, <3>1
    <3>3. PICK l \in Nat : l = lo[m]
      BY <2>1, <3>1
    <3>4. l <= n
      BY <1>2, <2>2, <3>2, <3>3 DEF Between
    <3>5. l <= n /\ l <= n + 1
      BY <3>4
    <3>. QED
      BY <2>2, <3>2, <3>3, <3>5
  <2>3. ASSUME NEW i \in 2..saving[s]
        PROVE  lo[Keys[i]] <= got[Keys[i]] /\ got[Keys[i]] <= meters'[Keys[i]]
    <3>1. i \in {2, 3}
      BY <2>1, <2>3
    <3>2. Keys[i] \in Counters /\ Keys[i] \in Meters
      BY <3>1, KeysAre
    <3>3. PICK n \in Nat : n = meters[Keys[i]]
      BY <2>1, <3>2
    <3>4. PICK g \in Nat : g = got[Keys[i]]
      BY <2>1, <3>2
    <3>5. lo[Keys[i]] <= g /\ g <= n
      BY <1>2, <2>3, <3>3, <3>4 DEF Between
    <3>6. g <= n /\ g <= n + 1
      BY <3>5
    <3>. QED
      BY <3>2, <3>3, <3>4, <3>5, <3>6
  <2>4. ASSUME before[s].ops = ops'
        PROVE  /\ meters'[Credits] = lo[Credits]
               /\ saving[s] >= 1 => got[Credits] = lo[Credits]
    <3>1. ops' # ops + 1
      <4>1. PICK o \in Nat, b \in Nat : o = ops /\ b = before[s].ops /\ b <= o
        BY <2>1
      <4>2. b # o + 1
        BY <4>1
      <4>. QED
        BY <2>4, <4>1, <4>2
    <3>2. ops' = ops /\ meters'[Credits] = meters[Credits] /\ before[s].ops = ops
      BY <2>4, <3>1
    <3>. QED
      BY <1>2, <3>2 DEF Between
  <2>. QED
    BY <2>2, <2>3, <2>4 DEF Between
<1>. QED
  BY <1>1, <1>2

\* What Close writes is from between the beginning and the end of the save.
LEMMA WritesGood ==
  ASSUME Types, CountInv, NEW s \in Savers, Between(s), saving[s] = 3
  PROVE  Good(Contents(s))
<1>. DEFINE lo == before[s].values
            got == buffer[s].values
<1>1. /\ lo \in [Meters -> Nat] /\ got \in [Meters -> Nat] /\ meters \in [Meters -> Nat]
      /\ before[s].ops \in Nat /\ ops \in Nat
  BY SnapshotParts, BoundsAre, MetersAre DEF Types
<1>2. Saving(s)
  BY DEF Saving, Idle
<1>3. /\ lo[Bill] <= got[Bill] /\ got[Bill] <= meters[Bill]
      /\ lo[Aft] <= got[Aft] /\ got[Aft] <= meters[Aft]
  <2>1. 2 \in 2..saving[s] /\ 3 \in 2..saving[s]
    OBVIOUS
  <2>. QED
    BY <1>2, <2>1, KeysAre DEF Between
<1>4. \A m \in Counters : got[m] \in lo[m]..meters[m]
  BY <1>1, <1>3, KeysAre
<1>5. ASSUME lo = meters, ops - before[s].ops = 0
      PROVE  got = lo
  <2>1. before[s].ops = ops
    BY <1>1, <1>5
  <2>2. got[Credits] = lo[Credits]
    BY <1>2, <2>1 DEF Between
  <2>3. got[Bill] = lo[Bill] /\ got[Aft] = lo[Aft]
    BY <1>1, <1>3, <1>5, KeysAre
  <2>4. \A m \in Meters : got[m] = lo[m]
    BY <2>2, <2>3, KeysAre
  <2>. HIDE DEF lo, got
  <2>. QED
    BY <1>1, <2>4
<1>6. /\ Contents(s).kind = "meters" /\ Contents(s).values = got /\ Contents(s).from = lo
      /\ Contents(s).to = meters /\ Contents(s).ops = ops - before[s].ops
  BY DEF Contents
<1>. QED
  BY <1>4, <1>5, <1>6 DEF Good

\* What a saver has read stays between the beginning of its save and now.
LEMMA BetweenKept ==
  ASSUME Types, Types', PhaseInv, CountInv, Next, NEW s \in Savers, Between(s)
  PROVE  Between(s)'
<1>. USE SaversAre
<1>1. before[s].ops <= ops /\ ops \in Nat
  BY MetersAre DEF CountInv
<1>2. CASE Load \/ StartUp
  <2>1. saving'[s] = Idle
    BY <1>2, NothingSaves DEF Load, StartUp, Saving
  <2>. QED
    BY <2>1 DEF Between, Saving
<1>3. CASE PortFails \/ Exit \/ Restart \/ PowerFails
  <2>1. saving'[s] = Idle
    BY <1>3, EndedQuiet DEF PortFails, Exit, Restart, PowerFails
  <2>. QED
    BY <2>1 DEF Between, Saving
<1>4. CASE InsertBill \/ Transfer \/ Bet
  <2>1. /\ ops' = ops + 1 /\ UNCHANGED <<saving, buffer, before>>
        /\ \/ meters' = [meters EXCEPT ![Credits] = @ + 1]
           \/ meters' = [meters EXCEPT ![Credits] = @ - 1]
    BY <1>4 DEF InsertBill, Transfer, Bet, Credited
  <2>2. \A m \in Counters : meters'[m] = meters[m]
    BY <2>1, KeysAre DEF Types
  <2>. QED
    BY <1>1, <2>1, <2>2, StillBetween DEF Saving
<1>5. CASE CountBill \/ CountTransfer
  <2>1. PICK m \in {Bill, Aft} : meters' = [meters EXCEPT ![m] = @ + 1]
    BY <1>5 DEF CountBill, CountTransfer, Counted, Types
  <2>2. ops' = ops /\ UNCHANGED <<saving, buffer, before>>
    BY <1>5 DEF CountBill, CountTransfer
  <2>3. m \in Meters /\ 1 \in Nat
    BY KeysAre
  <2>4. /\ \A k \in Counters : meters'[k] \in {meters[k], meters[k] + 1}
        /\ meters'[Credits] = meters[Credits]
    BY <2>1, <2>3, Added, KeysAre
  <2>. QED
    BY <1>1, <2>2, <2>4, StillBetween DEF Saving
<1>6. CASE ShutDown \/ Reboot
  <2>1. PICK t \in Savers : Begin(t)
    BY <1>6 DEF ShutDown, Reboot
  <2>2. /\ before' = [before EXCEPT ![t] = [values |-> meters, tally |-> NoTally, ops |-> ops]]
        /\ UNCHANGED <<meters, buffer, ops>>
    BY <2>1 DEF Begin
  <2>3. CASE t = s
    <3>1. before'[s].values = meters /\ before'[s].ops = ops /\ saving'[s] = 0
      BY <2>1, <2>2, <2>3, Begun DEF Types
    <3>2. \A m \in Counters : meters[m] \in Nat /\ meters[m] <= meters[m]
      BY MetersAre, KeysAre
    <3>3. 2..0 = {} /\ ~(0 >= 1)
      OBVIOUS
    <3>. QED
      BY <2>2, <3>1, <3>2, <3>3 DEF Between
  <2>4. CASE t # s
    <3>1. /\ before'[s] = before[s] /\ buffer'[s] = buffer[s] /\ saving'[s] = saving[s]
      BY <2>1, <2>2, <2>4, Begun DEF Types
    <3>. QED
      BY <2>2, <3>1 DEF Between, Saving
  <2>. QED
    BY <2>3, <2>4
<1>7. CASE Saved \/ RebootScheduled
  <2>1. PICK t \in Savers : Close(t)
    BY <1>7 DEF Saved, RebootScheduled
  <2>2. /\ before' = [before EXCEPT ![t] = Blank] /\ buffer' = [buffer EXCEPT ![t] = Blank]
        /\ UNCHANGED <<meters, ops>>
    BY <2>1 DEF Close
  <2>3. CASE t = s
    BY <2>1, <2>3, Closed DEF Between, Saving
  <2>4. CASE t # s
    <3>1. /\ before'[s] = before[s] /\ buffer'[s] = buffer[s] /\ saving'[s] = saving[s]
      BY <2>1, <2>2, <2>4, Closed DEF Types
    <3>. QED
      BY <2>2, <3>1 DEF Between, Saving
  <2>. QED
    BY <2>3, <2>4
<1>8. ASSUME NEW t \in Savers, ReadMeter(t)
      PROVE  Between(s)'
  <2>1. UNCHANGED <<meters, before, ops>>
    BY <1>8, Zenon DEF ReadMeter
  <2>2. CASE t # s
    <3>1. buffer'[s] = buffer[s] /\ saving'[s] = saving[s]
      BY <1>8, <2>2, ReadTyped
    <3>. QED
      BY <2>1, <3>1 DEF Between, Saving
  <2>3. CASE t = s
    <3>. DEFINE k == saving[s]
                lo == before[s].values
                got == buffer[s].values
                key == Keys[k + 1]
                got2 == buffer'[s].values
    <3>1. /\ k \in 0..2 /\ saving'[s] = k + 1 /\ got2 = [got EXCEPT ![key] = meters[key]]
      BY <1>8, <2>3, ReadTyped
    <3>2. /\ got \in [Meters -> Nat] /\ lo \in [Meters -> Nat] /\ meters \in [Meters -> Nat]
      BY SnapshotParts DEF Types
    <3>3. key \in Meters /\ got2[key] = meters[key]
          /\ \A m \in Meters : m # key => got2[m] = got[m]
      BY <3>1, <3>2, KeysAre
    <3>4. Saving(s)
      BY <3>1 DEF Saving, Idle
    <3>5. /\ \A m \in Counters : lo[m] <= meters[m]
          /\ \A i \in 2..k : lo[Keys[i]] <= got[Keys[i]] /\ got[Keys[i]] <= meters[Keys[i]]
          /\ before[s].ops = ops =>
               /\ meters[Credits] = lo[Credits]
               /\ k >= 1 => got[Credits] = lo[Credits]
      BY <3>4 DEF Between
    <3>. HIDE DEF k, lo, got, got2
    <3>6. ASSUME NEW i \in 2..(k + 1)
          PROVE  lo[Keys[i]] <= got2[Keys[i]] /\ got2[Keys[i]] <= meters[Keys[i]]
      <4>1. CASE i = k + 1
        <5>1. i \in {2, 3} /\ Keys[i] = key
          BY <3>1, <3>6, <4>1
        <5>2. key \in Counters
          BY <5>1, KeysAre
        <5>3. meters[key] \in Nat /\ lo[key] <= meters[key]
          BY <3>2, <3>3, <3>5, <5>2
        <5>. QED
          BY <3>3, <5>1, <5>3
      <4>2. CASE i # k + 1
        <5>1. i \in 2..k /\ i = 2 /\ k = 2
          BY <3>1, <3>6, <4>2
        <5>2. Keys[i] # key /\ Keys[i] \in Meters
          BY <5>1, KeysAre
        <5>. QED
          BY <3>3, <3>5, <5>1, <5>2
      <4>. QED
        BY <4>1, <4>2
    <3>7. ASSUME before[s].ops = ops
          PROVE  meters[Credits] = lo[Credits] /\ got2[Credits] = lo[Credits]
      <4>1. CASE k = 0
        BY <3>3, <3>5, <3>7, <4>1, KeysAre
      <4>2. CASE k # 0
        <5>1. k >= 1 /\ key # Credits
          BY <3>1, <4>2, KeysAre
        <5>. QED
          BY <3>3, <3>5, <3>7, <5>1, KeysAre
      <4>. QED
        BY <4>1, <4>2
    <3>8. /\ before'[s].values = lo /\ before'[s].ops = before[s].ops
          /\ buffer'[s].values = got2 /\ meters' = meters /\ ops' = ops
      BY <2>1 DEF lo, got2
    <3>. QED
      BY <3>1, <3>5, <3>6, <3>7, <3>8 DEF Between
  <2>. QED
    BY <2>2, <2>3
<1>9. CASE WriteBack
  BY <1>9 DEF WriteBack, Between, Saving
<1>. QED
  BY <1>2, <1>3, <1>4, <1>5, <1>6, <1>7, <1>8, <1>9 DEF Next

\* While nothing is unsafe a save has the file for itself, and leaves it good.
LEMMA FileKept ==
  ASSUME Types, PhaseInv, CountInv, SaveInv, Next
  PROVE  FileInv'
<1>. USE SaversAre
<1>1. saves \in Nat
  BY MetersAre
<1>2. CASE Load
  <2>1. /\ pc = "off" /\ pc' = "loaded" /\ UNCHANGED <<saving, file, rebootDue, unsafe, saves>>
        /\ file.kind = "meters" => meters' = file.values
    BY <1>2 DEF Load
  <2>2. ~rebootDue /\ \A s \in Savers : saving[s] = Idle
    BY <2>1, NothingSaves DEF PhaseInv, Saving
  <2>. QED
    BY <2>1, <2>2 DEF SaveInv, FileInv, Saving
<1>3. CASE StartUp
  <2>1. pc = "loaded" /\ pc' = "running" /\ UNCHANGED <<saving, rebootDue>>
    BY <1>3 DEF StartUp
  <2>2. ~rebootDue /\ \A s \in Savers : saving[s] = Idle
    BY <2>1, NothingSaves DEF PhaseInv, Saving
  <2>. QED
    BY <2>1, <2>2 DEF FileInv, Saving
<1>4. CASE PortFails \/ Exit \/ Restart \/ PowerFails
  <2>1. /\ pc' = "off" /\ rebootDue' = FALSE /\ \A s \in Savers : saving'[s] = Idle
    BY <1>4, EndedQuiet DEF PortFails, Exit, Restart, PowerFails
  <2>2. ~unsafe' /\ saves' > 0 => Good(file')
    <3>1. CASE PortFails
      BY <3>1 DEF PortFails, Ended, SaveInv, FileInv
    <3>2. CASE Exit
      BY <3>2 DEF Exit, Ended, Interrupted, SaveInv, FileInv
    <3>3. CASE Restart
      BY <3>3 DEF Restart, Ended, Interrupted, SaveInv, FileInv
    <3>4. CASE PowerFails
      BY <3>4 DEF PowerFails
    <3>. QED
      BY <1>4, <3>1, <3>2, <3>3, <3>4
  <2>. QED
    BY <2>1, <2>2 DEF FileInv, Saving
<1>5. CASE InsertBill \/ Transfer \/ Bet \/ CountBill \/ CountTransfer
  <2>1. UNCHANGED <<pc, saving, file, rebootDue, unsafe, saves>>
    BY <1>5 DEF InsertBill, Transfer, Bet, CountBill, CountTransfer
  <2>2. pc \notin {"off", "loaded"}
    BY <1>5 DEF InsertBill, Transfer, Bet, CountBill, CountTransfer, ThreadsRun, PhaseInv
  <2>. QED
    BY <2>1, <2>2 DEF SaveInv, FileInv, Saving
<1>6. CASE ShutDown \/ Reboot
  <2>1. PICK s \in Savers : Begin(s)
    BY <1>6 DEF ShutDown, Reboot
  <2>2. /\ file' = Torn /\ unsafe' = (unsafe \/ \E t \in Savers : Saving(t))
        /\ pc' \notin {"off", "loaded"}
    BY <1>6, <2>1 DEF ShutDown, Reboot, Begin, ThreadsRun
  <2>3. saving'[s] # Idle /\ \A t \in Savers : t # s => saving'[t] = saving[t]
    BY <2>1, Begun
  <2>. QED
    BY <2>2, <2>3 DEF FileInv, Saving
<1>7. CASE Saved \/ RebootScheduled
  <2>1. PICK s \in Savers : Close(s)
    BY <1>7 DEF Saved, RebootScheduled
  <2>2. /\ file' \in IF file.kind = "meters" THEN {Contents(s), Torn} ELSE {Contents(s)}
        /\ unsafe' = unsafe
    BY <2>1 DEF Close
  <2>3. /\ saving[s] = 3 /\ saving[s] # Idle /\ saving'[s] = Idle
        /\ \A t \in Savers : t # s => saving'[t] = saving[t]
    BY <2>1, Closed
  <2>4. ASSUME ~unsafe
        PROVE  Good(file') /\ \A t \in Savers : saving'[t] = Idle
    <3>1. file = Torn /\ \A t \in Savers : t # s => saving[t] = Idle
      BY <2>3, <2>4 DEF SaveInv, FileInv, Saving
    <3>2. file' = Contents(s)
      BY <2>2, <3>1 DEF Torn
    <3>3. Good(Contents(s))
      BY <2>3, WritesGood DEF SaveInv
    <3>. QED
      BY <2>3, <3>1, <3>2, <3>3
  <2>5. pc' # "loaded"
    <3>1. CASE Saved
      BY <3>1 DEF Saved
    <3>2. CASE RebootScheduled
      <4>1. Saving("http") /\ pc' = pc
        BY <3>2, Closed DEF RebootScheduled, Saving
      <4>. QED
        BY <4>1 DEF PhaseInv
    <3>. QED
      BY <1>7, <3>1, <3>2
  <2>. QED
    BY <2>2, <2>4, <2>5 DEF FileInv, Saving
<1>8. ASSUME NEW s \in Savers, ReadMeter(s)
      PROVE  FileInv'
  <2>1. UNCHANGED <<pc, meters, file, rebootDue, unsafe, saves>>
    BY <1>8, Zenon DEF ReadMeter
  <2>2. \A t \in Savers : Saving(t)' <=> Saving(t)
    BY <1>8, StillSaving
  <2>. QED
    BY <2>1, <2>2 DEF SaveInv, FileInv
<1>9. CASE WriteBack
  BY <1>9 DEF WriteBack, SaveInv, FileInv, Saving
<1>. QED
  BY <1>2, <1>3, <1>4, <1>5, <1>6, <1>7, <1>8, <1>9 DEF Next

-----------------------------------------------------------------------------
(* The theorems                                                            *)

\* The inductive invariant.
IInv == Types /\ PhaseInv /\ CountInv /\ AuditInv /\ SaveInv

\* The invariant holds when the board is new.
LEMMA InvStarts == Init => IInv
<1>. SUFFICES ASSUME Init
              PROVE  IInv
  OBVIOUS
<1>1. /\ pc = "off" /\ meters = Zero /\ tally = NoTally /\ httpOp = None /\ sasOp = None
      /\ saving = [s \in Savers |-> Idle] /\ buffer = [s \in Savers |-> Blank]
      /\ before = [s \in Savers |-> Blank] /\ file = Absent /\ disk = Absent
      /\ rebootDue = FALSE /\ unsafe = FALSE /\ ops = 0 /\ boots = 0 /\ saves = 0
  BY DEF Init
<1>2. Types
  <2>1. Idle \in -1..3 /\ 0 \in 0..MaxOps /\ 0 \in 0..MaxBoots /\ 0 \in 0..MaxSaves
    BY BoundsAre DEF Idle
  <2>2. /\ saving \in [Savers -> -1..3] /\ buffer \in [Savers -> Snapshot]
        /\ before \in [Savers -> Snapshot]
    BY <1>1, <2>1, BlankTyped
  <2>. QED
    BY <1>1, <2>1, <2>2, BlankTyped DEF Types
<1>3. \A s \in Savers : ~Saving(s) /\ saving[s] = -1
  BY <1>1 DEF Saving, Idle
<1>4. PhaseInv
  BY <1>1, <1>3, SaversAre DEF PhaseInv
<1>5. CountInv
  <2>1. Due = 0
    BY <1>1 DEF Due
  <2>2. Within(NoTally)
    BY <1>1, <2>1 DEF Within, NoTally
  <2>3. 0 <= 0
    OBVIOUS
  <2>. QED
    BY <1>1, <2>2, <2>3, BlankTyped DEF CountInv, WithinFile, Absent
<1>6. AuditInv
  <2>1. Live = (0 - (0 + 0 + 0)) - 0 - 0
    BY <1>1, BlankTyped, KeysAre, PaidIs DEF Live, Off, SasHalf, HttpHalf
  <2>2. tally.straddling = 0
    BY <1>1 DEF NoTally
  <2>3. -tally.straddling <= Live /\ Live <= tally.straddling
    BY <2>1, <2>2
  <2>4. \A s \in Savers : SaverErr(s)
    BY <1>3 DEF SaverErr, Err
  <2>. QED
    BY <1>1, <2>3, <2>4 DEF AuditInv, FileErr, Absent
<1>7. SaveInv
  BY <1>1, <1>3, SaversAre DEF SaveInv, FileInv, Between
<1>. QED
  BY <1>2, <1>4, <1>5, <1>6, <1>7 DEF IInv

\* Every step keeps it.
LEMMA InvKept == IInv /\ [Next]_vars => IInv'
<1>1. ASSUME IInv, Next
      PROVE  IInv'
  <2>1. Types'
    BY <1>1, TypesKept DEF IInv
  <2>2. PhaseInv' /\ CountInv' /\ AuditInv'
    BY <1>1, PhaseKept, CountsKept, AuditKept DEF IInv
  <2>3. FileInv'
    BY <1>1, FileKept DEF IInv
  <2>4. \A s \in Savers : Between(s)'
    BY <1>1, <2>1, BetweenKept DEF IInv, SaveInv
  <2>. QED
    BY <2>1, <2>2, <2>3, <2>4 DEF IInv, SaveInv
<1>2. ASSUME IInv, UNCHANGED vars
      PROVE  IInv'
  BY <1>2 DEF IInv, vars, Types, PhaseInv, CountInv, AuditInv, SaveInv, FileInv, Between,
     Saving, Within, Due, WithinFile, SaverErr, FileErr, Live, ReadCredits, ReadBill,
     SasHalf, HttpHalf
<1>. QED
  BY <1>1, <1>2

\* The invariant always holds.
LEMMA InvHolds == Spec => []IInv
<1>. QED
  BY InvStarts, InvKept, PTL DEF Spec

\* The variables keep their types over any number of starts, saves and power
\* failures.  As long as bets are the only debits no meter goes below zero.
THEOREM PowerTypeCorrect == Spec => []TypeOK
<1>1. IInv => TypeOK
  BY TypesAre DEF IInv
<1>. QED
  BY <1>1, InvHolds, PTL

\* Whatever the restarts, the credits differ from what came in less what was bet,
\* with the initial credits of every start, by at most one for every inflow that
\* straddled a save of MeterPersistence::saveMeters.
THEOREM CreditsAudited == Spec => []AuditAcrossRestarts
<1>1. IInv => AuditAcrossRestarts
  <2>. SUFFICES ASSUME IInv, httpOp = None, sasOp = None
                PROVE  meters[Credits] - ((meters[Bill] + meters[Aft])
                           + Gift * tally.gifts - tally.bets)
                         \in -tally.straddling..tally.straddling
    BY DEF AuditAcrossRestarts, Bill, Aft
  <2>1. PICK g \in Int, b \in Nat, r \in Nat, c \in Nat, bi \in Nat, a \in Nat :
          /\ g = Gift * tally.gifts /\ b = tally.bets /\ r = tally.straddling
          /\ c = meters[Credits] /\ bi = meters[Bill] /\ a = meters[Aft]
    <3>1. tally.gifts \in Nat /\ tally.bets \in Nat /\ tally.straddling \in Nat
      BY TallyParts DEF IInv, Types
    <3>2. Gift * tally.gifts \in Int
      BY <3>1, BoundsAre
    <3>3. meters[Credits] \in Nat /\ meters[Bill] \in Nat /\ meters[Aft] \in Nat
      BY MetersAre DEF IInv
    <3>. QED
      BY <3>1, <3>2, <3>3
  <2>2. Live = (c - (bi + a + (g - b))) - 0 - 0
    BY <2>1 DEF Live, Off, Paid, SasHalf, HttpHalf
  <2>3. -r <= (c - (bi + a + (g - b))) - 0 - 0 /\ (c - (bi + a + (g - b))) - 0 - 0 <= r
    BY <2>1, <2>2 DEF IInv, AuditInv
  <2>4. c - ((bi + a) + g - b) \in -r..r
    BY <2>3
  <2>. QED
    BY <2>1, <2>4
<1>. QED
  BY <1>1, InvHolds, PTL

\* After an orderly end the meters a start finds are those of the last save.
THEOREM OrderlyRestarts == Spec => []OrderlyRestart
<1>1. IInv => OrderlyRestart
  <2>1. ASSUME IInv, pc = "loaded", ~unsafe, saves > 0
        PROVE  Good(file) /\ meters = file.values
    <3>1. Good(file)
      BY <2>1 DEF IInv, SaveInv, FileInv
    <3>2. file.kind = "meters"
      BY <3>1 DEF Good
    <3>. QED
      BY <2>1, <3>1, <3>2 DEF IInv, SaveInv, FileInv
  <2>. QED
    BY <2>1 DEF OrderlyRestart, Good
<1>. QED
  BY <1>1, InvHolds, PTL

=============================================================================
