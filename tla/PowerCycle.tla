----------------------------- MODULE PowerCycle -----------------------------
(***************************************************************************)
(* The life of the machine across restarts: main() loads the meters from a *)
(* file, adds the initial credits and starts the threads; the meters are   *)
(* saved when main() shuts down and when a client asks for a reboot.       *)
(*                                                                         *)
(* MeterPersistence::saveMeters truncates the file, reads the meters one   *)
(* by one (each read takes Machine::mutex_, the whole save takes none) and *)
(* writes them when it closes the file.  Meanwhile                         *)
(*  - the SAS thread goes on transferring credits,                         *)
(*  - HTTP clients go on, unless the save is a client's own: then they     *)
(*    wait for HTTPServer::mutex_,                                         *)
(*  - the other of the two savers may be at work,                          *)
(*  - main() may exit, the system may reboot, the power may fail.          *)
(*                                                                         *)
(* An inflow adds to the credits and then to its own meter; a bet only     *)
(* takes credits (POST /play counts no COIN_IN).  All amounts are one      *)
(* credit, except the initial credits.                                     *)
(***************************************************************************)
EXTENDS Integers, Sequences

CONSTANTS
  Gift,        \* the initial credits: 10000
  MaxOps,      \* bound of the model: inflows and bets
  MaxBoots,    \* bound of the model: starts of main()
  MaxSaves     \* bound of the model: saves begun

ASSUME PowerAssumption ==
  /\ Gift \in Nat \ {0}
  /\ {MaxOps, MaxBoots, MaxSaves} \subseteq Nat

Credits == "CURRENT_CRD"
\* The order in which saveMeters reads them.
Keys == <<Credits, "CRD_FR_BILL_ACCEPTOR", "AFT_IN">>
Meters == {Keys[i] : i \in DOMAIN Keys}
Counters == Meters \ {Credits}
Savers == {"main", "http"}

VARIABLES
  pc,        \* where main() is
  meters,
  httpOp,    \* the meter the client that holds HTTPServer::mutex_ has still to count
  sasOp,     \* the meter the SAS thread has still to count
  saving,    \* how many meters each saver has read, or Idle
  buffer,    \* what it has read
  file,      \* meters.json as the programs see it
  disk,      \* meters.json as a power failure leaves it
  rebootDue, \* a client's reboot is scheduled
  before,    \* history: the meters, and the operations, when each saver began
  tally,     \* history: bets, gifts and straddling inflows the meters include
  unsafe,    \* history: the file may be cut short or older than the last save
  ops, boots, saves   \* counters of the bounds

vars == <<pc, meters, httpOp, sasOp, saving, buffer, file, disk, rebootDue,
          before, tally, unsafe, ops, boots, saves>>

Idle == -1
None == "none"
Zero == [m \in Meters |-> 0]
NoTally == [bets |-> 0, gifts |-> 0, straddling |-> 0]
Blank == [values |-> Zero, tally |-> NoTally, ops |-> 0]
\* No file, a file loadMeters cannot parse, or a file with these contents.
Absent == [kind |-> "absent"]
Torn == [kind |-> "torn"]
Contents(s) ==
  [kind |-> "meters", values |-> buffer[s].values, tally |-> buffer[s].tally,
   from |-> before[s].values, to |-> meters, ops |-> ops - before[s].ops]

Init ==
  /\ pc = "off"
  /\ meters = Zero /\ tally = NoTally
  /\ httpOp = None /\ sasOp = None
  /\ saving = [s \in Savers |-> Idle]
  /\ buffer = [s \in Savers |-> Blank]
  /\ before = [s \in Savers |-> Blank]
  /\ file = Absent /\ disk = Absent
  /\ rebootDue = FALSE /\ unsafe = FALSE
  /\ ops = 0 /\ boots = 0 /\ saves = 0

Saving(s) == saving[s] # Idle
ThreadsRun == pc \in {"running", "saving", "stopping"}

-----------------------------------------------------------------------------
(* Startup.                                                                *)

\* loadMeters: every meter of the file, or none of them.
Load ==
  /\ pc = "off" /\ boots < MaxBoots
  /\ boots' = boots + 1
  /\ pc' = "loaded"
  /\ IF file.kind = "meters"
       THEN meters' = file.values /\ tally' = file.tally
       ELSE meters' = Zero /\ tally' = NoTally
  /\ UNCHANGED <<httpOp, sasOp, saving, buffer, file, disk, rebootDue, before,
                 unsafe, ops, saves>>

\* "Add initial credits for testing", at every start; then the SAS port, the
\* machine and the HTTP server start.
StartUp ==
  /\ pc = "loaded"
  /\ pc' = "running"
  /\ meters' = [meters EXCEPT ![Credits] = @ + Gift]
  /\ tally' = [tally EXCEPT !.gifts = @ + 1]
  /\ unsafe' = FALSE
  /\ UNCHANGED <<httpOp, sasOp, saving, buffer, file, disk, rebootDue, before,
                 ops, boots, saves>>

\* Power off or process gone: all that is left is the file.
Ended ==
  /\ pc' = "off"
  /\ meters' = Zero /\ tally' = NoTally
  /\ httpOp' = None /\ sasOp' = None
  /\ saving' = [s \in Savers |-> Idle]
  /\ buffer' = [s \in Savers |-> Blank] /\ before' = [s \in Savers |-> Blank]
  /\ rebootDue' = FALSE
  /\ UNCHANGED <<ops, boots, saves>>

\* The serial channel cannot be opened: main() returns 1, without a save.
PortFails ==
  /\ pc = "loaded"
  /\ Ended
  /\ UNCHANGED <<file, disk, unsafe>>

-----------------------------------------------------------------------------
(* Credits.  An inflow straddles a save that is not kept from overlapping  *)
(* with it: any save for the SAS thread, main()'s for a client.            *)

Straddles(s) == IF s = "sas" THEN \E t \in Savers : Saving(t) ELSE Saving("main")

Credited(s) ==
  /\ ops < MaxOps /\ ops' = ops + 1
  /\ meters' = [meters EXCEPT ![Credits] = @ + 1]
  /\ tally' = [tally EXCEPT !.straddling = IF Straddles(s) THEN @ + 1 ELSE @]

Counted(meter) == meters' = [meters EXCEPT ![meter] = @ + 1]

HttpIdle == httpOp = None /\ ~Saving("http")

\* POST /bill/insert.
InsertBill ==
  /\ ThreadsRun /\ HttpIdle
  /\ Credited("http")
  /\ httpOp' = "CRD_FR_BILL_ACCEPTOR"
  /\ UNCHANGED <<pc, sasOp, saving, buffer, file, disk, rebootDue, before,
                 unsafe, boots, saves>>
CountBill ==
  /\ httpOp # None
  /\ Counted(httpOp)
  /\ httpOp' = None
  /\ UNCHANGED <<pc, sasOp, saving, buffer, file, disk, rebootDue, before, tally,
                 unsafe, ops, boots, saves>>

\* Slip: without looking at the credits.
BetUnchecked ==
  /\ ThreadsRun /\ HttpIdle
  /\ ops < MaxOps /\ ops' = ops + 1
  /\ meters' = [meters EXCEPT ![Credits] = @ - 1]
  /\ tally' = [tally EXCEPT !.bets = @ + 1]
  /\ UNCHANGED <<pc, httpOp, sasOp, saving, buffer, file, disk, rebootDue,
                 before, unsafe, boots, saves>>

\* POST /play, the bet.
Bet ==
  /\ ThreadsRun /\ HttpIdle
  /\ meters[Credits] > 0
  /\ ops < MaxOps /\ ops' = ops + 1
  /\ meters' = [meters EXCEPT ![Credits] = @ - 1]
  /\ tally' = [tally EXCEPT !.bets = @ + 1]
  /\ UNCHANGED <<pc, httpOp, sasOp, saving, buffer, file, disk, rebootDue,
                 before, unsafe, boots, saves>>

\* 0x72, a transfer to the machine.
Transfer ==
  /\ ThreadsRun /\ sasOp = None
  /\ Credited("sas")
  /\ sasOp' = "AFT_IN"
  /\ UNCHANGED <<pc, httpOp, saving, buffer, file, disk, rebootDue, before,
                 unsafe, boots, saves>>
CountTransfer ==
  /\ sasOp # None
  /\ Counted(sasOp)
  /\ sasOp' = None
  /\ UNCHANGED <<pc, httpOp, saving, buffer, file, disk, rebootDue, before, tally,
                 unsafe, ops, boots, saves>>

-----------------------------------------------------------------------------
(* saveMeters.                                                             *)

\* fopen(path, "wb") truncates; that it can be opened, and in the end closed, is
\* assumed.  What is being credited straddles.
Begin(s) ==
  /\ saves < MaxSaves /\ saves' = saves + 1
  /\ saving' = [saving EXCEPT ![s] = 0]
  /\ before' = [before EXCEPT ![s] = [values |-> meters, tally |-> NoTally, ops |-> ops]]
  /\ file' = Torn
  /\ unsafe' = (unsafe \/ \E t \in Savers : Saving(t))
  /\ LET halfDone == (IF sasOp # None THEN 1 ELSE 0)
                       + (IF s = "main" /\ httpOp # None THEN 1 ELSE 0)
     IN  tally' = [tally EXCEPT !.straddling = @ + halfDone]
  /\ UNCHANGED <<meters, httpOp, sasOp, buffer, disk, ops, boots>>

ReadMeter(s) ==
  LET key == Keys[saving[s] + 1]
  IN  /\ Saving(s) /\ saving[s] < Len(Keys)
      /\ saving' = [saving EXCEPT ![s] = @ + 1]
      /\ buffer' = [buffer EXCEPT
           ![s].values[key] = meters[key],
           ![s].tally = IF key = Credits THEN tally
                        ELSE [@ EXCEPT !.straddling = tally.straddling]]
      /\ UNCHANGED <<pc, meters, httpOp, sasOp, file, disk, rebootDue, before,
                     tally, unsafe, ops, boots, saves>>

\* fclose: less than a stdio buffer, so all of it is written here.  What the
\* other saver wrote meanwhile is overwritten; if that was longer, its end
\* remains and the file is no JSON any more.
Close(s) ==
  /\ saving[s] = Len(Keys)
  /\ saving' = [saving EXCEPT ![s] = Idle]
  /\ file' \in IF file.kind = "meters" THEN {Contents(s), Torn} ELSE {Contents(s)}
  /\ buffer' = [buffer EXCEPT ![s] = Blank] /\ before' = [before EXCEPT ![s] = Blank]
  /\ UNCHANGED <<meters, httpOp, sasOp, disk, tally, unsafe, ops, boots, saves>>

\* main(): "Save meters to persistent storage before shutdown".
ShutDown == pc = "running" /\ pc' = "saving" /\ Begin("main") /\ UNCHANGED rebootDue
Saved == pc = "saving" /\ pc' = "stopping" /\ Close("main") /\ UNCHANGED rebootDue

\* Slip: the handler does without HTTPServer::mutex_.
RebootUnlocked ==
  /\ ThreadsRun /\ ~Saving("http")
  /\ Begin("http")
  /\ UNCHANGED <<pc, rebootDue>>

\* POST /reboot, under HTTPServer::mutex_.
Reboot ==
  /\ ThreadsRun /\ HttpIdle
  /\ Begin("http")
  /\ UNCHANGED <<pc, rebootDue>>
RebootScheduled ==
  /\ Close("http")
  /\ rebootDue' = TRUE
  /\ UNCHANGED pc

-----------------------------------------------------------------------------
(* The end.                                                                *)

Interrupted == unsafe \/ \E s \in Savers : Saving(s)

\* Slip: the SAS port is stopped, the process gone, before the save is over.
ExitEarly ==
  /\ pc \in {"saving", "stopping"}
  /\ Ended
  /\ unsafe' = (unsafe \/ Saving("http"))
  /\ UNCHANGED <<file, disk>>

\* main() has stopped the HTTP server, the SAS port and the machine, and
\* returns; the client threads are detached and end wherever they are.
Exit ==
  /\ pc = "stopping" /\ sasOp = None
  /\ Ended
  /\ unsafe' = Interrupted
  /\ UNCHANGED <<file, disk>>

\* Two seconds after the answer: sync && reboot -f.
Restart ==
  /\ rebootDue
  /\ Ended
  /\ disk' = file
  /\ unsafe' = Interrupted
  /\ UNCHANGED file

\* The system writes the file back when it likes.
WriteBack ==
  /\ disk # file
  /\ disk' = file
  /\ UNCHANGED <<pc, meters, httpOp, sasOp, saving, buffer, file, rebootDue,
                 before, tally, unsafe, ops, boots, saves>>

\* The power fails, or the hardware watchdog resets the board.
PowerFails ==
  /\ pc # "off"
  /\ Ended
  /\ file' = disk
  /\ unsafe' = TRUE
  /\ UNCHANGED disk

-----------------------------------------------------------------------------

Next ==
  \/ Load \/ StartUp \/ PortFails
  \/ InsertBill \/ CountBill \/ Bet \/ Transfer \/ CountTransfer
  \/ ShutDown \/ Saved \/ Reboot \/ RebootScheduled
  \/ \E s \in Savers : ReadMeter(s)
  \/ Exit \/ Restart \/ WriteBack \/ PowerFails

Spec == Init /\ [][Next]_vars

-----------------------------------------------------------------------------

\* What straddles a save is an inflow during it, or one half done when it began.
Tally == [bets : 0..MaxOps, gifts : 0..MaxBoots, straddling : 0..(MaxOps + 2 * MaxSaves)]

\* The types of the variables.  No meter is negative here, where a bet is the
\* only debit; with the host's, which CreditMeter has, the credits can be.
TypeOK ==
  /\ pc \in {"off", "loaded", "running", "saving", "stopping"}
  /\ meters \in [Meters -> Nat]
  /\ httpOp \in {None, "CRD_FR_BILL_ACCEPTOR"} /\ sasOp \in {None, "AFT_IN"}
  /\ saving \in [Savers -> Idle..Len(Keys)]
  /\ {buffer, before} \subseteq
       [Savers -> [values : [Meters -> Nat], tally : Tally, ops : 0..MaxOps]]
  /\ {file, disk} \subseteq {Absent, Torn} \cup
       [kind : {"meters"}, values : [Meters -> Nat], tally : Tally,
        from : [Meters -> Nat], to : [Meters -> Nat], ops : 0..MaxOps]
  /\ {rebootDue, unsafe} \subseteq BOOLEAN
  /\ tally \in Tally
  /\ ops \in 0..MaxOps /\ boots \in 0..MaxBoots /\ saves \in 0..MaxSaves

\* Whatever the restarts, the credits are the inflows less the bets plus the
\* initial credits of every start since the meters last began from zero, up to
\* one credit for every inflow that straddled a save which cannot be kept from
\* it: a client's save is kept from the other clients' inflows by the mutex.
AuditAcrossRestarts ==
  LET inflows == meters["CRD_FR_BILL_ACCEPTOR"] + meters["AFT_IN"]
      due == inflows + Gift * tally.gifts - tally.bets
  IN  pc = "running" /\ httpOp = None /\ sasOp = None =>
        meters[Credits] - due \in -tally.straddling..tally.straddling

\* After an orderly end (no power failure, no save under way when main()
\* returned or the system rebooted, no two saves at once) the start finds the
\* meters of the last save, each as it was at some moment of it.
OrderlyRestart ==
  pc = "loaded" /\ ~unsafe /\ saves > 0 =>
    /\ file.kind = "meters"
    /\ \A m \in Counters : meters[m] \in file.from[m]..file.to[m]
    /\ file.from = file.to /\ file.ops = 0 => meters = file.from

=============================================================================
