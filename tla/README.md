# Specification of the EGM emulator

TLA+ modules, model-checking configurations and proofs kept beside the C++ source of the
EGM (slot machine) emulator, a SAS slave with an HTTP front end. Every definition is
translated from the source; `PROJECT.json` lists, definition by definition, the lines it
stands for (paths there start with `src/`, the repository root).

## 1. The system

One process (and, for the daemon, a second one), with these kinds of thread:

| Thread | Code | What it does |
|---|---|---|
| main | `src/simulator/main.cpp` | loads the meters, adds games, progressives and $100, starts the others; on a signal saves the meters and stops them |
| daemon | `src/sas/SASDaemon.cpp` | the polling side of SAS, in a program of its own: discovers a machine, polls it, reconnects |
| HTTP clients | `src/http/HTTPServer.cpp:122-156` | one detached thread per request; each handler below holds `HTTPServer::mutex_` throughout |
| SAS receive | `src/sas/SASCommPort.cpp:140-218` | reads one poll at a time, runs its handler, writes the answer; takes no HTTP mutex |
| watchdog | `src/simulator/Machine.cpp:126-148` | every second clears the progressives that were not refreshed for 5 s |
| subscribers | `include/event/EventService.h` | run inside the publisher's thread, under the event service's mutex |

They share one `Machine`, each of whose accessors locks `Machine::mutex_` on its own: a
handler made of several calls is not atomic. That is where most of what is hard here comes
from. The other source is the SAS link: the master repeats what it thinks was lost, the
slave keeps its answers nowhere, and its AFT state lives in static variables.

### Inventory

| Component | State | Operations | Hard behaviour | What makes it correct |
|---|---|---|---|---|
| Credit meters and play (`Machine.cpp`, `HTTPServer.cpp`) | `machineMeters_`, `currentGame_` | play, win, lose, bill, denomination, transfers | HTTP and SAS threads interleave between a check and its debit, and between a credit and its meter | no credit is lost or made; overdraft is bounded; one game at a time, paid at the stake that was taken |
| AFT handlers (`AFTCommands.cpp`) | the statics of lines 13-33 | 0x70 register/lock, 0x71 and 0x74 status, 0x72 transfer, 0x73 unlock | retries, lost and late answers, restarts | a transaction moves money once; answers are true; the lock variables agree; every transfer is settled |
| Meter polls (`MeterCommands.cpp`) | none (0x19 writes test values) | reads, encodings | unsigned and BCD conversions | what is reported is what is held |
| SAS port (`SASCommPort.cpp`, `MachineCommPort.cpp`) | `running_`, exception queue, statistics | start, stop, general poll, long poll | an exception is popped before its answer is sent | no event is lost; each poll is answered by its own handler |
| Serial framing (`SASSerialPort.cpp`, `CommChannel.cpp`) | receive buffer kept across reads | read, write | bursts, partial messages, time-outs | messages come out whole and in order |
| SAS daemon (`SASDaemon.cpp`) | mode, connected, consecutive time-outs | discovery, online, offline | loss and return of the link | a link that is up is found again |
| Persistence (`MeterPersistence.cpp`, `main.cpp`) | the meters file | load, save | crash while saving, two savers, saving before stopping | a restart finds the meters that were saved |
| Playability, handpay, bonus (`Machine.cpp`) | flags, handpay queue | gameStart, reset, enable, lock | conditions checked one after the other | no game starts while one of them forbids it |
| Progressives (`Machine.cpp`, `ProgressiveCommands.cpp`) | values, time of last update, hits | set, hit, clear, poll | watchdog against update | a fresh value survives; a stale one does not |
| Event service (`EventService.h`) | subscriptions | subscribe, publish | two mutexes taken in both orders | publishers never wait for each other for ever |
| BCD, CRC (`BCD.cpp`, `CRC16.cpp`) | none | encode, decode | overflow | what was encoded is decoded; the checksum is the polynomial's |
| Tickets (`TITOCommands.cpp`) | last ticket (nothing calls `printTicket`) | validation polls | lengths within the request; the date is read from a shared `struct tm` | what is reported is the last ticket |
| Configuration, date (`ConfigCommands.cpp`, `DateTimeCommands.cpp`) | none | reports | length bytes; the C library's buffer of dates | the host finds the end of the answer; the date is one the machine had |
| Startup, shutdown (`main.cpp`) | – | load, initial credits, save, stop | the save comes before the threads are stopped | see Persistence |

The rest (reading the EGM configuration, platforms, GUI, vendored rapidjson, scripts) has no
protocol of its own; `PROJECT.json` gives the reason for each.

The hazards, what is hard to test here and where it bites, are listed in `PROJECT.json` with the
properties that are about them. Two have no property: `POST /play` never asks whether the machine is
playable, and poll 0x19 overwrites five meters with test values. For some others the property says how far the
damage goes and does not rule it out; the hazard's note then says so. One more is not listed there: the detached client threads (`HTTPServer.cpp:151-152`)
may still run while `main` returns and destroys the server they belong to; `PowerCycle` ends
them with the process, wherever they are.

## 2. Modules

| Module | What it is |
|---|---|
| `Account` | abstract specification: a balance changed by one deposit or one withdrawal at a time, with a bounded overdraft |
| `CreditMeter` | the meters of the machine and the HTTP and SAS threads that change them, call by call; implements `Account` |
| `CreditMeter_proof` | proofs about `CreditMeter` |
| `MCCreditMeter` | its instance for TLC |
| `AftProtocol` | the AFT handlers and their statics, the link, and a host that times out, repeats, gives up and comes back |
| `AftProtocol_proof` | proofs about `AftProtocol`: types and the lock |
| `AftOnce_proof` | proofs about `AftProtocol`: a transaction is not applied twice, and what the host is told is true |
| `MCAftProtocol` | its instance for TLC |
| `SerialLine` | `SASSerialPort::read`: how the bytes of the UART are cut into messages |
| `EventReports` | abstract specification: events happen, wait in order, and are told or lost |
| `SasPort` | the SAS port on a `SerialLine` (EXTENDS): receive thread, exception queue, start and stop; implements `EventReports` |
| `SasDaemon` | the polling daemon, its port, the pipes and the machine's port behind them |
| `PowerCycle` | loading, saving and ending: the meters across restarts |
| `Cabinet` | playability, handpays, bonus, RAM clear, progressives with the watchdog, the event service |
| `Codec` | BCD, checksum and serialization as functions, with the definitions they are compared with |
| `MeterPolls` | every poll that reports, access by access, down to the bytes it answers with (EXTENDS `Codec`) |
| `SasPort_proof`, `SasDaemon_proof`, `PowerCycle_proof`, `Cabinet_proof`, `MeterPolls_proof` | proofs about these modules; `SasPort_proof` is about the `SerialLine` too, `MeterPolls_proof` about the `Codec` |
| `MCSasPort`, `MCSasDaemon`, `MCPowerCycle`, `MCCabinet`, `MCMeterPolls` | their instances for TLC |

### CreditMeter

A step is one `Machine` call that changes a meter (each is atomic under `Machine::mutex_`),
together with the thread-local work around it. `pc[c]` says where HTTP client `c` is in its
handler and `sasPc` where the SAS thread is. `httpMutex` is `HTTPServer::mutex_`, held by a
client from the start of its handler to its end: `Enter`, `Continue` and `Return` are the
`lock_guard`. Correspondence:

- `POST /play`: `Play` (the checks of `playGameCredit`, bucket by bucket), `Deduct`, then
  `Lose`, or `Win` (which reads `currentGame_` again), `CoinOut`, `GameWon`;
- `POST /denom`: `ChangeDenom`; `POST /bill`: `BillInsert`, `BillCount`, `BillMeter`;
- AFT 0x72 into the machine: `TransferIn`, `AftInMeter`; out of it: `TransferOut` (the
  check), `TransferOutDebit`, `AftOutMeter`; poll 0x19: `PollCoinIn`.

`stake`, `wagered`, `won` and `played` are history: the code does not count bets on this
path (`METER_COIN_IN` and `METER_GAMES_PLAYED` stay untouched, whatever the comment at
`HTTPServer.cpp:433` says). Amounts are cents; for the denominations of `SASConstants.cpp`
the code's floating-point conversions of its bets, wins (up to ten bets) and bills are exact (the amounts that
lose a cent are `Cabinet`'s subject). Bills are positive, as a bill acceptor's are; `POST /bill` parses any number
and adds it, a negative one too (`HTTPServer.cpp:533-536`), and that is assumed away. `METER_AFT_IN`, `METER_AFT_OUT` and some others
are used but not declared in `SASConstants.h` at this commit; the model takes them for
meters of their own. The opening promotional credits stand for what `loadMeters` restores
and what a program built on the `Machine` class adds before the threads start
(`GETTING_STARTED.md`).

### AftProtocol

Polls are answered one at a time, and a handler is one step but for a transfer out, which is two: `TransferOut` is the look at
the credits (`AFTCommands.cpp:475`), `TransferOutDebit` the debit (`:480`) with the rest of the handler. In between, as between
polls, `PlayerStep` may move the credits or `Restart` end the process, so the credits can become negative here as in `CreditMeter`;
`debiting` says that the thread is there, and the poll stays at the head of `toEgm` until it is answered. A transfer
in, or one that is only checked, has a single call on the credits (`TransferFunds`). `TransferDone` is the end they share. The variables from `registered` to `available`
are the statics; `Restart` gives them their initial values while the credits survive and
grow by the $100 of `main.cpp:162` (one unit in the model). Polls are taken in the layout the
handlers read, as delivered by the piped channel. `TransferRefusal` keeps the order of the
checks of `handleTransferFunds`, and a refusal of an unregistered machine carries the zero
transaction ID, as in the code. `BONUS_TO_GAMING_MACHINE` (0x01) is no kind of request:
the handler masks the transfer code with 0xF0, so its case cannot be reached and the
code counts as a transfer to the machine.

The host and the link are external: the repository contains no AFT master. The host sends
one poll at a time; when no answer comes it repeats the transfer under the same ID, or
turns to another one, and may come back; told that the machine is not registered it
registers it. `applied`, `processed` and `resumed` are history.

### SerialLine and SasPort

The UART is used so that the address byte never reaches the program; the code has only the command byte to
find the length of a message by. `Fetch` takes from the UART what the message at hand still needs, `Discard`
drops a zero in front, `Return` hands out a message and moves the rest of the static buffer to the
front; `Open` and `Close` leave that buffer alone, as the code does. `FixedLength`, `HasLengthField` and
`Awaited` are the tables. The host puts whole messages on the line; bytes arrive with any
delay and some are lost. `whole`, `underWay` and `intended` are history: what the host meant, as long as nothing damaged is under way (`Damage`).

`SasPort` runs the receive thread on it: `ReadOn`, `ReceivePoll`, `PopException`, `SendAnswer`.
Other threads queue and clear exceptions and start and stop the port. The queue's mutex is
released between the look whether it is empty (`ReceivePoll`) and the pop (`PopException`), and the pop comes
before the answer is sent. Event code 0x00 is one of the codes; its answer is taken for none and not sent.
The events are numbered; which of them have code 0x00 is in `silent`. `Reports` maps the port to `EventReports`:
the answer under way and the queue are what waits.

### SasDaemon

One action per thing the polling thread does between two looks at its state: `Discover` (one poll of the
discovery), `Discovered`, `PollForExceptions`, `PollNext` or `NotDue`, `CheckConnection`.
`Sent` is the retry through the port, with its counter of time-outs. `Start`, `Stop`, `Joined`, `SetMode` and
`PortStops` are calls of other threads, `LinkChanges` the outages. Of what waits in a pipe only the
first byte matters to the port that reads it (`inbox`): it is the address, since nobody
strips it, and is taken for the command.

### PowerCycle

`Load` and `StartUp` are `main` up to its loop, `PortFails` the way out when the SAS port
does not open. A save is `Begin` (the file is truncated), `ReadMeter` meter by meter, `Close` (the buffer is
written): by `main` (`ShutDown`, `Saved`) and by `POST /reboot` (`Reboot`, `RebootScheduled`). `file` is what the process
sees, `disk` what survives a power failure; `WriteBack` copies one to the other whenever the system likes.
Three meters stand for all that are saved: the credits, the bills' and the transfers' counters. Bets, which are checked under the HTTP
mutex, are the only debits here: the host's transfer out and its race are in `CreditMeter`, and it is for that reason that no meter
of this module is negative. A save opens and closes its file: an `fopen` that fails (`MeterPersistence.cpp:199-202`, after which nothing
is saved and the old file stays) and an `fclose` that fails are not modelled.

### Cabinet

Five threads call the `Machine` API: a player, a host, an attendant, a progressive server, and the
machine's own watchdog. A call that takes a mutex and releases it without doing anything in between
that could block is one step; otherwise `mutex` or `service` stays taken over the step. `BeginCheck`, `Pass` and
`Refuse` are `checkPlayable` condition by condition; `BeginCashout`, `Deduct`, `OweCashout` the cash-out to a handpay;
`Award` and `CreditBonus` the bonus (both ways convert: `Converted` is an amount of credits made dollars, divided by the denomination and
truncated, which loses a credit of some amounts, 29 for one; they are the constant `Short`, and what is owed is the dollars); `BeginRamClear`, `ZeroMeters`, `RestoreCredits` the RAM clear; `SetLevel`,
`Published`, `Look`, `Clear` the progressives. In the shipped program only `setEnabled`, `isPlayable`, the progressives' set-up and the watchdog of
these are reached; the rest is the API that `GETTING_STARTED.md:172-295` documents for programs
built on the class. `autoProcessEvents` is there from the start or never (`auto`).

### Codec and MeterPolls

`Encode`, `Decode`, `Crc` and `Serialize` follow `BCD.cpp`, `CRC16.cpp` and `Message::serialize`; `CrcByBits` is the
polynomial, written independently. `MeterPolls` takes a poll (`Accept`), makes its reads of meters one by one while other
threads increment them (`GetMeter`, `SetMeter`, `IncrementMeter`), and answers with a frame (`Answer`) whose bytes are
those the handler builds. `Accesses` says which meters a poll reads in which order, `Report` what it makes of them,
`ResponseCommand` with which command it answers. Date polls fill the C library's one `struct tm` (`CallLocaltime`) and
read it field by field (`ReadTm`) while another thread may stamp a save with `gmtime` (`StampSave`), which may leave any
of its fields in there: nothing orders the accesses. The AFT statics (`Aft`, `Config`) are constants here; `AftProtocol` changes them.

## 3. What is checked

| Run | Shows |
|---|---|
| `credit_meter` | `TypeOK`; `OverdraftBounded` (two approvals on the same credits cost at most one debit; promotional credits are never overdrawn); `AuditedAtRest` (when no handler is under way the meters account for every credit); `WinMatchesBet` (the second read of the current game cannot see another denomination); `PlaysSettledOnce`; `ImplementsAccount` (refinement of `Account`) |
| `aft_protocol` | `TypeOK` (the status kept is one a transfer ended with, whatever is refused); `AppliedOncePerReturn` (a transaction is applied again only after a restart or after the host came back to it, once for each); `AnswersTruthful` (what the host was told agrees with what happened); `LockStateConsistent` (the four lock variables agree) |
| `aft_settles` | `TransferSettles` (liveness): a transaction the host stays with is settled |
| `sas_port` | `TypeOK`; `WholeMessages` (on a line without damage a message comes out as the host put it there); `NoReadAhead`; `ParametersHanded` (two tables in two files agree on what of a message are parameters); `ReportedInOrder`, `OnlyKnownLosses` (which events the host may never hear of); `ImplementsReports` (refinement of `EventReports`); `QueueDrains` (liveness: whatever the buffer holds, the port finds back and every event leaves the queue) |
| `sas_daemon` | `TypeOK`; `OnlineOnEvidence`; liveness: `OutageNoticed` (no settling on a dead link), `Reconnects` (a good link is online for good in the end), `EveryLongPollSent` |
| `power_cycle` | `TypeOK`; `AuditAcrossRestarts` (the credits are the inflows less the bets plus the initial credits of every start, up to one credit for each inflow that straddled a save); `OrderlyRestart` (after an orderly end the start finds what was saved) |
| `cabinet` | `TypeOK`; `NoBlockedGame` (what blocks all along lets no game start); `MoneyKept` (between credits and handpays no money appears but at most one credit for each cash-out, and none vanishes but at most one for each bonus, which is what dollars and back can lose; but in a RAM clear that a change of the credits has met); `LinkHonest`; liveness: `SilenceClears`, `CallsReturn` |
| `meter_polls` | `TypeOK`; `FieldsFaithful` (each field the host decodes is a value its meter had during the poll); `LostNotOverstated`; `EndFound` (lengths and length bytes agree with the frame); `FrameVerifies` (the checksum); `DatesTold` (a date is the clock's, but for fields a save has overwritten) |
| `overdrawn` (violation) | `NeverOverdrawn`: a bet between the SAS thread's check and its debit leaves a negative balance |
| `aft_twice` (violation) | `AppliedAtMostOnce`: the duplicate check knows one transaction only |
| `aft_unavailable` (violation) | `TransfersOnlyWhenAvailable`: transfers go on after a refused lock code has made them unavailable |
| `daemon_exceptions` (violation) | `ExceptionsSeen`: over a pipe the daemon's general polls are never taken for general polls, and a queued exception stays queued |

The four violations are real disagreements between the code and what its comments and
documents say; `PROJECT.json` quotes the lines. The three statements that do hold in their
place (`OverdraftBounded`, `AppliedOncePerReturn`, `LockStateConsistent`) say how far the damage goes.

Every property of a passing run has a mutant: a slip of the kind that is easily made in the
code (an operator defined just before the definition it replaces, under a comment that starts
with "Slip") with which TLC finds the property violated.

### Bounds

- `CreditMeter`: two clients (a third would be one more waiting for the same mutex), two
  denominations (1 and 2), a counted bill (1) and an uncounted one (2), transfers of 1 and 3,
  wins of twice and three times the bet, and `MaxInflow`, which bounds the credits that ever come in. Two
  denominations and amounts on both sides of the balance are what the checks tell apart. The clients are
  interchangeable (symmetry; all its properties are safety). The proofs need none of these bounds.
- `AftProtocol`: two transactions, so that the host can leave one for the other; a request of
  each kind, one larger than the balance, one of nothing; one restart, one lost message, one
  early time-out, one lock change, one return to a transaction (`Max...`). One of each is enough for
  every pair of them to occur together; the properties count them, so the bounds on the
  number of applications are exercised at their limits. The safety runs use the symmetry of
  the two transactions; the liveness run does not, and has two kinds of request and no return.

- `SasPort`: a buffer of 8 bytes and messages of up to 9 (256 and 259 in the code), so that one message is cut; two
  events, and one each of lost bytes, lost answers, clears, stops and other polls. Its messages are those on which the tables
  agree (`Composed`) and those they do not know or get wrong (`Unknown`); one of the latter is enough to put the line out of step.
- `SasDaemon`: three time-outs instead of ten and four discovery polls instead of eleven, so that an outage can fall anywhere
  in a discovery and the counter reach its limit there and elsewhere; two outages, two starts, one mode set from outside, one event.
- `PowerCycle`: initial credits of 2, three changes of credit, three starts, two saves: both savers at once, a
  start after it, and a start after that.
- `Cabinet`: two progressive levels with one value besides zero, a limit of one second instead of five, bonuses below and
  at the handpay limit. `Short` has all the amounts below 200 which a double loses a credit of (`(int)(n * 0.01 / 0.01)`), and no amount in the run
  is larger; 29 is the least and is the opening balance and the larger bonus, so that both conversions lose, both ends of `MoneyKept`'s interval are
  reached, and a balance that lost one is cashed out again. Three calls: a check, a cash-out or a clear together with two others that interfere.
- `MeterPolls`: every poll (of the twenty-four for a single meter, which differ in nothing but the meter, five), with and without its
  parameters, with one code, with several and with more than the length byte can count; meters that are zero, at the top of
  their field or about to pass it, and a balance that turns negative; two increments during one poll. One poll at a time:
  the handlers keep nothing. The clock is an evening in Las Vegas, when it is the next day in UTC.

### Fairness

`CreditMeter`, `PowerCycle` and `MeterPolls` state safety only. In `AftProtocol` the SAS thread is fair (`WF(EgmStep)`: its
loop takes the next poll whatever the others do), and so is the host with the transaction it is busy
with: it takes the answers that are there, times out when none can come, repeats and registers. Nothing
is assumed of the player, of restarts, of the link, or of the host's changes of mind; losses
and restarts are bounded, since a link that always loses settles nothing.

`SasPort`: the receive thread reads without pause (`WF(Receive)`) and the host sends its general poll again and again
(`WF(Poll(GeneralPoll))`), which is what a SAS master does; nobody is assumed to start or stop the port. `SasDaemon`: the polling
thread, the receive threads and a stop that waits for its thread are fair; `SF(PollNext)` says that the second between two long polls
passes (the thread comes by many times a second and finds the poll due in some of the passes). `Cabinet`: a
thread inside a call goes on when it can, the watchdog looks, and time passes; nothing is assumed of who calls.
`CallsReturn` and `SilenceClears` hold without `autoProcessEvents` only, which is what the two mutexes taken in both orders
leave of them: a subscriber that calls the machine under the event service's mutex and a publisher that holds the machine's
wait for each other for ever (`CONVERSION_SUMMARY.md:206` has "No deadlock potential with single mutex design").

## 4. What is proved

`CreditMeter_proof` proves, for every set of clients, denominations, bills, transfers and
opening balances, that `Spec` implies each property of the run `credit_meter`. The assumptions are
those of `CreditMeter` (amounts are natural numbers, `MaxDebit` bounds bets and transfers, `NoClient`
is no client), which TLC evaluates on the instance.

The properties are not inductive. `AuditedAtRest` says nothing while a handler runs, and
`OverdraftBounded` forgets what has been approved. `IInv` strengthens them:

- `MutexOwned`: a client is inside a handler exactly while it owns the mutex;
- `DebitsCovered`: the balance less every approved debit is above the overdraft; since there
  is at most one approved bet (by `MutexOwned`) and one approved transfer, each no larger than `MaxDebit`,
  a second approval on the same credits can take only its own amount;
- `CreditsAccounted` and `BillsCounted`: the auditor's equations with what is between two calls of a
  handler (`UnmeteredBill`, `UnmeteredIn`, `UnmeteredOut`);
- `BetInPlay`: the denomination is that of the open game, which makes `WinMatchesBet` inductive;
- `WinMatchesBet` and `PlaysSettledOnce` themselves.

The proof goes by thread: `SasPreserves`, and for the clients one lemma for each group of
conjuncts (`OwnershipKept`, `ClientDebits`, `ClientAccounting`, `ClientGames`), each with one step per action.
Types are proved first (`TypeCorrect`). The refinement (`CreditsAreAnAccount`) maps every step to a
deposit, a withdrawal or a stutter; the accounting conjunct supplies the balance equation.

`AftProtocol_proof` proves, from the assumptions of `AftProtocol` (the requests have natural amounts, the zero transaction
ID is no transaction), that `Spec` implies `TypeOK` and `LockStateConsistent`. `TypeOK` is not inductive: a poll for a
transaction nobody asked for would be answered with an amount that does not exist. `TypeInv` adds that every polled
transaction, and the current one, has a request, and `DebitInv` that while a transfer out is between its two
calls the poll at hand is that transfer, not refused. Of the credits it says that they are a number: `CreditMeter_proof` has how far below zero they get. `LockStateConsistent` is inductive by itself.

`AftOnce_proof` proves `AppliedOncePerReturn` for every number of transactions, losses, late answers, restarts and returns.
The machine remembers the last transaction only, so what it refuses depends on the order of the polls under way, and
the property is far from inductive. `OnceInv` gives each transfer poll on the link a *turn* (there is a function `e` from the
queue to numbers), the number of the host's returns to its transaction when it was sent:

- turns of one transaction go up along the queue, and strictly past a poll for another transaction (`Ordered`);
- a poll of turn `n` finds fewer than `n + 1` applications (restarts allowed for), or finds its own ID in the duplicate
  record, because no rival is in front of it (`Guarded`, `PollsGuarded`); so does a repeat the host may yet send;
- the record holds the amount of its transaction (`RecordOk`), which the duplicate check also compares.

The lemmas follow the queue: a poll is taken away (`DequeuedKeepsOnce`), processed (`TransferKeepsOnce`) or sent
(`SentKeepsOnce`), and a restart empties it (`RestartKeepsOnce`). The host's assumption behind it is its control: it
repeats only its current transaction.

The second part proves `AnswersTruthful`. A success is told because credits moved or because the record says so, so three
invariants go with `OnceInv`: `TurnInv` (a transaction dealt with in its first turn, with no restart, is the one on record as
long as a poll or a repeat for it may come), `UseInv` (credits have moved only for a transaction that was dealt with and
whose request moves credits), and `ToldInv` (the answers under way and those received are true, and stay true).

`SasPort_proof` has two invariants which do not need each other, for every buffer size, every set of messages and every bound.

- `EventInv`: what was reported, the answer under way and the queue follow one another in the order of queueing, and the
  thread has an answer exactly when it is about to send it. From it follow `ReportedInOrder`, `OnlyKnownLosses` (a step adds at most
  the answer that the line loses to the `Missing` events) and, step by step, `ImplementsReports`.
- `LineInv`: while nothing is damaged, the buffer and the line together can be cut into the messages under way (`Joined`: there
  are places to cut at), and the buffer holds nothing beyond the first of them. The cut is needed because what the reader
  knows is bytes; that a message comes out whole is then that its length is found (`WholeMessages`, `ParametersHanded`). A
  separate and simpler argument bounds the buffer whatever the bytes are (`NoReadAhead`).

`FormatAssumption` of `SerialLine` is what they rest on: the messages in `Composed` have the lengths of `getSASCommandLength`
and `hasLengthField`. Those of other formats, or with a length byte that is wrong, are in `Unknown`, of which nothing is
assumed; one of them makes `whole` false.

`PowerCycle_proof` proves `TypeOK`, `AuditAcrossRestarts` and `OrderlyRestart` for every number of starts, saves and changes and
every initial credit. `IInv` has `PhaseInv` (who can be at work when), `CountInv` (the histories are bounded by what was done) and

- `AuditInv`: the error of the live meters, of what a saver will have written once it has read the rest (`SaverErr`, by how
  far it is) and of the file and the disk is at most the number of inflows that straddled. An inflow in two steps which a save meets
  half way is wrong by one on the side on which it is half done; that the error of a save in progress is known at every
  point is what makes the property inductive over `Load`;
- `SaveInv`: while nothing is unsafe, what a saver has read lies between the beginning of its save and now (`Between`), so that a
  finished file does (`Good`).

`SasDaemon_proof` proves `TypeOK` and `OnlineOnEvidence`, which is inductive given the types, for every limit.

`Cabinet_proof` proves `TypeOK`, `NoBlockedGame`, `LinkHonest` and `MoneyKept` from one invariant: `PhaseInv` and `HeldInv` (where each
thread can be, and who holds a mutex), `CheckInv` (no condition the check has passed is one of those that have blocked all along; the
set of the latter only shrinks), `LinkInv` (the watchdog does not renew the link) and `ClearInv` (until a change of the credits meets it, a
RAM clear carries what there is), `CoverInv` (the histories of cash-outs and bonuses, whose numbers bound what conversions have lost) and `MoneyKept` itself. It assumes
nothing of `Short` but that its amounts are positive numbers: a conversion is off by at most one credit, towards zero (`OneOff`). The sum of the handpay queue is a recursive function; the lemmas about it are proved by
induction over a set of numbers.

`MeterPolls_proof` proves `TypeOK`, `LostNotOverstated`, `DatesTold`, `EndFound`, `FieldsFaithful` and `FrameVerifies` for every set of polls, game
list, loaded meters and number of increments. The invariant is about the handler's accesses: what is left to do is the
rest of what the poll needs (`TodoInv`), each value read is one its meter had since the poll came (`GotInv`, `NowInv`) or one that its
field of the `struct tm` may show (`ClockInv`), the meter that is subtracted for 0x17 is read last and grows (`LostInv`), and a frame is the
report of all of it (`FrameInv`). The rest is layout and arithmetic, in lemmas:

- decoding undoes encoding, if the value fits (`DecodeEncode`);
- where a report has the number, for each shape of report: fixed formats (`FixedTold`), those with meter codes (`CodedTold`), and so
  where the host finds it in the frame (`AtInner`, `InFrame`);
- the checksum of the code is the one by bits (`CrcIsByBits`): the exclusive or of half bytes is a group (`XorGroup`), eight shifts by a bit are two
  by a half byte (`FourShifts`, `EightShift`), so the code's two half bytes are the definition's byte (`ByteShift`).

The assumptions of `MeterPolls` say which commands have a handler that reports (`Reporting`, the cases of `handleLongPoll`), that other threads
only add to the games won (`GameWon` adds 1), and that the clock is a `struct tm`.
`LostNotOverstated` rests on the second: `ramClear`, which only the API reaches (`Machine.cpp:859`), would shrink the games won. It is about the two meters the
report is made of; that `POST /play` counts the lost games in a third, which is never reported, it cannot see.
For the polls of a single meter the handler's own table is what the field is compared with, so a wrong entry of the table would pass; what is checked
of them is the encoding, the layout and the race. `FieldsFaithful` accepts zeros for a value that is negative or too large
for its field, and `DatesTold` any outcome of the race for the `struct tm`: they describe these and catch what goes beyond.
`EndFound` has two exceptions in its statement, where the length byte overruns: 0x2F with more codes than it can count, and 0x56 with more than 127 games.

The recursive functions of `Codec` and `Cabinet` are handled without the induction theorems that take an operator: `UpToN` is induction for a *set* of numbers, from
the library's well-founded minimum, and `Iterate` shows that a function defined step by step exists.

Every safety property and both refinements of the passing runs are proved. Model-checked only is liveness (`TransferSettles`, `QueueDrains`,
`OutageNoticed`, `Reconnects`, `EveryLongPollSent`, `SilenceClears`, `CallsReturn`): fairness and ENABLED are beyond the prover. The
four violations are counterexamples, which no proof replaces.

## 5. What could come next

1. Liveness: the safety part of each argument can be proved (what a fair step does to the measure that shrinks), though not the
   conclusion; the measures of `QueueDrains` and `Reconnects` first.
2. Corollaries of the invariants for a host or a site that behaves: with one player and no SAS transfer out the balance is
   never negative; without restarts and returns no transaction is applied twice.
3. A property for a hazard that has none, `POST /play` on a machine that is not playable, which needs the composition of `CreditMeter`
   with the flags of `Cabinet`.

## 6. Not modelled

- Vendored rapidjson: third-party code, and half of the repository's lines of C++ (which is why `map` stands for a fifth of them all). The GUI, scripts and platforms (`ZeusPlatform.cpp` drives the hardware of
  one cabinet). `EGMConfig.cpp` reads a JSON file once.
- HTTP parsing and routing, static files, JSON, logging, and the GET handlers, which print what they read.
  `POST /cashout` is no action: it reads the credits and calls `cashoutButton`, whose body is commented out.
- Code nothing calls: `ProgressiveCommands` (0x80 to 0x9F are taken for general polls before the table of long polls is looked at,
  which `SasPort` has), the builders of `ExceptionCommands`, `printTicket`, `validateTicketRedemption`, `handleSetDateTime`,
  `Message::parse`, `getCommandName`, `BCD::isValid`, `minBytes` and `fromBCD`, `unsubscribe` and `clear` of the event service.
- Of `Machine.cpp`: poker hands, secondary wagers, lights, hopper, connection flag and game delay, on which nothing here depends.
- Headers, for the most part: declarations.

## 7. Noted while modelling

Not findings of a run, and, but for the last-but-one, nothing a property is about; each is modelled as it is where the code is modelled.

- 0x53 takes the game number for an index from 0 (`ConfigCommands.cpp:174`): game 1 gets the denomination of game 2.
- 0x7D wants the two checksum bytes the port has removed, so over the serial line it is never answered (`TITOCommands.cpp:89`).
- 0x71 answers with command 0x74, and 0x7F with 0x7C.
- The date's comment says 9 bytes; 7 are sent. The restricted amount of 0x74 is always 0. 0x55 always names the first game.
- The codes 0x2F (0x02 to 0x05) and 0x6F (0x1C, 0x1F, 0x45 and 0x46) understand differ from Table C-7 as `SASConstants.h` has it; `FieldsFaithful` is about the codes on which they agree. The comments of 0x1F, 0x52 and 0x53 give wrong totals.
- 0x17 computes the games lost from meters `POST /play` does not count; the GAMES_LOST it does count is never reported.
- `GET /api/meters` prints a constant 0 for the bills of 2, 200, 500 and 1000 dollars.
- A progressive hit below the handpay limit is told and recorded but paid by nobody.
- `POST /play` never asks `isPlayable`.
- A cash-out of 29 credits owes $0.29 and debits 28: 0.29 / 0.01 is a little less than 29 as a double, and the conversion truncates
  (`Machine.cpp:298`). A bonus of 29 credits 28 (`:460`). `MoneyKept` counts these; no document promises otherwise.
- Poll 0 has a case that answers with the number of the first game (`SASCommPort.cpp:398`), under command 0, which is taken for no answer.
