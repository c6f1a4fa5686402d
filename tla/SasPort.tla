------------------------------ MODULE SasPort -------------------------------
(***************************************************************************)
(* The SAS port of the machine (SASCommPort.cpp): one receive thread that  *)
(* reads a message, handles it and answers it, the queue of exceptions     *)
(* that other threads fill and general polls empty, and the threads that   *)
(* start and stop the port.  It reads from a SerialLine.                   *)
(*                                                                         *)
(* The queue's mutex is released between looking whether it is empty and   *)
(* taking its head, and the head is taken before the answer is sent.       *)
(***************************************************************************)
EXTENDS SerialLine, FiniteSets

CONSTANTS
  GeneralPoll,   \* the message of the host's general poll: 0x80 + address
  MaxEvents,     \* bound of the model: events reported to the port
  MaxLateLosses, \* bound of the model: answers the line loses
  MaxClears,     \* bound of the model: calls of clearExceptions
  MaxStops,      \* bound of the model: calls of stop
  MaxOtherPolls  \* bound of the model: messages that are no general poll

ASSUME PortAssumption ==
  /\ GeneralPoll \in Composed /\ Len(GeneralPoll) = 1
  /\ {MaxEvents, MaxLateLosses, MaxClears, MaxStops} \subseteq Nat
  /\ MaxOtherPolls \in Nat

Events == 1..MaxEvents

VARIABLES
  running,       \* running_
  pc,            \* where the receive thread is
  queue,         \* exceptionQueue_, as the numbers of the events
  answer,        \* the event in the answer being sent
  silent,        \* events queued with code 0x00 (HANDPAY_PENDING)
  queued,        \* history: events 1..queued have been queued
  reported,      \* history: the events the host has learnt of, in that order
  diverted,      \* history: events cleared, or sent to answer another poll
  lateLosses, clears, stops, otherPolls   \* counters of the bounds

port == <<running, pc, answer>>
events == <<queue, silent, queued, reported, diverted>>
bounds == <<lateLosses, clears, stops>>
portVars == <<port, events, bounds, otherPolls>>
vars == <<lineVars, portVars>>

NoEvent == 0

\* isGeneralPoll; everything else goes to handleLongPoll.
IsGeneralPoll(cmd) == cmd \in 128..159

\* Slip: the checksum of 0x53 is forgotten.
CarriesCrcWithout53(cmd) == cmd \in {111, 175, 160, 82} \cup 114..118 \cup 123..127

\* The commands whose last two bytes readMessage takes for a checksum.
CarriesCrc(cmd) == cmd \in {111, 175, 160, 82, 83} \cup 114..118 \cup 123..127

\* What it hands over to the handlers, behind the command.
Parameters(m) == SubSeq(m, 2, IF CarriesCrc(m[1]) THEN Len(m) - 2 ELSE Len(m))

PortInit ==
  /\ running = FALSE /\ pc = "stopped"
  /\ queue = <<>> /\ answer = NoEvent
  /\ silent = {} /\ queued = 0 /\ reported = <<>>
  /\ diverted = {}
  /\ lateLosses = 0 /\ clears = 0 /\ stops = 0 /\ otherPolls = 0

Init == LineInit /\ PortInit

-----------------------------------------------------------------------------
(* The host.                                                               *)

Poll(m) ==
  /\ HostSends(m)
  /\ IF m = GeneralPoll THEN UNCHANGED otherPolls
     ELSE otherPolls < MaxOtherPolls /\ otherPolls' = otherPolls + 1
  /\ UNCHANGED <<port, events, bounds>>

LineLoses == LoseByte /\ UNCHANGED portVars

-----------------------------------------------------------------------------
(* The receive thread.                                                     *)

Goto(next) ==
  /\ pc' = next
  /\ UNCHANGED <<running, silent, queued, clears, stops, otherPolls>>

ReadOn ==
  /\ pc = "read"
  /\ Fetch \/ Discard
  /\ UNCHANGED portVars

\* readMessage and the two tests of processMessage and handleGeneralPoll: a
\* general poll looks into the queue; the handler of a long poll runs, and its
\* answer goes out, in the same step (its own steps are modelled elsewhere).
ReceivePoll ==
  /\ pc = "read"
  /\ Return
  /\ Goto(IF IsGeneralPoll(message'[1]) /\ queue # <<>> THEN "pop" ELSE "read")
  /\ UNCHANGED <<queue, answer, reported, diverted, lateLosses>>

\* Slip: the queue is not looked at again; the front of an empty one is junk.
PopUnchecked ==
  /\ pc = "pop"
  /\ answer' = IF queue = <<>> THEN MaxEvents + 1 ELSE Head(queue)
  /\ queue' = IF queue = <<>> THEN queue ELSE Tail(queue)
  /\ Goto("answer")
  /\ UNCHANGED <<lineVars, reported, diverted, lateLosses>>

\* Slip: the head is looked at, and removed only when the answer is out.
PopKeepsHead ==
  /\ pc = "pop"
  /\ answer' = IF queue = <<>> THEN NoEvent ELSE Head(queue)
  /\ Goto(IF answer' = NoEvent \/ answer' \in silent THEN "read" ELSE "answer")
  /\ UNCHANGED <<lineVars, queue, reported, diverted, lateLosses>>

\* The head is taken, unless someone has cleared the queue since; code 0x00,
\* an event's or the initial value, makes no answer.
PopException ==
  /\ pc = "pop"
  /\ answer' = IF queue = <<>> \/ Head(queue) \in silent THEN NoEvent
               ELSE Head(queue)
  /\ queue' = IF queue = <<>> THEN queue ELSE Tail(queue)
  /\ Goto(IF answer' = NoEvent THEN "read" ELSE "answer")
  /\ UNCHANGED <<lineVars, reported, diverted, lateLosses>>

\* The answer goes out.  The host takes it for an exception when what it sent
\* was its general poll.
Answered(arrives) ==
  /\ pc = "answer"
  /\ answer' = NoEvent
  /\ IF message = GeneralPoll /\ arrives
       THEN reported' = Append(reported, answer) /\ UNCHANGED diverted
       ELSE /\ diverted' = IF arrives THEN diverted \cup {answer} ELSE diverted
            /\ UNCHANGED reported
  /\ Goto("read")
  /\ UNCHANGED <<lineVars, queue>>
SendAnswer == Answered(TRUE) /\ UNCHANGED lateLosses
LoseAnswer ==
  /\ lateLosses < MaxLateLosses
  /\ lateLosses' = lateLosses + 1
  /\ Answered(FALSE)

-----------------------------------------------------------------------------
(* Other threads.                                                          *)

\* queueException, with code 0x00 or another.
QueueException ==
  /\ queued < MaxEvents
  /\ queued' = queued + 1
  /\ queue' = Append(queue, queued')
  /\ silent' \in {silent, silent \cup {queued'}}
  /\ UNCHANGED <<lineVars, port, reported, diverted, bounds, otherPolls>>

ClearExceptions ==
  /\ clears < MaxClears
  /\ clears' = clears + 1
  /\ queue' = <<>>
  /\ diverted' = diverted \cup ToSet(queue)
  /\ UNCHANGED <<lineVars, port, silent, queued, reported, lateLosses, stops, otherPolls>>

\* start() when it is not running: the channel is opened if it is closed.
Start ==
  /\ ~running /\ pc = "stopped"
  /\ running' = TRUE
  /\ pc' = "read"
  /\ Open
  /\ UNCHANGED <<events, answer, bounds, otherPolls>>

\* Slip: the thread looks at the flag before it sends, too.
ThreadEndsBeforeAnswer ==
  /\ ~running /\ pc \in {"read", "answer"}
  /\ pc' = "stopped"
  /\ answer' = NoEvent
  /\ Close
  /\ UNCHANGED <<running, events, bounds, otherPolls>>

\* stop() clears the flag and waits for the thread, which sees it when its
\* read has returned; then the channel is closed.
Stop ==
  /\ running
  /\ stops < MaxStops
  /\ stops' = stops + 1
  /\ running' = FALSE
  /\ UNCHANGED <<lineVars, pc, events, answer, lateLosses, clears, otherPolls>>

ThreadEnds ==
  /\ ~running /\ pc = "read"
  /\ pc' = "stopped"
  /\ Close
  /\ UNCHANGED <<running, events, answer, bounds, otherPolls>>

-----------------------------------------------------------------------------

Receive == ReadOn \/ ReceivePoll \/ PopException \/ SendAnswer

Next ==
  \/ \E m \in Messages : Poll(m)
  \/ LineLoses
  \/ Receive \/ LoseAnswer
  \/ QueueException \/ ClearExceptions
  \/ Start \/ Stop \/ ThreadEnds

Spec == Init /\ [][Next]_vars

\* The receive thread polls the UART without pause, and the host polls again
\* and again; nothing makes it send other messages, or anyone start the port.
Fairness ==
  /\ WF_vars(Receive)
  /\ WF_vars(Poll(GeneralPoll))
FairSpec == Spec /\ Fairness

-----------------------------------------------------------------------------

\* The types of the variables.
TypeOK ==
  /\ LineTypeOK
  /\ running \in BOOLEAN
  /\ pc \in {"stopped", "read", "pop", "answer"}
  /\ queue \in Seq(Events)
  /\ answer \in Events \cup {NoEvent}
  /\ silent \subseteq Events
  /\ queued \in 0..MaxEvents
  /\ reported \in Seq(Events)
  /\ diverted \subseteq Events
  /\ lateLosses \in 0..MaxLateLosses
  /\ clears \in 0..MaxClears /\ stops \in 0..MaxStops
  /\ otherPolls \in 0..MaxOtherPolls

\* Two tables in two files know the formats: SASSerialPort's how long a message
\* is, readMessage's whether it ends in a checksum.  They must agree: what the
\* handlers get of a message that is more than its command is what the host
\* put between the command and the two bytes of the checksum.
ParametersHanded ==
  Len(intended) > 1 => Parameters(message) = SubSeq(intended, 2, Len(intended) - 2)

\* The events the port still has, in the order it will report them.
InHand == (IF answer = NoEvent THEN <<>> ELSE <<answer>>) \o queue

\* What the queue promises the host: every event is reported at most once, in
\* the order of queueing, whatever is queued, cleared and stopped meanwhile.
ReportedInOrder ==
  LET all == reported \o InHand
  IN  \A i, j \in DOMAIN all : i < j => all[i] < all[j]

\* The whole port, line and threads included, implements the abstract queue: a
\* step of it lets one event happen, tells or loses the first one, clears the
\* queue, or changes nothing of it.
Reports == INSTANCE EventReports
             WITH newest <- queued, waiting <- InHand, told <- reported
ImplementsReports == Reports!ReportsSpec

\* An event the host never hears of was cleared, had code 0x00, went out as
\* the answer to another poll (0x82 .. 0x9F count as general polls), or was in
\* an answer the line lost.  A stop between pop and answer loses none.
OnlyKnownLosses ==
  LET gone == (1..queued) \ ToSet(reported \o InHand)
  IN  Cardinality(gone \ (diverted \cup silent)) <= lateLosses

\* As long as the host goes on sending its general poll, a running port gets
\* rid of every queued event: whatever the static buffer holds by then, a
\* message cut short or zeros, the receive thread finds back to where a poll
\* begins.
QueueDrains ==
  \A e \in Events :
    e \in ToSet(queue) ~> (e \notin ToSet(queue) \/ ~running)

=============================================================================
