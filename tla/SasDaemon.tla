----------------------------- MODULE SasDaemon ------------------------------
(***************************************************************************)
(* SASDaemon, the polling side of SAS: one thread that discovers a machine *)
(* over a SASCommPort, keeps polling it, gives up after ten polls that     *)
(* could not be sent and tries again.  Other threads start, stop and set   *)
(* its mode.                                                               *)
(*                                                                         *)
(* Its port talks to the machine's port over two PipedCommChannels.  What  *)
(* a port reads from a pipe begins with the address, which it takes for    *)
(* the command; the rest of what is waiting goes with it as data.  Only    *)
(* the first byte that waits is therefore kept in the model.               *)
(***************************************************************************)
EXTENDS Integers, Sequences

CONSTANTS
  Address,               \* getPollAddress() of both ports
  MaxTimeouts,           \* MAX_CONSECUTIVE_TIMEOUTS: 10
  DiscoveryPolls,        \* long polls of a discovery: 1 + 2 + 7 + 1
  MaxOutages, MaxStarts, MaxSetModes, MaxEvents   \* bounds of the model

ASSUME DaemonAssumption ==
  /\ Address \in 1..127
  /\ {MaxTimeouts, DiscoveryPolls} \subseteq Nat \ {0}
  /\ {MaxOutages, MaxStarts, MaxSetModes, MaxEvents} \subseteq Nat

VARIABLES
  running, mode,
  timeouts,      \* consecutiveTimeouts_
  index,         \* currentLongPollIndex_
  pc, step,      \* where the polling thread is; the poll of the discovery
  portRunning,   \* the daemon's port: running_, and its channel open
  linkUp,        \* the channel can be opened and takes what is written
  inbox,         \* the first byte waiting in each port's pipe
  enabled,       \* Machine::enabled_ of the polled machine
  pending,       \* its exception queue is not empty
  outages, starts, setModes, events   \* counters of the bounds

daemon == <<running, mode, timeouts, index, pc, step>>
machine == <<inbox, enabled, pending>>
bounds == <<outages, starts, setModes, events>>
vars == <<daemon, portRunning, linkUp, machine, bounds>>

Modes == {"DISCOVERY", "ONLINE", "OFFLINE"}
Ports == {"host", "egm"}
NoByte == 0

\* The commands handleLongPoll has a case for.
RoutedPolls ==
  1..4 \cup 16..23 \cup {25, 26, 27, 28, 29, 30, 31, 32, 39, 42, 43, 45, 47}
  \cup 49..58 \cup {70, 81, 82, 83, 84, 85, 86, 111, 160, 175}
  \cup 112..116 \cup 123..127
IsGeneralPoll(cmd) == cmd \in 128..159

Init ==
  /\ running = FALSE /\ mode = "OFFLINE"
  /\ timeouts = 0 /\ index = 0 /\ pc = "none" /\ step = 1
  /\ portRunning = FALSE /\ linkUp = TRUE
  /\ inbox = [p \in Ports |-> NoByte]
  /\ enabled \in BOOLEAN /\ pending = FALSE
  /\ outages = 0 /\ starts = 0 /\ setModes = 0 /\ events = 0

\* PipedCommChannel::write: the bytes go to the end of what waits at the other
\* end.  No lock guards the vector: an insertion that meets the reader's
\* erasure may be undone with it.
Waiting(p, byte) ==
  IF inbox[p] = NoByte THEN {byte} ELSE {inbox[p], NoByte}

-----------------------------------------------------------------------------
(* The polling thread.                                                     *)

Counted(n) == IF n <= MaxTimeouts THEN n + 1 ELSE n

\* Slip: the limit is met once and never again.
SentOnce(sent) ==
  IF sent
    THEN timeouts' = 0 /\ UNCHANGED mode
    ELSE /\ timeouts' = Counted(timeouts)
         /\ IF timeouts' = MaxTimeouts
              THEN mode' = "OFFLINE"
              ELSE UNCHANGED mode

\* Slip: only a port that is running has timeouts.
SentByPort(sent) ==
  IF sent
    THEN timeouts' = 0 /\ UNCHANGED mode
    ELSE /\ timeouts' = IF portRunning THEN Counted(timeouts) ELSE timeouts
         /\ IF timeouts' >= MaxTimeouts
              THEN mode' = "OFFLINE"
              ELSE UNCHANGED mode

\* What doGeneralPoll and doLongPoll make of sendMessage's result.  The counter
\* goes on past the limit in the code; nothing tells those values apart.
\* (connected_ follows the mode here; it is private and nothing reads it.)
Sent(sent) ==
  IF sent
    THEN timeouts' = 0 /\ UNCHANGED mode
    ELSE /\ timeouts' = Counted(timeouts)
         /\ IF timeouts' >= MaxTimeouts
              THEN mode' = "OFFLINE"
              ELSE UNCHANGED mode

\* sendMessage: address, command, CRC.
DoPoll ==
  /\ Sent(portRunning /\ linkUp)
  /\ IF portRunning /\ linkUp
       THEN \E byte \in Waiting("egm", Address) : inbox' = [inbox EXCEPT !["egm"] = byte]
       ELSE UNCHANGED inbox
  /\ UNCHANGED <<running, portRunning, linkUp, enabled, pending, bounds>>

Goto(next) == pc' = next /\ step' = 1

\* The loop of pollingThread reads the mode.
Turn ==
  /\ pc = "turn" /\ running
  /\ Goto(CASE mode = "DISCOVERY" -> "discovery" [] mode = "ONLINE" -> "general"
            [] mode = "OFFLINE" -> "offline")
  /\ UNCHANGED <<running, mode, timeouts, index, portRunning, linkUp,
                 machine, bounds>>

Discover ==
  /\ pc = "discovery" /\ step <= DiscoveryPolls
  /\ DoPoll
  /\ step' = step + 1
  /\ UNCHANGED <<index, pc>>

\* Whatever became of the polls, and of the mode meanwhile.
Discovered ==
  /\ pc = "discovery" /\ step > DiscoveryPolls
  /\ mode' = "ONLINE"
  /\ Goto("turn")
  /\ UNCHANGED <<running, timeouts, index, portRunning, linkUp, machine, bounds>>

\* doGeneralPoll always returns false ("Simplified").
PollForExceptions ==
  /\ pc = "general"
  /\ DoPoll
  /\ Goto("long")
  /\ UNCHANGED index

\* Slip: the last poll of the cycle is never reached.
PollNextOfFive ==
  /\ pc = "long"
  /\ DoPoll
  /\ index' = (index + 1) % 5
  /\ Goto("turn")

\* Slip: nothing brings the index back to the first poll.
PollNextOfAll ==
  /\ pc = "long"
  /\ DoPoll
  /\ index' = index + 1
  /\ Goto("turn")

\* A second since the last one: the next of the six.
PollNext ==
  /\ pc = "long"
  /\ DoPoll
  /\ index' = (index + 1) % 6
  /\ Goto("turn")

NotDue ==
  /\ pc = "long"
  /\ Goto("turn")
  /\ UNCHANGED <<running, mode, timeouts, index, portRunning, linkUp,
                 machine, bounds>>

\* SASCommPort::start: a running port does not look at its channel.
PortStarts == portRunning \/ linkUp

\* Slip: only a port that had to be opened is worth a discovery.
CheckConnectionIfClosed ==
  /\ pc = "offline"
  /\ portRunning' = PortStarts
  /\ mode' = IF PortStarts /\ ~portRunning THEN "DISCOVERY" ELSE mode
  /\ Goto("turn")
  /\ UNCHANGED <<running, timeouts, index, linkUp, machine, bounds>>

CheckConnection ==
  /\ pc = "offline"
  /\ portRunning' = PortStarts
  /\ mode' = IF PortStarts THEN "DISCOVERY" ELSE mode
  /\ Goto("turn")
  /\ UNCHANGED <<running, timeouts, index, linkUp, machine, bounds>>

ThreadEnds ==
  /\ pc = "turn" /\ ~running
  /\ Goto("ended")
  /\ UNCHANGED <<running, mode, timeouts, index, portRunning, linkUp,
                 machine, bounds>>

-----------------------------------------------------------------------------
(* Other threads.  start() and stop() keep the counter of timeouts.         *)

Start ==
  /\ ~running /\ pc = "none"
  /\ starts < MaxStarts /\ starts' = starts + 1
  /\ portRunning' = PortStarts
  /\ IF PortStarts
       THEN running' = TRUE /\ mode' = "DISCOVERY" /\ Goto("turn")
       ELSE UNCHANGED <<running, mode, pc, step>>
  /\ UNCHANGED <<timeouts, index, linkUp, machine, outages, setModes,
                 events>>

\* stop(), up to the join and after it; the port goes on.
Stop ==
  /\ running
  /\ running' = FALSE
  /\ UNCHANGED <<mode, timeouts, index, pc, step, portRunning, linkUp,
                 machine, bounds>>
Joined ==
  /\ pc = "ended"
  /\ mode' = "OFFLINE"
  /\ Goto("none")
  /\ UNCHANGED <<running, timeouts, index, portRunning, linkUp,
                 machine, bounds>>

SetMode ==
  /\ setModes < MaxSetModes /\ setModes' = setModes + 1
  /\ mode' \in Modes
  /\ UNCHANGED <<running, timeouts, index, pc, step, portRunning,
                 linkUp, machine, outages, starts, events>>

\* SASCommPort::stop by its owner.
PortStops ==
  /\ portRunning
  /\ outages < MaxOutages /\ outages' = outages + 1
  /\ portRunning' = FALSE
  /\ inbox' = [inbox EXCEPT !["host"] = NoByte]   \* close() clears the pipe
  /\ UNCHANGED <<daemon, linkUp, enabled, pending, starts, setModes, events>>

\* Writing, and opening, fails from now on; or works again.
LinkChanges ==
  /\ linkUp => outages < MaxOutages /\ outages' = outages + 1
  /\ ~linkUp => UNCHANGED outages
  /\ linkUp' = ~linkUp
  /\ UNCHANGED <<daemon, portRunning, machine, starts, setModes, events>>

-----------------------------------------------------------------------------
(* The receive threads of the two ports, and the machine.                  *)

\* What waits is taken whole.  Every handler answers with address 1 (or not at
\* all when it misses its data), a general poll with the port's own.
Handle(p, to) ==
  LET cmd == inbox[p]
      answers == CASE IsGeneralPoll(cmd) -> {IF pending THEN Address ELSE NoByte}
                   [] cmd \in 1..4 -> {1}
                   [] cmd \in RoutedPolls \ 1..4 -> {1, NoByte}
                   [] OTHER -> {NoByte}
  IN  /\ cmd # NoByte
      /\ \E answer \in answers, byte \in Waiting(to, 1) :
           inbox' = [inbox EXCEPT ![p] = NoByte,
                                  ![to] = IF answer = NoByte THEN @ ELSE byte]
      /\ UNCHANGED <<daemon, portRunning, linkUp, bounds>>

MachineReceives ==
  /\ Handle("egm", "host")
  /\ enabled' = IF inbox["egm"] = 1 THEN TRUE
                ELSE IF inbox["egm"] = 2 THEN FALSE ELSE enabled
  /\ pending' = (pending /\ ~IsGeneralPoll(inbox["egm"]))

\* The daemon's port takes the answers for polls, too.
HostReceives ==
  /\ portRunning
  /\ Handle("host", "egm")
  /\ UNCHANGED <<enabled, pending>>

QueueException ==
  /\ events < MaxEvents /\ events' = events + 1
  /\ pending' = TRUE
  /\ UNCHANGED <<daemon, portRunning, linkUp, inbox, enabled, outages, starts,
                 setModes>>

-----------------------------------------------------------------------------

PollingThread ==
  \/ Turn \/ Discover \/ Discovered \/ PollForExceptions
  \/ PollNext \/ NotDue \/ CheckConnection \/ ThreadEnds

Next ==
  \/ PollingThread
  \/ Start \/ Stop \/ Joined \/ SetMode \/ PortStops \/ LinkChanges
  \/ MachineReceives \/ HostReceives \/ QueueException

Spec == Init /\ [][Next]_vars

\* The threads run.  Time passes: the second between two long polls is over in
\* some of the passes, if there are enough of them.
Fairness ==
  /\ WF_vars(PollingThread) /\ SF_vars(PollNext)
  /\ WF_vars(Joined) /\ WF_vars(MachineReceives) /\ WF_vars(HostReceives)
FairSpec == Spec /\ Fairness

-----------------------------------------------------------------------------

\* The types of the variables.
TypeOK ==
  /\ {running, portRunning, linkUp, enabled, pending} \subseteq BOOLEAN
  /\ mode \in Modes
  /\ timeouts \in 0..(MaxTimeouts + 1)
  /\ index \in 0..5
  /\ pc \in {"none", "turn", "discovery", "general", "long", "offline", "ended"}
  /\ step \in 1..(DiscoveryPolls + 1)
  /\ inbox \in [Ports -> 0..255]
  /\ outages \in 0..MaxOutages /\ starts \in 0..MaxStarts
  /\ setModes \in 0..MaxSetModes /\ events \in 0..MaxEvents

\* A discovery ends ONLINE even when none of its polls went out;
\* the general poll that follows puts that right.  So when a general poll has
\* been tried and the mode is still ONLINE (nobody has set it), one of the last
\* MaxTimeouts polls was sent.
OnlineOnEvidence ==
  pc = "long" /\ mode = "ONLINE" /\ setModes = 0 => timeouts < MaxTimeouts

\* A link that stays dead is noticed again and again, though every discovery
\* over it ends ONLINE: the daemon does not settle there.
OutageNoticed ==
  <>[](running /\ ~linkUp) => []<>(mode = "OFFLINE")

\* A link that stays good brings a running daemon online for good, whatever
\* happened before: outages in the middle of a discovery, a port stopped under
\* it, a mode set from outside, a restart.
Reconnects ==
  <>[](running /\ linkUp) => <>[](mode = "ONLINE")

\* Online, all six long polls have their turn.
EveryLongPollSent ==
  \A i \in 0..5 : <>[](running /\ mode = "ONLINE") => []<>(index = i)

\* "General polls (0x80) - Check for exceptions/events" (SASDaemon.h): while
\* the daemon stays online, a queued exception is taken off the machine.
ExceptionsSeen ==
  <>[](running /\ linkUp) => []<>(~pending)

=============================================================================
