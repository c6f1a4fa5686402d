-------------------------- MODULE SasDaemon_proof ---------------------------
(***************************************************************************)
(* Proofs about SasDaemon for every limit of timeouts, length of discovery *)
(* and number of outages, restarts and mode changes.                       *)
(***************************************************************************)
EXTENDS SasDaemon, TLAPS

-----------------------------------------------------------------------------
(* Types                                                                   *)

\* The variables, one by one.
Types ==
  /\ running \in BOOLEAN /\ portRunning \in BOOLEAN /\ linkUp \in BOOLEAN
  /\ enabled \in BOOLEAN /\ pending \in BOOLEAN
  /\ mode \in Modes
  /\ timeouts \in 0..(MaxTimeouts + 1)
  /\ index \in 0..5
  /\ pc \in {"none", "turn", "discovery", "general", "long", "offline", "ended"}
  /\ step \in 1..(DiscoveryPolls + 1)
  /\ inbox \in [Ports -> 0..255]
  /\ outages \in 0..MaxOutages /\ starts \in 0..MaxStarts
  /\ setModes \in 0..MaxSetModes /\ events \in 0..MaxEvents

\* They are what TypeOK says.
LEMMA TypesAre == TypeOK <=> Types
BY DEF TypeOK, Types

\* The constants, and the ports.
LEMMA BoundsAre ==
  /\ Address \in 1..127 /\ Address \in 0..255 /\ 1 \in 0..255 /\ NoByte \in 0..255
  /\ MaxTimeouts \in Nat /\ MaxTimeouts > 0 /\ DiscoveryPolls \in Nat /\ DiscoveryPolls > 0
  /\ MaxOutages \in Nat /\ MaxStarts \in Nat /\ MaxSetModes \in Nat /\ MaxEvents \in Nat
  /\ "host" \in Ports /\ "egm" \in Ports
<1>1. Address \in 1..127
  BY DaemonAssumption DEF DaemonAssumption
<1>2. Address \in 0..255 /\ 1 \in 0..255 /\ NoByte \in 0..255
  BY <1>1 DEF NoByte
<1>3. /\ MaxTimeouts \in Nat \ {0} /\ DiscoveryPolls \in Nat \ {0}
      /\ MaxOutages \in Nat /\ MaxStarts \in Nat /\ MaxSetModes \in Nat /\ MaxEvents \in Nat
  BY DaemonAssumption DEF DaemonAssumption
<1>4. MaxTimeouts > 0 /\ DiscoveryPolls > 0
  BY <1>3
<1>. QED
  BY <1>1, <1>2, <1>3, <1>4 DEF Ports

\* A poll that was not sent counts; at the limit the daemon is offline.
LEMMA SentIs ==
  ASSUME Types, NEW sent \in BOOLEAN, Sent(sent)
  PROVE  /\ timeouts' \in 0..(MaxTimeouts + 1) /\ mode' \in Modes
         /\ mode' # "OFFLINE" => timeouts' < MaxTimeouts
<1>1. timeouts \in 0..(MaxTimeouts + 1) /\ mode \in Modes
  BY DEF Types
<1>2. CASE sent
  BY <1>1, <1>2, BoundsAre DEF Sent
<1>3. CASE ~sent
  <2>1. PICK n \in 0..(MaxTimeouts + 1) : n = Counted(timeouts)
    BY <1>1, BoundsAre DEF Counted
  <2>2. /\ timeouts' = n
        /\ IF n >= MaxTimeouts THEN mode' = "OFFLINE" ELSE mode' = mode
    BY <1>3, <2>1 DEF Sent
  <2>3. n >= MaxTimeouts \/ n < MaxTimeouts
    BY <2>1, BoundsAre
  <2>. QED
    BY <1>1, <2>1, <2>2, <2>3 DEF Modes
<1>. QED
  BY <1>2, <1>3

\* What a byte makes of what waits in a pipe.
LEMMA WaitingIs ==
  ASSUME inbox \in [Ports -> 0..255], NEW p \in Ports, NEW byte \in 0..255
  PROVE  Waiting(p, byte) \subseteq 0..255
BY BoundsAre DEF Waiting

\* A poll.
LEMMA PollTyped ==
  ASSUME Types, DoPoll
  PROVE  /\ timeouts' \in 0..(MaxTimeouts + 1) /\ mode' \in Modes
         /\ mode' # "OFFLINE" => timeouts' < MaxTimeouts
         /\ inbox' \in [Ports -> 0..255]
         /\ UNCHANGED <<running, portRunning, linkUp, enabled, pending, bounds>>
<1>1. (portRunning /\ linkUp) \in BOOLEAN /\ Sent(portRunning /\ linkUp)
  BY DEF DoPoll
<1>2. /\ timeouts' \in 0..(MaxTimeouts + 1) /\ mode' \in Modes
      /\ mode' # "OFFLINE" => timeouts' < MaxTimeouts
  BY <1>1, SentIs
<1>3. inbox' \in [Ports -> 0..255]
  <2>1. inbox \in [Ports -> 0..255] /\ "egm" \in Ports
    BY BoundsAre DEF Types
  <2>2. Waiting("egm", Address) \subseteq 0..255
    BY <2>1, BoundsAre, WaitingIs
  <2>3. CASE portRunning /\ linkUp
    <3>1. PICK byte \in Waiting("egm", Address) : inbox' = [inbox EXCEPT !["egm"] = byte]
      BY <2>3 DEF DoPoll
    <3>. QED
      BY <2>1, <2>2, <3>1
  <2>4. CASE ~(portRunning /\ linkUp)
    BY <2>1, <2>4 DEF DoPoll
  <2>. QED
    BY <2>3, <2>4
<1>. QED
  BY <1>2, <1>3 DEF DoPoll

\* What waits in the pipes once one port has taken its bytes.
LEMMA HandleTyped ==
  ASSUME Types, NEW p \in Ports, NEW to \in Ports, p # to, Handle(p, to)
  PROVE  inbox' \in [Ports -> 0..255] /\ UNCHANGED <<daemon, portRunning, linkUp, bounds>>
<1>1. \E answer : \E byte \in Waiting(to, 1) :
        inbox' = [inbox EXCEPT ![p] = NoByte, ![to] = IF answer = NoByte THEN @ ELSE byte]
  BY Zenon DEF Handle
<1>2. PICK answer : \E byte \in Waiting(to, 1) :
        inbox' = [inbox EXCEPT ![p] = NoByte, ![to] = IF answer = NoByte THEN @ ELSE byte]
  BY <1>1
<1>3. PICK byte \in Waiting(to, 1) :
        inbox' = [inbox EXCEPT ![p] = NoByte, ![to] = IF answer = NoByte THEN @ ELSE byte]
  BY <1>2
<1>4. inbox \in [Ports -> 0..255] /\ byte \in 0..255 /\ NoByte \in 0..255
  <2>1. inbox \in [Ports -> 0..255]
    BY DEF Types
  <2>2. Waiting(to, 1) \subseteq 0..255
    BY <2>1, WaitingIs, BoundsAre
  <2>. QED
    BY <2>1, <2>2, BoundsAre
<1>5. (IF answer = NoByte THEN inbox[to] ELSE byte) \in 0..255
  BY <1>4
<1>6. inbox' \in [Ports -> 0..255]
  BY <1>3, <1>4, <1>5
<1>. QED
  BY <1>6, Zenon DEF Handle

-----------------------------------------------------------------------------
(* The invariant                                                           *)

\* The property is inductive given the types.
IInv == Types /\ OnlineOnEvidence

\* A poll of the loop, whatever comes after it.
LEMMA PollKeeps ==
  ASSUME Types, DoPoll, index' \in 0..5, step' \in 1..(DiscoveryPolls + 1),
         pc' \in {"none", "turn", "discovery", "general", "long", "offline", "ended"}
  PROVE  IInv'
<1>1. /\ timeouts' \in 0..(MaxTimeouts + 1) /\ mode' \in Modes
      /\ mode' # "OFFLINE" => timeouts' < MaxTimeouts
      /\ inbox' \in [Ports -> 0..255]
      /\ UNCHANGED <<running, portRunning, linkUp, enabled, pending, bounds>>
  BY PollTyped
<1>2. Types'
  BY <1>1 DEF Types, bounds
<1>3. OnlineOnEvidence'
  BY <1>1 DEF OnlineOnEvidence
<1>. QED
  BY <1>2, <1>3 DEF IInv

\* The invariant holds at first.
LEMMA InvStarts == Init => IInv
<1>. SUFFICES ASSUME Init
              PROVE  IInv
  OBVIOUS
<1>1. /\ 0 \in 0..(MaxTimeouts + 1) /\ 0 \in 0..5 /\ 1 \in 1..(DiscoveryPolls + 1)
      /\ 0 \in 0..MaxOutages /\ 0 \in 0..MaxStarts /\ 0 \in 0..MaxSetModes /\ 0 \in 0..MaxEvents
  BY BoundsAre
<1>2. inbox \in [Ports -> 0..255]
  BY BoundsAre DEF Init
<1>3. "OFFLINE" \in Modes
  BY DEF Modes
<1>. QED
  BY <1>1, <1>2, <1>3 DEF IInv, Init, Types, OnlineOnEvidence

\* Every step keeps it.
LEMMA InvKept == IInv /\ [Next]_vars => IInv'
<1>. SUFFICES ASSUME IInv, [Next]_vars
              PROVE  IInv'
  OBVIOUS
<1>1. Types /\ OnlineOnEvidence
  BY DEF IInv
<1>2. /\ 1 \in 1..(DiscoveryPolls + 1) /\ 0 \in 0..5
      /\ {"DISCOVERY", "ONLINE", "OFFLINE"} = Modes
  BY BoundsAre DEF Modes
<1>3. CASE Turn
  <2>1. pc' \in {"discovery", "general", "offline"} /\ step' = 1
    BY <1>1, <1>3 DEF Turn, Goto, Types, Modes
  <2>2. UNCHANGED <<running, mode, timeouts, index, portRunning, linkUp, machine, bounds>>
    BY <1>3 DEF Turn
  <2>. QED
    BY <1>1, <1>2, <2>1, <2>2 DEF IInv, Types, OnlineOnEvidence, machine, bounds
<1>4. CASE Discover
  <2>1. DoPoll /\ index' = index /\ pc' = pc /\ step' \in 1..(DiscoveryPolls + 1)
    BY <1>1, <1>4, BoundsAre DEF Discover, Types
  <2>2. /\ index' \in 0..5
        /\ pc' \in {"none", "turn", "discovery", "general", "long", "offline", "ended"}
    BY <1>1, <2>1 DEF Types
  <2>. QED
    BY <1>1, <2>1, <2>2, PollKeeps
<1>5. CASE Discovered
  BY <1>1, <1>2, <1>5 DEF Discovered, Goto, IInv, Types, OnlineOnEvidence, machine, bounds
<1>6. CASE PollForExceptions
  <2>1. DoPoll /\ index' \in 0..5 /\ pc' = "long" /\ step' = 1
    BY <1>1, <1>6 DEF PollForExceptions, Goto, Types
  <2>. QED
    BY <1>1, <1>2, <2>1, PollKeeps
<1>7. CASE PollNext
  <2>1. DoPoll /\ index' = (index + 1) % 6 /\ pc' = "turn" /\ step' = 1
    BY <1>7 DEF PollNext, Goto
  <2>2. index' \in 0..5
    BY <1>1, <2>1 DEF Types
  <2>. QED
    BY <1>1, <1>2, <2>1, <2>2, PollKeeps
<1>8. CASE NotDue \/ ThreadEnds
  BY <1>1, <1>2, <1>8 DEF NotDue, ThreadEnds, Goto, IInv, Types, OnlineOnEvidence, machine, bounds
<1>9. CASE CheckConnection
  <2>1. /\ portRunning' \in BOOLEAN /\ mode' \in Modes /\ pc' = "turn" /\ step' = 1
        /\ UNCHANGED <<running, timeouts, index, linkUp, machine, bounds>>
    BY <1>1, <1>2, <1>9 DEF CheckConnection, PortStarts, Goto, Types
  <2>. QED
    BY <1>1, <1>2, <2>1 DEF IInv, Types, OnlineOnEvidence, machine, bounds
<1>10. CASE Start
  <2>1. starts' \in 0..MaxStarts
    BY <1>1, <1>10, BoundsAre DEF Start, Types
  <2>2. portRunning' \in BOOLEAN
    BY <1>1, <1>10 DEF Start, PortStarts, Types
  <2>3. /\ UNCHANGED <<timeouts, index, linkUp, machine, outages, setModes, events>>
        /\ \/ running' = TRUE /\ mode' = "DISCOVERY" /\ pc' = "turn" /\ step' = 1
           \/ pc = "none" /\ UNCHANGED <<running, mode, pc, step>>
    BY <1>10 DEF Start, Goto
  <2>. QED
    BY <1>1, <1>2, <2>1, <2>2, <2>3 DEF IInv, Types, OnlineOnEvidence, machine
<1>11. CASE Stop \/ Joined
  <2>1. CASE Stop
    BY <1>1, <2>1 DEF Stop, IInv, Types, OnlineOnEvidence, machine, bounds
  <2>2. CASE Joined
    BY <1>1, <1>2, <2>2 DEF Joined, Goto, IInv, Types, OnlineOnEvidence, machine, bounds
  <2>. QED
    BY <1>11, <2>1, <2>2
<1>12. CASE SetMode
  <2>1. setModes' \in 0..MaxSetModes /\ setModes' # 0
    BY <1>1, <1>12, BoundsAre DEF SetMode, Types
  <2>2. /\ mode' \in Modes
        /\ UNCHANGED <<running, timeouts, index, pc, step, portRunning, linkUp, machine,
                       outages, starts, events>>
    BY <1>12 DEF SetMode
  <2>. QED
    BY <1>1, <2>1, <2>2 DEF IInv, Types, OnlineOnEvidence, machine
<1>13. CASE PortStops
  <2>1. outages' \in 0..MaxOutages
    BY <1>1, <1>13, BoundsAre DEF PortStops, Types
  <2>2. inbox' \in [Ports -> 0..255]
    BY <1>1, <1>13, BoundsAre DEF PortStops, Types
  <2>3. /\ portRunning' = FALSE
        /\ UNCHANGED <<daemon, linkUp, enabled, pending, starts, setModes, events>>
    BY <1>13 DEF PortStops
  <2>. QED
    BY <1>1, <2>1, <2>2, <2>3 DEF IInv, Types, OnlineOnEvidence, daemon
<1>14. CASE LinkChanges
  <2>1. outages' \in 0..MaxOutages
    BY <1>1, <1>14, BoundsAre DEF LinkChanges, Types
  <2>2. /\ linkUp' \in BOOLEAN
        /\ UNCHANGED <<daemon, portRunning, machine, starts, setModes, events>>
    BY <1>14 DEF LinkChanges
  <2>. QED
    BY <1>1, <2>1, <2>2 DEF IInv, Types, OnlineOnEvidence, daemon, machine
<1>15. CASE MachineReceives
  <2>1. /\ inbox' \in [Ports -> 0..255] /\ UNCHANGED <<daemon, portRunning, linkUp, bounds>>
    BY <1>1, <1>15, HandleTyped, BoundsAre, "egm" # "host" DEF MachineReceives
  <2>2. enabled' \in BOOLEAN /\ pending' \in BOOLEAN
    BY <1>1, <1>15 DEF MachineReceives, Types
  <2>. QED
    BY <1>1, <2>1, <2>2 DEF IInv, Types, OnlineOnEvidence, daemon, bounds
<1>16. CASE HostReceives
  <2>1. /\ inbox' \in [Ports -> 0..255] /\ UNCHANGED <<daemon, portRunning, linkUp, bounds>>
    BY <1>1, <1>16, HandleTyped, BoundsAre, "egm" # "host" DEF HostReceives
  <2>2. UNCHANGED <<enabled, pending>>
    BY <1>16 DEF HostReceives
  <2>. QED
    BY <1>1, <2>1, <2>2 DEF IInv, Types, OnlineOnEvidence, daemon, bounds
<1>17. CASE QueueException
  <2>1. events' \in 0..MaxEvents
    BY <1>1, <1>17, BoundsAre DEF QueueException, Types
  <2>2. /\ pending' = TRUE
        /\ UNCHANGED <<daemon, portRunning, linkUp, inbox, enabled, outages, starts, setModes>>
    BY <1>17 DEF QueueException
  <2>. QED
    BY <1>1, <2>1, <2>2 DEF IInv, Types, OnlineOnEvidence, daemon
<1>18. CASE UNCHANGED vars
  BY <1>1, <1>18 DEF vars, daemon, machine, bounds, IInv, Types, OnlineOnEvidence
<1>. QED
  BY <1>3, <1>4, <1>5, <1>6, <1>7, <1>8, <1>9, <1>10, <1>11, <1>12, <1>13, <1>14, <1>15,
     <1>16, <1>17, <1>18 DEF Next, PollingThread

\* It always holds.
LEMMA InvHolds == Spec => []IInv
BY InvStarts, InvKept, PTL DEF Spec

-----------------------------------------------------------------------------

\* The daemon's variables keep their types; the index of the next long poll
\* stays in the table of six.
THEOREM DaemonTypeCorrect == Spec => []TypeOK
<1>1. IInv => TypeOK
  BY TypesAre DEF IInv
<1>. QED
  BY <1>1, InvHolds, PTL

\* After a general poll SASDaemon is ONLINE only on the evidence of a poll sent
\* among the last MAX_CONSECUTIVE_TIMEOUTS, unless the mode was set from outside.
THEOREM OnlineHasEvidence == Spec => []OnlineOnEvidence
<1>1. IInv => OnlineOnEvidence
  BY DEF IInv
<1>. QED
  BY <1>1, InvHolds, PTL

=============================================================================
