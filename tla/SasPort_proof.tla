--------------------------- MODULE SasPort_proof ----------------------------
(***************************************************************************)
(* Proofs about SasPort and the SerialLine it reads, for every set of      *)
(* messages of the known formats and every bound.                          *)
(*                                                                         *)
(* Two invariants that do not need each other.  EventInv is about the      *)
(* queue and its threads: what has been reported, what is on its way out   *)
(* and what waits follow one another.  LineInv is about the buffer: as     *)
(* long as nothing is damaged, what is in it and on the line can be cut    *)
(* into the messages the host has sent, and the buffer holds no byte       *)
(* beyond the first of them.                                               *)
(***************************************************************************)
EXTENDS SasPort, TLAPS, SequenceTheorems, FiniteSetTheorems, WellFoundedInduction

-----------------------------------------------------------------------------
(* The queue of events                                                     *)

\* The types of the port, those of the line left out.
PortTypeOK ==
  /\ running \in BOOLEAN
  /\ pc \in {"stopped", "read", "pop", "answer"}
  /\ queue \in Seq(Events)
  /\ answer \in Events \cup {NoEvent}
  /\ silent \subseteq Events
  /\ queued \in 0..MaxEvents
  /\ reported \in Seq(Events)
  /\ diverted \subseteq Events
  /\ lateLosses \in 0..MaxLateLosses
  /\ clears \in 0..MaxClears /\ stops \in 0..MaxStops
  /\ otherPolls \in 0..MaxOtherPolls

Rising(s) == \A i, j \in DOMAIN s : i < j => s[i] < s[j]

\* An answer is under way exactly when the thread is about to send it, and
\* the three places an event can be in follow one another.
EventInv ==
  /\ pc = "answer" <=> answer # NoEvent
  /\ Rising(reported) /\ Rising(queue)
  /\ \A i \in DOMAIN reported : reported[i] <= queued
  /\ \A j \in DOMAIN queue : queue[j] <= queued
  /\ answer <= queued
  /\ answer # NoEvent => /\ \A i \in DOMAIN reported : reported[i] < answer
                         /\ \A j \in DOMAIN queue : answer < queue[j]
  /\ \A i \in DOMAIN reported : \A j \in DOMAIN queue : reported[i] < queue[j]

\* The events that are with nobody any more and were not given away knowingly.
Missing ==
  {e \in 1..queued : /\ e \notin ToSet(reported) /\ e \notin ToSet(queue)
                     /\ e # answer /\ e \notin diverted /\ e \notin silent}

\* Events are numbered from 1.
LEMMA EventNumbers == MaxEvents \in Nat /\ Events \subseteq Nat \ {0} /\ NoEvent \notin Events
BY PortAssumption DEF PortAssumption, Events, NoEvent

\* What appending an event leaves, place by place.
LEMMA Appending ==
  ASSUME NEW s \in Seq(Events), NEW e \in Events
  PROVE  /\ DOMAIN s = 1..Len(s) /\ Len(s) \in Nat
         /\ DOMAIN Append(s, e) = 1..(Len(s) + 1)
         /\ \A i \in DOMAIN s : Append(s, e)[i] = s[i] /\ s[i] \in Nat
         /\ Append(s, e)[Len(s) + 1] = e
<1>1. Append(s, e) \in Seq(Events) /\ Len(Append(s, e)) = Len(s) + 1
  BY AppendProperties
<1>2. /\ DOMAIN Append(s, e) = 1..(Len(s) + 1)
      /\ DOMAIN s = 1..Len(s) /\ Len(s) \in Nat
  BY <1>1, LenProperties
<1>3. \A i \in DOMAIN s : Append(s, e)[i] = s[i] /\ s[i] \in Events
  BY <1>2, AppendProperties, ElementOfSeq
<1>4. Append(s, e)[Len(s) + 1] = e
  BY AppendProperties
<1>. QED
  BY <1>2, <1>3, <1>4, EventNumbers

\* What the threads do to the events: most steps of them, nothing.
QueueLeft ==
  /\ UNCHANGED <<queue, answer, silent, queued, reported, diverted, lateLosses>>
  /\ pc' = "answer" <=> pc = "answer"

\* The steps that do something are those of the queue's own operations.
LEMMA QueueSteps ==
  ASSUME [Next]_vars
  PROVE  \/ QueueLeft
         \/ PopException \/ SendAnswer \/ LoseAnswer
         \/ QueueException \/ ClearExceptions
<1> USE DEF QueueLeft, portVars, port, events, bounds
<1>1. ASSUME NEW m \in Messages, Poll(m) PROVE QueueLeft
  BY <1>1 DEF Poll
<1>2. CASE LineLoses
  BY <1>2 DEF LineLoses
<1>3. CASE ReadOn \/ ReceivePoll
  BY <1>3 DEF ReadOn, ReceivePoll, Goto
<1>4. CASE Start \/ Stop \/ ThreadEnds
  BY <1>4 DEF Start, Stop, ThreadEnds
<1>5. CASE UNCHANGED vars
  BY <1>5 DEF vars
<1>. QED
  BY <1>1, <1>2, <1>3, <1>4, <1>5 DEF Next, Receive

\* Every step keeps the types of the port.
LEMMA PortTyped ==
  ASSUME PortTypeOK, EventInv, [Next]_vars
  PROVE  PortTypeOK'
<1> USE DEF PortTypeOK, portVars, port, events, bounds
<1>0. /\ MaxEvents \in Nat /\ MaxLateLosses \in Nat /\ MaxClears \in Nat
      /\ MaxStops \in Nat /\ MaxOtherPolls \in Nat
  BY PortAssumption DEF PortAssumption
<1>1. ASSUME NEW m \in Messages, Poll(m) PROVE PortTypeOK'
  BY <1>0, <1>1 DEF Poll
<1>2. CASE LineLoses
  BY <1>2 DEF LineLoses
<1>3. CASE ReadOn
  BY <1>3 DEF ReadOn
<1>4. CASE ReceivePoll
  BY <1>4 DEF ReceivePoll, Goto
<1>5. CASE PopException
  <2>1. queue # <<>> => Head(queue) \in Events /\ Tail(queue) \in Seq(Events)
    OBVIOUS
  <2>. QED
    BY <1>5, <2>1 DEF PopException, Goto
<1>6. CASE SendAnswer \/ LoseAnswer
  <2>1. PICK arrives \in BOOLEAN : Answered(arrives)
    BY <1>6 DEF SendAnswer, LoseAnswer
  <2>2. answer \in Events
    BY <2>1 DEF Answered, EventInv
  <2>3. lateLosses' \in 0..MaxLateLosses
    <3>1. \/ lateLosses' = lateLosses
          \/ lateLosses < MaxLateLosses /\ lateLosses' = lateLosses + 1
      BY <1>6 DEF SendAnswer, LoseAnswer
    <3>. QED
      BY <1>0, <3>1
  <2>4. Append(reported, answer) \in Seq(Events)
    BY <2>2
  <2>5. /\ reported' \in Seq(Events) /\ diverted' \subseteq Events
        /\ answer' = NoEvent /\ pc' = "read"
        /\ UNCHANGED <<running, queue, silent, queued, clears, stops, otherPolls>>
    BY <2>1, <2>2, <2>4 DEF Answered, Goto
  <2>. QED
    BY <2>3, <2>5
<1>7. CASE QueueException
  <2>1. queued' \in Events /\ queued' \in 0..MaxEvents
    BY <1>0, <1>7 DEF QueueException, Events
  <2>. QED
    BY <1>7, <2>1 DEF QueueException
<1>8. CASE ClearExceptions
  <2>1. ToSet(queue) \subseteq Events
    BY DEF ToSet
  <2>. QED
    BY <1>0, <1>8, <2>1 DEF ClearExceptions
<1>9. CASE Start
  BY <1>9 DEF Start
<1>10. CASE Stop
  <2>1. stops' \in 0..MaxStops
    BY <1>0, <1>10 DEF Stop
  <2>. QED
    BY <1>10, <2>1 DEF Stop
<1>11. CASE ThreadEnds
  BY <1>11 DEF ThreadEnds
<1>12. CASE UNCHANGED vars
  BY <1>12 DEF vars
<1>. QED
  BY <1>1, <1>2, <1>3, <1>4, <1>5, <1>6, <1>7, <1>8, <1>9, <1>10, <1>11, <1>12
  DEF Next, Receive

\* Every step keeps the events in order.
LEMMA EventsOrdered ==
  ASSUME PortTypeOK, EventInv, [Next]_vars
  PROVE  EventInv'
<1>1. CASE QueueLeft
  BY <1>1 DEF EventInv, QueueLeft, Rising
<1>2. CASE PopException
  <2>1. CASE queue = <<>>
    BY <1>2, <2>1 DEF EventInv, PopException, Goto, Rising
  <2>2. CASE queue # <<>>
    <3>1. /\ Head(queue) = queue[1] /\ 1 \in DOMAIN queue
          /\ DOMAIN queue \subseteq Nat
          /\ \A j \in DOMAIN Tail(queue) : /\ j \in Nat /\ j + 1 \in DOMAIN queue
                                           /\ Tail(queue)[j] = queue[j + 1]
          /\ queue[1] \in Events
      BY <2>2 DEF PortTypeOK
    <3>2. \A j \in DOMAIN Tail(queue) : queue[1] < Tail(queue)[j]
      BY <3>1 DEF EventInv, Rising
    <3>3. Rising(Tail(queue))
      BY <3>1 DEF EventInv, Rising
    <3>4. queue[1] # NoEvent
      BY <3>1 DEF Events, NoEvent
    <3>5. /\ answer = NoEvent /\ answer' \in {NoEvent, queue[1]}
          /\ queue' = Tail(queue)
          /\ pc' = "answer" <=> answer' # NoEvent
          /\ UNCHANGED <<reported, queued>>
      BY <1>2, <2>2, <3>1, <3>4 DEF EventInv, PopException, Goto
    <3>6. NoEvent <= queued /\ queue[1] <= queued
      BY <3>1, <3>5 DEF EventInv
    <3>7. \A j \in DOMAIN Tail(queue) : Tail(queue)[j] <= queued
      BY <3>1 DEF EventInv
    <3>8. \A i \in DOMAIN reported : /\ reported[i] < queue[1]
            /\ \A j \in DOMAIN Tail(queue) : reported[i] < Tail(queue)[j]
      BY <3>1 DEF EventInv
    <3>. QED
      BY <3>2, <3>3, <3>5, <3>6, <3>7, <3>8 DEF EventInv
  <2>. QED
    BY <2>1, <2>2
<1>3. CASE SendAnswer \/ LoseAnswer
  <2>1. PICK arrives \in BOOLEAN : Answered(arrives)
    BY <1>3 DEF SendAnswer, LoseAnswer
  <2>2. /\ answer # NoEvent /\ answer' = NoEvent /\ pc' = "read"
        /\ reported' \in {reported, Append(reported, answer)}
        /\ UNCHANGED <<queue, queued>>
    BY <2>1 DEF Answered, Goto, EventInv
  <2>3. NoEvent <= queued
    BY DEF PortTypeOK, NoEvent
  <2>4. CASE reported' = reported
    BY <2>2, <2>3, <2>4 DEF EventInv
  <2>5. CASE reported' = Append(reported, answer)
    <3>1. /\ answer \in Events
          /\ DOMAIN reported = 1..Len(reported) /\ Len(reported) \in Nat
          /\ DOMAIN reported' = 1..(Len(reported) + 1)
          /\ \A i \in DOMAIN reported : reported'[i] = reported[i]
          /\ reported'[Len(reported) + 1] = answer
          /\ \A i \in DOMAIN reported : reported[i] \in Nat
      <4>1. answer \in Events /\ reported \in Seq(Events)
        BY <2>2 DEF PortTypeOK
      <4>. QED
        BY <2>5, <4>1, Appending
    <3>2. \A i \in DOMAIN reported' : i \in DOMAIN reported \/ i = Len(reported) + 1
      BY <3>1
    <3>3. \A i \in DOMAIN reported : i < Len(reported) + 1
      BY <3>1
    <3>4. Rising(reported')
      BY <2>2, <3>1, <3>2 DEF EventInv, Rising
    <3>5. \A i \in DOMAIN reported' :
            reported'[i] <= queued /\ \A j \in DOMAIN queue : reported'[i] < queue[j]
      BY <2>2, <3>1, <3>2 DEF EventInv
    <3>. QED
      BY <2>2, <2>3, <3>4, <3>5 DEF EventInv
  <2>. QED
    BY <2>2, <2>4, <2>5
<1>4. CASE QueueException
  <2>1. /\ queued' = queued + 1 /\ queued \in Nat
        /\ UNCHANGED <<reported, answer, pc>>
        /\ queue' = Append(queue, queued + 1)
    BY <1>4 DEF QueueException, PortTypeOK, port
  <2>2. /\ DOMAIN queue = 1..Len(queue) /\ Len(queue) \in Nat
        /\ DOMAIN queue' = 1..(Len(queue) + 1)
        /\ \A j \in DOMAIN queue : queue'[j] = queue[j] /\ queue[j] \in Nat
        /\ queue'[Len(queue) + 1] = queued + 1
        /\ \A i \in DOMAIN reported : reported[i] \in Nat
        /\ answer \in Nat
    <3>1. /\ queued + 1 \in Events /\ queue \in Seq(Events) /\ reported \in Seq(Events)
          /\ answer \in Nat
      BY <1>4, <2>1, EventNumbers DEF PortTypeOK, QueueException, Events, NoEvent
    <3>2. \A i \in DOMAIN reported : reported[i] \in Nat
      BY <3>1, Appending
    <3>. QED
      BY <2>1, <3>1, <3>2, Appending
  <2>3. \A j \in DOMAIN queue' : j \in DOMAIN queue \/ j = Len(queue) + 1
    BY <2>2
  <2>4. Rising(queue')
    BY <2>1, <2>2, <2>3 DEF EventInv, Rising
  <2>5. \A j \in DOMAIN queue' :
          /\ queue'[j] <= queued + 1
          /\ answer # NoEvent => answer < queue'[j]
          /\ \A i \in DOMAIN reported : reported[i] < queue'[j]
    BY <2>1, <2>2, <2>3 DEF EventInv
  <2>6. answer <= queued + 1 /\ \A i \in DOMAIN reported : reported[i] <= queued + 1
    BY <2>1, <2>2 DEF EventInv
  <2>. QED
    BY <2>1, <2>4, <2>5, <2>6 DEF EventInv
<1>5. CASE ClearExceptions
  <2>1. queue' = <<>> /\ UNCHANGED <<reported, answer, pc, queued>>
    BY <1>5 DEF ClearExceptions, port
  <2>. QED
    BY <2>1 DEF EventInv, Rising
<1>. QED
  BY <1>1, <1>2, <1>3, <1>4, <1>5, QueueSteps

-----------------------------------------------------------------------------
(* What follows for the events                                             *)

\* What the port has in hand: the event in the answer, if any, then the queue.
LEMMA InHandIs ==
  ASSUME PortTypeOK
  PROVE  /\ InHand \in Seq(Events)
         /\ answer = NoEvent => InHand = queue
         /\ answer # NoEvent =>
              /\ InHand # <<>> /\ Head(InHand) = answer /\ Tail(InHand) = queue
              /\ Len(InHand) = Len(queue) + 1
              /\ \A i \in DOMAIN InHand :
                   InHand[i] = IF i = 1 THEN answer ELSE queue[i - 1]
<1>1. CASE answer = NoEvent
  BY <1>1, ConcatEmptySeq DEF PortTypeOK, InHand
<1>2. CASE answer # NoEvent
  <2>1. answer \in Events /\ queue \in Seq(Events)
    BY <1>2 DEF PortTypeOK
  <2>2. <<answer>> \in Seq(Events) /\ Len(<<answer>>) = 1 /\ <<answer>>[1] = answer
    BY <2>1
  <2>3. InHand = <<answer>> \o queue
    BY <1>2 DEF InHand
  <2>4. Len(queue) \in Nat /\ DOMAIN queue = 1..Len(queue)
    BY <2>1, LenProperties
  <2>5. /\ InHand \in Seq(Events)
        /\ Len(InHand) = 1 + Len(queue)
        /\ \A i \in 1..(1 + Len(queue)) :
             InHand[i] = IF i <= 1 THEN <<answer>>[i] ELSE queue[i - 1]
    BY <2>1, <2>2, <2>3, ConcatProperties
  <2>6. InHand # <<>> /\ DOMAIN InHand = 1..(1 + Len(queue))
    BY <2>4, <2>5, LenProperties
  <2>7. \A i \in DOMAIN InHand : InHand[i] = IF i = 1 THEN answer ELSE queue[i - 1]
    BY <2>2, <2>4, <2>5, <2>6
  <2>8. Head(InHand) = answer
    BY <2>4, <2>5, <2>6, <2>7
  <2>9. Tail(InHand) = queue
    <3>1. /\ Tail(InHand) \in Seq(Events) /\ Len(Tail(InHand)) = Len(queue)
          /\ \A i \in 1..Len(queue) : Tail(InHand)[i] = InHand[i + 1]
      BY <2>4, <2>5, <2>6, HeadTailProperties
    <3>2. \A i \in 1..Len(queue) : Tail(InHand)[i] = queue[i]
      BY <2>4, <2>6, <2>7, <3>1
    <3>. QED
      BY <2>1, <3>1, <3>2, SeqEqual
  <2>. QED
    BY <1>2, <2>4, <2>5, <2>6, <2>7, <2>8, <2>9
<1>. QED
  BY <1>1, <1>2

\* Which events those are.
LEMMA InHandEvents ==
  ASSUME PortTypeOK
  PROVE  ToSet(reported \o InHand)
           = ToSet(reported) \cup ToSet(queue) \cup ({answer} \ {NoEvent})
<1>1. /\ reported \in Seq(Events) /\ InHand \in Seq(Events) /\ queue \in Seq(Events)
  BY InHandIs DEF PortTypeOK
<1>2. ToSet(reported \o InHand) = ToSet(reported) \cup ToSet(InHand)
  <2>1. Range(reported \o InHand) = Range(reported) \cup Range(InHand)
    BY <1>1, RangeConcatenation
  <2>. QED
    BY <2>1 DEF ToSet, Range
<1>3. ToSet(InHand) = ToSet(queue) \cup ({answer} \ {NoEvent})
  <2>1. CASE answer = NoEvent
    BY <2>1, InHandIs
  <2>2. CASE answer # NoEvent
    <3>1. /\ DOMAIN queue = 1..Len(queue) /\ Len(queue) \in Nat
          /\ DOMAIN InHand = 1..(Len(queue) + 1)
      BY <1>1, <2>2, InHandIs, LenProperties
    <3>2. \A i \in DOMAIN InHand : InHand[i] = IF i = 1 THEN answer ELSE queue[i - 1]
      BY <2>2, InHandIs
    <3>3. \A i \in DOMAIN queue : i + 1 \in DOMAIN InHand /\ InHand[i + 1] = queue[i]
      BY <3>1, <3>2
    <3>4. \A i \in DOMAIN InHand : i = 1 \/ i - 1 \in DOMAIN queue
      BY <3>1
    <3>5. 1 \in DOMAIN InHand
      BY <3>1
    <3>6. ToSet(InHand) \subseteq ToSet(queue) \cup {answer}
      BY <3>2, <3>4 DEF ToSet
    <3>7. ToSet(queue) \cup {answer} \subseteq ToSet(InHand)
      BY <3>2, <3>3, <3>5 DEF ToSet
    <3>. QED
      BY <2>2, <3>6, <3>7
  <2>. QED
    BY <2>1, <2>2
<1>. QED
  BY <1>2, <1>3

\* The order of the three places is the order of the whole.
LEMMA OrderOfAll ==
  ASSUME PortTypeOK, EventInv
  PROVE  ReportedInOrder
<1> DEFINE all == reported \o InHand
<1>1. /\ reported \in Seq(Events) /\ InHand \in Seq(Events) /\ queue \in Seq(Events)
  BY InHandIs DEF PortTypeOK
<1>2. /\ DOMAIN reported = 1..Len(reported) /\ Len(reported) \in Nat
      /\ DOMAIN InHand = 1..Len(InHand) /\ Len(InHand) \in Nat
      /\ DOMAIN queue = 1..Len(queue) /\ Len(queue) \in Nat
  BY <1>1, LenProperties
<1>3. /\ DOMAIN all = 1..(Len(reported) + Len(InHand))
      /\ \A i \in DOMAIN all : all[i] = IF i <= Len(reported) THEN reported[i]
                                        ELSE InHand[i - Len(reported)]
  <2>1. /\ all \in Seq(Events) /\ Len(all) = Len(reported) + Len(InHand)
        /\ \A i \in 1..(Len(reported) + Len(InHand)) :
             all[i] = IF i <= Len(reported) THEN reported[i] ELSE InHand[i - Len(reported)]
    BY <1>1, ConcatProperties
  <2>. QED
    BY <2>1, LenProperties
<1>4. Rising(InHand) /\ \A i \in DOMAIN reported : \A j \in DOMAIN InHand :
                          reported[i] < InHand[j]
  <2>1. CASE answer = NoEvent
    BY <2>1, InHandIs DEF EventInv
  <2>2. CASE answer # NoEvent
    <3>1. /\ DOMAIN InHand = 1..(Len(queue) + 1)
          /\ \A i \in DOMAIN InHand : InHand[i] = IF i = 1 THEN answer ELSE queue[i - 1]
      BY <1>2, <2>2, InHandIs
    <3>2. \A i \in DOMAIN InHand : i = 1 \/ (i \in Nat /\ i > 1 /\ i - 1 \in DOMAIN queue)
      BY <1>2, <3>1
    <3>3. \A i, j \in DOMAIN InHand : i < j => j # 1
      BY <3>1
    <3>4. \A i, j \in DOMAIN InHand : i < j => InHand[i] < InHand[j]
      BY <2>2, <3>1, <3>2, <3>3 DEF EventInv, Rising
    <3>. QED
      BY <2>2, <3>1, <3>2, <3>4 DEF EventInv, Rising
  <2>. QED
    BY <2>1, <2>2
<1>5. ASSUME NEW i \in DOMAIN all, NEW j \in DOMAIN all, i < j
      PROVE  all[i] < all[j]
  <2>1. CASE j <= Len(reported)
    BY <1>2, <1>3, <1>5, <2>1 DEF EventInv, Rising
  <2>2. CASE i <= Len(reported) /\ j > Len(reported)
    <3>1. i \in DOMAIN reported /\ j - Len(reported) \in DOMAIN InHand
      BY <1>2, <1>3, <2>2
    <3>. QED
      BY <1>2, <1>3, <1>4, <2>2, <3>1
  <2>3. CASE i > Len(reported)
    <3>1. /\ i - Len(reported) \in DOMAIN InHand /\ j - Len(reported) \in DOMAIN InHand
          /\ i - Len(reported) < j - Len(reported) /\ j > Len(reported)
      BY <1>2, <1>3, <1>5, <2>3
    <3>2. all[i] = InHand[i - Len(reported)] /\ all[j] = InHand[j - Len(reported)]
      BY <1>2, <1>3, <2>3, <3>1
    <3>. QED
      BY <1>4, <3>1, <3>2 DEF Rising
  <2>. QED
    BY <1>2, <1>3, <2>1, <2>2, <2>3
<1>. QED
  BY <1>5 DEF ReportedInOrder

\* In the initial state nothing has happened.
LEMMA PortStarts ==
  ASSUME Init
  PROVE  PortTypeOK /\ EventInv
<1>1. /\ MaxEvents \in Nat /\ MaxLateLosses \in Nat /\ MaxClears \in Nat
      /\ MaxStops \in Nat /\ MaxOtherPolls \in Nat
  BY PortAssumption DEF PortAssumption
<1>2. PortTypeOK
  <2>1. <<>> \in Seq(Events)
    BY EmptySeq
  <2>2. {} \subseteq Events
    OBVIOUS
  <2>3. /\ 0 \in 0..MaxEvents /\ 0 \in 0..MaxLateLosses /\ 0 \in 0..MaxClears
        /\ 0 \in 0..MaxStops /\ 0 \in 0..MaxOtherPolls
    BY <1>1
  <2>. QED
    BY <2>1, <2>2, <2>3 DEF Init, PortInit, PortTypeOK
<1>3. /\ reported = <<>> /\ queue = <<>> /\ answer = NoEvent /\ pc = "stopped"
      /\ queued = 0
  BY DEF Init, PortInit
<1>4. DOMAIN reported = {} /\ DOMAIN queue = {} /\ NoEvent <= 0
  BY <1>3 DEF NoEvent
<1>. QED
  BY <1>2, <1>3, <1>4 DEF EventInv, Rising

\* The types of the port and the order of its events hold throughout.
LEMMA EventsHold == Spec => [](PortTypeOK /\ EventInv)
<1>1. Init => PortTypeOK /\ EventInv
  BY PortStarts
<1>2. PortTypeOK /\ EventInv /\ [Next]_vars => (PortTypeOK /\ EventInv)'
  BY PortTyped, EventsOrdered
<1>. QED
  BY <1>1, <1>2, PTL DEF Spec

\* Every event is reported at most once and in the order of queueing, whatever
\* is queued, cleared, stopped and started meanwhile.
THEOREM InOrder == Spec => []ReportedInOrder
<1>1. PortTypeOK /\ EventInv => ReportedInOrder
  BY OrderOfAll
<1>. QED
  BY <1>1, EventsHold, PTL

-----------------------------------------------------------------------------
(* Losses                                                                  *)

\* The events of a sequence after an append, and with its head apart.
LEMMA EventsOfAppend ==
  ASSUME NEW s \in Seq(Events), NEW e \in Events
  PROVE  ToSet(Append(s, e)) = ToSet(s) \cup {e}
<1>1. /\ DOMAIN s = 1..Len(s) /\ Len(s) \in Nat
      /\ DOMAIN Append(s, e) = 1..(Len(s) + 1)
      /\ \A i \in DOMAIN s : Append(s, e)[i] = s[i]
      /\ Append(s, e)[Len(s) + 1] = e
  BY Appending
<1>2. \A i \in DOMAIN Append(s, e) : i \in DOMAIN s \/ i = Len(s) + 1
  BY <1>1
<1>3. DOMAIN s \subseteq DOMAIN Append(s, e) /\ Len(s) + 1 \in DOMAIN Append(s, e)
  BY <1>1
<1>4. ToSet(Append(s, e)) \subseteq ToSet(s) \cup {e}
  BY <1>1, <1>2 DEF ToSet
<1>5. ToSet(s) \cup {e} \subseteq ToSet(Append(s, e))
  BY <1>1, <1>3 DEF ToSet
<1>. QED
  BY <1>4, <1>5

\* What Head takes from a queue and what Tail leaves is all of it.
LEMMA EventsOfTail ==
  ASSUME NEW s \in Seq(Events), s # <<>>
  PROVE  ToSet(s) = ToSet(Tail(s)) \cup {Head(s)}
<1>1. /\ DOMAIN s = 1..Len(s) /\ Len(s) \in Nat \ {0}
      /\ Tail(s) \in Seq(Events) /\ Len(Tail(s)) = Len(s) - 1
      /\ \A i \in 1..Len(Tail(s)) : Tail(s)[i] = s[i + 1]
  BY LenProperties, EmptySeq, HeadTailProperties
<1>2. Head(s) = s[1]
  BY <1>1
<1>3. DOMAIN Tail(s) = 1..(Len(s) - 1) /\ 1 \in DOMAIN s
  BY <1>1, LenProperties
<1>4. \A i \in DOMAIN s : i = 1 \/ (i - 1 \in DOMAIN Tail(s) /\ s[i] = Tail(s)[i - 1])
  <2>. SUFFICES ASSUME NEW i \in DOMAIN s, i # 1
                PROVE  i - 1 \in DOMAIN Tail(s) /\ s[i] = Tail(s)[i - 1]
    OBVIOUS
  <2>1. i - 1 \in 1..Len(Tail(s)) /\ (i - 1) + 1 = i
    BY <1>1
  <2>2. Tail(s)[i - 1] = s[(i - 1) + 1]
    BY <1>1, <2>1
  <2>. QED
    BY <1>1, <1>3, <2>1, <2>2
<1>5. \A i \in DOMAIN Tail(s) : i + 1 \in DOMAIN s /\ Tail(s)[i] = s[i + 1]
  BY <1>1, <1>3
<1>6. ToSet(s) \subseteq ToSet(Tail(s)) \cup {Head(s)}
  BY <1>2, <1>4 DEF ToSet
<1>7. ToSet(Tail(s)) \cup {Head(s)} \subseteq ToSet(s)
  BY <1>2, <1>3, <1>5 DEF ToSet
<1>. QED
  BY <1>6, <1>7

\* A step loses no event unknowingly but the one in an answer the line loses.
LEMMA MissingGrows ==
  ASSUME PortTypeOK, EventInv, [Next]_vars
  PROVE  \/ Missing' \subseteq Missing /\ lateLosses' = lateLosses
         \/ Missing' \subseteq Missing \cup {answer} /\ lateLosses' = lateLosses + 1
<1>1. CASE QueueLeft
  BY <1>1 DEF QueueLeft, Missing
<1>2. CASE PopException
  <2>1. UNCHANGED <<reported, diverted, silent, queued, lateLosses>> /\ answer = NoEvent
    BY <1>2 DEF PopException, Goto, EventInv
  <2>2. CASE queue = <<>>
    BY <1>2, <2>1, <2>2 DEF PopException, Missing
  <2>3. CASE queue # <<>>
    <3>1. ToSet(queue) = ToSet(queue') \cup {Head(queue)}
      BY <1>2, <2>3, EventsOfTail DEF PopException, PortTypeOK
    <3>2. Head(queue) \in silent \/ answer' = Head(queue)
      BY <1>2, <2>3 DEF PopException
    <3>3. \A e \in 1..queued : e # NoEvent
      BY DEF NoEvent
    <3>. QED
      BY <2>1, <3>1, <3>2, <3>3 DEF Missing
  <2>. QED
    BY <2>2, <2>3
<1>3. CASE SendAnswer
  <2>1. /\ UNCHANGED <<queue, silent, queued, lateLosses>>
        /\ answer \in Events /\ reported \in Seq(Events)
        /\ \/ reported' = Append(reported, answer) /\ diverted' = diverted
           \/ reported' = reported /\ diverted' = diverted \cup {answer}
    BY <1>3 DEF SendAnswer, Answered, Goto, EventInv, PortTypeOK
  <2>2. \/ ToSet(reported') = ToSet(reported) \cup {answer} /\ diverted' = diverted
        \/ ToSet(reported') = ToSet(reported) /\ diverted' = diverted \cup {answer}
    BY <2>1, EventsOfAppend
  <2>. QED
    BY <2>1, <2>2 DEF Missing
<1>4. CASE LoseAnswer
  BY <1>4 DEF LoseAnswer, Answered, Goto, Missing
<1>5. CASE QueueException
  <2>1. /\ UNCHANGED <<reported, answer, diverted, lateLosses>>
        /\ queued \in Nat /\ queued' = queued + 1
        /\ silent \subseteq silent'
        /\ queue' = Append(queue, queued + 1)
    BY <1>5 DEF QueueException, port, bounds, PortTypeOK
  <2>2. queue \in Seq(Events) /\ queued + 1 \in Events
    BY <1>5, <2>1, EventNumbers DEF PortTypeOK, QueueException, Events
  <2>3. ToSet(queue') = ToSet(queue) \cup {queued + 1}
    BY <2>1, <2>2, EventsOfAppend
  <2>4. 1..queued' = (1..queued) \cup {queued + 1}
    BY <2>1
  <2>. QED
    BY <2>1, <2>3, <2>4 DEF Missing
<1>6. CASE ClearExceptions
  BY <1>6 DEF ClearExceptions, port, Missing
<1>. QED
  BY <1>1, <1>2, <1>3, <1>4, <1>5, <1>6, QueueSteps

\* An event the host never hears of was cleared, silent, diverted to another
\* poll or in an answer the line lost: no interleaving of the threads loses one.
THEOREM LossesKnown == Spec => []OnlyKnownLosses
<1> DEFINE Few == Cardinality(Missing) <= lateLosses
<1>1. ASSUME PortTypeOK PROVE IsFiniteSet(Missing) /\ Cardinality(Missing) \in Nat
  <2>0. queued \in Int
    BY <1>1 DEF PortTypeOK
  <2>1. IsFiniteSet(1..queued)
    BY <2>0, FS_Interval
  <2>2. Missing \subseteq 1..queued
    BY DEF Missing
  <2>. QED
    BY <2>1, <2>2, FS_Subset, FS_CardinalityType
<1>2. Init => Few
  <2>1. SUFFICES ASSUME Init PROVE Few
    OBVIOUS
  <2>2. Missing = {} /\ lateLosses = 0
    <3>1. queued = 0 /\ lateLosses = 0
      BY <2>1 DEF Init, PortInit
    <3>2. 1..0 = {}
      OBVIOUS
    <3>. QED
      BY <3>1, <3>2 DEF Missing
  <2>. QED
    BY <2>2, FS_EmptySet
<1>3. PortTypeOK /\ EventInv /\ (PortTypeOK /\ EventInv)' /\ Few /\ [Next]_vars => Few'
  <2>1. SUFFICES ASSUME PortTypeOK, EventInv, PortTypeOK', Few, [Next]_vars
                 PROVE  Few'
    OBVIOUS
  <2>2. IsFiniteSet(Missing) /\ Cardinality(Missing) \in Nat /\ Cardinality(Missing') \in Nat
    <3>1. Cardinality(Missing') \in Nat
      <4>0. queued' \in Int
        BY <2>1 DEF PortTypeOK
      <4>1. IsFiniteSet(1..queued')
        BY <4>0, FS_Interval
      <4>2. Missing' \subseteq 1..queued'
        BY DEF Missing
      <4>. QED
        BY <4>1, <4>2, FS_Subset, FS_CardinalityType
    <3>. QED
      BY <1>1, <2>1, <3>1
  <2>3. lateLosses \in Nat
    BY <2>1 DEF PortTypeOK
  <2>4. CASE Missing' \subseteq Missing /\ lateLosses' = lateLosses
    BY <2>1, <2>2, <2>3, <2>4, FS_Subset
  <2>5. CASE Missing' \subseteq Missing \cup {answer} /\ lateLosses' = lateLosses + 1
    <3>1. /\ IsFiniteSet(Missing \cup {answer})
          /\ Cardinality(Missing \cup {answer}) \in Nat
          /\ Cardinality(Missing \cup {answer}) <= Cardinality(Missing) + 1
      <4>1. /\ IsFiniteSet(Missing \cup {answer})
            /\ \/ Cardinality(Missing \cup {answer}) = Cardinality(Missing)
               \/ Cardinality(Missing \cup {answer}) = Cardinality(Missing) + 1
        BY <2>2, FS_AddElement
      <4>. QED
        BY <2>2, <4>1
    <3>2. Cardinality(Missing') <= Cardinality(Missing \cup {answer})
      BY <2>5, <3>1, FS_Subset
    <3>. QED
      BY <2>1, <2>2, <2>3, <2>5, <3>1, <3>2
  <2>. QED
    BY <2>1, <2>4, <2>5, MissingGrows
<1>4. PortTypeOK /\ Few => OnlyKnownLosses
  <2>1. SUFFICES ASSUME PortTypeOK, Few PROVE OnlyKnownLosses
    OBVIOUS
  <2>2. ((1..queued) \ ToSet(reported \o InHand)) \ (diverted \cup silent) = Missing
    <3>1. \A e \in 1..queued : e # NoEvent
      BY DEF NoEvent
    <3>. QED
      BY <2>1, <3>1, InHandEvents DEF Missing
  <2>. QED
    BY <2>1, <2>2 DEF OnlyKnownLosses
<1>. QED
  BY <1>2, <1>3, <1>4, EventsHold, PTL DEF Spec

-----------------------------------------------------------------------------
(* Refinement of EventReports                                              *)

\* Every step of the port is a step of the abstract queue or leaves it alone.
LEMMA StepsOfReports ==
  ASSUME PortTypeOK, EventInv, PortTypeOK', [Next]_vars
  PROVE  \/ Reports!Happen \/ Reports!Tell \/ Reports!Lose \/ Reports!Clear
         \/ UNCHANGED Reports!reportsVars
<1> USE DEF Reports!reportsVars
<1>1. CASE QueueLeft
  BY <1>1 DEF QueueLeft, InHand
<1>2. CASE PopException
  <2>1. UNCHANGED <<reported, queued>> /\ answer = NoEvent /\ InHand = queue
    BY <1>2, InHandIs DEF PopException, Goto, EventInv
  <2>2. CASE queue = <<>>
    BY <1>2, <2>1, <2>2 DEF PopException, InHand
  <2>3. CASE queue # <<>> /\ answer' # NoEvent
    <3>1. queue \in Seq(Events) /\ answer' = Head(queue) /\ queue' = Tail(queue)
      BY <1>2, <2>3 DEF PopException, PortTypeOK
    <3>2. InHand' = <<Head(queue)>> \o Tail(queue)
      BY <2>3, <3>1 DEF InHand
    <3>3. <<Head(queue)>> \o Tail(queue) = queue
      BY <2>3, <3>1
    <3>. QED
      BY <2>1, <3>2, <3>3
  <2>4. CASE queue # <<>> /\ answer' = NoEvent
    <3>1. queue' = Tail(queue) /\ queue' \in Seq(Events)
      BY <1>2, <2>4 DEF PopException, PortTypeOK
    <3>2. InHand' = Tail(queue)
      BY <2>4, <3>1, ConcatEmptySeq DEF InHand
    <3>. QED
      BY <2>1, <2>4, <3>2 DEF Reports!Lose
  <2>. QED
    BY <2>2, <2>3, <2>4
<1>3. CASE SendAnswer \/ LoseAnswer
  <2>1. PICK arrives \in BOOLEAN : Answered(arrives)
    BY <1>3 DEF SendAnswer, LoseAnswer
  <2>2. /\ answer # NoEvent /\ answer' = NoEvent
        /\ reported' \in {reported, Append(reported, answer)}
        /\ UNCHANGED <<queue, queued>>
    BY <2>1 DEF Answered, Goto, EventInv
  <2>3. InHand # <<>> /\ Head(InHand) = answer /\ Tail(InHand) = queue
    BY <2>2, InHandIs
  <2>4. InHand' = queue
    BY <2>2, ConcatEmptySeq DEF InHand, PortTypeOK
  <2>. QED
    BY <2>2, <2>3, <2>4 DEF Reports!Tell, Reports!Lose
<1>4. CASE QueueException
  <2>1. /\ UNCHANGED <<reported, answer>>
        /\ queued' = queued + 1 /\ queued + 1 \in Events
        /\ queue' = Append(queue, queued + 1) /\ queue \in Seq(Events)
    BY <1>4, EventNumbers DEF QueueException, port, PortTypeOK, Events
  <2>2. InHand' = Append(InHand, queued + 1)
    <3> DEFINE front == IF answer = NoEvent THEN <<>> ELSE <<answer>>
    <3>1. front \in Seq(Events)
      BY DEF PortTypeOK
    <3>2. front \o Append(queue, queued + 1) = Append(front \o queue, queued + 1)
      <4> HIDE DEF front
      <4>1. <<queued + 1>> \in Seq(Events)
        BY <2>1
      <4>2. front \o (queue \o <<queued + 1>>) = (front \o queue) \o <<queued + 1>>
        BY <2>1, <3>1, <4>1, ConcatAssociative
      <4>3. front \o queue \in Seq(Events)
        BY <2>1, <3>1, ConcatProperties
      <4>. QED
        BY <2>1, <4>2, <4>3, AppendIsConcat
    <3>. QED
      BY <2>1, <3>2 DEF InHand
  <2>. QED
    BY <2>1, <2>2 DEF Reports!Happen
<1>5. CASE ClearExceptions
  <2>1. queue' = <<>> /\ UNCHANGED <<reported, answer, queued>>
    BY <1>5 DEF ClearExceptions, port
  <2>2. CASE answer = NoEvent
    <3>1. InHand = queue /\ InHand' = <<>>
      BY <2>1, <2>2, InHandIs DEF InHand
    <3>. QED
      BY <2>1, <3>1 DEF Reports!Clear
  <2>3. CASE answer # NoEvent
    <3>1. InHand # <<>> /\ Head(InHand) = answer
      BY <2>3, InHandIs
    <3>2. <<answer>> \in Seq(Events)
      BY <2>3 DEF PortTypeOK
    <3>3. InHand' = <<answer>>
      BY <2>1, <2>3, <3>2, ConcatEmptySeq DEF InHand
    <3>. QED
      BY <2>1, <3>1, <3>3 DEF Reports!Clear
  <2>. QED
    BY <2>2, <2>3
<1>. QED
  BY <1>1, <1>2, <1>3, <1>4, <1>5, QueueSteps

\* The port, with its line and all its threads, implements the abstract queue.
THEOREM PortReports == Spec => ImplementsReports
<1>1. Init => Reports!ReportsInit
  BY DEF Init, PortInit, Reports!ReportsInit, InHand
<1>2. PortTypeOK /\ EventInv /\ PortTypeOK' /\ [Next]_vars
        => [Reports!Happen \/ Reports!Tell \/ Reports!Lose \/ Reports!Clear]_Reports!reportsVars
  BY StepsOfReports
<1>. QED
  BY <1>1, <1>2, EventsHold, PTL DEF Spec, ImplementsReports, Reports!ReportsSpec

-----------------------------------------------------------------------------
(* What read() makes of its buffer                                         *)

\* Min and Max of two numbers.
LEMMA MinAndMax ==
  ASSUME NEW a \in Int, NEW b \in Int
  PROVE  /\ Min({a, b}) = IF a <= b THEN a ELSE b
         /\ Max({a, b}) = IF a >= b THEN a ELSE b
<1>1. \E x \in {a, b} : \A y \in {a, b} : x <= y
  OBVIOUS
<1>2. /\ Min({a, b}) \in {a, b}
      /\ Min({a, b}) <= a /\ Min({a, b}) <= b
  BY <1>1 DEF Min
<1>3. \E x \in {a, b} : \A y \in {a, b} : x >= y
  OBVIOUS
<1>4. /\ Max({a, b}) \in {a, b}
      /\ Max({a, b}) >= a /\ Max({a, b}) >= b
  BY <1>3 DEF Max
<1>. QED
  BY <1>2, <1>4

\* The zeros before the first command byte are the junk read() skips.
LEMMA BegunAt ==
  ASSUME NEW b \in Seq(Byte), NEW i \in 0..Len(b),
         \A j \in 1..i : b[j] = 0,
         i = Len(b) \/ b[i + 1] # 0
  PROVE  Begun(b) = SubSeq(b, i + 1, Len(b))
<1> DEFINE zeros == {k \in 0..Len(b) : \A j \in 1..k : b[j] = 0}
<1>1. Len(b) \in Nat
  BY LenProperties
<1>2. i \in zeros
  OBVIOUS
<1>3. \A k \in zeros : k <= i
  <2>. SUFFICES ASSUME NEW k \in zeros, k > i PROVE FALSE
    BY <1>1
  <2>1. i + 1 \in 1..k /\ i # Len(b)
    BY <1>1
  <2>. QED
    BY <2>1
<1>4. (CHOOSE x \in zeros : \A k \in zeros : k <= x) = i
  <2>1. \A x \in zeros : (\A k \in zeros : k <= x) => x = i
    BY <1>1, <1>2, <1>3
  <2>. QED
    BY <1>2, <1>3, <2>1
<1>. QED
  BY <1>4 DEF Begun

\* There is such a place in every buffer.
LEMMA JunkEnds ==
  ASSUME NEW b \in Seq(Byte)
  PROVE  \E i \in 0..Len(b) : /\ \A j \in 1..i : b[j] = 0
                              /\ i = Len(b) \/ b[i + 1] # 0
<1> DEFINE commands == {k \in Nat : k \in 1..Len(b) /\ b[k] # 0}
<1>1. Len(b) \in Nat
  BY LenProperties
<1>2. CASE commands = {}
  <2>1. \A j \in 1..Len(b) : b[j] = 0
    BY <1>1, <1>2
  <2>. QED
    BY <1>1, <2>1
<1>3. CASE commands # {}
  <2>1. PICK k \in commands : \A y \in commands : ~(<<y, k>> \in OpToRel(<, Nat))
    <3>1. commands \in SUBSET Nat
      OBVIOUS
    <3>. QED
      BY <1>3, <3>1, NatLessThanWellFounded, WFMin
  <2>2. \A y \in commands : ~(y < k)
    BY <2>1 DEF OpToRel
  <2>3. /\ k - 1 \in 0..Len(b)
        /\ \A j \in 1..(k - 1) : b[j] = 0
        /\ b[(k - 1) + 1] # 0
    BY <1>1, <2>2
  <2>. QED
    BY <2>3
<1>. QED
  BY <1>2, <1>3

\* What is left of a buffer is well typed, no longer than it, and begins with
\* a command byte; and a byte that arrives behind it is added to it.
LEMMA BegunIs ==
  ASSUME NEW b \in Seq(Byte)
  PROVE  /\ Begun(b) \in Seq(Byte)
         /\ Len(Begun(b)) \in Nat /\ Len(Begun(b)) <= Len(b)
         /\ Begun(b) # <<>> => Begun(b)[1] # 0
         /\ Begun(b) # <<>> =>
              \A x \in Byte : Begun(Append(b, x)) = Append(Begun(b), x)
<1>1. PICK i \in 0..Len(b) : /\ \A j \in 1..i : b[j] = 0
                             /\ i = Len(b) \/ b[i + 1] # 0
  BY JunkEnds
<1>2. Len(b) \in Nat /\ \A k \in 1..Len(b) : b[k] \in Byte
  BY LenProperties, ElementOfSeq
<1>3. Begun(b) = SubSeq(b, i + 1, Len(b))
  BY <1>1, BegunAt
<1>4. /\ Begun(b) \in Seq(Byte)
      /\ Len(Begun(b)) = Len(b) - i
      /\ \A k \in 1..(Len(b) - i) : Begun(b)[k] = b[i + k]
  <2>1. i + 1 \in Int /\ Len(b) \in Int /\ \A k \in (i + 1)..Len(b) : b[k] \in Byte
    BY <1>2
  <2>2. /\ SubSeq(b, i + 1, Len(b)) \in Seq(Byte)
        /\ Len(SubSeq(b, i + 1, Len(b)))
             = IF i + 1 <= Len(b) THEN Len(b) - (i + 1) + 1 ELSE 0
        /\ \A k \in 1..(Len(b) - (i + 1) + 1) :
             SubSeq(b, i + 1, Len(b))[k] = b[(i + 1) + k - 1]
    BY <2>1, SubSeqProperties
  <2>. QED
    BY <1>2, <1>3, <2>2
<1>5. ASSUME Begun(b) # <<>> PROVE i < Len(b) /\ b[i + 1] # 0 /\ Begun(b)[1] # 0
  <2>1. Len(Begun(b)) # 0
    BY <1>4, <1>5, EmptySeq
  <2>. QED
    BY <1>1, <1>2, <1>4, <2>1
<1>6. ASSUME Begun(b) # <<>>, NEW x \in Byte
      PROVE  Begun(Append(b, x)) = Append(Begun(b), x)
  <2> DEFINE c == Append(b, x)
  <2>1. /\ c \in Seq(Byte) /\ Len(c) = Len(b) + 1
        /\ \A k \in 1..Len(b) : c[k] = b[k]
        /\ c[Len(b) + 1] = x
    BY AppendProperties
  <2>2. /\ i \in 0..Len(c)
        /\ \A j \in 1..i : c[j] = 0
        /\ c[i + 1] # 0
    BY <1>1, <1>2, <1>5, <1>6, <2>1
  <2>3. Begun(c) = SubSeq(c, i + 1, Len(c))
    BY <2>1, <2>2, BegunAt
  <2>4. \A k \in (i + 1)..Len(c) : c[k] \in Byte
    BY <2>1, LenProperties, ElementOfSeq
  <2>5. /\ SubSeq(c, i + 1, Len(c)) \in Seq(Byte)
        /\ Len(SubSeq(c, i + 1, Len(c)))
             = IF i + 1 <= Len(c) THEN Len(c) - (i + 1) + 1 ELSE 0
        /\ \A k \in 1..(Len(c) - (i + 1) + 1) :
             SubSeq(c, i + 1, Len(c))[k] = c[(i + 1) + k - 1]
    BY <1>2, <2>1, <2>4, SubSeqProperties
  <2>6. /\ Append(Begun(b), x) \in Seq(Byte)
        /\ Len(Append(Begun(b), x)) = Len(b) - i + 1
        /\ \A k \in 1..(Len(b) - i) : Append(Begun(b), x)[k] = b[i + k]
        /\ Append(Begun(b), x)[Len(b) - i + 1] = x
    BY <1>4, AppendProperties
  <2>7. Len(Begun(c)) = Len(b) - i + 1
    BY <1>2, <1>5, <1>6, <2>1, <2>3, <2>5
  <2>8. ASSUME NEW k \in 1..(Len(b) - i + 1)
        PROVE  Begun(c)[k] = Append(Begun(b), x)[k]
    <3>1. Begun(c)[k] = c[i + k]
      <4>1. k \in 1..(Len(c) - (i + 1) + 1) /\ (i + 1) + k - 1 = i + k
        BY <1>2, <2>1, <2>8
      <4>. QED
        BY <2>3, <2>5, <4>1
    <3>2. CASE k <= Len(b) - i
      BY <1>2, <2>1, <2>6, <3>1, <3>2
    <3>3. CASE k = Len(b) - i + 1
      <4>1. i + k = Len(b) + 1
        BY <1>2, <3>3
      <4>. QED
        BY <2>1, <2>6, <3>1, <3>3, <4>1
    <3>4. k <= Len(b) - i \/ k = Len(b) - i + 1
      BY <1>2
    <3>. QED
      BY <3>2, <3>3, <3>4
  <2>. QED
    BY <2>3, <2>5, <2>6, <2>7, <2>8, SeqEqual
<1>. QED
  BY <1>2, <1>4, <1>5, <1>6

\* A buffer that begins with a command byte has no junk.
LEMMA NoJunk ==
  ASSUME NEW b \in Seq(Byte), b # <<>>, b[1] # 0
  PROVE  Begun(b) = b
<1>1. Len(b) \in Nat \ {0}
  BY EmptySeq
<1>2. Begun(b) = SubSeq(b, 0 + 1, Len(b))
  <2>1. 0 \in 0..Len(b) /\ (\A j \in 1..0 : b[j] = 0) /\ b[0 + 1] # 0
    BY <1>1
  <2>. QED
    BY <2>1, BegunAt
<1>. QED
  BY <1>2, SubSeqFull

-----------------------------------------------------------------------------
(* Messages cut from the line                                              *)

\* e gives where the messages of u end in the bytes s: together they are s.
Cuts(u, s, e) ==
  /\ e[0] = 0 /\ e[Len(u)] = Len(s)
  /\ \A i, j \in 0..Len(u) : i <= j => e[i] <= e[j]
  /\ \A i \in 1..Len(u) :
       /\ e[i] = e[i - 1] + Len(u[i])
       /\ \A k \in 1..Len(u[i]) : s[e[i - 1] + k] = u[i][k]

Joined(u, s) == \E e \in [0..Len(u) -> Nat] : Cuts(u, s, e)

\* As long as nothing is damaged, buffer and line hold the messages under way,
\* and the buffer nothing beyond the first of them.
LineInv ==
  /\ whole => /\ Joined(underWay, rx \o line)
              /\ rx # <<>> => underWay # <<>> /\ Len(rx) <= Len(underWay[1])
  /\ WholeMessages

\* No message is no byte.
LEMMA JoinedNothing == Joined(<<>>, <<>>)
<1> DEFINE e == [i \in 0..0 |-> 0]
<1>1. Len(<<>>) = 0
  OBVIOUS
<1>2. e \in [0..Len(<<>>) -> Nat]
  BY <1>1
<1>3. Cuts(<<>>, <<>>, e)
  BY <1>1 DEF Cuts
<1>. QED
  BY <1>2, <1>3 DEF Joined

\* A message the host adds goes to the end of both.
LEMMA JoinedMore ==
  ASSUME NEW u \in Seq(Composed), NEW s \in Seq(Byte), NEW m \in Composed,
         Joined(u, s)
  PROVE  Joined(Append(u, m), s \o m)
<1>1. PICK e \in [0..Len(u) -> Nat] : Cuts(u, s, e)
  BY DEF Joined
<1>2. m \in Seq(Byte)
  BY SerialAssumption DEF SerialAssumption, Messages
<1>3. Len(u) \in Nat /\ Len(s) \in Nat /\ Len(m) \in Nat
  BY <1>2, LenProperties
<1>4. /\ Len(s \o m) = Len(s) + Len(m)
      /\ \A k \in 1..(Len(s) + Len(m)) :
           (s \o m)[k] = IF k <= Len(s) THEN s[k] ELSE m[k - Len(s)]
  BY <1>2, ConcatProperties
<1> DEFINE w == Append(u, m)
           f == [i \in 0..(Len(u) + 1) |-> IF i <= Len(u) THEN e[i] ELSE Len(s) + Len(m)]
<1>5. /\ w \in Seq(Composed) /\ Len(w) = Len(u) + 1
      /\ \A i \in 1..Len(u) : w[i] = u[i]
      /\ w[Len(u) + 1] = m
  BY AppendProperties
<1>6. f \in [0..Len(w) -> Nat]
  BY <1>3, <1>5
<1>7. \A i \in 0..Len(u) : f[i] = e[i] /\ e[i] \in Nat /\ e[i] <= Len(s)
  BY <1>1, <1>3 DEF Cuts
<1>8. f[Len(u) + 1] = Len(s) + Len(m)
  BY <1>3
<1>9. f[0] = 0 /\ f[Len(w)] = Len(s \o m)
  BY <1>1, <1>3, <1>4, <1>5, <1>7, <1>8 DEF Cuts
<1>10. ASSUME NEW i \in 0..Len(w), NEW j \in 0..Len(w), i <= j PROVE f[i] <= f[j]
  <2>1. CASE j <= Len(u)
    BY <1>1, <1>3, <1>5, <1>7, <1>10, <2>1 DEF Cuts
  <2>2. CASE j = Len(u) + 1 /\ i <= Len(u)
    BY <1>3, <1>7, <1>8, <2>2
  <2>3. CASE j = Len(u) + 1 /\ i = Len(u) + 1
    BY <1>3, <1>8, <2>3
  <2>. QED
    BY <1>3, <1>5, <1>10, <2>1, <2>2, <2>3
<1>11. ASSUME NEW i \in 1..Len(w)
       PROVE  /\ f[i] = f[i - 1] + Len(w[i])
              /\ \A k \in 1..Len(w[i]) : (s \o m)[f[i - 1] + k] = w[i][k]
  <2>1. CASE i <= Len(u)
    <3>1. i \in 1..Len(u) /\ i - 1 \in 0..Len(u) /\ i \in 0..Len(u)
      BY <1>3, <1>5, <2>1
    <3>2. e[i] = e[i - 1] + Len(u[i]) /\ u[i] \in Composed
      BY <1>1, <3>1, ElementOfSeq DEF Cuts
    <3>3. Len(u[i]) \in Nat
      BY <3>2, LenProperties, SerialAssumption DEF SerialAssumption, Messages
    <3>4. ASSUME NEW k \in 1..Len(u[i]) PROVE (s \o m)[e[i - 1] + k] = u[i][k]
      <4>1. e[i - 1] + k \in 1..Len(s)
        BY <1>3, <1>7, <3>1, <3>2, <3>3
      <4>2. s[e[i - 1] + k] = u[i][k]
        BY <1>1, <3>1 DEF Cuts
      <4>. QED
        BY <1>3, <1>4, <4>1, <4>2
    <3>. QED
      BY <1>5, <1>7, <3>1, <3>2, <3>4
  <2>2. CASE i = Len(u) + 1
    <3>1. i - 1 = Len(u) /\ f[i - 1] = Len(s)
      BY <1>1, <1>3, <1>7, <2>2 DEF Cuts
    <3>2. ASSUME NEW k \in 1..Len(m) PROVE (s \o m)[Len(s) + k] = m[k]
      <4>1. Len(s) + k \in 1..(Len(s) + Len(m)) /\ ~(Len(s) + k <= Len(s))
            /\ (Len(s) + k) - Len(s) = k
        BY <1>3
      <4>. QED
        BY <1>4, <4>1
    <3>. QED
      BY <1>5, <1>8, <2>2, <3>1, <3>2
  <2>3. i <= Len(u) \/ i = Len(u) + 1
    BY <1>3, <1>5
  <2>. QED
    BY <2>1, <2>2, <2>3
<1>12. Cuts(w, s \o m, f)
  BY <1>9, <1>10, <1>11 DEF Cuts
<1>. QED
  BY <1>6, <1>12 DEF Joined

\* Bytes that are there belong to a message, and begin with the first one.
LEMMA JoinedFirst ==
  ASSUME NEW u \in Seq(Composed), NEW s \in Seq(Byte), Joined(u, s), s # <<>>
  PROVE  /\ u # <<>> /\ u[1] \in Composed /\ Len(u[1]) <= Len(s)
         /\ \A k \in 1..Len(u[1]) : s[k] = u[1][k]
<1>1. PICK e \in [0..Len(u) -> Nat] : Cuts(u, s, e)
  BY DEF Joined
<1>2. Len(u) \in Nat /\ Len(s) \in Nat \ {0}
  BY LenProperties, EmptySeq
<1>3. u # <<>> /\ Len(u) >= 1
  BY <1>1, <1>2 DEF Cuts
<1>4. 1 \in 1..Len(u) /\ 1 \in 0..Len(u) /\ Len(u) \in 0..Len(u) /\ 1 - 1 = 0
  BY <1>2, <1>3
<1>5. u[1] \in Composed
  BY <1>4, ElementOfSeq
<1>6. /\ e[1] = Len(u[1]) /\ e[1] <= Len(s)
      /\ \A k \in 1..Len(u[1]) : s[0 + k] = u[1][k]
  <2>1. Len(u[1]) \in Nat
    BY <1>5, LenProperties, SerialAssumption DEF SerialAssumption, Messages
  <2>2. /\ e[0] = 0 /\ e[1] = e[0] + Len(u[1])
        /\ \A k \in 1..Len(u[1]) : s[e[0] + k] = u[1][k]
    BY <1>1, <1>4 DEF Cuts
  <2>3. e[1] <= e[Len(u)] /\ e[Len(u)] = Len(s)
    BY <1>1, <1>3, <1>4 DEF Cuts
  <2>. QED
    BY <2>1, <2>2, <2>3
<1>. QED
  BY <1>3, <1>5, <1>6

\* When the first message is taken away the rest is cut as before.
LEMMA JoinedRest ==
  ASSUME NEW u \in Seq(Composed), NEW s \in Seq(Byte), Joined(u, s), s # <<>>
  PROVE  Joined(Tail(u), SubSeq(s, Len(u[1]) + 1, Len(s)))
<1>1. PICK e \in [0..Len(u) -> Nat] : Cuts(u, s, e)
  BY DEF Joined
<1>2. /\ u # <<>> /\ u[1] \in Composed /\ Len(u[1]) <= Len(s)
  BY JoinedFirst
<1>3. Len(u) \in Nat \ {0} /\ Len(s) \in Nat /\ Len(u[1]) \in Nat
  BY <1>2, LenProperties, EmptySeq, SerialAssumption DEF SerialAssumption, Messages
<1> DEFINE n == Len(u[1])
           r == SubSeq(s, n + 1, Len(s))
           t == Tail(u)
           f == [i \in 0..(Len(u) - 1) |-> e[i + 1] - n]
<1>4. e[1] = n /\ e[0] = 0
  <2>1. 1 \in 1..Len(u)
    BY <1>3
  <2>2. e[1] = e[1 - 1] + Len(u[1]) /\ e[0] = 0
    BY <1>1, <2>1 DEF Cuts
  <2>. QED
    BY <1>3, <2>2
<1>5. /\ t \in Seq(Composed) /\ Len(t) = Len(u) - 1
      /\ \A i \in 1..Len(t) : t[i] = u[i + 1]
  BY <1>2, HeadTailProperties
<1>6. /\ Len(r) = Len(s) - n
      /\ \A k \in 1..(Len(s) - n) : r[k] = s[n + k]
  <2>1. \A k \in (n + 1)..Len(s) : s[k] \in Byte
    BY <1>3, LenProperties, ElementOfSeq
  <2>2. /\ Len(r) = IF n + 1 <= Len(s) THEN Len(s) - (n + 1) + 1 ELSE 0
        /\ \A k \in 1..(Len(s) - (n + 1) + 1) : r[k] = s[(n + 1) + k - 1]
    BY <1>3, <2>1, SubSeqProperties
  <2>3. Len(r) = Len(s) - n
    BY <1>2, <1>3, <2>2
  <2>4. ASSUME NEW k \in 1..(Len(s) - n) PROVE r[k] = s[n + k]
    <3>1. k \in 1..(Len(s) - (n + 1) + 1) /\ (n + 1) + k - 1 = n + k
      BY <1>3
    <3>. QED
      BY <2>2, <3>1
  <2>. QED
    BY <2>3, <2>4
<1>7. \A i \in 0..(Len(u) - 1) : /\ f[i] = e[i + 1] - n /\ e[i + 1] >= n
                                /\ e[i + 1] \in Nat
  <2>. SUFFICES ASSUME NEW i \in 0..(Len(u) - 1)
                PROVE  e[i + 1] >= n /\ e[i + 1] \in Nat
    OBVIOUS
  <2>1. 1 \in 0..Len(u) /\ i + 1 \in 0..Len(u) /\ 1 <= i + 1
    BY <1>3
  <2>. QED
    BY <1>1, <1>4, <2>1 DEF Cuts
<1>8. f \in [0..Len(t) -> Nat]
  BY <1>3, <1>5, <1>7
<1>9. f[0] = 0 /\ f[Len(t)] = Len(r)
  <2>1. 0 \in 0..(Len(u) - 1) /\ Len(u) - 1 \in 0..(Len(u) - 1)
        /\ (Len(u) - 1) + 1 = Len(u) /\ 0 + 1 = 1
    BY <1>3
  <2>2. f[0] = e[1] - n /\ f[Len(u) - 1] = e[Len(u)] - n
    BY <1>7, <2>1
  <2>3. e[Len(u)] = Len(s)
    BY <1>1 DEF Cuts
  <2>4. f[0] = 0
    BY <1>3, <1>4, <2>2
  <2>5. f[Len(t)] = f[Len(u) - 1]
    BY <1>5
  <2>6. f[Len(u) - 1] = Len(s) - n
    BY <2>2, <2>3
  <2>. QED
    BY <1>6, <2>4, <2>5, <2>6
<1>10. ASSUME NEW i \in 0..Len(t), NEW j \in 0..Len(t), i <= j PROVE f[i] <= f[j]
  <2>1. i + 1 \in 0..Len(u) /\ j + 1 \in 0..Len(u) /\ i + 1 <= j + 1
    BY <1>3, <1>5, <1>10
  <2>2. e[i + 1] <= e[j + 1]
    BY <1>1, <2>1 DEF Cuts
  <2>. QED
    BY <1>3, <1>5, <1>7, <2>2
<1>11. ASSUME NEW i \in 1..Len(t)
       PROVE  /\ f[i] = f[i - 1] + Len(t[i])
              /\ \A k \in 1..Len(t[i]) : r[f[i - 1] + k] = t[i][k]
  <2>1. /\ i \in 0..(Len(u) - 1) /\ i - 1 \in 0..(Len(u) - 1)
        /\ i + 1 \in 1..Len(u) /\ (i - 1) + 1 = i /\ (i + 1) - 1 = i
    BY <1>3, <1>5
  <2>2. f[i] = e[i + 1] - n /\ f[i - 1] = e[i] - n /\ e[i] >= n /\ e[i] \in Nat
    BY <1>7, <2>1
  <2>3. t[i] = u[i + 1] /\ u[i + 1] \in Composed
    BY <1>5, <2>1, ElementOfSeq
  <2>4. Len(u[i + 1]) \in Nat
    BY <2>3, LenProperties, SerialAssumption DEF SerialAssumption, Messages
  <2>5. /\ e[i + 1] = e[i] + Len(u[i + 1])
        /\ \A k \in 1..Len(u[i + 1]) : s[e[i] + k] = u[i + 1][k]
    BY <1>1, <2>1 DEF Cuts
  <2>6. e[i + 1] <= Len(s)
    BY <1>1, <1>3, <2>1 DEF Cuts
  <2>7. ASSUME NEW k \in 1..Len(t[i]) PROVE r[f[i - 1] + k] = t[i][k]
    <3>1. f[i - 1] + k \in 1..(Len(s) - n) /\ n + (f[i - 1] + k) = e[i] + k
      BY <1>3, <2>2, <2>3, <2>4, <2>5, <2>6
    <3>. QED
      BY <1>6, <2>3, <2>5, <3>1
  <2>8. f[i] = f[i - 1] + Len(t[i])
    BY <1>3, <2>2, <2>3, <2>4, <2>5
  <2>. QED
    BY <2>7, <2>8
<1>12. Cuts(t, r, f)
  BY <1>9, <1>10, <1>11 DEF Cuts
<1>. QED
  BY <1>8, <1>12 DEF Joined

-----------------------------------------------------------------------------
(* Steps of the line                                                       *)

\* Bytes are numbers.
LEMMA ByteNumbers == Byte \subseteq Nat
BY DEF Byte

\* The messages of the known formats are sequences of bytes.
LEMMA ComposedAre ==
  ASSUME NEW m \in Composed
  PROVE  /\ m \in Seq(Byte) /\ m # <<>>
         /\ Len(m) \in Nat \ {0} /\ Len(m) <= MaxMessageSize
         /\ m[1] \in Byte /\ (Len(m) >= 2 => m[2] \in Byte)
<1>1. m \in Seq(Byte) /\ m # <<>> /\ Len(m) <= MaxMessageSize
  BY SerialAssumption DEF SerialAssumption, Messages
<1>2. Len(m) \in Nat \ {0}
  BY <1>1, EmptySeq
<1>. QED
  BY <1>1, <1>2, ElementOfSeq

\* What a read waits for: a positive number of bytes, no more than the longest
\* message has, and more than the buffer of the caller only with a length byte.
LEMMA AwaitedIs ==
  ASSUME NEW b \in Seq(Byte)
  PROVE  /\ Awaited(b) \in Nat \ {0}
         /\ Awaited(b) <= 4 + MaxDataLength \/ Awaited(b) <= MaxMessageSize
<1>1. /\ MaxMessageSize \in Nat /\ MaxMessageSize >= 8 /\ MaxDataLength \in Nat
  BY SerialAssumption DEF SerialAssumption
<1>2. CASE b = <<>>
  BY <1>1, <1>2 DEF Awaited
<1>3. CASE b # <<>> /\ ~HasLengthField(b[1])
  BY <1>1, <1>3 DEF Awaited, FixedLength
<1>4. CASE b # <<>> /\ HasLengthField(b[1]) /\ Len(b) < 2
  BY <1>1, <1>4 DEF Awaited
<1>5. CASE b # <<>> /\ HasLengthField(b[1]) /\ ~(Len(b) < 2)
  <2>1. b[2] \in Byte
    BY <1>5, LenProperties, ElementOfSeq
  <2>2. Min({b[2], MaxDataLength}) \in Nat /\ Min({b[2], MaxDataLength}) <= MaxDataLength
    <3>1. b[2] \in Nat
      BY <2>1, ByteNumbers
    <3>2. Min({b[2], MaxDataLength}) = IF b[2] <= MaxDataLength THEN b[2] ELSE MaxDataLength
      BY <1>1, <3>1, MinAndMax
    <3>. QED
      BY <1>1, <3>1, <3>2
  <2>3. Awaited(b) = 4 + Min({b[2], MaxDataLength})
    BY <1>5 DEF Awaited
  <2>. QED
    BY <1>1, <2>2, <2>3
<1>. QED
  BY <1>2, <1>3, <1>4, <1>5

\* The length tables fit the formats: a buffer with the first bytes of a message
\* is complete when it has them all, and not before.
LEMMA ReadsFit ==
  ASSUME NEW m \in Composed, NEW b \in Seq(Byte), b # <<>>, Len(b) <= Len(m),
         \A k \in 1..Len(b) : b[k] = m[k]
  PROVE  /\ Begun(b) = b
         /\ Complete(b) => Len(b) = Len(m) /\ Awaited(b) = Len(m)
         /\ Awaited(b) <= Len(m)
<1>1. /\ MaxMessageSize \in Nat /\ MaxDataLength \in Nat
  BY SerialAssumption DEF SerialAssumption
<1>2. Len(b) \in Nat \ {0} /\ Len(m) \in Nat \ {0}
  BY EmptySeq, ComposedAre
<1>3. b[1] = m[1] /\ m[1] \in Byte /\ m[1] # 0
  BY <1>2, ComposedAre, FormatAssumption DEF FormatAssumption
<1>4. Begun(b) = b
  BY <1>3, NoJunk
<1>5. CASE ~HasLengthField(m[1])
  <2>1. Awaited(b) = FixedLength(m[1])
    BY <1>3, <1>5 DEF Awaited
  <2>2. FixedLength(m[1]) = Len(m)
    BY <1>5, FormatAssumption DEF FormatAssumption, FixedLength, HasLengthField
  <2>. QED
    BY <1>2, <1>4, <2>1, <2>2 DEF Complete
<1>6. CASE HasLengthField(m[1])
  <2>1. m[1] \in {111, 175, 114, 115, 117, 118} \cup 123..127
    BY <1>6 DEF HasLengthField
  <2>2. Len(m) = 4 + m[2] /\ m[2] <= MaxDataLength /\ Len(m) >= 2
    BY <2>1, FormatAssumption DEF FormatAssumption
  <2>3. m[2] \in Nat
    BY <2>2, ComposedAre, ByteNumbers
  <2>4. CASE Len(b) < 2
    <3>1. Awaited(b) = 2
      BY <1>3, <1>6, <2>4 DEF Awaited
    <3>. QED
      BY <1>2, <1>4, <2>2, <2>4, <3>1 DEF Complete
  <2>5. CASE ~(Len(b) < 2)
    <3>1. b[2] = m[2]
      BY <1>2, <2>5
    <3>2. Min({b[2], MaxDataLength}) = m[2]
      <4>1. Min({m[2], MaxDataLength}) = IF m[2] <= MaxDataLength THEN m[2] ELSE MaxDataLength
        BY <1>1, <2>3, MinAndMax
      <4>. QED
        BY <2>2, <3>1, <4>1
    <3>3. Awaited(b) = Len(m)
      BY <1>3, <1>6, <2>2, <2>5, <3>2 DEF Awaited
    <3>. QED
      BY <1>2, <1>4, <3>3 DEF Complete
  <2>. QED
    BY <2>4, <2>5
<1>. QED
  BY <1>5, <1>6

\* What the steps of the port do to the line.
LEMMA LineSteps ==
  ASSUME [Next]_vars
  PROVE  \/ \E m \in Messages : HostSends(m)
         \/ LoseByte \/ Fetch \/ Discard \/ Return \/ Open \/ Close
         \/ UNCHANGED lineVars
<1>1. CASE UNCHANGED vars
  BY <1>1 DEF vars
<1>2. CASE Receive \/ LoseAnswer
  BY <1>2 DEF Receive, ReadOn, ReceivePoll, PopException, SendAnswer, LoseAnswer, Answered
<1>3. CASE QueueException \/ ClearExceptions \/ Start \/ Stop \/ ThreadEnds
  BY <1>3 DEF QueueException, ClearExceptions, Start, Stop, ThreadEnds
<1>4. CASE \E m \in Messages : Poll(m)
  BY <1>4 DEF Poll
<1>5. CASE LineLoses
  BY <1>5 DEF LineLoses
<1>. QED
  BY <1>1, <1>2, <1>3, <1>4, <1>5 DEF Next

\* A damaged stream has no messages: none is claimed, and none is missed when
\* nothing is left of it.
LEMMA DamageCuts ==
  ASSUME NEW buffer, NEW bytes, Damage(buffer, bytes),
         rx' = buffer, line' = bytes, WholeMessages'
  PROVE  LineInv' /\ whole' \in BOOLEAN /\ underWay' \in Seq(Composed)
<1>1. underWay' = <<>> /\ (whole' => rx' = <<>> /\ line' = <<>>)
  BY DEF Damage
<1>2. <<>> \o <<>> = <<>>
  OBVIOUS
<1>3. whole' => Joined(underWay', rx' \o line')
  BY <1>1, <1>2, JoinedNothing
<1>4. <<>> \in Seq(Composed)
  BY EmptySeq
<1>. QED
  BY <1>1, <1>3, <1>4 DEF LineInv, Damage

\* A message that is handed over from an undamaged buffer is the first one under
\* way, all of it and nothing else.
LEMMA ReturnsTheFirst ==
  ASSUME LineTypeOK, LineInv, Return, whole
  PROVE  /\ underWay # <<>> /\ underWay[1] \in Composed
         /\ message' = underWay[1] /\ intended' = underWay[1]
         /\ rx' = <<>>
         /\ Joined(Tail(underWay), line)
         /\ underWay' = Tail(underWay)
<1>1. /\ rx \in Seq(Byte) /\ line \in Seq(Byte) /\ underWay \in Seq(Composed)
      /\ Joined(underWay, rx \o line)
      /\ rx # <<>> => underWay # <<>> /\ Len(rx) <= Len(underWay[1])
  BY DEF LineTypeOK, LineInv
<1>2. Begun(rx) # <<>> /\ Complete(Begun(rx))
  BY DEF Return, Complete
<1>3. rx # <<>>
  <2>1. Len(rx) # 0
    BY <1>1, <1>2, BegunIs, EmptySeq
  <2>. QED
    BY <2>1
<1>4. Len(rx) \in Nat \ {0} /\ Len(line) \in Nat
  BY <1>1, <1>3, EmptySeq, LenProperties
<1> DEFINE s == rx \o line
           m == underWay[1]
<1>5. /\ s \in Seq(Byte) /\ Len(s) = Len(rx) + Len(line) /\ s # <<>>
      /\ \A k \in 1..Len(rx) : s[k] = rx[k]
      /\ \A k \in 1..Len(line) : s[Len(rx) + k] = line[k]
  <2>1. /\ s \in Seq(Byte) /\ Len(s) = Len(rx) + Len(line)
        /\ \A k \in 1..(Len(rx) + Len(line)) :
             s[k] = IF k <= Len(rx) THEN rx[k] ELSE line[k - Len(rx)]
    BY <1>1, ConcatProperties
  <2>2. s # <<>>
    BY <1>4, <2>1
  <2>3. ASSUME NEW k \in 1..Len(line) PROVE s[Len(rx) + k] = line[k]
    <3>1. /\ Len(rx) + k \in 1..(Len(rx) + Len(line)) /\ ~(Len(rx) + k <= Len(rx))
          /\ (Len(rx) + k) - Len(rx) = k
      BY <1>4
    <3>. QED
      BY <2>1, <3>1
  <2>4. \A k \in 1..Len(rx) : s[k] = rx[k]
    BY <1>4, <2>1
  <2>. QED
    BY <2>1, <2>2, <2>3, <2>4
<1>6. /\ underWay # <<>> /\ m \in Composed /\ Len(m) <= Len(s)
      /\ \A k \in 1..Len(m) : s[k] = m[k]
  BY <1>1, <1>5, JoinedFirst
<1>7. m \in Seq(Byte) /\ Len(m) \in Nat \ {0} /\ Len(m) <= MaxMessageSize
  BY <1>6, ComposedAre
<1>8. Len(rx) <= Len(m) /\ \A k \in 1..Len(rx) : rx[k] = m[k]
  BY <1>1, <1>3, <1>4, <1>5, <1>6, <1>7
<1>9. Begun(rx) = rx /\ Len(rx) = Len(m) /\ Awaited(rx) = Len(m)
  BY <1>1, <1>2, <1>3, <1>6, <1>8, ReadsFit
<1>10. rx = m
  BY <1>1, <1>7, <1>8, <1>9, SeqEqual
<1>11. Min({Awaited(rx), MaxMessageSize}) = Len(m)
  <2>1. MaxMessageSize \in Nat
    BY SerialAssumption DEF SerialAssumption
  <2>2. Min({Len(m), MaxMessageSize}) = IF Len(m) <= MaxMessageSize THEN Len(m)
                                        ELSE MaxMessageSize
    BY <1>7, <2>1, MinAndMax
  <2>. QED
    BY <1>7, <1>9, <2>2
<1>12. /\ message' = SubSeq(rx, 1, Len(m))
       /\ rx' = SubSeq(rx, Len(m) + 1, Len(rx))
       /\ intended' = Head(underWay) /\ underWay' = Tail(underWay)
  BY <1>9, <1>11 DEF Return
<1>13. message' = m
  BY <1>1, <1>9, <1>10, <1>12, SubSeqFull
<1>14. rx' = <<>>
  <2>1. Len(m) + 1 \in Int /\ Len(rx) \in Int /\ Len(rx) < Len(m) + 1
    BY <1>4, <1>7, <1>9
  <2>. QED
    BY <1>12, <2>1, SubSeqEmpty
<1>15. Joined(Tail(underWay), line)
  <2>1. Joined(Tail(underWay), SubSeq(s, Len(m) + 1, Len(s)))
    BY <1>1, <1>5, JoinedRest
  <2>2. SubSeq(s, Len(m) + 1, Len(s)) = line
    <3> DEFINE r == SubSeq(s, Len(m) + 1, Len(s))
    <3>1. \A k \in (Len(m) + 1)..Len(s) : s[k] \in Byte
      BY <1>5, <1>7, LenProperties, ElementOfSeq
    <3>2. /\ r \in Seq(Byte)
          /\ Len(r) = IF Len(m) + 1 <= Len(s) THEN Len(s) - (Len(m) + 1) + 1 ELSE 0
          /\ \A k \in 1..(Len(s) - (Len(m) + 1) + 1) : r[k] = s[(Len(m) + 1) + k - 1]
      <4>1. Len(m) + 1 \in Int /\ Len(s) \in Int
        BY <1>4, <1>5, <1>7
      <4> HIDE DEF s, m
      <4>. QED
        BY <3>1, <4>1, SubSeqProperties
    <3>3. Len(r) = Len(line)
      BY <1>4, <1>5, <1>7, <1>9, <3>2
    <3>4. ASSUME NEW k \in 1..Len(line) PROVE r[k] = line[k]
      <4>1. k \in 1..(Len(s) - (Len(m) + 1) + 1) /\ (Len(m) + 1) + k - 1 = Len(rx) + k
        BY <1>4, <1>5, <1>7, <1>9
      <4>. QED
        BY <1>5, <3>2, <4>1
    <3>. QED
      BY <1>1, <3>2, <3>3, <3>4, SeqEqual
  <2>. QED
    BY <2>1, <2>2
<1>16. intended' = m
  BY <1>1, <1>6, <1>12
<1>. QED
  BY <1>6, <1>12, <1>13, <1>14, <1>15, <1>16

\* A byte that is fetched belongs to the message that is being read.
LEMMA FetchesNoMore ==
  ASSUME LineTypeOK, LineInv, Fetch
  PROVE  LineInv' /\ rx' \in Seq(Byte) /\ line' \in Seq(Byte)
<1>1. /\ rx \in Seq(Byte) /\ line \in Seq(Byte) /\ underWay \in Seq(Composed)
      /\ line # <<>> /\ line' = Tail(line) /\ rx' = Append(rx, Head(line))
      /\ UNCHANGED <<message, intended, whole, underWay>>
  BY DEF LineTypeOK, Fetch
<1>2. Head(line) \in Byte /\ Tail(line) \in Seq(Byte)
  BY <1>1, HeadTailProperties
<1>3. rx' \in Seq(Byte) /\ line' \in Seq(Byte) /\ Len(rx') = Len(rx) + 1 /\ Len(rx) \in Nat
  BY <1>1, <1>2, AppendProperties, LenProperties
<1>4. rx' \o line' = rx \o line
  <2>1. <<Head(line)>> \in Seq(Byte) /\ <<Head(line)>> \o Tail(line) = line
    BY <1>1, <1>2
  <2>2. rx' = rx \o <<Head(line)>>
    BY <1>1, <1>2, AppendIsConcat
  <2>3. (rx \o <<Head(line)>>) \o Tail(line) = rx \o (<<Head(line)>> \o Tail(line))
    BY <1>1, <1>2, <2>1, ConcatAssociative
  <2>. QED
    BY <1>1, <2>1, <2>2, <2>3
<1>5. ASSUME whole PROVE underWay # <<>> /\ Len(rx') <= Len(underWay[1])
  <2>1. /\ Joined(underWay, rx \o line)
        /\ rx # <<>> => Len(rx) <= Len(underWay[1])
    BY <1>5 DEF LineInv
  <2> DEFINE s == rx \o line
  <2>2. /\ s \in Seq(Byte) /\ s # <<>>
        /\ \A k \in 1..Len(rx) : s[k] = rx[k]
    <3>1. /\ s \in Seq(Byte) /\ Len(s) = Len(rx) + Len(line)
          /\ \A k \in 1..(Len(rx) + Len(line)) :
               s[k] = IF k <= Len(rx) THEN rx[k] ELSE line[k - Len(rx)]
      BY <1>1, ConcatProperties
    <3>2. Len(line) \in Nat \ {0}
      BY <1>1, EmptySeq
    <3>. QED
      BY <1>3, <3>1, <3>2
  <2>3. /\ underWay # <<>> /\ underWay[1] \in Composed
        /\ \A k \in 1..Len(underWay[1]) : s[k] = underWay[1][k]
    BY <1>1, <2>1, <2>2, JoinedFirst
  <2>4. Len(underWay[1]) \in Nat \ {0}
    BY <2>3, ComposedAre
  <2>5. CASE rx = <<>>
    BY <1>3, <2>3, <2>4, <2>5
  <2>6. CASE rx # <<>>
    <3>1. Len(rx) <= Len(underWay[1]) /\ \A k \in 1..Len(rx) : rx[k] = underWay[1][k]
      BY <1>3, <2>1, <2>2, <2>3, <2>4, <2>6
    <3>2. Begun(rx) = rx /\ Awaited(rx) <= Len(underWay[1])
      BY <1>1, <2>3, <2>6, <3>1, ReadsFit
    <3>3. Len(rx) < Awaited(rx)
      <4>1. ~Complete(rx) /\ Awaited(rx) \in Nat
        BY <1>1, <3>2, AwaitedIs DEF Fetch
      <4>. QED
        BY <1>3, <2>6, <4>1 DEF Complete
    <3>4. Awaited(rx) \in Nat
      BY <1>1, AwaitedIs
    <3>. QED
      BY <1>3, <2>3, <2>4, <3>2, <3>3, <3>4
  <2>. QED
    BY <2>5, <2>6
<1>. QED
  BY <1>1, <1>3, <1>4, <1>5 DEF LineInv, WholeMessages

\* Every step keeps the types of the line and the cut of its bytes.
LEMMA LineKept ==
  ASSUME LineTypeOK, LineInv, [Next]_vars
  PROVE  LineTypeOK' /\ LineInv'
<1>0. /\ isOpen \in BOOLEAN /\ line \in Seq(Byte) /\ rx \in Seq(Byte)
      /\ message \in Seq(Byte) /\ intended \in Composed \cup {NoMessage}
      /\ whole \in BOOLEAN /\ underWay \in Seq(Composed)
      /\ losses \in 0..MaxLosses /\ MaxLosses \in Nat
  BY SerialAssumption DEF LineTypeOK, SerialAssumption
<1>1. ASSUME NEW m \in Messages, HostSends(m)
      PROVE  LineTypeOK' /\ LineInv'
  <2>1. /\ line' = line \o m
        /\ UNCHANGED <<isOpen, rx, message, intended, losses>>
        /\ WholeMessages'
    BY <1>1 DEF HostSends, LineInv, WholeMessages
  <2>2. m \in Seq(Byte) /\ line \o m \in Seq(Byte) /\ rx \o line \in Seq(Byte)
    <3>1. m \in Seq(Byte)
      BY <1>1, SerialAssumption DEF SerialAssumption
    <3>. QED
      BY <1>0, <3>1, ConcatProperties
  <2>3. CASE whole /\ m \in Composed
    <3>1. underWay' = Append(underWay, m) /\ whole' = whole
      BY <1>1, <2>3 DEF HostSends
    <3>2. Joined(Append(underWay, m), (rx \o line) \o m)
      BY <1>0, <2>2, <2>3, JoinedMore DEF LineInv
    <3>3. (rx \o line) \o m = rx \o (line \o m)
      BY <1>0, <2>2, ConcatAssociative
    <3>4. /\ Append(underWay, m) \in Seq(Composed) /\ Append(underWay, m) # <<>>
          /\ underWay # <<>> => Append(underWay, m)[1] = underWay[1]
      <4>1. underWay # <<>> => 1 \in 1..Len(underWay)
        BY <1>0, EmptySeq
      <4>. QED
        BY <1>0, <2>3, <4>1, AppendProperties
    <3>. QED
      BY <1>0, <2>1, <2>2, <2>3, <3>1, <3>2, <3>3, <3>4 DEF LineTypeOK, LineInv
  <2>4. CASE ~(whole /\ m \in Composed)
    <3>1. Damage(rx, line \o m)
      BY <1>1, <2>1, <2>4 DEF HostSends
    <3>2. LineInv' /\ whole' \in BOOLEAN /\ underWay' \in Seq(Composed)
      BY <2>1, <3>1, DamageCuts
    <3>. QED
      BY <1>0, <2>1, <2>2, <3>2 DEF LineTypeOK
  <2>. QED
    BY <2>3, <2>4
<1>2. CASE LoseByte
  <2>1. PICK i \in DOMAIN line :
          /\ losses < MaxLosses /\ losses' = losses + 1
          /\ line' = RemoveAt(line, i)
          /\ Damage(rx, line')
          /\ UNCHANGED <<isOpen, rx, message, intended>>
    BY <1>2 DEF LoseByte
  <2>2. line' \in Seq(Byte)
    <3>1. DOMAIN line = 1..Len(line) /\ Len(line) \in Nat /\ i \in 1..Len(line)
          /\ \A k \in 1..Len(line) : line[k] \in Byte
      BY <1>0, LenProperties, ElementOfSeq
    <3>2. SubSeq(line, 1, i - 1) \in Seq(Byte)
      <4>1. i - 1 \in Int /\ \A k \in 1..(i - 1) : line[k] \in Byte
        BY <3>1
      <4>. QED
        BY <4>1, SubSeqProperties
    <3>3. SubSeq(line, i + 1, Len(line)) \in Seq(Byte)
      <4>1. i + 1 \in Int /\ Len(line) \in Int /\ \A k \in (i + 1)..Len(line) : line[k] \in Byte
        BY <3>1
      <4>. QED
        BY <4>1, SubSeqProperties
    <3>. QED
      BY <2>1, <3>2, <3>3, ConcatProperties DEF RemoveAt
  <2>3. WholeMessages'
    BY <2>1 DEF LineInv, WholeMessages
  <2>4. LineInv' /\ whole' \in BOOLEAN /\ underWay' \in Seq(Composed)
    BY <2>1, <2>3, DamageCuts
  <2>5. losses' \in 0..MaxLosses
    BY <1>0, <2>1
  <2>. QED
    BY <1>0, <2>1, <2>2, <2>4, <2>5 DEF LineTypeOK
<1>3. CASE Fetch
  BY <1>3, FetchesNoMore DEF LineTypeOK, Fetch
<1>4. CASE Discard
  <2>1. rx # <<>> /\ Begun(rx) = <<>> /\ rx' = <<>>
        /\ UNCHANGED <<isOpen, line, message, intended, losses>>
        /\ WholeMessages'
    BY <1>4 DEF Discard, LineInv, WholeMessages
  <2>2. ~whole
    <3>. SUFFICES ASSUME whole PROVE FALSE
      OBVIOUS
    <3> DEFINE s == rx \o line
    <3>1. Joined(underWay, s)
      BY DEF LineInv
    <3>2. s \in Seq(Byte) /\ s # <<>> /\ s[1] = rx[1]
      <4>1. Len(rx) \in Nat \ {0} /\ Len(line) \in Nat
        BY <1>0, <2>1, EmptySeq, LenProperties
      <4>2. /\ s \in Seq(Byte) /\ Len(s) = Len(rx) + Len(line)
            /\ \A k \in 1..(Len(rx) + Len(line)) :
                 s[k] = IF k <= Len(rx) THEN rx[k] ELSE line[k - Len(rx)]
        BY <1>0, ConcatProperties
      <4>. QED
        BY <4>1, <4>2
    <3>3. underWay[1] \in Composed /\ \A k \in 1..Len(underWay[1]) : s[k] = underWay[1][k]
      BY <1>0, <3>1, <3>2, JoinedFirst
    <3>4. rx[1] # 0
      <4>1. Len(underWay[1]) \in Nat \ {0} /\ underWay[1][1] # 0
        BY <3>3, ComposedAre, FormatAssumption DEF FormatAssumption
      <4>. QED
        BY <3>2, <3>3, <4>1
    <3>. QED
      BY <1>0, <2>1, <3>4, NoJunk
  <2>3. Damage(rx', line)
    BY <1>4, <2>2 DEF Discard
  <2>4. LineInv' /\ whole' \in BOOLEAN /\ underWay' \in Seq(Composed)
    BY <2>1, <2>3, DamageCuts
  <2>5. rx' \in Seq(Byte)
    BY <2>1, EmptySeq
  <2>. QED
    BY <1>0, <2>1, <2>4, <2>5 DEF LineTypeOK
<1>5. CASE Return
  <2>1. UNCHANGED <<isOpen, line, losses>>
    BY <1>5 DEF Return
  <2>2. CASE whole
    <3>1. /\ underWay # <<>> /\ underWay[1] \in Composed
          /\ message' = underWay[1] /\ intended' = underWay[1]
          /\ rx' = <<>> /\ Joined(Tail(underWay), line) /\ underWay' = Tail(underWay)
      BY <1>5, <2>2, ReturnsTheFirst
    <3>2. underWay' \in Seq(Composed) /\ message' \in Seq(Byte) /\ rx' \in Seq(Byte)
      BY <1>0, <3>1, HeadTailProperties, ComposedAre, EmptySeq
    <3>3. <<>> \o line = line /\ whole' = whole
      BY <1>0, <1>5, <2>2, ConcatEmptySeq DEF Return
    <3>. QED
      BY <1>0, <2>1, <3>1, <3>2, <3>3 DEF LineTypeOK, LineInv, WholeMessages
  <2>3. CASE ~whole
    <3>1. intended' = NoMessage /\ Damage(rx', line) /\ line' = line
      BY <1>5, <2>1, <2>3 DEF Return
    <3>2. WholeMessages'
      BY <3>1 DEF WholeMessages
    <3>3. LineInv' /\ whole' \in BOOLEAN /\ underWay' \in Seq(Composed)
      BY <3>1, <3>2, DamageCuts
    <3>4. message' \in Seq(Byte) /\ rx' \in Seq(Byte)
      <4> DEFINE begun == Begun(rx)
                 n == Min({Awaited(begun), MaxMessageSize})
      <4>1. begun \in Seq(Byte) /\ Len(begun) \in Nat
            /\ \A k \in 1..Len(begun) : begun[k] \in Byte
        BY <1>0, BegunIs, ElementOfSeq
      <4>2. Awaited(begun) \in Nat \ {0} /\ MaxMessageSize \in Nat
        BY <4>1, AwaitedIs, SerialAssumption DEF SerialAssumption
      <4>3. n \in Nat /\ n <= Awaited(begun)
        <5>1. n = IF Awaited(begun) <= MaxMessageSize THEN Awaited(begun) ELSE MaxMessageSize
          BY <4>2, MinAndMax
        <5>. QED
          BY <4>2, <5>1
      <4>4. Awaited(begun) <= Len(begun)
        BY <1>5, <4>1, <4>2 DEF Return, Complete
      <4>5. message' = SubSeq(begun, 1, n) /\ rx' = SubSeq(begun, n + 1, Len(begun))
        BY <1>5 DEF Return
      <4> HIDE DEF begun, n
      <4>6. \A k \in 1..n : begun[k] \in Byte
        BY <4>1, <4>2, <4>3, <4>4
      <4>7. \A k \in (n + 1)..Len(begun) : begun[k] \in Byte
        BY <4>1, <4>3
      <4>8. SubSeq(begun, 1, n) \in Seq(Byte)
        BY <4>3, <4>6, SubSeqProperties
      <4>9. SubSeq(begun, n + 1, Len(begun)) \in Seq(Byte)
        <5>1. n + 1 \in Int /\ Len(begun) \in Int
          BY <4>1, <4>3
        <5>. QED
          BY <4>7, <5>1, SubSeqProperties
      <4>. QED
        BY <4>5, <4>8, <4>9
    <3>. QED
      BY <1>0, <2>1, <3>1, <3>3, <3>4 DEF LineTypeOK
  <2>. QED
    BY <2>2, <2>3
<1>6. CASE Open
  <2>1. isOpen' = TRUE /\ line' \in {<<>>, line}
        /\ UNCHANGED <<rx, message, intended, losses>> /\ WholeMessages'
    BY <1>6 DEF Open, LineInv, WholeMessages
  <2>2. CASE line' = line
    BY <1>0, <1>6, <2>1, <2>2 DEF Open, LineTypeOK, LineInv
  <2>3. CASE line' # line
    <3>1. Damage(rx, line') /\ line' \in Seq(Byte)
      BY <1>6, <2>1, <2>3, EmptySeq DEF Open
    <3>2. LineInv' /\ whole' \in BOOLEAN /\ underWay' \in Seq(Composed)
      BY <2>1, <3>1, DamageCuts
    <3>. QED
      BY <1>0, <2>1, <3>1, <3>2 DEF LineTypeOK
  <2>. QED
    BY <2>2, <2>3
<1>7. CASE Close
  BY <1>7 DEF Close, LineTypeOK, LineInv, WholeMessages
<1>8. CASE UNCHANGED lineVars
  BY <1>8 DEF lineVars, LineTypeOK, LineInv, WholeMessages
<1>. QED
  BY <1>1, <1>2, <1>3, <1>4, <1>5, <1>6, <1>7, <1>8, LineSteps

\* The line starts with nothing under way.
LEMMA LineStarts ==
  ASSUME Init
  PROVE  LineTypeOK /\ LineInv
<1>1. /\ isOpen = FALSE /\ line = <<>> /\ rx = <<>> /\ message = NoMessage
      /\ intended = NoMessage /\ whole = TRUE /\ underWay = <<>> /\ losses = 0
  BY DEF Init, LineInit
<1>2. 0 \in 0..MaxLosses
  BY SerialAssumption DEF SerialAssumption
<1>3. <<>> \in Seq(Byte) /\ <<>> \in Seq(Composed)
  BY EmptySeq
<1>4. <<>> \o <<>> = <<>>
  OBVIOUS
<1>. QED
  BY <1>1, <1>2, <1>3, <1>4, JoinedNothing DEF LineTypeOK, LineInv, WholeMessages, NoMessage

\* The types of the line and the cut of its bytes hold throughout.
LEMMA LineHolds == Spec => [](LineTypeOK /\ LineInv)
<1>1. Init => LineTypeOK /\ LineInv
  BY LineStarts
<1>2. LineTypeOK /\ LineInv /\ [Next]_vars => (LineTypeOK /\ LineInv)'
  BY LineKept
<1>. QED
  BY <1>1, <1>2, PTL DEF Spec

\* The variables of the port and of its line keep their types.
THEOREM PortTypeCorrect == Spec => []TypeOK
<1>1. PortTypeOK /\ LineTypeOK => TypeOK
  BY DEF PortTypeOK, TypeOK
<1>. QED
  BY <1>1, EventsHold, LineHolds, PTL

\* A message of a known format is handed over as the host sent it, whatever the
\* reads were waiting for when they timed out.
THEOREM HandedOverWhole == Spec => []WholeMessages
<1>1. LineInv => WholeMessages
  BY DEF LineInv
<1>. QED
  BY <1>1, LineHolds, PTL

\* The table of lengths and the table of checksums agree on what a handler gets.
THEOREM ParametersAsSent == Spec => []ParametersHanded
<1>1. LineTypeOK /\ LineInv => ParametersHanded
  <2>. SUFFICES ASSUME LineTypeOK, LineInv, Len(intended) > 1
                PROVE  Parameters(message) = SubSeq(intended, 2, Len(intended) - 2)
    BY DEF ParametersHanded
  <2>1. intended # NoMessage
    <3>1. Len(<<>>) = 0
      OBVIOUS
    <3>. QED
      BY <3>1 DEF NoMessage
  <2>2. intended \in Composed /\ message = intended
    BY <2>1 DEF LineTypeOK, LineInv, WholeMessages
  <2>3. CarriesCrc(intended[1])
    <3>1. intended[1] \in {160, 82, 83} \cup {116} \cup {111, 175, 114, 115, 117, 118}
                             \cup 123..127
      <4>. SUFFICES ASSUME intended[1] \notin {160, 82, 83}, intended[1] # 116,
                           intended[1] \notin {111, 175, 114, 115, 117, 118} \cup 123..127
                    PROVE  FALSE
        OBVIOUS
      <4>1. Len(intended) = 1
        BY <2>2, FormatAssumption DEF FormatAssumption
      <4>. QED
        BY <4>1
    <3>. QED
      BY <3>1 DEF CarriesCrc
  <2>. QED
    BY <2>2, <2>3 DEF Parameters
<1>. QED
  BY <1>1, LineHolds, PTL

\* NoReadAhead without the maximum.
LEMMA ReadAheadIs ==
  ASSUME NEW b \in Seq(Byte)
  PROVE  Len(b) <= Max({Awaited(b), 4 + MaxDataLength - MaxMessageSize})
           <=> Len(b) <= Awaited(b) \/ Len(b) <= 4 + MaxDataLength - MaxMessageSize
<1>1. 4 + MaxDataLength - MaxMessageSize \in Int
  BY SerialAssumption DEF SerialAssumption
<1>2. Awaited(b) \in Int /\ Len(b) \in Int
  BY AwaitedIs, LenProperties
<1> DEFINE rest == 4 + MaxDataLength - MaxMessageSize
           most == Awaited(b)
<1> HIDE DEF rest, most
<1>3. Max({most, rest}) = IF most >= rest THEN most ELSE rest
  BY <1>1, <1>2, MinAndMax DEF rest, most
<1>4. Len(b) <= Max({most, rest}) <=> Len(b) <= most \/ Len(b) <= rest
  BY <1>1, <1>2, <1>3 DEF rest, most
<1>. QED
  BY <1>4 DEF rest, most

\* What a message waits for only grows when its length byte arrives.
LEMMA AwaitsMore ==
  ASSUME NEW b \in Seq(Byte), b # <<>>, NEW x \in Byte, Len(b) < Awaited(b)
  PROVE  Len(b) + 1 <= Awaited(Append(b, x))
<1> DEFINE c == Append(b, x)
<1>1. Len(b) \in Nat \ {0} /\ c \in Seq(Byte) /\ c # <<>> /\ Len(c) = Len(b) + 1
      /\ \A k \in 1..Len(b) : c[k] = b[k]
  BY EmptySeq, AppendProperties
<1>2. c[1] = b[1] /\ (Len(b) >= 2 => c[2] = b[2])
  BY <1>1
<1>3. Awaited(b) \in Nat /\ Awaited(c) \in Nat
  BY <1>1, AwaitedIs
<1>. SUFFICES Len(b) + 1 <= Awaited(c)
  OBVIOUS
<1> HIDE DEF c
<1>4. CASE ~HasLengthField(b[1])
  <2>1. Awaited(b) = FixedLength(b[1]) /\ Awaited(c) = FixedLength(b[1])
    BY <1>1, <1>2, <1>4 DEF Awaited
  <2>. QED
    BY <1>1, <1>3, <2>1
<1>5. CASE HasLengthField(b[1]) /\ Len(b) >= 2
  <2>1. /\ Awaited(b) = 4 + Min({b[2], MaxDataLength})
        /\ Awaited(c) = 4 + Min({c[2], MaxDataLength})
    BY <1>1, <1>2, <1>5 DEF Awaited
  <2>2. Awaited(c) = Awaited(b)
    BY <1>1, <1>2, <1>5, <2>1
  <2>. QED
    BY <1>1, <1>3, <2>2
<1>6. CASE HasLengthField(b[1]) /\ ~(Len(b) >= 2)
  <2>1. Awaited(c) = 4 + Min({c[2], MaxDataLength})
    BY <1>1, <1>2, <1>6 DEF Awaited
  <2>2. c[2] \in Nat /\ MaxDataLength \in Nat
    <3>1. c[2] \in Byte /\ MaxDataLength \in Nat
      <4>1. 2 \in 1..Len(c)
        BY <1>1
      <4>. QED
        BY <1>1, <4>1, ElementOfSeq, SerialAssumption DEF SerialAssumption
    <3>. QED
      BY <3>1, ByteNumbers
  <2>3. Min({c[2], MaxDataLength}) = IF c[2] <= MaxDataLength THEN c[2] ELSE MaxDataLength
    BY <2>2, MinAndMax
  <2>. QED
    BY <1>1, <1>6, <2>1, <2>2, <2>3
<1>. QED
  BY <1>1, <1>4, <1>5, <1>6

\* Every step keeps the buffer within the message it is at, or what the caller's
\* buffer left of the message before.
LEMMA ReadAheadKept ==
  ASSUME LineTypeOK, NoReadAhead, [Next]_vars
  PROVE  NoReadAhead'
<1> DEFINE begun == Begun(rx)
           rest == 4 + MaxDataLength - MaxMessageSize
<1>1. rx \in Seq(Byte) /\ begun \in Seq(Byte) /\ Len(begun) \in Nat
  BY BegunIs DEF LineTypeOK
<1>2. /\ MaxMessageSize \in Nat /\ MaxMessageSize >= 8 /\ MaxDataLength \in Nat
  BY SerialAssumption DEF SerialAssumption
<1>3. Len(begun) <= Awaited(begun) \/ Len(begun) <= rest
  BY <1>1, ReadAheadIs DEF NoReadAhead
<1>4. SUFFICES ASSUME rx' # rx
               PROVE  /\ Begun(rx') \in Seq(Byte)
                      /\ \/ Len(Begun(rx')) <= Awaited(Begun(rx'))
                         \/ Len(Begun(rx')) <= rest
  <2>1. CASE rx' = rx
    BY <2>1 DEF NoReadAhead
  <2>2. CASE rx' # rx
    <3>1. /\ Begun(rx') \in Seq(Byte)
          /\ \/ Len(Begun(rx')) <= Awaited(Begun(rx'))
             \/ Len(Begun(rx')) <= rest
      BY <1>4, <2>2
    <3>. QED
      BY <3>1, ReadAheadIs DEF NoReadAhead
  <2>. QED
    BY <2>1, <2>2
<1>5. CASE Fetch
  <2>1. /\ rx' = Append(rx, Head(line)) /\ Head(line) \in Byte
        /\ begun = <<>> => rx = <<>>
        /\ ~Complete(begun)
    BY <1>5, HeadTailProperties DEF Fetch, LineTypeOK
  <2>2. rx' \in Seq(Byte) /\ Len(rx') = Len(rx) + 1 /\ Len(rx) \in Nat
    BY <1>1, <2>1, AppendProperties, LenProperties
  <2>3. Begun(rx') \in Seq(Byte) /\ Len(Begun(rx')) <= Len(rx') /\ Len(Begun(rx')) \in Nat
    BY <2>2, BegunIs
  <2>4. CASE begun = <<>>
    <3>1. Len(rx') = 1
      BY <2>1, <2>2, <2>4
    <3>2. Awaited(Begun(rx')) \in Nat \ {0}
      BY <2>3, AwaitedIs
    <3>. QED
      BY <2>3, <3>1, <3>2
  <2>5. CASE begun # <<>>
    <3>1. Begun(rx') = Append(begun, Head(line))
      BY <1>1, <2>1, <2>5, BegunIs
    <3>2. Len(begun) < Awaited(begun)
      <4>1. Awaited(begun) \in Nat
        BY <1>1, AwaitedIs
      <4>. QED
        BY <1>1, <2>1, <2>5, <4>1 DEF Complete
    <3>3. Len(begun) + 1 <= Awaited(Append(begun, Head(line)))
      BY <1>1, <2>1, <2>5, <3>2, AwaitsMore
    <3>4. Len(Append(begun, Head(line))) = Len(begun) + 1
      BY <1>1, <2>1, AppendProperties
    <3>. QED
      BY <2>3, <3>1, <3>3, <3>4
  <2>. QED
    BY <2>4, <2>5
<1>6. CASE Discard
  <2>1. rx' = <<>> /\ rx' \in Seq(Byte) /\ Len(rx') = 0
    BY <1>6, EmptySeq DEF Discard
  <2>2. /\ Begun(rx') \in Seq(Byte) /\ Len(Begun(rx')) <= 0 /\ Len(Begun(rx')) \in Nat
    BY <2>1, BegunIs
  <2>3. Awaited(Begun(rx')) \in Nat
    BY <2>2, AwaitedIs
  <2>. QED
    BY <2>2, <2>3
<1>7. CASE Return
  <2> DEFINE n == Min({Awaited(begun), MaxMessageSize})
  <2>1. Awaited(begun) \in Nat \ {0}
        /\ (Awaited(begun) <= 4 + MaxDataLength \/ Awaited(begun) <= MaxMessageSize)
        /\ Awaited(begun) <= Len(begun)
        /\ rx' = SubSeq(begun, n + 1, Len(begun))
    BY <1>1, <1>7, AwaitedIs DEF Return, Complete
  <2>2. n = IF Awaited(begun) <= MaxMessageSize THEN Awaited(begun) ELSE MaxMessageSize
    BY <1>2, <2>1, MinAndMax
  <2> HIDE DEF n, begun
  <2>3. n \in Nat /\ n <= Len(begun)
    BY <1>1, <1>2, <2>1, <2>2
  <2>4. rx' \in Seq(Byte) /\ Len(rx') = Len(begun) - n
    <3>1. n + 1 \in Int /\ Len(begun) \in Int
          /\ \A k \in (n + 1)..Len(begun) : begun[k] \in Byte
      BY <1>1, <2>3, ElementOfSeq
    <3>2. SubSeq(begun, n + 1, Len(begun)) \in Seq(Byte)
          /\ Len(SubSeq(begun, n + 1, Len(begun)))
               = IF n + 1 <= Len(begun) THEN Len(begun) - (n + 1) + 1 ELSE 0
      BY <3>1, SubSeqProperties
    <3>. QED
      BY <1>1, <2>1, <2>3, <3>2
  <2>5. Len(rx') <= rest \/ Len(rx') = 0
    BY <1>1, <1>2, <1>3, <2>1, <2>2, <2>3, <2>4
  <2>6. Begun(rx') \in Seq(Byte) /\ Len(Begun(rx')) <= Len(rx') /\ Len(Begun(rx')) \in Nat
    BY <2>4, BegunIs
  <2>7. Awaited(Begun(rx')) \in Nat
    BY <2>6, AwaitedIs
  <2>8. Len(rx') \in Nat
    BY <2>4, LenProperties
  <2>. QED
    BY <1>2, <2>5, <2>6, <2>7, <2>8
<1>8. ASSUME NEW m \in Messages, HostSends(m) PROVE FALSE
  BY <1>4, <1>8 DEF HostSends
<1>9. CASE LoseByte \/ Open \/ Close \/ UNCHANGED lineVars
  BY <1>4, <1>9 DEF LoseByte, Open, Close, lineVars
<1>. QED
  BY <1>5, <1>6, <1>7, <1>8, <1>9, LineSteps

\* read() takes no byte beyond the message it is at: the static buffer holds at
\* most that message, or the rest of one that the caller's buffer cut.
THEOREM NothingReadAhead == Spec => []NoReadAhead
<1>1. Init => NoReadAhead
  <2>. SUFFICES ASSUME Init PROVE NoReadAhead
    OBVIOUS
  <2>1. rx = <<>> /\ rx \in Seq(Byte) /\ Len(rx) = 0
    BY EmptySeq DEF Init, LineInit
  <2>2. Begun(rx) \in Seq(Byte) /\ Len(Begun(rx)) <= 0 /\ Len(Begun(rx)) \in Nat
    BY <2>1, BegunIs
  <2>3. Awaited(Begun(rx)) \in Nat
    BY <2>2, AwaitedIs
  <2>. QED
    BY <2>2, <2>3, ReadAheadIs DEF NoReadAhead
<1>2. LineTypeOK /\ NoReadAhead /\ [Next]_vars => NoReadAhead'
  BY ReadAheadKept
<1>. QED
  BY <1>1, <1>2, LineHolds, PTL DEF Spec

=============================================================================
