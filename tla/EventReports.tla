---------------------------- MODULE EventReports ----------------------------
(***************************************************************************)
(* What the exception queue of the port promises, whatever the serial line *)
(* and the threads do: events happen, wait in the order in which they      *)
(* happened, and leave from the front, told to the host or lost for good.  *)
(* None comes back, none overtakes another, and a clear leaves at most the *)
(* one that is on its way out.                                             *)
(*                                                                         *)
(* SasPort.tla is shown to implement this specification.                   *)
(***************************************************************************)
EXTENDS Integers, Sequences

VARIABLES
  newest,    \* events 1..newest have happened
  waiting,   \* those that are still to be told
  told       \* those the host has been told of

reportsVars == <<newest, waiting, told>>

ReportsInit == newest = 0 /\ waiting = <<>> /\ told = <<>>

Happen ==
  /\ newest' = newest + 1
  /\ waiting' = Append(waiting, newest')
  /\ UNCHANGED told

Tell ==
  /\ waiting # <<>>
  /\ told' = Append(told, Head(waiting))
  /\ waiting' = Tail(waiting)
  /\ UNCHANGED newest

Lose ==
  /\ waiting # <<>>
  /\ waiting' = Tail(waiting)
  /\ UNCHANGED <<newest, told>>

Clear ==
  /\ waiting # <<>>
  /\ waiting' \in {<<>>, <<Head(waiting)>>}
  /\ UNCHANGED <<newest, told>>

ReportsSpec == ReportsInit /\ [][Happen \/ Tell \/ Lose \/ Clear]_reportsVars

=============================================================================
