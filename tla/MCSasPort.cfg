SPECIFICATION FairSpec
CONSTANTS
  Composed <- MCComposed
  Unknown <- MCUnknown
  GeneralPoll <- MCGeneralPoll
  MaxMessageSize = 8
  MaxDataLength = 5
  MaxWaiting = 0
  MaxLosses = 1
  MaxEvents = 2
  MaxLateLosses = 1
  MaxClears = 1
  MaxStops = 1
  MaxOtherPolls = 1
INVARIANTS TypeOK WholeMessages NoReadAhead ParametersHanded ReportedInOrder OnlyKnownLosses
PROPERTIES ImplementsReports QueueDrains
CHECK_DEADLOCK FALSE
