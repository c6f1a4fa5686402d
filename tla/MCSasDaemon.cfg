SPECIFICATION FairSpec
CONSTANTS
  Address = 1
  MaxTimeouts = 3
  DiscoveryPolls = 4
  MaxOutages = 2
  MaxStarts = 2
  MaxSetModes = 1
  MaxEvents = 1
INVARIANTS TypeOK OnlineOnEvidence
PROPERTIES OutageNoticed Reconnects EveryLongPollSent
CHECK_DEADLOCK FALSE
