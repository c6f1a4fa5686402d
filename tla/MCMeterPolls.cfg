SPECIFICATION Spec
CONSTANTS
  Requests <- MCRequests
  Loaded <- MCLoaded
  Changes <- MCChanges
  Games <- MCGames
  MaxBet = 5
  Aft <- MCAft
  Config <- MCConfig
  Local <- MCLocal
  Utc <- MCUtc
  Expiry <- MCExpiry
  MaxPolls = 1
  MaxChanges = 2
INVARIANTS TypeOK FieldsFaithful LostNotOverstated EndFound FrameVerifies DatesTold
CHECK_DEADLOCK FALSE
