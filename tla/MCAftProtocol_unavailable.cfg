CONSTANTS
  t1 = t1
  t2 = t2
  NoTxn = NoTxn
  NoRequest = NoRequest
  Txns <- MCTxns
  LockCodes <- MCLockCodes
  ZeroCode = 0
  Requests <- MCTwoRequests
  OpeningCredits = 1
  StartupCredits = 1
  MaxCredits = 2
  MaxRestarts = 1
  MaxLosses = 1
  MaxEarlyTimeouts = 1
  MaxLockChanges = 1
  MaxResumes = 1
SPECIFICATION Spec
PROPERTY TransfersOnlyWhenAvailable
