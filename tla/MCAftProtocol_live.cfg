CONSTANTS
  t1 = t1
  t2 = t2
  NoTxn = NoTxn
  NoRequest = NoRequest
  Txns <- MCTxns
  LockCodes <- MCLockCodes
  ZeroCode = 0
  Requests <- MCTwoRequests
  OpeningCredits = 0
  StartupCredits = 1
  MaxCredits = 1
  MaxRestarts = 1
  MaxLosses = 1
  MaxEarlyTimeouts = 1
  MaxLockChanges = 1
  MaxResumes = 0
SPECIFICATION Spec
PROPERTY TransferSettles
