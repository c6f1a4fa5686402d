CONSTANTS
  c1 = c1
  c2 = c2
  NoClient = NoClient
  Clients <- MCClients
  Denoms <- MCDenoms
  Bills <- MCBills
  CountedBills <- MCCountedBills
  Transfers <- MCTransfers
  Multipliers <- MCMultipliers
  OpeningCredits = 2
  OpeningRestricted = 1
  OpeningNonRestricted = 1
  MaxDebit = 3
  MaxInflow = 4
SPECIFICATION Spec
INVARIANTS
  TypeOK
  OverdraftBounded
  AuditedAtRest
  WinMatchesBet
  PlaysSettledOnce
PROPERTY ImplementsAccount
SYMMETRY ClientSymmetry
