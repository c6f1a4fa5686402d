CONSTANTS
  c1 = c1
  c2 = c2
  NoClient = NoClient
  Clients <- MCClients
  Denoms <- MCDenoms
  Bills <- MCBills
  CountedBills <- MCCountedBills
  Transfers <- MCTransfers
  Multipliers <- MCMultipliers
  OpeningCredits = 3
  OpeningRestricted = 0
  OpeningNonRestricted = 0
  MaxDebit = 3
  MaxInflow = 4
SPECIFICATION Spec
INVARIANT NeverOverdrawn
