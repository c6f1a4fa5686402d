SPECIFICATION Spec
CONSTANTS
  Gift = 2
  MaxOps = 3
  MaxBoots = 3
  MaxSaves = 2
INVARIANTS TypeOK AuditAcrossRestarts OrderlyRestart
CHECK_DEADLOCK FALSE
