SPECIFICATION FairSpec
CONSTANTS
  Levels = {mini, grand}
  Values = {30}
  Limit = 1
  HandpayLimit = 29
  Bonuses = {1, 29}
  Short = {29, 58, 59, 116, 117, 118, 119}
  Credits0 = 29
  MaxCalls = 3
INVARIANTS TypeOK NoBlockedGame MoneyKept LinkHonest
PROPERTIES SilenceClears CallsReturn
CHECK_DEADLOCK FALSE
