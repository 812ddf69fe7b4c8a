CONSTANTS
  Jobs = {j1}
  Tokens = {t1, t2}
  NoToken = NoToken
  BaseAttempts = 2
  MaxBudget = 4
  MaxInflight = 2
  MaxFaults = 2
SPECIFICATION FairSpec
INVARIANTS DeliveredMeansGiven
PROPERTIES OnlySilenceKillsAGrant Promise QueueAlone EventuallySettled
CHECK_DEADLOCK FALSE
