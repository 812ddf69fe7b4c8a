CONSTANTS
  Jobs = {j1}
  Tokens = {t1, t2, t3}
  NoToken = NoToken
  BaseAttempts = 2
  MaxBudget = 4
  MaxInflight = 3
SPECIFICATION QueueSpec
SYMMETRY Symmetry
INVARIANTS BudgetRespected OrderFollowsJob RefundedOnce
PROPERTIES RefundedStaysOut
CHECK_DEADLOCK FALSE
