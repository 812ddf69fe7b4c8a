CONSTANTS
  Jobs = {j1}
  Tokens = {t1, t2, t3}
  NoToken = NoToken
  BaseAttempts = 2
  MaxBudget = 4
  MaxInflight = 2
SPECIFICATION QueueSpec
SYMMETRY Symmetry
PROPERTIES NeverDraggedBack
CHECK_DEADLOCK FALSE
