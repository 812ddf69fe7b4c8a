CONSTANTS
  Jobs = {j1, j2}
  Tokens = {t1, t2}
SPECIFICATION PluginSpec
SYMMETRY Symmetry
INVARIANTS AtMostOnce
PROPERTIES HonestAnswers
CHECK_DEADLOCK FALSE
