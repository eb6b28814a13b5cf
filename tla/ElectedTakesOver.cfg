\* One election is enough to lose its report.
SPECIFICATION FairSpec
CONSTANT MaxTerms = 1
PROPERTY
  ElectedTakesOver
\* The process may exit or panic.
CHECK_DEADLOCK FALSE
