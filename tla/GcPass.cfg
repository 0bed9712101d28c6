SPECIFICATION Spec
CONSTANTS
  N = 3
  Sizes = {0, 1, 4}
  Ages = {0, 1}
  Now = 2
  Budgets <- OptionalBudgets
  Limits <- OptionalLimits
  Tides <- SmallTides
  None = None
INVARIANTS MatchesPlan FitsBudget GivesUp GivesUpForCause
CHECK_DEADLOCK FALSE
