\* The issue is edited between its verification and a later finalization.
CONSTANTS
  RetryBudget = 1
  AllowRepair = "yes"
  MaxCommit = 2
  MaxMain = 3
  MaxVersion = 3
SPECIFICATION Spec
PROPERTIES CurrentAuthority
