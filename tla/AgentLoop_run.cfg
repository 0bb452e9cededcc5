SPECIFICATION FairSpec
\* an agent that is blocked for good, and everybody done
CHECK_DEADLOCK FALSE
CONSTANTS
  None = None
  Paths = {"p", "q"}
  Contents = {"none", "a"}
  Repairs = 1
  ActiveSeconds = 7
  MaxCalls = 2
  MaxPeople = 1
  MaxOutside = 1
  MaxFaults = 1
  MaxDisturbed = 2
INVARIANTS RepairBudget RequirementsComplete
PROPERTIES StepSettles ReadyTested PatchAuthorised StartsSettled KeepsTerms
