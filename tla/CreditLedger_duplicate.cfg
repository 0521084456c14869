SPECIFICATION Spec
CONSTANTS
  free = free
  growth = growth
  Plans <- MCPlans
  FreePlan = free
  DefaultPlan = free
  ProfileReadable = TRUE
  Allowance <- MCAllowance
  LifetimeGrant = 1
  Costs = {2, 3}
  Grants = {1}
  Ceilings = {1}
  NoCeiling <- MCNoCeiling
  Requests = {r1, r2}
  Refs = {f1}
  PackSize = 1
  MayCrash = TRUE
INVARIANT DuplicateNeverDoubleCredits
CHECK_DEADLOCK FALSE
