SPECIFICATION Spec
CONSTANTS
  free = free
  growth = growth
  Plans <- MCPlans
  FreePlan = free
  DefaultPlan = free
  ProfileReadable = FALSE
  Allowance <- MCAllowance
  LifetimeGrant = 1
  Costs = {2, 3}
  Grants = {1}
  Ceilings = {1}
  NoCeiling <- MCNoCeiling
  Requests = {r1, r2, r3}
  Refs = {f1}
  PackSize = 1
  MayCrash = TRUE
SYMMETRY RequestSymmetry
INVARIANTS
  PlansAgree
  LifetimeGrantOnce
  InvalidationFollowsMutation
  AnsweredPurchaseIsBooked
  LedgerExplainsBalance
PROPERTIES
  ASpec
  SettledPurchaseIsFinal
CHECK_DEADLOCK FALSE
