SPECIFICATION Spec
CONSTANTS
  Orders <- PlanOrders
  Soon = 7
  NoTerm = NoTerm
  NotANumber = NotANumber
  MaxOrders = 5
  MaxDay = 0
  MaxCrashes = 0
INVARIANT FilledPlanIsFunded
CHECK_DEADLOCK FALSE
