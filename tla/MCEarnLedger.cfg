SPECIFICATION Spec
CONSTANTS
  Orders <- SomeOrders
  Soon = 2
  NoTerm = NoTerm
  NotANumber = NotANumber
  MaxOrders = 2
  MaxDay = 3
  MaxCrashes = 2
INVARIANTS ReportedIsBookedOnce TermsAnnounced
CHECK_DEADLOCK FALSE
