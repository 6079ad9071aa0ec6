SPECIFICATION Spec
CONSTANTS
  Contexts = {ctx1, ctx2, ctx3, ctx4, ctx5}
  Sessions = {ssl1, ssl2, ssl3, ssl4, ssl5}
  HeapObjects = 5
  MaxPosted = 2
  MaxFaults = 6
CHECK_DEADLOCK FALSE
INVARIANTS NoDanglingPointers AbandonedByRefusals StopsOnlyAfterFault
PROPERTIES PostedOnlyTakenByLoop Connects
