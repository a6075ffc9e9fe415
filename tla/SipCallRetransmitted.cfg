CONSTANTS
  MaxServerTx = 2
  MayEnd = {"callee"}
SPECIFICATION Spec
INVARIANTS
  DialogsMatchCall
PROPERTIES
  OneOutcome
CHECK_DEADLOCK FALSE
