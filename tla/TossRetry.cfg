SPECIFICATION Spec
CONSTANTS Attempts = 3
INVARIANTS TypeOK RefusalMeansUndone
PROPERTIES CallEnds CallSpec
CHECK_DEADLOCK FALSE
