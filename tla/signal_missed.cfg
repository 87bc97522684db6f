SPECIFICATION Spec
CHECK_DEADLOCK FALSE
CONSTANT MaxKeys = 0
PROPERTY Finishes
