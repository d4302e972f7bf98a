SPECIFICATION Spec
CONSTANTS
  Letters = {"a", "newline"}
  MaxText = 3
  MaxOld = 2
  MaxNew = 1
  MaxEntries = 1
  None = None
CHECK_DEADLOCK FALSE
INVARIANTS EditsOneOccurrence
