\* One import and one answer of the dialog.
CONSTANTS
  Flows = {w1}
  NoFlow = NoFlow
  MaxOperations = 3
  MaxPending = 1
SPECIFICATION ImportSpec
CHECK_DEADLOCK FALSE
INVARIANT PauseNeverDeletes
