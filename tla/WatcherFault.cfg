\* What the comment on Fault says of it.
CONSTANTS
  NKinds = 1
  MaxVersion = 2
  Debounce = 1
  MaxDebounce = 2
  Unbuildable <- NoView
SPECIFICATION Spec
INVARIANTS
  FaultOnlyWhileUnreadable
CHECK_DEADLOCK FALSE
