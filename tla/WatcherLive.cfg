\* Liveness: one kind that arrives and then changes up to three times, before,
\* during and after a rebuild reads it; a debounce of one tick.
CONSTANTS
  NKinds = 1
  MaxVersion = 4
  Debounce = 1
  MaxDebounce = 2
  Unbuildable <- NoView
SPECIFICATION Spec
PROPERTIES
  ImplementsLiveView
  RunReturns
CHECK_DEADLOCK FALSE
