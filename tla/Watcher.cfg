\* Two kinds that arrive and then change once; a debounce of 2 ticks that
\* a deadline of 3 cuts short; some rebuilds fail.
CONSTANTS
  NKinds = 2
  MaxVersion = 2
  Debounce = 2
  MaxDebounce = 3
  Unbuildable <- SecondOfFirst
SPECIFICATION Spec
INVARIANTS
  TypeOK
  NoLostChange
  PostponementBounded
  RebuildsArePaidFor
PROPERTIES
  ImplementsLiveViewSafety
\* Run returns when its context is done.
CHECK_DEADLOCK FALSE
