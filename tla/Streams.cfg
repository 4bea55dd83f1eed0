\* Three revisions and two streams that come and go, whose clients may never
\* read; a handler goes on by itself once a write or a ping has timed out.
CONSTANTS
  Session = {s1, s2}
  MaxRev = 3
SPECIFICATION Spec
INVARIANTS
  TypeOK
  NewestOnItsWay
  NoSendOnClosed
PROPERTIES
  BackstepOnlyOnce
  PublishNeverWaits
  StreamsSettle
\* The last revision is published and every stream may leave.
CHECK_DEADLOCK FALSE
