SPECIFICATION Spec
CONSTANTS
  s1 = s1
  s2 = s2
  Session = {s1, s2}
  Timer = Timer
  Interval <- MixedInterval
  Window <- MixedWindow
  Interjection <- MixedInterjection
  MaxQueued = 2
  Workers = 2
  MaxMessages = 3
  MayDrop = TRUE
  MayThrow = TRUE
  MayStop = TRUE
CHECK_DEADLOCK FALSE
INVARIANTS Armed TargetCovers
PROPERTY ImplementsInbox
