SPECIFICATION FairSpec
CONSTANTS
  N = 3
INVARIANTS TypeOK FailsOnlyWhenAllFail
PROPERTIES Returns NoGoroutineLeaks
CHECK_DEADLOCK FALSE
