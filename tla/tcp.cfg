SPECIFICATION FairSpec
CONSTANTS
  c1 = c1
  c2 = c2
  Conns <- TwoConns
  Route <- MCRoute
  MaxBytes <- MCBytes
INVARIANTS TypeOK NothingCut BooksBalance
PROPERTIES ConnsEnd
CHECK_DEADLOCK FALSE
