CONSTANTS
  Session = {1, 2, 3}
  PageSize = 1
  MaxTime = 1
  MaxMoves = 2
  Tab = {t1, t2}
  Title = {n1, n2}
  Default = Default
  MaxRenames = 3
  MaxVisits = 2
  Branch = {main}
  Unknown = Unknown
  MaxReads = 2
  MaxWire = 2
  MaxEvents = 2
SPECIFICATION SpecOfAny
SYMMETRY Symmetry
INVARIANTS ListHasNoGap PutAwayStaysAway TabShowsTheName
  LabelsAgree
CHECK_DEADLOCK FALSE
