\* The counterexample: launch, switch to the user's branch, reap.
CONSTANTS
  s1 = s1
  s2 = s2
  Session = {s1, s2}
  Launched = {s1}
  Users = users
  MaxAsks = 2
  MaxLinks = 1
SPECIFICATION SpecOfEither
CHECK_DEADLOCK FALSE
INVARIANTS OnlyItsOwnBranchIsDeleted
