\* A session and its continuation, or one session and a redial; two requests.  Deadlock is
\* not checked: everything may come to rest.
CONSTANTS
  s1 = s1
  s2 = s2
  Session = {s1, s2}
  Launched = {s1}
  Users = users
  MaxAsks = 2
  MaxLinks = 2
SPECIFICATION SpecOfEither
CHECK_DEADLOCK FALSE
INVARIANTS MovesBetweenTurns DeleteStrandsNothing AskGetsItsOwnEnd RunningIsAttended
