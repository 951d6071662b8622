\* One socket: a session, a follow-up, one request.
CONSTANTS
  s1 = s1
  Session = {s1}
  Launched = {s1}
  Users = users
  MaxAsks = 1
  MaxLinks = 1
SPECIFICATION SpecOfEither
CHECK_DEADLOCK FALSE
INVARIANT NeverMidTurn
