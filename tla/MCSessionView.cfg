\* The tab: one ask, one frame kept per session, one heal of a lost link, one vote and two
\* events of the daemon's.  Deadlock is not checked: a settled view is meant to come to rest.
\* The daemon: one handler, one mint, two offers and one restart.
CONSTANTS
  Ask = {a1}
  CacheMax = 1
  MaxHeals = 1
  MaxVotes = 1
  MaxEvents = 2
  Hook = {h1}
  Take = {t1}
  MaxOffers = 2
  MaxEscapes = 0
  MaxRestarts = 1
SPECIFICATION SpecOfEither
INVARIANT NoVerdictFromNowhere
PROPERTIES TranscriptSurvives ViewConverges HookIsAnswered
CHECK_DEADLOCK FALSE
