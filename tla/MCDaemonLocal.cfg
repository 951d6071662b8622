CONSTANTS
  Claude = {c1, c2}
  NoClaude = NoClaude
  Hook = {h1, h2}
  MaxCards = 3
  MaxRestarts = 1
  Session = {s1}
  MaxVersion = 8
  MaxExports = 2
  Caller = {h1, h2}
  LineEnd <- ThreeLines
  MaxReturns = 1
  Socket = {k1, k2}
  NoSocket = NoSocket
  Cap = 1
  MaxSilent = 2
  MaxFaults = 3
SPECIFICATION SpecOfAny
INVARIANTS OneCardEach NewestSurvives OnlyARacedReapLeavesATrace MirrorsTheLog
PROPERTIES HookIsAnswered HealthyLinkStays LinkReturns
CHECK_DEADLOCK FALSE
