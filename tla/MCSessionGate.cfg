\* Two gated calls: of one session with two turns, or of two sessions with a turn each; calls
\* and operators in every order.  The fairness is that of the code's timers and reads.  Turns
\* and calls are bounded, so runs come to a stop.
CONSTANTS
  s1 = s1
  s2 = s2
  g1 = g1
  g2 = g2
  Session = {s1, s2}
  Gate = {g1, g2}
  NoSession = NoSession
  MaxTurns = 2
  TimeoutArmed = TRUE
SPECIFICATION SpecOfEither
INVARIANTS
  TranscriptTellsTheReply
  OneTurnAtATime
  InterruptHitsItsRun
PROPERTIES
  OnlyATurnOrALateGateRevives
  OnlyALaunchOutrunsEnd
  ImplementsApprovalGate
  EveryCallIsAnswered
CHECK_DEADLOCK FALSE
