CONSTANTS
  Daemon = {d1, d2}
  Browser = {b1, b2}
  NoConn = NoConn
  MaxQueue = 2
  Session = {s1}
  Link = {c1, c2}
  Tab = {t1}
  NoLink = NoLink
  MaxFrames = 1
  MaxActs = 1
SPECIFICATION SpecOfEither
SYMMETRY Symmetry
INVARIANTS TabsShowTheMap RowAgreesWithTheDaemon
PROPERTIES DaemonKnowsItsViewers OnlyALateHelloLeavesAGhost
