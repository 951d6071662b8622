\* Two users and two codes (a first pairing and one re-pairing), one retry of a call, and one
\* fault: a failing call, a killed process or a relay restart. Users stop and start things as
\* they like, so that the machine may also be left switched off.
CONSTANTS
  User = {u1, u2}
  Code = {k1, k2}
  MaxTries = 2
  MaxFaults = 1
SPECIFICATION FairSpec
INVARIANT OneDevicePerCode
PROPERTIES PairingKeepsTheDevice RevokedIsCutOff ServiceComesBack
CHECK_DEADLOCK FALSE
