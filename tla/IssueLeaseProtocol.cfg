\* One run with a heartbeat and one without, a lease of one tick, two attempts.
CONSTANTS
  r1 = r1
  r2 = r2
  NoRun = NoRun
  Run = {r1, r2}
  HeartbeatRun = {r1}
  Duration = 1
  MaxClaimAttempts = 2
  MaxClock = 1
  MaxRev = 3
  MaxWire = 2
SPECIFICATION FairSpec
INVARIANTS
  ExclusiveHolder
  ReleaseIsFinal
PROPERTIES
  FreshLeaseMovedByOwner
  ImplementsContract
  ClaimSettles
CHECK_DEADLOCK FALSE
