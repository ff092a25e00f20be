\* Two writers of a journal; review, quality evidence, edits of the issue; reports of incidents; a footer and a panel.
SPECIFICATION EitherSpec
CONSTANTS
  p1 = p1
  p2 = p2
  s1 = s1
  s2 = s2
  m1 = m1
  c1 = c1
  x1 = x1
  Setting <- Settings
  Reporter = {p1, p2}
  Failure = {s1}
  Mismatch = m1
  Upstream = {s1, m1}
  Issue = {1}
  Seen = {2, 3}
  Mortal = {p1}
  MaxReports = 3
  MaxFaults = 1
  MaxClosed = 1
  Session = {s1, s2}
  Elsewhere = elsewhere
  Run = {1, 2}
  MaxCommands = 1
  MaxContexts = 3
  Panel <- Panels
  Writer = {w1, w2}
  Request = {baseline, started, closed}
  Keyed = {baseline, closed}
  Baseline = baseline
  NoEntry = none
  Legacy = TRUE
  MaxLines = 4
INVARIANTS
  ReturnedIsKept
  KeysOnce
  DamageHasACause
  RequestProven
  DuplicatesExplained
PROPERTIES
  DisplaysFollow
CHECK_DEADLOCK FALSE
