\* Two runs at one worktree, which may be killed; markers, skill packs, a stream, commands and a plan.
SPECIFICATION EitherSpec
CONSTANTS
  v1 = v1
  v2 = v2
  k1 = k1
  k2 = k2
  EarlyAsk = TRUE
  MaxHead = 3
  MaxPosts = 3
  MaxTries = 3
  Source = {1, 2}
  Revision = {v1, v2}
  Allowed <- Allowlist
  Local = {1}
  MaxEdits = 1
  MaxManifests = 2
  MaxKills = 1
  Name = {"t", "f"}
  Fix = {"f"}
  Plans <- Written
  MaxCommits = 2
  Length = {1, 2, 5}
  MaxLines = 3
  MaxChunk = 3
  MaxPending = 5
  Process = {k1, k2}
  Issue = {1}
  Nobody = nobody
  Artifact <- Artifacts
  MaxAttempts = 2
  Killed = {k1}
  Run = {r1, r2}
  Ours = {o1}
  Theirs = {t1}
  Published = {p1}
  NoOne = NoOne
  Mortal = {r1, r2}
  MaxMain = 1
  MaxExpiries = 1
  MaxFaults = 1
SYMMETRY Alike
INVARIANTS
  WorkKept
  LinesParsed
  ScopedWork
PROPERTIES
  ClosedSettled
  EditsRespected
  PlanProgress
CHECK_DEADLOCK FALSE
