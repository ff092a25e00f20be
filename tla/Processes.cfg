\* Two processes of which p1 may be killed, at either lock; a child process and an SDK session; prompts, workers and reviews; dependencies and checks, the configuration, the status of runs.
SPECIFICATION EitherSpec
CONSTANTS
  p1 = p1
  p2 = p2
  a1 = a1
  a2 = a2
  Nobody = Nobody
  NoFile = NoFile
  Rounds = 4
  Attempt = {a1, a2}
  Child = {a1}
  SoftIdle = 1
  HardIdle = 3
  HardWall = 4
  Grace = 2
  Warn = 1
  Hard = 2
  Budget = 2
  MaxTokens = 3
  MaxTurns = 2
  Pack = {"tdd", "codebase-design"}
  RuleSkill = {"tdd", "codebase-design"}
  RuleRoles = {{"planning"}, {"implementation"}}
  Axes <- TwoOrders
  MaxChanges = 2
  Version = {"v1", "v2"}
  Cleans = {"v1"}
  Check = {1, 2}
  MaxInputEdits = 3
  MaxKills = 2
  Limits <- OnePair
  Roles = {"implementation", "verification"}
  LongRole = "verification"
  MaxFileEdits = 2
  Run = {"r1", "old"}
  Legacy = {"old"}
  Session = {"s1", "s2"}
  Issue = {1}
  MaxMoves = 3
  Proc = {p1, p2}
  Mortal = {p1}
INVARIANTS
  OneLifecycle
  MutualExclusion
  CompletedProven
  Reviewed
  PassGrounded
  ConfigUsable
  StatusTrue
PROPERTIES
  StaleLockRecovered
  EveryChildEnds
CHECK_DEADLOCK FALSE
