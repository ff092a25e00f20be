\* One issue's lifecycle, of two candidate commits, two revisions of main, three versions of the issue;
\* auto runs of two processes and of a monitor; the next issue.
SPECIFICATION EitherSpec
CONSTANTS
  h1 = h1
  h2 = h2
  q1 = q1
  q2 = q2
  Setting <- Settings
  Number = {1, 2, 3}
  Priorities <- Urgency
  Kind <- Kinds
  Window = 2
  Concurrency = 1
  Exclusion <- Exclusions
  MaxChanges = 1
  MaxMoves = 1
  RoadmapOrder <- Order
  Text <- Texts
  RetryBudget = 1
  AllowRepair = "yes"
  MaxCommit = 2
  MaxMain = 2
  MaxVersion = 3
INVARIANTS
  WorkKept
  PromotedVerified
  LatestReachable
  ChoiceJustified
PROPERTIES
  StepsGuarded
CHECK_DEADLOCK FALSE
