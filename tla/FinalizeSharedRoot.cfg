\* One clone, two issues, i2 pending external verification; the operator edits, or others move main under f1.
SPECIFICATION PartSpec
CONSTANTS
  f1 = f1
  f2 = f2
  r1 = r1
  r2 = r2
  i1 = i1
  i2 = i2
  NoOne = NoOne
  Parts = {"shared", "moving"}
  Finalizer = {f1, f2}
  Root = {r1}
  Issue = {i1, i2}
  RootOf <- OneClone
  IssueOf <- TwoIssues
  Candidate <- TwoCandidates
  Shared = {r1}
  Refreshing = {}
  Operated = {r1}
  Diagnosing = {}
  SelfOwned = {}
  Pending = {i2}
  Discussed = {}
  Mortal = {f1}
  MaxPromotionAttempts = 2
  MaxReverifications = 2
  MaxVersion = 0
  MaxCommit = 6
  MaxForeign = 2
  MaxSharedMerges = 2
INVARIANTS ClosedOnce
PROPERTIES FinalizeReturns
