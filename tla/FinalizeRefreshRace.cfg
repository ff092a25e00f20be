\* One finalizer, and a main refresh by another controller of its clone.
SPECIFICATION PartSpec
CONSTANTS
  f1 = f1
  f2 = f2
  r1 = r1
  r2 = r2
  i1 = i1
  i2 = i2
  NoOne = NoOne
  Parts = {"alone"}
  Finalizer = {f1}
  Root = {r1}
  Issue = {i1}
  RootOf <- Alone
  IssueOf <- Only
  Candidate <- OneCandidate
  Shared = {r1}
  Refreshing = {r1}
  Operated = {}
  Diagnosing = {}
  SelfOwned = {}
  Pending = {}
  Discussed = {}
  Mortal = {}
  MaxPromotionAttempts = 2
  MaxReverifications = 1
  MaxVersion = 0
  MaxCommit = 5
  MaxForeign = 1
  MaxSharedMerges = 0
INVARIANTS VerifiedClosure
