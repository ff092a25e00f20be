\* Two clones, one issue: f2 takes over from f1.
SPECIFICATION PartSpec
CONSTANTS
  f1 = f1
  f2 = f2
  r1 = r1
  r2 = r2
  i1 = i1
  i2 = i2
  NoOne = NoOne
  Parts = {"clones"}
  Finalizer = {f1, f2}
  Root = {r1, r2}
  Issue = {i1}
  RootOf <- TwoClones
  IssueOf <- OneIssue
  Candidate <- OneCandidate
  Shared = {}
  Refreshing = {r1}
  Operated = {}
  Diagnosing = {r1}
  SelfOwned = {}
  Pending = {}
  Discussed = {i1}
  Mortal = {}
  MaxPromotionAttempts = 2
  MaxReverifications = 1
  MaxVersion = 1
  MaxCommit = 3
  MaxForeign = 1
  MaxSharedMerges = 0
INVARIANTS VerifiedClosure FencedClosure RootPublished
