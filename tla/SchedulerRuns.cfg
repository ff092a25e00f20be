\* Two runs of at most one and two issues, lease reads one at a time.
SPECIFICATION FairSpec
CONSTANTS
  s1 = s1
  s2 = s2
  i1 = i1
  i2 = i2
  Outside = Outside
  NoOne = NoOne
  Run = {s1, s2}
  Issue = {i1, i2}
  Queue <- TwoIssues
  MaxIssues <- OneAndTwo
  ReadWindow = 1
  MaxSkips = 2
  Contested = {i2}
  Mortal = {s2}
INVARIANTS ExclusiveWork ReturnedHoldsNothing OncePerRun
PROPERTIES RunEnds
