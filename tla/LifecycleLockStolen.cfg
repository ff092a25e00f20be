\* One of three processes may be killed.
CONSTANTS
  p1 = p1
  p2 = p2
  p3 = p3
  Proc = {p1, p2, p3}
  Mortal = {p1}
  Nobody = Nobody
SPECIFICATION Spec
INVARIANTS OneLifecycle
