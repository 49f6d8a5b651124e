SPECIFICATION Spec
CONSTANTS
  c1 = c1 c2 = c2
  i1 = i1 i2 = i2
  r1 = r1 r2 = r2
  w1 = w1 w2 = w2
  p1 = p1 p2 = p2
  None = None
  Garbage = Garbage
  Absent = Absent
  Nothing = Nothing
  NoTx = NoTx
  Text = Text
  Blob = Blob
SYMMETRY Symmetry
INVARIANTS    FleetSound
CHECK_DEADLOCK FALSE
