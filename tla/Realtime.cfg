\* Two frames after each other and two closers at once.
CONSTANTS
  c1 = c1
  c2 = c2
  Closers = {c1, c2}
  MaxFrames = 2
SPECIFICATION Spec
INVARIANTS
  TypeOK
  RecvInOrder
PROPERTIES
  ClosedForGood
  CallsReturn
