\* Bodies of up to four lines: two events, an event of two values, an event
\* without data, and an end in the middle of each.
CONSTANTS
  Values = {"", "v"}
  MaxLines = 4
SPECIFICATION Spec
INVARIANTS
  TypeOK
  EventsAreWhole
PROPERTY
  EndsOnceAndInTime
