\* Three parts, the last one short, on two slots: one part must wait for a token
\* and the arithmetic has a remainder.
CONSTANTS
  Size = 5
  PartSize = 2
  Concurrency = 2
SPECIFICATION Spec
INVARIANTS
  TypeOK
  BoundedBuffers
  JoinedBeforeUse
  FirstErrorIsCause
  CompleteCarriesAll
  BoundedLateParts
PROPERTIES
  CallReturns
  StoresAtomically
