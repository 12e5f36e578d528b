\* Fallback lists of up to two entries: repeats of the primary backend, of each
\* other, and an unknown name are among them.
CONSTANT
  MaxFallback = 2
SPECIFICATION Spec
INVARIANTS
  TypeOK
  ChainIsWalked
  FileIsReadWholeOnce
  NeverStoredWithoutLifecycle
PROPERTY
  CallReturns
