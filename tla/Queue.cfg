\* Two attempts of the submit request, hence up to two jobs: the smallest
\* instance with a duplicate.
CONSTANT
  MaxAttempts = 2
SPECIFICATION Spec
INVARIANTS
  TypeOK
  VerdictMatchesJob
  AbandonedIffCancelled
  NoSilentDuplicates
PROPERTY
  CallReturns
