\* A lost, an unreadable and every kind of retryable or final answer on each of
\* three attempts: 429 stands for 408 and 409 too, 503 for 502.
CONSTANTS
  MaxAttempts = 3
  Status = {200, 429, 503, 504}
SPECIFICATION Spec
INVARIANTS
  TypeOK
  EveryAttemptIsWhole
  RunsTwiceOnlyUnanswered
  VerdictIsLastOutcome
  AtMostOneLateSend
PROPERTY
  CallReturns
