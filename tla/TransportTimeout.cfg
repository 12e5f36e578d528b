CONSTANTS
  MaxAttempts = 2
  Status = {200, 429, 503, 504}
SPECIFICATION Spec
INVARIANT
  UserTimeoutNeverRetried
