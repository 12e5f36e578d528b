\* The claim of the comment on Subscribe, which the code does not keep.
CONSTANT
  MaxAttempts = 1
SPECIFICATION Spec
INVARIANT
  EndedAfterSubmitIsTimeout
