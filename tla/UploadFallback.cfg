\* The claim of the comments on WithFallback and upload, which files do not keep.
CONSTANT
  MaxFallback = 1
SPECIFICATION Spec
INVARIANT
  FallbackGetsTheContent
