\* The claim of the comment on UploadFile, which a large file does not keep on
\* every backend.
CONSTANT
  MaxFallback = 1
SPECIFICATION Spec
INVARIANT
  LargeFileNeverInMemory
