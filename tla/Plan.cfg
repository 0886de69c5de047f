\* Four registries of three parts, two commands, two workers for two files.
CONSTANTS
  Parts = {1, 2, 3}
  Releases = {1, 2}
  None = 0
  a = a
  b = b
  c = c
  Capabilities = {a, b, c}
  Registries <- MCRegistries
  Workers = {w1, w2}
  FileCount = 2
  MaxRuns = 2
  MaxAsked = 1
SYMMETRY MCSymmetry
SPECIFICATION Spec
INVARIANTS RequirementsMet RerunResumes TempIsGone
CHECK_DEADLOCK FALSE
