\* Two command lines on a repository with any of its parts installed: two commands
\* at once and a third after them, with two kills or failed file operations.
SPECIFICATION Spec
CONSTANTS
  part1 = part1
  part2 = part2
  rel1 = rel1
  rel2 = rel2
  None = None
  Bad = Bad
  Torn = Torn
  Parts = {part1, part2}
  Provides <- MCProvides
  Needs <- MCNeeds
  Procs = {c1, c2}
  Releases = {rel1, rel2}
  Files = {src, adapter}
  Commands = {"add", "upgrade", "eject"}
  MaxCuts = 2
  MaxRuns = 3
  MaxTogether = 2
INVARIANTS DamageIsLocal StageIsSwept
PROPERTY AddKeepsOneProvider
CHECK_DEADLOCK FALSE
SYMMETRY MCSymmetry
