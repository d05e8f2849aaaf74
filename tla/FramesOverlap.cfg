SPECIFICATION Spec
CONSTANTS
  NumFrames = 6
  Word = 16
  MaxRun = 3
INVARIANT NoOverlap
