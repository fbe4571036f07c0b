SPECIFICATION ValidateSpec
CONSTANTS
  SeqSpace = 16
  MaxIssues = 3
INVARIANTS TypeOK CleanIffConformant LossToldOnce EndsTold
