SPECIFICATION BrokenSpec
CONSTANTS
  SeqSpace = 16
  MaxIssues = 16
INVARIANTS OneFlipOneIssue
