SPECIFICATION Spec
CONSTANTS
  Lower <- Lowered
  Number <- Numbers
  Base = 4
  VbiBytes = 3
  Word = 32
  Streams <- CodecLists
  Versions = {3, 4}
  Values <- Typed
  Sayings <- Lines
  Foreign <- Files
  Indexes <- Tables
  KeyPoints <- Points
  Targets <- Seeks
  MaxCalls = 2
INVARIANTS AnswersTrue Stacked SeeksSafe
