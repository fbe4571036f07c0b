SPECIFICATION Spec
CONSTANTS
  TopBit = 6
  Full = 3
  Codecs = {"vorbis", "theora", "opus", "flac"}
  Extradata <- Blobs
  Granules <- GranuleInfos
  Jumps = {0, 2}
  MaxLaps = 2
  MaxFrames = 5
CHECK_DEADLOCK FALSE
INVARIANTS HeadersSurvive GranulesTrue
