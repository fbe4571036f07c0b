SPECIFICATION SeekSpec
CONSTANTS
  audio = audio
  video = video
  chained = chained
  second = second
  skel = skel
  skel2 = skel2
  intruder = intruder
  Files <- PairFile
  Need <- MCNeed
  Theora = {video}
  Opus = {audio, chained}
  Fishead = {skel, skel2}
  Span = 4
  CountBias = 1
  SeqSpace = 16
  HeaderBudget = 40
  MaxEvents = 0
  MayScan <- ScanAny
  Ends <- MCEnds
  Keyframes <- MCKeyframes
  Link <- MCLink
  Seekable = {audio, video, chained}
  PreSkip <- MCPreSkip
  PageBytes = 3
  TailBytes = 21
  Basetime = 3
  Window = 9
  Threshold = 9
  MaxIters = 64
  Tick <- MCTick
  Indexes <- MCIndexes
  Bones <- MCBones
  SegmentLength = 45
  Calls = {"preroll", "keyframe"}
  Targets = {0, 3, 8}
  MaxSeeks = 2
INVARIANTS WholeAfterSeek
