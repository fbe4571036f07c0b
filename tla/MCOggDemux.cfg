SPECIFICATION LiveSpec
CONSTANTS
  audio = audio
  video = video
  chained = chained
  second = second
  skel = skel
  skel2 = skel2
  intruder = intruder
  Files <- DemuxFiles
  Need <- MCNeed
  Theora = {video}
  Opus = {audio, chained}
  Fishead = {skel, skel2}
  Span = 4
  CountBias = 1
  SeqSpace = 4
  HeaderBudget = 9
  MaxEvents = 2
  MayScan <- ScanSome
  Ends <- MCEnds
  Keyframes <- MCKeyframes
  Link <- MCLink
INVARIANTS TypeOK Genuine HeadersKeptBack NothingElseLost  Timed DecoderReady LinksTold
PROPERTIES CallsReturn
