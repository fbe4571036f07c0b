SPECIFICATION Spec
CONSTANTS
  audio = audio
  video = video
  chained = chained
  Links <- OneLink
  Index <- MCIndex
  Need <- MCNeed
  Headers <- SpeexHeaders
  Theora = {video}
  Scale <- MCScale
  MaxSegs = 2
  Span = 2
  SerialSpace = 4
  Packets <- ChainPackets
  Targets = {}
  Skeleton = FALSE
  SkelSerial <- Derived
  MaxKeypoints = 2
  ByteGap = 2
  TimeGap = 2
  MaxPackets = 4
  AnyOrder = FALSE
INVARIANTS PageGranules
