SPECIFICATION Spec
CONSTANTS
  audio = audio
  video = video
  chained = chained
  Links <- OneLink
  Index <- MCIndex
  Need <- MCNeed
  Headers <- MCNeed
  Theora = {video}
  Scale <- MCScale
  MaxSegs = 2
  Span = 4
  SerialSpace = 4
  Packets <- IndexPackets
  Targets = {}
  Skeleton = TRUE
  SkelSerial <- Derived
  MaxKeypoints = 2
  ByteGap = 2
  TimeGap = 2
  MaxPackets = 5
  AnyOrder = FALSE
INVARIANTS KeypointsLand SkeletonTells
