SPECIFICATION FairSpec
CONSTANTS
  a = a
  b = b
  c = c
  Byte = {a, b, c}
  Payload <- MCPayload
  Granule = {0, 7}
  SegSize = 2
  MaxSegs = 2
  Target = {3}
  MaxPackets = 3
  MaxResets = 1
  MaxForeign = 1
INVARIANTS TypeOK Genuine ContinuedFlags HeadersTrue
PROPERTIES ImplementsChannel EverythingArrives
