SPECIFICATION Spec
CONSTANTS
  o1 = o1
  o2 = o2
  b1 = b1
  b2 = b2
  c1 = c1
  c2 = c2
  p1 = p1
  p2 = p2
  p3 = p3
  w1 = w1
  w2 = w2
  None = none
  Outputs = {o1, o2}
  BufferIds = {b1, b2}
  Cells = {c1, c2}
  MaxCommits = 3
  MaxBuffers = 2
  Params = {p1, p2, p3}
  Ids = {b1}
  MAX_DMABUF_PLANES = 1
  MAX_LIVE_PARAMS = 2
  QueueSize = 1
  MaxServerIds = 1
  MaxImports = 2
  MaxSerial = 4
  PoolIds = {p1, p2}
  MaxSize = 2
  MaxPools = 3
  XdgSurfaces = {w1, w2}
  MAX_PENDING_CONFIGURES = 2
  Menus = {p1, p2}
  Root = w1
  Positioners <- TwoMenus
  OutputWidth = 3
  MaxWindowX = 1
  MaxWidth = 1
  PanelIds = {1, 2}
  PanelOutputs = {o1}
  Areas <- OneArea
  Requests <- ThreeWishes
  MaxUnanswered = 1
INVARIANTS
  ContentsTypeOK
  TextureIsTheBuffer
  AnsweredOnce
  VerdictsFindTheirBuffer
  ReadsItsOwnMemory
  NoneLeaksNoneTwice
  PlacedAsAllowed
  ClosedFromTheTop
  PanelsKnowTheirPlace
  ReservedIsClear
PROPERTIES
  HonestIsSafe
CHECK_DEADLOCK FALSE
