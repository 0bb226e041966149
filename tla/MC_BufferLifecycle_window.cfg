SPECIFICATION FairSpec
CONSTANTS
  win = win
  sub = sub
  b1 = b1
  b2 = b2
  b3 = b3
  Windows = {win}
  Subsurfaces = {}
  ParentOf <- NoSubsurfaces
  BufferIds = {b1, b2}
  NoBuffer = null
  Unchanged = unchanged
  MaxBuffers = 3
  SharesCached = FALSE
PROPERTIES
  NeverBlanked
  ReplacedIsReleased
