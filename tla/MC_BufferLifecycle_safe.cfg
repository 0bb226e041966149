SPECIFICATION Spec
CONSTANTS
  win = win
  sub = sub
  b1 = b1
  b2 = b2
  b3 = b3
  Windows = {win}
  Subsurfaces = {sub}
  ParentOf <- OneWindow
  BufferIds = {b1, b2}
  NoBuffer = null
  Unchanged = unchanged
  MaxBuffers = 2
  SharesCached = FALSE
SYMMETRY Symmetry
INVARIANTS
  TypeOK
  ReleasedIsFree
PROPERTIES
  ReleasesWhatWasHandedOver
