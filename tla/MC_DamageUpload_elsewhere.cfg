SPECIFICATION Spec
CONSTANTS
  o1 = o1
  o2 = o2
  b1 = b1
  b2 = b2
  c1 = c1
  c2 = c2
  Outputs = {o1, o2}
  BufferIds = {b1}
  Cells = {c1, c2}
  NoBuffer = nobuffer
  NoImage = noimage
  MaxCommits = 4
  MaxBuffers = 1
  ShownOn = {o2}
INVARIANTS
  TextureIsTheBuffer
