SPECIFICATION Spec
CONSTANTS
  s1 = s1
  s2 = s2
  s3 = s3
  Surfaces = {s1, s2, s3}
  NoSurface = none
  MaxCommits = 2
  Screens = {{}}
  MaxObjects = 1
SYMMETRY Symmetry
INVARIANTS
  TypeOK
  LinksAgree
  DownwardAcyclic
PROPERTIES
  TreeLandsTogether
