SPECIFICATION Spec
CONSTANTS
  s1 = s1
  s2 = s2
  s3 = s3
  Surfaces = {s1, s2, s3}
  NoSurface = none
  MaxCommits = 0
  Screens <- AnySurfaces
  MaxObjects = 2
SYMMETRY Symmetry
INVARIANTS
  DownwardAcyclic
