SPECIFICATION FairSpec
CONSTANTS
  s1 = s1
  s2 = s2
  s3 = s3
  Surfaces = {s1, s2}
  NoSurface = none
  MaxCommits = 4
  Screens <- AnySurfaces
  MaxObjects = 1
INVARIANTS
  CommitsLandInOrder
PROPERTIES
  CallbacksAnswered
