SPECIFICATION FairSpec
CONSTANTS
  o1 = o1
  o2 = o2
  c1 = c1
  c2 = c2
  p = p
  q = q
  OutputIds = {o1, o2}
  Cells = {c1, c2}
  Pictures = {p, q}
  Background = bg
  Looks <- FewLooks
  MaxChanges = 2
  MaxHotplugs = 2
INVARIANTS
  SlotCarriesAllScenes
PROPERTIES
  EventuallyShown
