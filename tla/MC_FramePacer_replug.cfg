SPECIFICATION Spec
CONSTANTS
  o1 = o1
  o2 = o2
  c1 = c1
  c2 = c2
  p = p
  q = q
  OutputIds = {o1}
  Cells = {c1, c2}
  Pictures = {p, q}
  Background = bg
  Looks <- MCLooks
  MaxChanges = 3
  MaxHotplugs = 4
INVARIANTS
  TypeOK
  ScreenFaithful
  WaitingMeansCurrent
PROPERTIES
  Delivers
