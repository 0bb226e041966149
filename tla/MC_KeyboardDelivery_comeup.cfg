SPECIFICATION Spec
CONSTANTS
  w1 = w1
  w2 = w2
  w3 = w3
  c1 = c1
  c2 = c2
  Windows = {w1, w2, w3}
  Clients = {c1, c2}
  Owner <- OwnerOfWindow
  Keys = {"alt", "tab", "esc"}
  Modifiers = {"alt"}
  KeyCombos <- Bound
  None = none
INVARIANTS
  KeysComeUp
