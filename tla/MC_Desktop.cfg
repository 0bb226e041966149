SPECIFICATION Spec
CONSTANTS
  c1 = c1
  c2 = c2
  s1 = s1
  d1 = d1
  d2 = d2
  k = k
  p = p
  m = m
  q = q
  w1 = w1
  w2 = w2
  w3 = w3
  w4 = w4
  Nothing = nothing
  Clients = {c1, c2}
  MaxOffers = 2
  DndOldClients = {c2}
  DndOldManagers = {}
  DndDataSources = {s1}
  DndPrimarySources = {}
  DndControlSources = {}
  DndDataDevices = {d1, d2}
  DndPrimaryDevices = {}
  DndControlDevices = {}
  DndOwnerOf <- OwnerInDrags
  DndActions = {1, 2}
  SelOldClients = {}
  SelOldManagers = {}
  SelDataSources = {}
  SelPrimarySources = {p}
  SelControlSources = {k}
  SelDataDevices = {}
  SelPrimaryDevices = {q}
  SelControlDevices = {m}
  SelOwnerOf <- OwnerInSelections
  SelActions = {1}
  MIN_WINDOW_WIDTH = 1
  Edges = {"left", "right"}
  OneToplevels = {w1}
  OneOutput <- WideOutput
  OneUsable <- WideUsable
  OneLimits <- SomeHints
  OneMaxWidth = 2
  OneMaxGrabs = 2
  TwoToplevels = {w1, w2}
  TwoOutput <- NarrowOutput
  TwoUsable <- NarrowUsable
  TwoLimits <- NoHints
  TwoMaxWidth = 1
  TwoMaxGrabs = 1
  Toplevels = {w1, w2, w3, w4}
  Windows = {w1, w2, w3}
  Keys = {"alt", "tab", "esc"}
  Modifiers = {"alt"}
  KeyCombos <- AltTab
  Surfaces = {w1, w2, w3}
  Toplevel <- WindowOf
  Buttons = {"left"}
  Fingers = {1}
  WindowOwner <- OwnerOfWindow
  SurfaceOwner <- OwnerOfWindow
INVARIANTS
  DesktopTypeOK
  OffersAreCurrent
  SourceFate
  SidesAgree
  NobodyLeftEntered
  EntitledKnow
  ToldIsTrue
  AnchoredEdgeHolds
  DialogsOnTop
  TheFocusedClientKnows
  HoversAgree
  FingersAgree
