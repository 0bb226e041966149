------------------------------- MODULE Desktop -------------------------------
(* What the user and the clients do on the desktop: drag and drop, selections,  *)
(* windows, dialogs, and the delivery of keys, of the pointer and of fingers.   *)
(* The parts run side by side: a step is a step of one of them, in any order,   *)
(* and no part writes what another reads.  DataTransfer and WindowStates are    *)
(* there twice, with constants of their own.                                    *)
EXTENDS Integers

CONSTANTS
  Nothing, Clients, Buttons,
  \* DataTransfer, dragging and selecting
  MaxOffers,
  DndOldClients, DndOldManagers, DndDataSources, DndPrimarySources, DndControlSources,
  DndDataDevices, DndPrimaryDevices, DndControlDevices, DndOwnerOf, DndActions,
  SelOldClients, SelOldManagers, SelDataSources, SelPrimarySources, SelControlSources,
  SelDataDevices, SelPrimaryDevices, SelControlDevices, SelOwnerOf, SelActions,
  \* WindowStates, one window and two
  MIN_WINDOW_WIDTH, Edges,
  OneToplevels, OneOutput, OneUsable, OneLimits, OneMaxWidth, OneMaxGrabs,
  TwoToplevels, TwoOutput, TwoUsable, TwoLimits, TwoMaxWidth, TwoMaxGrabs,
  \* ToplevelFamilies
  Toplevels,
  \* KeyboardDelivery
  Windows, Keys, Modifiers, KeyCombos,
  \* PointerDelivery
  Surfaces, Toplevel, Fingers,
  \* whose each window and each surface is
  WindowOwner, SurfaceOwner

VARIABLES
  \* DataTransfer, dragging
  dndClients, dndMapped, dndDevices, dndSources, dndOffers, dndSelection, dndDrag,
  dndFocus, dndHeld, dndTold, dndEntered, dndAgreed, dndDropped,
  \* DataTransfer, selecting
  selClients, selMapped, selDevices, selSources, selOffers, selSelection, selDrag,
  selFocus, selHeld, selTold, selEntered, selAgreed, selDropped,
  \* WindowStates, one window
  oneLive, oneHomed, oneX, oneWidth, oneMaximized, oneFullscreen, oneRestore, oneLimits,
  oneFocused, oneTold, onePointer, onePressed, oneEntitled, oneGrab, oneAnchor, oneGrabs,
  \* WindowStates, two windows
  twoLive, twoHomed, twoX, twoWidth, twoMaximized, twoFullscreen, twoRestore, twoLimits,
  twoFocused, twoTold, twoPointer, twoPressed, twoEntitled, twoGrab, twoAnchor, twoGrabs,
  \* ToplevelFamilies
  famStack, famParent,
  \* KeyboardDelivery
  keySurfaces, keyToplevels, keyFocused, keyKeyboards, keyPressed_keys,
  keyConsumed_keys, keyDragging, keyOn, keyHeld, keyKnown,
  \* PointerDelivery
  ptrSurfaces, ptrPointer_surface, ptrFocused, ptrPressed_buttons, ptrOwned_by,
  ptrGrabbed_popups, ptrPointers, ptrOn, ptrLate, ptrRobbed, ptrTouches,
  ptrTouch_points, ptrFingers

Dragging == INSTANCE DataTransfer
  WITH OldClients <- DndOldClients, DataSources <- DndDataSources,
       PrimarySources <- DndPrimarySources, ControlSources <- DndControlSources,
       DataDevices <- DndDataDevices, PrimaryDevices <- DndPrimaryDevices,
       ControlDevices <- DndControlDevices, OldManagers <- DndOldManagers,
       OwnerOf <- DndOwnerOf, Actions <- DndActions, NoClient <- Nothing,
       NoSource <- Nothing, Never <- 0, clients <- dndClients, mapped <- dndMapped,
       devices <- dndDevices, sources <- dndSources, offers <- dndOffers,
       selection <- dndSelection, drag <- dndDrag, focus <- dndFocus, held <- dndHeld,
       told <- dndTold, entered <- dndEntered, agreed <- dndAgreed,
       dropped <- dndDropped

Selecting == INSTANCE DataTransfer
  WITH OldClients <- SelOldClients, DataSources <- SelDataSources,
       PrimarySources <- SelPrimarySources, ControlSources <- SelControlSources,
       DataDevices <- SelDataDevices, PrimaryDevices <- SelPrimaryDevices,
       ControlDevices <- SelControlDevices, OldManagers <- SelOldManagers,
       OwnerOf <- SelOwnerOf, Actions <- SelActions, NoClient <- Nothing,
       NoSource <- Nothing, Never <- 0, clients <- selClients, mapped <- selMapped,
       devices <- selDevices, sources <- selSources, offers <- selOffers,
       selection <- selSelection, drag <- selDrag, focus <- selFocus, held <- selHeld,
       told <- selTold, entered <- selEntered, agreed <- selAgreed,
       dropped <- selDropped

OneWindow == INSTANCE WindowStates
  WITH Toplevels <- OneToplevels, Output <- OneOutput, Usable <- OneUsable,
       Limits <- OneLimits, MaxWidth <- OneMaxWidth, MaxGrabs <- OneMaxGrabs,
       GrabsAgain <- FALSE, None <- Nothing, live <- oneLive, homed <- oneHomed,
       x <- oneX, width <- oneWidth, maximized <- oneMaximized,
       fullscreen <- oneFullscreen, restore <- oneRestore, limits <- oneLimits,
       focused <- oneFocused, told <- oneTold, pointer <- onePointer,
       pressed <- onePressed, entitled <- oneEntitled, grab <- oneGrab,
       anchor <- oneAnchor, grabs <- oneGrabs

TwoWindows == INSTANCE WindowStates
  WITH Toplevels <- TwoToplevels, Output <- TwoOutput, Usable <- TwoUsable,
       Limits <- TwoLimits, MaxWidth <- TwoMaxWidth, MaxGrabs <- TwoMaxGrabs,
       GrabsAgain <- FALSE, None <- Nothing, live <- twoLive, homed <- twoHomed,
       x <- twoX, width <- twoWidth, maximized <- twoMaximized,
       fullscreen <- twoFullscreen, restore <- twoRestore, limits <- twoLimits,
       focused <- twoFocused, told <- twoTold, pointer <- twoPointer,
       pressed <- twoPressed, entitled <- twoEntitled, grab <- twoGrab,
       anchor <- twoAnchor, grabs <- twoGrabs

Families == INSTANCE ToplevelFamilies
  WITH ReusesIds <- FALSE, None <- Nothing, stack <- famStack, parent <- famParent

Keyboard == INSTANCE KeyboardDelivery
  WITH Owner <- WindowOwner, None <- Nothing, surfaces <- keySurfaces,
       toplevels <- keyToplevels, focused <- keyFocused, keyboards <- keyKeyboards,
       pressed_keys <- keyPressed_keys, consumed_keys <- keyConsumed_keys,
       dragging <- keyDragging, on <- keyOn, held <- keyHeld, known <- keyKnown

Pointer == INSTANCE PointerDelivery
  WITH Owner <- SurfaceOwner, None <- Nothing, surfaces <- ptrSurfaces,
       pointer_surface <- ptrPointer_surface, focused <- ptrFocused,
       pressed_buttons <- ptrPressed_buttons, owned_by <- ptrOwned_by,
       grabbed_popups <- ptrGrabbed_popups, pointers <- ptrPointers, on <- ptrOn,
       late <- ptrLate, robbed <- ptrRobbed, touches <- ptrTouches,
       touch_points <- ptrTouch_points, fingers <- ptrFingers

\* What the constants have to be.
ASSUME DesktopAssumption ==
  /\ Dragging!OwnersAssumption /\ Dragging!NamesAssumption /\ Dragging!KindsAssumption
  /\ Dragging!ActionsAssumption /\ Dragging!BoundAssumption
  /\ Selecting!OwnersAssumption /\ Selecting!NamesAssumption /\ Selecting!KindsAssumption
  /\ Selecting!ActionsAssumption /\ Selecting!BoundAssumption
  /\ OneWindow!WindowsAssumption /\ TwoWindows!WindowsAssumption
  /\ Families!FamiliesAssumption
  /\ Keyboard!KeyboardAssumption
  /\ Pointer!PointerAssumption

ofDragging ==
  <<dndClients, dndMapped, dndDevices, dndSources, dndOffers, dndSelection, dndDrag,
    dndFocus, dndHeld, dndTold, dndEntered, dndAgreed, dndDropped>>
ofSelecting ==
  <<selClients, selMapped, selDevices, selSources, selOffers, selSelection, selDrag,
    selFocus, selHeld, selTold, selEntered, selAgreed, selDropped>>
ofOneWindow ==
  <<oneLive, oneHomed, oneX, oneWidth, oneMaximized, oneFullscreen, oneRestore,
    oneLimits, oneFocused, oneTold, onePointer, onePressed, oneEntitled, oneGrab,
    oneAnchor, oneGrabs>>
ofTwoWindows ==
  <<twoLive, twoHomed, twoX, twoWidth, twoMaximized, twoFullscreen, twoRestore,
    twoLimits, twoFocused, twoTold, twoPointer, twoPressed, twoEntitled, twoGrab,
    twoAnchor, twoGrabs>>
ofFamilies ==
  <<famStack, famParent>>
ofKeyboard ==
  <<keySurfaces, keyToplevels, keyFocused, keyKeyboards, keyPressed_keys,
    keyConsumed_keys, keyDragging, keyOn, keyHeld, keyKnown>>
ofPointer ==
  <<ptrSurfaces, ptrPointer_surface, ptrFocused, ptrPressed_buttons, ptrOwned_by,
    ptrGrabbed_popups, ptrPointers, ptrOn, ptrLate, ptrRobbed, ptrTouches,
    ptrTouch_points, ptrFingers>>

desktop ==
  <<ofDragging, ofSelecting, ofOneWindow, ofTwoWindows, ofFamilies, ofKeyboard,
    ofPointer>>

InitDesktop ==
  /\ Dragging!Init /\ Selecting!Init /\ OneWindow!Init /\ TwoWindows!Init
  /\ Families!Init /\ Keyboard!Init /\ Pointer!Init

DraggingStep ==
  /\ UNCHANGED <<ofSelecting, ofOneWindow, ofTwoWindows, ofFamilies, ofKeyboard,
                  ofPointer>>
  /\ Dragging!Next
SelectingStep ==
  /\ UNCHANGED <<ofDragging, ofOneWindow, ofTwoWindows, ofFamilies, ofKeyboard,
                  ofPointer>>
  /\ Selecting!Next
OneWindowStep ==
  /\ UNCHANGED <<ofDragging, ofSelecting, ofTwoWindows, ofFamilies, ofKeyboard,
                  ofPointer>>
  /\ OneWindow!Next
TwoWindowsStep ==
  /\ UNCHANGED <<ofDragging, ofSelecting, ofOneWindow, ofFamilies, ofKeyboard, ofPointer>>
  /\ TwoWindows!Next
FamiliesStep ==
  /\ UNCHANGED <<ofDragging, ofSelecting, ofOneWindow, ofTwoWindows, ofKeyboard,
                  ofPointer>>
  /\ Families!Next
KeyboardStep ==
  /\ UNCHANGED <<ofDragging, ofSelecting, ofOneWindow, ofTwoWindows, ofFamilies,
                  ofPointer>>
  /\ Keyboard!Next
PointerStep ==
  /\ UNCHANGED <<ofDragging, ofSelecting, ofOneWindow, ofTwoWindows, ofFamilies,
                  ofKeyboard>>
  /\ Pointer!Next

NextDesktop ==
  \/ DraggingStep \/ SelectingStep \/ OneWindowStep \/ TwoWindowsStep
  \/ FamiliesStep \/ KeyboardStep \/ PointerStep

DesktopSpec == InitDesktop /\ [][NextDesktop]_desktop

-----------------------------------------------------------------------------
\* Every part is well typed.
DesktopTypeOK ==
  /\ Dragging!TypeOK /\ Selecting!TypeOK /\ OneWindow!TypeOK /\ TwoWindows!TypeOK
  /\ Families!TypeOK /\ Keyboard!TypeOK /\ Pointer!TypeOK

\* DataTransfer: an offer reads from the source it was made of.
OffersAreCurrent == Dragging!OffersAreCurrent /\ Selecting!OffersAreCurrent

\* DataTransfer: a source hears of its end, and of no other.
SourceFate == Dragging!SourceFate /\ Selecting!SourceFate

\* DataTransfer: whoever may read a selection knows it.
EntitledKnow == Dragging!EntitledKnow /\ Selecting!EntitledKnow

\* DataTransfer: both sides of a drag agree on what it means.
SidesAgree == Dragging!SidesAgree

\* DataTransfer: no client is left believing that a drag is over it.
NobodyLeftEntered == Dragging!NobodyLeftEntered

\* WindowStates: a window's last configure tells it the states it is in.
ToldIsTrue == OneWindow!ToldIsTrue /\ TwoWindows!ToldIsTrue

\* WindowStates: the edge opposite the one that is dragged holds still.
AnchoredEdgeHolds == OneWindow!AnchoredEdgeHolds /\ TwoWindows!AnchoredEdgeHolds

\* ToplevelFamilies: dialogs stay above what they belong to.
DialogsOnTop == Families!DialogsOnTop

\* KeyboardDelivery: the client with the keyboard knows what is down.
TheFocusedClientKnows == Keyboard!TheFocusedClientKnows

\* PointerDelivery: a client knows where the pointer is.
HoversAgree == Pointer!HoversAgree

\* PointerDelivery: a client knows which fingers are down.
FingersAgree == Pointer!FingersAgree
=============================================================================
