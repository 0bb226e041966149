------------------------------- MODULE Popups -------------------------------
(* The popups of one client: menus hung off a window, off a panel and off each
   other, placed by positioners, grabbing the pointer and dismissed by a click
   outside (src/protocol/xdg_popup.rs, xdg_surface.rs get_popup,
   zwlr_layer_surface.rs get_popup, src/input.rs).

   A popup stands for its xdg_surface and its wl_surface, which a client makes
   and destroys with it.  It grabs and destroys popups as the protocol has it:
   the topmost first.  Cycles among surfaces are the subject of SurfaceTree,
   serials of Configures; places are along one axis (Positioner). *)
EXTENDS Positioner, Sequences, SequencesExt

CONSTANTS
  Popups,
  Root,           \* the window, or the panel, popups hang off
  Positioners,    \* what clients make of the positioner, a subset of Positioner
  OutputWidth,
  MaxWindowX,     \* how far right the window goes
  MaxWidth,       \* the widest buffer a client commits
  None

\* What the constants are.
PopupsAssumption ==
  /\ Root \notin Popups /\ None \notin Popups \cup {Root}
  /\ Positioners \subseteq Positioner
  /\ OutputWidth \in Nat /\ MaxWindowX \in Nat /\ MaxWidth \in Nat

VARIABLES
  popups,       \* state.xdg_popups
  parent,       \* the parent of the popup's surface, or None
  named,        \* parent_xdg_surface_id, None for null
  positioner,   \* the client's positioner, or None when it is destroyed
  told,         \* what each popup was last told: its place
  given,        \* what it was placed by, or None: the positioner, where its
                \* parent was, and whether that was on the output
  width,        \* of the buffers popups have committed, 0 for none
  windowX,      \* the position of Root
  grabbed,      \* grabbed_popups
  done          \* popups told popup_done

vars == << popups, parent, named, positioner, told, given, width, windowX,
           grabbed, done >>

Init ==
  /\ popups = {} /\ grabbed = << >> /\ done = {}
  /\ parent = [p \in Popups |-> None]
  /\ named = [p \in Popups |-> None]
  /\ positioner = None
  /\ told = [p \in Popups |-> [x |-> 0, width |-> 1]]
  /\ given = [p \in Popups |-> None]
  /\ width = [p \in Popups |-> 0]
  /\ windowX = 0

\* The popups and the root on the way up from p, p included.
Upwards[p \in Popups \cup {Root}] ==
  {p} \cup IF p = Root \/ parent[p] = None THEN {} ELSE Upwards[parent[p]]

\* global_position_of
GlobalX[p \in Popups \cup {Root}] ==
  IF p = Root THEN windowX
  ELSE told[p].x + IF parent[p] = None THEN 0 ELSE GlobalX[parent[p]]

\* Is p on the output: does it hang off the root?
Shown(p) == Root \in Upwards[p]

\* Mutant: a popup is kept on the output as the parent sees it now, whatever
\* size the client says the parent is about to have.
AvailableNow(par) ==
  {r \in {[origin |-> 0 - GlobalX[par], extent |-> OutputWidth]} : Shown(par)}

\* The region place_popup keeps a popup of par inside: the size its client says
\* par is about to have; or the output, as par sees it; or none, while par hangs
\* off nothing.
Available(par) ==
  IF positioner.parentWidth > 0
  THEN {[origin |-> 0, extent |-> positioner.parentWidth]}
  ELSE {r \in {[origin |-> 0 - GlobalX[par], extent |-> OutputWidth]} : Shown(par)}

\* place_popup; without a positioner the popup is put at the parent's corner.
place_popup(p, par) ==
  \/ /\ positioner = None
     /\ told' = [told EXCEPT ![p] = [x |-> 0, width |-> 1]]
     /\ given' = [given EXCEPT ![p] = None]
  \/ /\ positioner # None
     /\ \/ /\ Available(par) = {}
           /\ told' = [told EXCEPT ![p] = [x |-> first_choice(positioner),
                                          width |-> positioner.width]]
        \/ \E r \in Available(par) : told' = [told EXCEPT ![p] = place(positioner, r)]
     /\ given' = [given EXCEPT ![p] = [pos |-> positioner, at |-> GlobalX[par],
                                      shown |-> Shown(par)]]

\* create_positioner and the setters, up to a request that uses the result.
SetPositioner(pos) ==
  /\ positioner' = pos
  /\ UNCHANGED << popups, parent, named, told, given, width, windowX, grabbed, done >>

\* xdg_surface.get_popup, with a parent or with none.
GetPopup(p, par) ==
  /\ p \notin popups
  /\ par = None \/ par = Root \/ par \in popups
  /\ par # None => p \notin Upwards[par]
  /\ popups' = popups \cup {p}
  /\ parent' = [parent EXCEPT ![p] = par]
  /\ named' = [named EXCEPT ![p] = par]
  /\ width' = [width EXCEPT ![p] = 0]
  /\ done' = done \ {p}
  /\ IF par # None THEN place_popup(p, par)
     ELSE /\ told' = [told EXCEPT ![p] = [x |-> 0, width |-> 1]]
          /\ given' = [given EXCEPT ![p] = None]
  /\ UNCHANGED << positioner, windowX, grabbed >>

\* zwlr_layer_surface.get_popup: a popup made with a null parent is adopted
\* once.
Adopt(p) ==
  /\ p \in popups /\ parent[p] = None
  /\ parent' = [parent EXCEPT ![p] = Root]
  /\ place_popup(p, Root)
  /\ UNCHANGED << popups, named, positioner, width, windowX, grabbed, done >>

\* reposition: the parent is the one get_popup named, so that of an adopted
\* popup is not found, and its client hears nothing.
Reposition(p) ==
  /\ p \in popups /\ positioner # None
  /\ named[p] = Root \/ named[p] \in popups
  /\ place_popup(p, named[p])
  /\ UNCHANGED << popups, parent, named, positioner, width, windowX, grabbed, done >>

\* Those of the grabs that stay, in their order.
Left(staying) ==
  [i \in 1 .. Cardinality(staying) |->
     grabbed[CHOOSE j \in staying : Cardinality({k \in staying : k <= j}) = i]]

\* xdg_popup.destroy, of a popup no other hangs off.
DestroyPopup(p) ==
  /\ p \in popups
  /\ \A q \in popups : parent[q] # p
  /\ popups' = popups \ {p}
  /\ parent' = [parent EXCEPT ![p] = None]
  /\ grabbed' = Left({i \in DOMAIN grabbed : grabbed[i] # p})
  /\ UNCHANGED << named, positioner, told, given, width, windowX, done >>

\* xdg_popup.grab, by a popup of the window or of the topmost that grabs.
Grab(p) ==
  /\ p \in popups /\ p \notin Range(grabbed) \cup done
  /\ parent[p] = IF grabbed = << >> THEN Root ELSE Last(grabbed)
  /\ grabbed' = Append(grabbed, p)
  /\ UNCHANGED << popups, parent, named, positioner, told, given, width, windowX, done >>

Under(p, at) == GlobalX[p] <= at /\ at < GlobalX[p] + width[p]

\* Mutant: every grab that is not under the pointer goes.
StayingUnder(at) == {i \in DOMAIN grabbed : Under(grabbed[i], at)}

\* dismiss_popups_outside_click: what stays of the grabs is what is at or below
\* the topmost one under the pointer.
Staying(at) ==
  LET hit == {i \in DOMAIN grabbed : Under(grabbed[i], at)}
  IN  {i \in DOMAIN grabbed : \E j \in hit : i <= j}

Press(at) ==
  /\ grabbed # << >>
  /\ grabbed' = Left(Staying(at))
  /\ done' = done \cup {grabbed[i] : i \in DOMAIN grabbed \ Staying(at)}
  /\ UNCHANGED << popups, parent, named, positioner, told, given, width, windowX >>

\* A commit gives a popup its size; the client may draw another than it was told.
Commit(p, n) ==
  /\ p \in popups /\ width[p] # n
  /\ width' = [width EXCEPT ![p] = n]
  /\ UNCHANGED << popups, parent, named, positioner, told, given, windowX, grabbed, done >>

\* The window is moved (module WindowStates); its popups go with it.
MoveWindow(x) ==
  /\ windowX # x
  /\ windowX' = x
  /\ UNCHANGED << popups, parent, named, positioner, told, given, width, grabbed, done >>

Next ==
  \/ \E pos \in Positioners \cup {None} : SetPositioner(pos)
  \/ \E p \in Popups :
       \/ \E par \in Popups \cup {Root, None} : GetPopup(p, par)
       \/ Adopt(p) \/ Reposition(p) \/ DestroyPopup(p) \/ Grab(p)
       \/ \E n \in 0 .. MaxWidth : Commit(p, n)
  \/ \E at \in 0 .. OutputWidth - 1 : Press(at)
  \/ \E x \in 0 .. MaxWindowX : MoveWindow(x)

Spec == Init /\ [][Next]_vars

-----------------------------------------------------------------------------
Given == [pos : Positioner, at : Int, shown : BOOLEAN]

\* Every variable has its type.
TypeOK ==
  /\ popups \subseteq Popups /\ done \subseteq Popups
  /\ grabbed \in Seq(popups)
  /\ parent \in [Popups -> Popups \cup {Root, None}]
  /\ named \in [Popups -> Popups \cup {Root, None}]
  /\ positioner \in Positioner \cup {None}
  /\ told \in [Popups -> Place]
  /\ given \in [Popups -> Given \cup {None}]
  /\ width \in [Popups -> 0 .. MaxWidth]
  /\ windowX \in 0 .. MaxWindowX

\* Wherever the window and the other popups were when a popup was placed, and
\* whoever named its parent, it went where its client's positioner allows: inside
\* the size its client said the parent was about to have, if it said so, else on
\* screen, both as far as the positioner asks for that; and to the client's own
\* choice if there was no screen to mind (xdg_positioner::place, place_popup).
PlacedAsAllowed ==
  \A p \in popups : given[p] # None =>
    LET pos == given[p].pos IN
      /\ pos.parentWidth > 0 =>
           Kept(pos, [origin |-> 0, extent |-> pos.parentWidth], told[p])
      /\ pos.parentWidth = 0 /\ given[p].shown =>
           Kept(pos, [origin |-> 0 - given[p].at, extent |-> OutputWidth], told[p])
      /\ pos.parentWidth = 0 /\ ~ given[p].shown =>
           told[p] = [x |-> first_choice(pos), width |-> pos.width]

\* Menus close from the top: none is dismissed while a submenu of it still has
\* the grab (dismiss_popups_outside_click, xdg_popup.destroy).
ClosedFromTheTop ==
  \A p \in Range(grabbed) : Upwards[p] \cap (done \cup (Popups \ popups)) = {}
=============================================================================
