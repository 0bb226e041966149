-------------------------- MODULE PointerDelivery --------------------------
(* The pointer and the fingers: which surface a client believes they are on
   (deliver_pointer_motion and the touch functions of src/input.rs, the
   MouseButton arm of src/run.rs, release_pointer_to_grab in
   src/state/compositor_state.rs, src/protocol/wl_pointer.rs,
   src/protocol/wl_touch.rs, src/protocol/wl_seat.rs).  Where a hit test lands
   is any surface there is, or none: windows move and map under the pointer. *)
EXTENDS FiniteSets

CONSTANTS
  Surfaces, Clients,
  Owner,        \* whose each surface is
  Toplevel,     \* the window each belongs to
  Buttons, Fingers,
  None

\* What the constants have to be.
PointerAssumption ==
  /\ Owner \in [Surfaces -> Clients]
  /\ None \notin Surfaces

VARIABLES
  surfaces,         \* wl_surfaces there are
  pointer_surface, focused,
  pressed_buttons,
  owned_by,         \* "grab" or "drag" while one owns the pointer, else None
  grabbed_popups,   \* is a menu open that a press outside dismisses?
  pointers,         \* clients with a wl_pointer
  on,               \* the surface a client last heard an enter for, None after a leave
  late,             \* clients that asked for their pointer with it over them already
  robbed,           \* clients whose pointer a press gave to another
  touches,          \* clients with a wl_touch
  touch_points,     \* the surface each finger went down on
  fingers           \* the fingers a client believes are down

ptr_vars   == << pointers, on, late, robbed >>
touch_vars == << touches, touch_points, fingers >>
vars == << surfaces, pointer_surface, focused, pressed_buttons, owned_by,
           grabbed_popups, ptr_vars, touch_vars >>

Init ==
  /\ surfaces = {} /\ pointer_surface = None /\ focused = None
  /\ pressed_buttons = {} /\ owned_by = None /\ grabbed_popups = FALSE
  /\ pointers = {} /\ on = [c \in Clients |-> None] /\ late = {} /\ robbed = {}
  /\ touches = {} /\ touch_points = [f \in Fingers |-> None]
  /\ fingers = [c \in Clients |-> {}]

ClientOf(s) == IF s = None THEN {} ELSE {Owner[s]}

\* What hit_test can find: the window of a surface is there with it.
hit_test == {s \in surfaces : Toplevel[s] \in surfaces} \cup {None}

windows == {Toplevel[s] : s \in surfaces} \cap surfaces

\* Mutant: the client under the pointer changes and the old one is not told.
enter_without_leave(s) ==
  /\ pointer_surface' = s
  /\ on' = [c \in Clients |-> IF c \in ClientOf(s) \cap pointers /\ s # pointer_surface THEN s
                              ELSE on[c]]
  /\ late' = late \ (ClientOf(s) \cup ClientOf(pointer_surface))
  /\ UNCHANGED robbed

\* A leave to the old surface's client and an enter to the new one's.
leave_and_enter(s) ==
  IF s = pointer_surface THEN UNCHANGED << pointer_surface, on, late, robbed >>
  ELSE /\ pointer_surface' = s
       /\ on' = [c \in Clients |-> IF c \in ClientOf(s) \cap pointers THEN s
                                   ELSE IF c \in ClientOf(pointer_surface) THEN None ELSE on[c]]
       /\ late' = late \ (ClientOf(s) \cup ClientOf(pointer_surface))
       /\ robbed' = robbed \ (ClientOf(s) \cup ClientOf(pointer_surface))

\* A press that found another surface under the pointer than the last motion
\* did: an enter, and no leave to whoever had it.
enter_by_press(s) ==
  IF s = pointer_surface THEN UNCHANGED << pointer_surface, on, late, robbed >>
  ELSE /\ pointer_surface' = s
       /\ on' = [c \in Clients |-> IF c \in ClientOf(s) \cap pointers THEN s ELSE on[c]]
       /\ late' = late \ ClientOf(s)
       /\ robbed' = (robbed \cup ClientOf(pointer_surface)) \ ClientOf(s)

\* switch_focus, clear_focus or neither, as the shell decides in a hook.
ShellDecides ==
  focused' \in {focused, None} \cup windows

-----------------------------------------------------------------------------
CreateSurface(s) ==
  /\ s \notin surfaces /\ Toplevel[s] \in surfaces \cup {s}
  /\ surfaces' = surfaces \cup {s}
  /\ UNCHANGED << pointer_surface, focused, pressed_buttons, owned_by, grabbed_popups,
                  ptr_vars, touch_vars >>

\* Mutant: the fingers that are on a destroyed surface stay there.
fingers_left(gone) == touch_points

\* touch_points.retain.
fingers_kept(gone) == [f \in Fingers |-> IF touch_points[f] \in gone THEN None ELSE touch_points[f]]

\* destroy_surface of each: no leave, as the client knows what it destroyed.
forget_surfaces(gone) ==
  /\ surfaces' = surfaces \ gone
  /\ pointer_surface' = IF pointer_surface \in gone THEN None ELSE pointer_surface
  /\ focused' = IF focused \in gone THEN None ELSE focused
  /\ touch_points' = fingers_kept(gone)
  /\ fingers' = [c \in Clients |-> {f \in fingers[c] : touch_points[f] \notin gone}]

\* A drag ends if it started from the surface; a grab does not.
DestroySurface(s) ==
  /\ s \in surfaces
  /\ forget_surfaces({s})
  /\ owned_by' \in {owned_by} \cup IF owned_by = "drag" THEN {None} ELSE {}
  /\ on' = [c \in Clients |-> IF on[c] = s THEN None ELSE on[c]]
  /\ late' = IF s = pointer_surface THEN late \ {Owner[s]} ELSE late
  /\ robbed' = {c \in robbed : on'[c] # None}
  /\ UNCHANGED << pressed_buttons, grabbed_popups, pointers, touches >>

\* remove_client_resources; a grab of the client's window ends, and a drag it began.
ClientGone(c) ==
  /\ forget_surfaces({s \in surfaces : Owner[s] = c})
  /\ pointers' = pointers \ {c} /\ touches' = touches \ {c}
  /\ on' = [on EXCEPT ![c] = None] /\ late' = late \ {c} /\ robbed' = robbed \ {c}
  /\ grabbed_popups' \in {grabbed_popups, FALSE} /\ owned_by' \in {owned_by, None}
  /\ UNCHANGED pressed_buttons

\* handle_get_pointer tells a client nothing, though the pointer be over it.
GetPointer(c) ==
  /\ c \notin pointers
  /\ pointers' = pointers \cup {c}
  /\ late' = late \cup (ClientOf(pointer_surface) \cap {c})
  /\ UNCHANGED << surfaces, pointer_surface, focused, pressed_buttons, owned_by,
                  grabbed_popups, on, robbed, touch_vars >>

ReleasePointer(c) ==
  /\ c \in pointers
  /\ pointers' = pointers \ {c}
  /\ on' = [on EXCEPT ![c] = None] /\ late' = late \ {c} /\ robbed' = robbed \ {c}
  /\ UNCHANGED << surfaces, pointer_surface, focused, pressed_buttons, owned_by,
                  grabbed_popups, touch_vars >>

-----------------------------------------------------------------------------
\* deliver_pointer_motion.  With nothing focused the top window is, when there
\* is one.
PointerMoved ==
  /\ \/ /\ owned_by # None
        /\ UNCHANGED << focused, pointer_surface, on, late, robbed >>
     \/ /\ owned_by = None
        /\ focused' \in IF focused = None THEN {None} \cup windows
                        ELSE {focused}
        /\ \E s \in hit_test : leave_and_enter(s)
  /\ UNCHANGED << surfaces, pressed_buttons, owned_by, grabbed_popups, pointers, touch_vars >>

\* release_pointer_to_grab, from start_move_grab, start_resize_grab and start_drag.
taken_by(owner) ==
  /\ owned_by' = owner
  /\ leave_and_enter(None)

\* xdg_toplevel.move and resize: also with a grab already, never in a drag.
StartGrab ==
  /\ pressed_buttons # {} /\ owned_by # "drag"
  /\ taken_by("grab")
  /\ UNCHANGED << surfaces, focused, pressed_buttons, grabbed_popups, pointers, touch_vars >>

StartDrag ==
  /\ pressed_buttons # {} /\ owned_by = None
  /\ taken_by("drag")
  /\ UNCHANGED << surfaces, focused, pressed_buttons, grabbed_popups, pointers, touch_vars >>

\* A grab or a drag ends before its button comes up, and the pointer is nowhere
\* until it next moves: set_window_state of the window that is grabbed, cancel_drag
\* on Escape, and a dragged source that is destroyed.
LetGo ==
  /\ owned_by # None
  /\ owned_by' = None
  /\ UNCHANGED << surfaces, pointer_surface, focused, pressed_buttons, grabbed_popups,
                  ptr_vars, touch_vars >>

\* A grab or a drag swallows every press.  Otherwise, in this order, the shell
\* takes it, perhaps to start a grab; it dismisses menus it is outside of; or
\* the shell hears of a click on another window and the button is delivered.
Press(b) ==
  /\ b \notin pressed_buttons
  /\ pressed_buttons' = pressed_buttons \cup {b}
  /\ \/ /\ owned_by # None
        /\ UNCHANGED << owned_by, focused, pointer_surface, on, late, robbed, grabbed_popups >>
     \/ /\ owned_by = None
        /\ ShellDecides
        /\ taken_by("grab") \/ UNCHANGED << owned_by, pointer_surface, on, late, robbed >>
        /\ UNCHANGED grabbed_popups
     \/ /\ owned_by = None /\ grabbed_popups
        /\ grabbed_popups' \in BOOLEAN
        /\ UNCHANGED << owned_by, focused, pointer_surface, on, late, robbed >>
     \/ /\ owned_by = None
        /\ \E s \in hit_test :
             IF s = None \/ focused = Toplevel[s]
             THEN UNCHANGED << focused, pointer_surface, on, late, robbed >>
             ELSE ShellDecides /\ enter_by_press(s)
        /\ UNCHANGED << owned_by, grabbed_popups >>
  /\ UNCHANGED << surfaces, pointers, touch_vars >>

\* end_grab or finish_drag, or a button delivered where the pointer is.
Release(b) ==
  /\ b \in pressed_buttons
  /\ pressed_buttons' = pressed_buttons \ {b}
  /\ owned_by' = None
  /\ UNCHANGED << surfaces, pointer_surface, focused, grabbed_popups, ptr_vars, touch_vars >>

\* xdg_popup.grab; and its menu closing.
Menu ==
  /\ grabbed_popups' = ~grabbed_popups
  /\ UNCHANGED << surfaces, pointer_surface, focused, pressed_buttons, owned_by,
                  ptr_vars, touch_vars >>

-----------------------------------------------------------------------------
GetTouch(c) ==
  /\ c \notin touches
  /\ touches' = touches \cup {c}
  /\ UNCHANGED << surfaces, pointer_surface, focused, pressed_buttons, owned_by,
                  grabbed_popups, ptr_vars, touch_points, fingers >>

ReleaseTouch(c) ==
  /\ c \in touches
  /\ touches' = touches \ {c}
  /\ fingers' = [fingers EXCEPT ![c] = {}]
  /\ UNCHANGED << surfaces, pointer_surface, focused, pressed_buttons, owned_by,
                  grabbed_popups, ptr_vars, touch_points >>

\* touch_down on a surface; a finger on nothing is not recorded.
TouchDown(f, s) ==
  /\ touch_points[f] = None /\ s \in hit_test \ {None}
  /\ ShellDecides
  /\ touch_points' = [touch_points EXCEPT ![f] = s]
  /\ fingers' = [c \in Clients |-> IF c \in ClientOf(s) \cap touches THEN fingers[c] \cup {f}
                                   ELSE fingers[c]]
  /\ UNCHANGED << surfaces, pointer_surface, pressed_buttons, owned_by, grabbed_popups,
                  ptr_vars, touches >>

\* Mutant: a lift goes to the focused window.
lifted_over(f) == IF focused \in surfaces THEN focused ELSE touch_points[f]

\* Whose finger it is: the surface it went down on, wherever it has moved.
lifted_from(f) == touch_points[f]

TouchUp(f) ==
  /\ touch_points[f] # None
  /\ touch_points' = [touch_points EXCEPT ![f] = None]
  /\ fingers' = [c \in Clients |-> IF c \in ClientOf(lifted_from(f)) \cap touches
                                   THEN fingers[c] \ {f} ELSE fingers[c]]
  /\ UNCHANGED << surfaces, pointer_surface, focused, pressed_buttons, owned_by,
                  grabbed_popups, ptr_vars, touches >>

\* Every client with a finger down hears the whole sequence is void.
TouchCancel ==
  LET told == (UNION {ClientOf(touch_points[f]) : f \in Fingers}) \cap touches
  IN  /\ touch_points' = [f \in Fingers |-> None]
      /\ fingers' = [c \in Clients |-> IF c \in told THEN {} ELSE fingers[c]]
      /\ UNCHANGED << surfaces, pointer_surface, focused, pressed_buttons, owned_by,
                      grabbed_popups, ptr_vars, touches >>

Next ==
  \/ \E s \in Surfaces : CreateSurface(s) \/ DestroySurface(s)
  \/ \E c \in Clients : \/ ClientGone(c) \/ GetPointer(c) \/ ReleasePointer(c)
                        \/ GetTouch(c) \/ ReleaseTouch(c)
  \/ PointerMoved \/ StartGrab \/ StartDrag \/ LetGo \/ Menu
  \/ \E b \in Buttons : Press(b) \/ Release(b)
  \/ \E f \in Fingers : TouchUp(f) \/ \E s \in Surfaces : TouchDown(f, s)
  \/ TouchCancel

Spec == Init /\ [][Next]_vars

-----------------------------------------------------------------------------
\* Every variable has its type.
TypeOK ==
  /\ surfaces \subseteq Surfaces
  /\ pointer_surface \in surfaces \cup {None} /\ focused \in surfaces \cup {None}
  /\ pressed_buttons \subseteq Buttons /\ owned_by \in {"grab", "drag", None}
  /\ grabbed_popups \in BOOLEAN /\ late \subseteq pointers /\ robbed \subseteq Clients
  /\ on \in [Clients -> Surfaces \cup {None}]
  /\ touch_points \in [Fingers -> surfaces \cup {None}]
  /\ fingers \in [Clients -> SUBSET Fingers]

\* A client's pointer is where the compositor has it, through motion, clicks,
\* grabs, drags and surfaces destroyed under it, and no other client keeps a
\* hover; except a client that asked for its pointer late, and one a press took
\* it from (deliver_pointer_motion, release_pointer_to_grab).
HoversAgree ==
  \A c \in pointers \ (late \cup robbed) :
    on[c] = IF c \in ClientOf(pointer_surface) THEN pointer_surface ELSE None

\* No client is left with a finger that has lifted, was cancelled or was on
\* another's surface: what it believes is down is on a surface of its own
\* (touch_up, touch_cancel, destroy_surface).
FingersAgree ==
  \A c \in Clients : \A f \in fingers[c] : c \in ClientOf(touch_points[f])
=============================================================================
