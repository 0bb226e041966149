--------------------------- MODULE WindowStates ---------------------------
(* The geometry of the windows of one client, along one axis (the code does
   the same along the other): maximized and fullscreen states, interactive
   moves and resizes, and what each window was last told about itself.

   The compositor owns a window's position and the client its size, which it
   changes by committing buffers, in its own time and as it likes: a size asked
   for is only asked for.  Serials and acknowledgements are in Configures; the
   stack is in ToplevelFamilies. *)
EXTENDS Integers, FiniteSets

CONSTANTS
  Toplevels,         \* each with its xdg_surface and its wl_surface
  Edges,             \* the edges clients resize by, a subset of {"left", "right"}
  Buttons,           \* mouse buttons
  Output,            \* the output, [x, width]
  Usable,            \* what the panels leave of it, [x, width]
  Limits,            \* size hints clients give, each [min, max], 0 for none
  MIN_WINDOW_WIDTH,
  MaxWidth,          \* the widest buffer a client commits
  GrabsAgain,        \* do clients ask for a second grab in one press?
  MaxGrabs,          \* bound on the grabs of a behaviour
  None

VARIABLES
  live,         \* the toplevels that exist
  homed,        \* those the shell has on the output
  x, width,     \* of each window; width 0 while it has no buffer
  maximized, fullscreen,
  restore,      \* [x, width] to go back to, or None
  limits,       \* client_size_limits
  focused,      \* focused_surface
  told,         \* the states in the last configure of each window
  pointer,      \* the pointer's position
  pressed,      \* pressed_buttons
  entitled,     \* last_button_serial: has the client had a press to quote?
  grab,         \* pointer_grab
  anchor,       \* resize_anchor
  grabs         \* grabs started so far (bounded by MaxGrabs)

wins == << live, homed, x, width, maximized, fullscreen, restore, limits >>
hand == << pointer, pressed, entitled, grab, anchor, grabs >>
vars == << wins, hand, focused, told >>

STATES == {"maximized", "fullscreen", "resizing", "activated"}
Geometry == [x : Int, width : Nat]
PointerPositions == Output.x .. (Output.x + Output.width - 1)

-----------------------------------------------------------------------------
(* What a configure says. *)

is_window_state_locked(w) == w \in live /\ (w \in maximized \/ w \in fullscreen)

Resizing(w, g) == g # None /\ g.window = w /\ g.kind = "resize"

\* Mutant: the configure that ends a resize is built before the grab is over.
states_in_the_grab(w) ==
  {s \in STATES :
     \/ s = "maximized" /\ w \in maximized'
     \/ s = "fullscreen" /\ w \in fullscreen'
     \/ s = "resizing" /\ Resizing(w, grab)
     \/ s = "activated" /\ focused' = w}

\* The complete set of states, as they are after the step that sends it.
current_states(w) ==
  {s \in STATES :
     \/ s = "maximized" /\ w \in maximized'
     \/ s = "fullscreen" /\ w \in fullscreen'
     \/ s = "resizing" /\ Resizing(w, grab')
     \/ s = "activated" /\ focused' = w}

\* Configures go out to the windows of ws.
Configure(ws) ==
  told' = [w \in Toplevels |-> IF w \in ws THEN current_states(w) ELSE told[w]]

\* switch_focus and clear_focus (w = None): the window left and the window
\* entered are both told.
Focus(w) == focused' = w

FocusChange(w) == IF focused = w THEN {} ELSE {focused, w} \ {None}

-----------------------------------------------------------------------------
(* Making and unmaking windows. *)

Init ==
  /\ live = {} /\ homed = {} /\ maximized = {} /\ fullscreen = {}
  /\ x = [w \in Toplevels |-> 0]
  /\ width = [w \in Toplevels |-> 0]
  /\ restore = [w \in Toplevels |-> None]
  /\ limits = [w \in Toplevels |-> [min |-> 0, max |-> 0]]
  /\ focused = None
  /\ told = [w \in Toplevels |-> {}]
  /\ pointer = Output.x
  /\ pressed = {} /\ entitled = FALSE /\ grab = None /\ anchor = None
  /\ grabs = 0

\* get_toplevel: the shell places the window, or has nowhere to; the window is
\* configured and takes the focus.
GetToplevel(w) ==
  /\ w \notin live
  /\ live' = live \cup {w}
  /\ homed' \in {homed \ {w}, homed \cup {w}}
  /\ maximized' = maximized \ {w}
  /\ fullscreen' = fullscreen \ {w}
  /\ restore' = [restore EXCEPT ![w] = None]
  /\ limits' = [limits EXCEPT ![w] = [min |-> 0, max |-> 0]]
  /\ Focus(w)
  /\ UNCHANGED << x, width, hand >>
  /\ Configure({w} \cup FocusChange(w))

\* destroy_xdg_toplevel.  A grab of the window is left to the button that
\* ends it.
DestroyToplevel(w) ==
  /\ w \in live
  /\ live' = live \ {w}
  /\ homed' = homed \ {w}
  /\ anchor' = IF anchor # None /\ anchor.window = w THEN None ELSE anchor
  /\ focused' = IF focused = w THEN None ELSE focused
  /\ UNCHANGED << x, width, maximized, fullscreen, restore, limits, told,
                  pointer, pressed, entitled, grab, grabs >>

\* set_min_size and set_max_size take effect at once.
SetSizeHint(w, l) ==
  /\ w \in live /\ limits[w] # l
  /\ limits' = [limits EXCEPT ![w] = l]
  /\ UNCHANGED << live, homed, x, width, maximized, fullscreen, restore, hand,
                  focused, told >>

\* An output that vanishes leaves a window homeless until the shell finds it a
\* place (external: the shell's outputs_changed and housekeeping).
Rehome(w) ==
  /\ w \in live
  /\ homed' = IF w \in homed THEN homed \ {w} ELSE homed \cup {w}
  /\ UNCHANGED << live, x, width, maximized, fullscreen, restore, limits, hand,
                  focused, told >>

-----------------------------------------------------------------------------
(* Window states. *)

Dragged(w) == grab # None /\ grab.window = w

\* Mutant: a window that fills its output is still dragged.
KeepGrabOf(w) == grab' = grab

\* set_window_state, which takes the window from a drag whatever comes of it.
DropGrabOf(w) == grab' = IF Dragged(w) THEN None ELSE grab

Unchanging(w, m, f) == (w \in maximized) = m /\ (w \in fullscreen) = f

WithOut(S, w, in) == IF in THEN S \cup {w} ELSE S \ {w}

\* Nothing to do, but the client is owed an answer.
AnswerUnchanged(w, m, f) ==
  /\ Unchanging(w, m, f)
  /\ UNCHANGED << x, maximized, fullscreen, restore, grab >>

\* Nowhere to fill.
AnswerHomeless(w, m, f) ==
  /\ ~Unchanging(w, m, f) /\ (m \/ f) /\ w \notin homed
  /\ DropGrabOf(w)
  /\ UNCHANGED << x, maximized, fullscreen, restore >>

\* Fullscreen covers the output, maximized what the panels leave.  The way
\* back is taken down only on the way in from a normal window.
Fill(w, m, f) ==
  /\ ~Unchanging(w, m, f) /\ (m \/ f) /\ w \in homed
  /\ DropGrabOf(w)
  /\ restore' = IF is_window_state_locked(w) THEN restore
                ELSE [restore EXCEPT ![w] = [x |-> x[w], width |-> width[w]]]
  /\ x' = [x EXCEPT ![w] = IF f THEN Output.x ELSE Usable.x]
  /\ maximized' = WithOut(maximized, w, m)
  /\ fullscreen' = WithOut(fullscreen, w, f)

GoBack(w, m, f) ==
  /\ ~Unchanging(w, m, f) /\ ~m /\ ~f
  /\ DropGrabOf(w)
  /\ maximized' = maximized \ {w}
  /\ fullscreen' = fullscreen \ {w}
  /\ x' = IF restore[w] = None THEN x ELSE [x EXCEPT ![w] = restore[w].x]
  /\ restore' = [restore EXCEPT ![w] = None]

\* set_maximized and its three relatives: one of the two states is named, the
\* other stays.  Every way it goes, a configure goes out.
SetState(w, m, f) ==
  /\ w \in live
  /\ (w \in maximized) = m \/ (w \in fullscreen) = f
  /\ \/ AnswerUnchanged(w, m, f)
     \/ AnswerHomeless(w, m, f)
     \/ Fill(w, m, f)
     \/ GoBack(w, m, f)
  /\ UNCHANGED << live, homed, width, limits, focused, pointer, pressed, entitled,
                  anchor, grabs >>
  /\ Configure({w})

-----------------------------------------------------------------------------
(* Grabs. *)

\* grab_target and the guards both grabs share: a button is down and the
\* client quotes its last press.
MayGrab(w) ==
  /\ w \in live /\ pressed # {} /\ entitled
  /\ ~is_window_state_locked(w)
  /\ grab # None => GrabsAgain
  /\ grabs < MaxGrabs

Move(w) ==
  /\ MayGrab(w)
  /\ anchor' = None
  /\ grab' = [window |-> w, kind |-> "move", offset |-> x[w] - pointer]
  /\ grabs' = grabs + 1
  /\ UNCHANGED << wins, pointer, pressed, entitled, focused, told >>

Resize(w, e) ==
  /\ MayGrab(w) /\ width[w] > 0
  /\ grab' = [window |-> w, kind |-> "resize", edge |-> e, from |-> pointer,
              start |-> width[w], sent |-> width[w]]
  /\ anchor' = IF e = "left" THEN [window |-> w, right |-> x[w] + width[w]] ELSE None
  /\ grabs' = grabs + 1
  /\ UNCHANGED << wins, pointer, pressed, entitled, focused, told >>

Larger(a, b) == IF a > b THEN a ELSE b
Smaller(a, b) == IF a < b THEN a ELSE b

\* resize_limits: the client's minimum wins over its own maximum, and neither
\* goes below the compositor's floor.
Clamped(w, n) ==
  LET least == Larger(MIN_WINDOW_WIDTH, limits[w].min)
      capped == IF limits[w].max > 0 THEN Smaller(n, Larger(limits[w].max, least)) ELSE n
  IN  Larger(capped, least)

Wanted(p) ==
  Clamped(grab.window, IF grab.edge = "right" THEN grab.start + (p - grab.from)
                       ELSE grab.start - (p - grab.from))

\* The pointer moves: update_grab has it, and otherwise the window on top is
\* given the focus if nothing has it.
DragMove(p) ==
  /\ grab # None /\ grab.kind = "move"
  /\ x' = [x EXCEPT ![grab.window] = p + grab.offset]
  /\ UNCHANGED << grab, focused, told >>

\* Asks for the size; the position is left to the commits that follow.
DragResize(p) ==
  /\ grab # None /\ grab.kind = "resize"
  /\ LET n == Wanted(p) IN
       /\ grab' = [grab EXCEPT !.sent = n]
       /\ UNCHANGED << x, focused >>
       /\ Configure(IF n = grab.sent THEN {} ELSE {grab.window} \cap live)

Hover(p) ==
  /\ grab = None
  /\ UNCHANGED << x, grab >>
  /\ IF focused = None /\ homed # {}
       THEN \E w \in homed : Focus(w) /\ Configure({w})
       ELSE UNCHANGED << focused, told >>

MovePointer(p) ==
  /\ p # pointer
  /\ pointer' = p
  /\ UNCHANGED << live, homed, width, maximized, fullscreen, restore, limits,
                  pressed, entitled, anchor, grabs >>
  /\ DragMove(p) \/ DragResize(p) \/ Hover(p)

\* A press with no grab goes to what is under the pointer: a window of this
\* client, which the shell may focus, or something else.
Press(b) ==
  /\ b \notin pressed
  /\ pressed' = pressed \cup {b}
  /\ UNCHANGED << wins, pointer, grab, anchor, grabs >>
  /\ \/ /\ grab = None
        /\ entitled' = TRUE
        /\ \E w \in {v \in homed : x[v] <= pointer /\ pointer < x[v] + width[v]} :
             \E f \in {focused, w} : Focus(f) /\ Configure(FocusChange(f))
     \/ UNCHANGED << focused, told, entitled >>

\* end_grab: any button up ends the grab, and a resized client is told so.
Release(b) ==
  /\ b \in pressed
  /\ pressed' = pressed \ {b}
  /\ grab' = None
  /\ UNCHANGED << wins, focused, pointer, entitled, anchor, grabs >>
  /\ Configure({w \in live : Resizing(w, grab)})

\* A commit with a buffer of width n, or with none, and apply_resize_anchor:
\* the anchored edge is put back where it was, until the grab is over and one
\* more commit has landed.
Commit(w, n) ==
  /\ width' = [width EXCEPT ![w] = n]
  /\ IF anchor # None /\ anchor.window = w /\ n > 0
       THEN /\ x' = [x EXCEPT ![w] = anchor.right - n]
            /\ anchor' = IF grab = None THEN None ELSE anchor
       ELSE UNCHANGED << x, anchor >>
  /\ UNCHANGED << live, homed, maximized, fullscreen, restore, limits, pointer,
                  pressed, entitled, grab, grabs, focused, told >>

\* The focus goes nowhere (external: the shell's decision).
clear_focus ==
  /\ focused # None
  /\ Focus(None)
  /\ UNCHANGED << wins, hand >>
  /\ Configure(FocusChange(None))

Next ==
  \/ \E w \in Toplevels :
       \/ GetToplevel(w) \/ DestroyToplevel(w) \/ Rehome(w) \/ Move(w)
       \/ \E l \in Limits : SetSizeHint(w, l)
       \/ \E m, f \in BOOLEAN : SetState(w, m, f)
       \/ \E e \in Edges : Resize(w, e)
       \/ \E n \in 0 .. MaxWidth : Commit(w, n)
  \/ \E p \in PointerPositions : MovePointer(p)
  \/ \E b \in Buttons : Press(b) \/ Release(b)
  \/ clear_focus

Spec == Init /\ [][Next]_vars

-----------------------------------------------------------------------------
Grabs ==
  [window : Toplevels, kind : {"move"}, offset : Int]
    \cup [window : Toplevels, kind : {"resize"}, edge : Edges, from : Int,
          start : Nat, sent : Nat]

\* What the constants are; an output is never without width (connector modes).
WindowsAssumption ==
  /\ None \notin Toplevels /\ None \notin Grabs
  /\ Output \in Geometry /\ Output.width > 0 /\ Usable \in Geometry
  /\ Limits \subseteq [min : Nat, max : Nat]
  /\ MIN_WINDOW_WIDTH \in Nat /\ MaxWidth \in Nat /\ MaxGrabs \in Nat

\* Every variable has its type.
TypeOK ==
  /\ live \subseteq Toplevels /\ homed \subseteq live
  /\ maximized \subseteq Toplevels /\ fullscreen \subseteq Toplevels
  /\ x \in [Toplevels -> Int] /\ width \in [Toplevels -> 0 .. MaxWidth]
  /\ restore \in [Toplevels -> Geometry \cup {None}]
  /\ limits \in [Toplevels -> [min : Nat, max : Nat]]
  /\ focused \in Toplevels \cup {None}
  /\ told \in [Toplevels -> SUBSET STATES]
  /\ pointer \in PointerPositions /\ pressed \subseteq Buttons
  /\ entitled \in BOOLEAN
  /\ grab \in Grabs \cup {None}
  /\ anchor \in [window : Toplevels, right : Int] \cup {None}
  /\ grabs \in 0 .. MaxGrabs

\* A window's last configure tells it the states it is in: every change of
\* state, of focus or of grab that a window can see reaches it, whatever order
\* they come in (current_states, and its callers).
ToldIsTrue ==
  \A w \in live :
    /\ told[w] \ {"resizing"} =
         {s \in STATES : \/ s = "maximized" /\ w \in maximized
                         \/ s = "fullscreen" /\ w \in fullscreen
                         \/ s = "activated" /\ focused = w}
    /\ "resizing" \in told[w] => Resizing(w, grab)

\* While a left or top edge is dragged the opposite edge holds still, whatever
\* sizes the client commits and however late (apply_resize_anchor); no grab is
\* of a window that fills its output (start_*_grab, set_window_state).
AnchoredEdgeHolds ==
  /\ grab # None /\ anchor # None =>
       /\ Resizing(anchor.window, grab)
       /\ width[anchor.window] > 0 =>
            x[anchor.window] + width[anchor.window] = anchor.right
  /\ grab # None => ~is_window_state_locked(grab.window)
=============================================================================
