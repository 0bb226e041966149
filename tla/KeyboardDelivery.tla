-------------------------- MODULE KeyboardDelivery --------------------------
(* Keyboard focus, and what a client believes of it: which surface has the
   keyboard, which keys are down and which modifiers apply (switch_focus and
   clear_focus in src/input.rs, the KeyInput arm of src/run.rs,
   src/protocol/wl_keyboard.rs, handle_get_keyboard in
   src/protocol/wl_seat.rs, KeyCombo in src/keys.rs). *)
EXTENDS FiniteSets

CONSTANTS
  Windows,     \* surfaces that can have the keyboard
  Clients,
  Owner,       \* whose each window is
  Keys,
  Modifiers,   \* the keys among them that are modifiers
  KeyCombos,   \* the shell's bindings, [modifiers, key]
  None

\* What the constants have to be: every window has an owner, and no key that
\* is consumed is a modifier.
KeyboardAssumption ==
  /\ Owner \in [Windows -> Clients]
  /\ None \notin Windows
  /\ "esc" \notin Modifiers
  /\ \A combo \in KeyCombos : combo.key \notin Modifiers

VARIABLES
  surfaces,    \* wl_surfaces there are
  toplevels,   \* those that are windows now
  focused,     \* state.focused_surface
  keyboards,   \* clients with a wl_keyboard
  pressed_keys, consumed_keys,
  dragging,    \* state.drag
  on,          \* the surface a client last heard an enter for, None after a leave
  held,        \* the keys a client has been told are down
  known        \* the modifiers it has been told

vars == << surfaces, toplevels, focused, keyboards, pressed_keys, consumed_keys,
           dragging, on, held, known >>

Init ==
  /\ surfaces = {} /\ toplevels = {} /\ focused = None /\ keyboards = {}
  /\ pressed_keys = {} /\ consumed_keys = {} /\ dragging = FALSE
  /\ on = [c \in Clients |-> None]
  /\ held = [c \in Clients |-> {}] /\ known = [c \in Clients |-> {}]

\* state.modifiers, which follows the physical keys.
modifiers == pressed_keys \cap Modifiers

FocusedClient == IF focused = None THEN {} ELSE {Owner[focused]}

\* KeyCombo::parse wants a key that is no modifier, so no binding is one alone.
matches(combo, key, pressed) == combo.key = key /\ combo.modifiers \subseteq pressed

\* Mutant: focus moves, but the modifiers do not follow the enter.
enter_only(c, win) ==
  /\ on' = [d \in Clients |-> IF d \in keyboards /\ d = c THEN win
                              ELSE IF {d} = FocusedClient THEN None ELSE on[d]]
  /\ held' = [d \in Clients |-> IF d \in keyboards /\ d = c THEN pressed_keys'
                                ELSE IF {d} = FocusedClient THEN {} ELSE held[d]]
  /\ UNCHANGED known

\* clear_focus's leave, then wl_keyboard.enter with every key that is down, and
\* the modifiers after it.
leave_and_enter(c, win) ==
  /\ on' = [d \in Clients |-> IF d \in keyboards /\ d = c THEN win
                              ELSE IF {d} = FocusedClient THEN None ELSE on[d]]
  /\ held' = [d \in Clients |-> IF d \in keyboards /\ d = c THEN pressed_keys'
                                ELSE IF {d} = FocusedClient THEN {} ELSE held[d]]
  /\ known' = [d \in Clients |-> IF d \in keyboards /\ d = c THEN pressed_keys' \cap Modifiers
                                 ELSE known[d]]

\* switch_focus, called with pressed_keys' settled.
switch_focus(win) ==
  IF win = focused THEN UNCHANGED << focused, on, held, known >>
  ELSE focused' = win /\ leave_and_enter(Owner[win], win)

\* clear_focus with nothing to take its place.
clear_focus ==
  /\ focused' = None
  /\ on' = [c \in Clients |-> IF c \in FocusedClient THEN None ELSE on[c]]
  /\ held' = [c \in Clients |-> IF c \in FocusedClient THEN {} ELSE held[c]]
  /\ UNCHANGED known

\* What the shell does about focus in a hook: something, or nothing.
ShellDecides ==
  \/ UNCHANGED << focused, on, held, known >>
  \/ clear_focus
  \/ \E win \in toplevels : switch_focus(win)

-----------------------------------------------------------------------------
CreateSurface(s) ==
  /\ s \notin surfaces
  /\ surfaces' = surfaces \cup {s}
  /\ UNCHANGED << toplevels, focused, keyboards, pressed_keys, consumed_keys,
                  dragging, on, held, known >>

\* xdg_surface.get_toplevel takes the focus for the new window.
GetToplevel(win) ==
  /\ win \in surfaces \ toplevels
  /\ toplevels' = toplevels \cup {win}
  /\ UNCHANGED pressed_keys
  /\ switch_focus(win)
  /\ UNCHANGED << surfaces, keyboards, consumed_keys, dragging >>

\* destroy_xdg_toplevel: the focus is dropped and no leave is sent.
DestroyToplevel(win) ==
  /\ win \in toplevels
  /\ toplevels' = toplevels \ {win}
  /\ focused' = IF focused = win THEN None ELSE focused
  /\ UNCHANGED << surfaces, keyboards, pressed_keys, consumed_keys, dragging, on, held, known >>

\* destroy_surface; what a client heard of a surface it destroyed is void.
DestroySurface(s) ==
  /\ s \in surfaces
  /\ surfaces' = surfaces \ {s} /\ toplevels' = toplevels \ {s}
  /\ focused' = IF focused = s THEN None ELSE focused
  /\ on' = [c \in Clients |-> IF on[c] = s THEN None ELSE on[c]]
  /\ held' = [c \in Clients |-> IF on[c] = s THEN {} ELSE held[c]]
  /\ UNCHANGED << keyboards, pressed_keys, consumed_keys, dragging, known >>

\* A click, a touch, a pointer over an unfocused desktop or a client gone: the
\* shell may move the focus.
Refocus ==
  /\ UNCHANGED << surfaces, toplevels, keyboards, pressed_keys, consumed_keys, dragging >>
  /\ ShellDecides

\* handle_get_keyboard catches a keyboard up with the focus its client has.
catch_up(c) ==
  IF c \in FocusedClient
  THEN /\ on' = [on EXCEPT ![c] = focused]
       /\ held' = [held EXCEPT ![c] = pressed_keys]
       /\ known' = [known EXCEPT ![c] = modifiers]
  ELSE UNCHANGED << on, held, known >>

GetKeyboard(c) ==
  /\ c \notin keyboards
  /\ keyboards' = keyboards \cup {c}
  /\ catch_up(c)
  /\ UNCHANGED << surfaces, toplevels, focused, pressed_keys, consumed_keys, dragging >>

Forget(c) ==
  /\ keyboards' = keyboards \ {c}
  /\ on' = [on EXCEPT ![c] = None] /\ held' = [held EXCEPT ![c] = {}]
  /\ known' = [known EXCEPT ![c] = {}]

ReleaseKeyboard(c) ==
  /\ c \in keyboards
  /\ Forget(c)
  /\ UNCHANGED << surfaces, toplevels, focused, pressed_keys, consumed_keys, dragging >>

\* remove_client_resources.  Shell::refocus, which follows when the client had
\* the focus, is a Refocus.
ClientGone(c) ==
  /\ Forget(c)
  /\ surfaces' = {s \in surfaces : Owner[s] # c}
  /\ toplevels' = {s \in toplevels : Owner[s] # c}
  /\ focused' = IF c \in FocusedClient THEN None ELSE focused
  /\ UNCHANGED << pressed_keys, consumed_keys, dragging >>

StartDrag ==
  /\ ~dragging /\ dragging' = TRUE
  /\ UNCHANGED << surfaces, toplevels, focused, keyboards, pressed_keys, consumed_keys,
                  on, held, known >>

\* The modifiers if they moved, then the key, to the focused client's keyboard.
deliver(key, pressed) ==
  /\ held' = [c \in Clients |->
       IF c \in FocusedClient \cap keyboards
       THEN IF pressed THEN held[c] \cup {key} ELSE held[c] \ {key}
       ELSE held[c]]
  /\ known' = [c \in Clients |->
       IF c \in FocusedClient \cap keyboards /\ key \in Modifiers
       THEN pressed_keys' \cap Modifiers ELSE known[c]]

\* A key goes down: Escape ends a drag, a binding is the shell's, the rest is
\* the client's.  "esc" is the key Escape.
KeyDown(key) ==
  /\ key \notin pressed_keys
  /\ pressed_keys' = pressed_keys \cup {key}
  /\ \/ /\ key = "esc" /\ dragging
        /\ dragging' = FALSE
        /\ consumed_keys' = consumed_keys \cup {key}
        /\ UNCHANGED << focused, on, held, known >>
     \/ /\ ~(key = "esc" /\ dragging)
        /\ \E combo \in KeyCombos : matches(combo, key, pressed_keys')
        /\ consumed_keys' = consumed_keys \cup {key}
        /\ ShellDecides
        /\ UNCHANGED dragging
     \/ /\ ~(key = "esc" /\ dragging)
        /\ \A combo \in KeyCombos : ~matches(combo, key, pressed_keys')
        /\ deliver(key, TRUE)
        /\ UNCHANGED << focused, on, consumed_keys, dragging >>
  /\ UNCHANGED << surfaces, toplevels, keyboards >>

\* A key comes up; the release of a consumed press is consumed too.
KeyUp(key) ==
  /\ key \in pressed_keys
  /\ pressed_keys' = pressed_keys \ {key}
  /\ consumed_keys' = consumed_keys \ {key}
  /\ IF key \in consumed_keys THEN UNCHANGED << held, known >> ELSE deliver(key, FALSE)
  /\ UNCHANGED << surfaces, toplevels, focused, keyboards, dragging, on >>

Next ==
  \/ \E s \in Windows : CreateSurface(s) \/ GetToplevel(s) \/ DestroyToplevel(s) \/ DestroySurface(s)
  \/ \E c \in Clients : GetKeyboard(c) \/ ReleaseKeyboard(c) \/ ClientGone(c)
  \/ \E key \in Keys : KeyDown(key) \/ KeyUp(key)
  \/ Refocus \/ StartDrag

Spec == Init /\ [][Next]_vars

-----------------------------------------------------------------------------
\* Every variable has its type, and only a window has the focus.
TypeOK ==
  /\ toplevels \subseteq surfaces /\ surfaces \subseteq Windows
  /\ focused \in toplevels \cup {None} /\ keyboards \subseteq Clients
  /\ consumed_keys \subseteq pressed_keys /\ pressed_keys \subseteq Keys
  /\ dragging \in BOOLEAN
  /\ on \in [Clients -> Windows \cup {None}]
  /\ held \in [Clients -> SUBSET Keys] /\ known \in [Clients -> SUBSET Modifiers]

\* A client that is sent keys has heard which of its surfaces they are for, the
\* modifiers that apply and every key that is down for it, whichever came
\* first: the focus, the keyboard object or the key (switch_focus,
\* handle_get_keyboard).
TheFocusedClientKnows ==
  \A c \in FocusedClient \cap keyboards :
    /\ on[c] = focused
    /\ known[c] = modifiers
    /\ pressed_keys \ consumed_keys \subseteq held[c]

\* "The client never sees a consumed press" (Shell::key_pressed, src/shell.rs):
\* no client is left holding a key that has come up.
KeysComeUp == \A c \in FocusedClient \cap keyboards : held[c] \subseteq pressed_keys
=============================================================================
