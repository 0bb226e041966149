-------------------------- MODULE ToplevelFamilies --------------------------
(* Dialogs and the windows they belong to (xdg_toplevel.set_parent in
   src/protocol/xdg_toplevel.rs, raise_with_children and toplevel_family in
   src/state/compositor_state.rs), over the stack of one client's windows, which
   the shell keeps (src/shell.rs). *)
EXTENDS Naturals, Sequences, SequencesExt

CONSTANTS
  Toplevels,
  ReusesIds,     \* does the client make a toplevel under an id dialogs still name?
  None

\* What the constants have to be.
FamiliesAssumption == None \notin Toplevels

VARIABLES
  stack,     \* the shell's visible_stack, bottom to top: the windows there are
  parent     \* XdgToplevelState::parent

vars == << stack, parent >>

xdg_toplevels == Range(stack)

Init == stack = << >> /\ parent = [t \in Toplevels |-> None]

\* The window n steps up from t by the links p, or the last there is.
Up(p, t, n) ==
  LET up[i \in 0 .. n] ==
        IF i = 0 THEN t
        ELSE IF p[up[i - 1]] \in xdg_toplevels THEN p[up[i - 1]] ELSE up[i - 1]
  IN  up[n]

would_cycle(child, par) == \E n \in 0 .. Len(stack) : Up(parent, par, n) = child

\* Mutant: the children of a window, and not theirs.
children_of(p, root) ==
  LET round == {t \in xdg_toplevels \ {root} : p[t] = root}
  IN  IF round = {} THEN << >> ELSE << round >>

\* Nearest first, in rounds; within a round the order is that of a HashMap.
descendants_of(p, root) ==
  LET found[n \in 0 .. Len(stack)] ==
        IF n = 0 THEN << {root} >>
        ELSE LET so_far == UNION Range(found[n - 1])
                 round == {t \in xdg_toplevels \ so_far : p[t] \in Last(found[n - 1])}
             IN  IF round = {} THEN found[n - 1] ELSE Append(found[n - 1], round)
  IN  Tail(found[Len(stack)])

\* The root of the family, then everything below it.
toplevel_family(p, t) ==
  LET root == Up(p, t, Len(stack)) IN << {root} >> \o descendants_of(p, root)

Place(t) == CHOOSE i \in DOMAIN stack : stack[i] = t

\* raise_with_children: the shell puts one after the other on top, and the rest
\* stay in the order they had.
Raised(p, t) ==
  LET rounds   == toplevel_family(p, t)
      family   == UNION Range(rounds)
      Round(u) == CHOOSE i \in DOMAIN rounds : u \in rounds[i]
  IN  {s \in SetToSeqs(xdg_toplevels) :
         \A i, j \in DOMAIN s : i < j =>
           IF s[i] \in family THEN s[j] \in family /\ Round(s[i]) <= Round(s[j])
                             ELSE s[j] \in family \/ Place(s[i]) < Place(s[j])}

\* set_fullscreen, or a click the shell answers with a raise.
Raise(t) ==
  /\ t \in xdg_toplevels
  /\ stack' \in Raised(parent, t)
  /\ UNCHANGED parent

\* set_parent, refused of a window below the child.
SetParent(child, par) ==
  /\ child \in xdg_toplevels
  /\ par = None \/ (par \in xdg_toplevels /\ ~would_cycle(child, par))
  /\ parent' = [parent EXCEPT ![child] = par]
  /\ stack' \in Raised(parent', child)

\* create_xdg_toplevel: the shell puts a new window on top.
Create(t) ==
  /\ t \notin xdg_toplevels
  /\ ReusesIds \/ \A u \in xdg_toplevels : parent[u] # t
  /\ parent' = [parent EXCEPT ![t] = None]
  /\ stack' = Append(stack, t)

\* destroy_xdg_toplevel leaves its dialogs naming it.
Destroy(t) ==
  /\ t \in xdg_toplevels
  /\ stack' = RemoveAt(stack, Place(t))
  /\ UNCHANGED parent

Next ==
  \E t \in Toplevels :
    \/ Create(t) \/ Destroy(t) \/ Raise(t)
    \/ \E par \in Toplevels \cup {None} : SetParent(t, par)

Spec == Init /\ [][Next]_vars

-----------------------------------------------------------------------------
\* Every variable has its type, and no window is in the stack twice.
TypeOK ==
  /\ stack \in Seq(Toplevels) /\ IsInjective(stack)
  /\ parent \in [Toplevels -> Toplevels \cup {None}]

\* A dialog is above the window it belongs to, however windows were linked,
\* relinked, raised and destroyed (raise_with_children, set_parent); so the
\* links cannot close a loop.
DialogsOnTop ==
  \A t \in xdg_toplevels : parent[t] \in xdg_toplevels => Place(parent[t]) < Place(t)
=============================================================================
