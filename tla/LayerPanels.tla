---------------------------- MODULE LayerPanels ----------------------------
(* Panels, bars and wallpapers: how a layer surface is placed, what it reserves
   and when it is told its size (src/layer.rs,
   src/protocol/zwlr_layer_surface.rs, src/protocol/zwlr_layer_shell.rs, the
   layer half of handle_commit in src/protocol/wl_surface.rs).  Acknowledging
   is module Configures'; here it only counts what is unanswered.  Numbers are
   integers: what is shown holds of the code while no sum of sizes, zones and
   margins leaves the range of an i32. *)
EXTENDS Integers, Folds

CONSTANTS
  Panels,        \* layer surface objects, ordered as their ids are
  Outputs,
  Areas,         \* the [w, h] an output can have
  Requests,      \* what clients ask of panels, each a LayerSurfaceStatePending
  MaxUnanswered, \* bound on one panel's configures not yet acknowledged
  None

VARIABLES
  outputs,       \* state.outputs: an area each, or None when unplugged
  output,        \* LayerSurfaceState::output, None of a panel that is not there
  pending, current,
  position,      \* the wl_surface's, None once that surface is destroyed
  told,          \* configured_size, which is the size last sent
  unanswered,    \* the length of pending_configures
  configured,
  unsettled      \* outputs where room changed and nobody was placed again

vars == << outputs, output, pending, current, position, told, unanswered,
           configured, unsettled >>

LayerKind == 0 .. 3

\* What can be asked of a panel.
LayerSurfaceStatePending ==
  [size : Nat \X Nat, anchor : SUBSET {"left", "right", "top", "bottom"}, zone : Int,
   margin : Int, layer : LayerKind]

\* What the constants are.
PanelsAssumption ==
  /\ Panels \subseteq Int /\ MaxUnanswered \in Nat
  /\ Areas \subseteq [w : Nat, h : Nat] /\ Requests \subseteq LayerSurfaceStatePending
  /\ None \notin Outputs \cup Areas \cup LayerSurfaceStatePending \cup (Int \X Int)

\* A panel that has asked for nothing yet.
Default(layer) == [size |-> << 0, 0 >>, anchor |-> {}, zone |-> 0, margin |-> 0, layer |-> layer]

Init ==
  /\ outputs = [o \in Outputs |-> None]
  /\ output = [p \in Panels |-> None]
  /\ pending = [p \in Panels |-> None] /\ current = pending
  /\ position = [p \in Panels |-> None] /\ told = position
  /\ unanswered = [p \in Panels |-> 0] /\ configured = [p \in Panels |-> FALSE]
  /\ unsettled = {}

-----------------------------------------------------------------------------
\* Integer division rounds towards zero.
Half(n) == IF n >= 0 THEN n \div 2 ELSE -((-n) \div 2)

NotBelowZero(n) == IF n < 0 THEN 0 ELSE n

\* One axis of layer::place: where a panel starts and how long it is.
along(at, room, near, far, margin, size) ==
  LET from   == at + (IF near THEN margin ELSE 0)
      to     == at + room - (IF far THEN margin ELSE 0)
      span   == NotBelowZero(to - from)
      length == IF size > 0 THEN size ELSE IF near /\ far THEN span ELSE 0
      start  == CASE near /\ ~far -> from
                  [] far /\ ~near -> to - length
                  [] OTHER        -> from + Half(span - length)
  IN  << start, length >>

place(area, r) ==
  LET Has(e) == e \in r.anchor
      across == along(area.x, area.w, Has("left"), Has("right"), r.margin, r.size[1])
      down   == along(area.y, area.h, Has("top"), Has("bottom"), r.margin, r.size[2])
  IN  [x |-> across[1], w |-> across[2], y |-> down[1], h |-> down[2]]

\* Rect::shrink: a strip off the one edge a spanning panel is anchored to.
shrink(area, anchor, amount) ==
  CASE anchor = {"left", "right", "top"} ->
         [area EXCEPT !.y = @ + amount, !.h = NotBelowZero(@ - amount)]
    [] anchor = {"left", "right", "bottom"} -> [area EXCEPT !.h = NotBelowZero(@ - amount)]
    [] anchor = {"top", "bottom", "left"} ->
         [area EXCEPT !.x = @ + amount, !.w = NotBelowZero(@ - amount)]
    [] anchor = {"top", "bottom", "right"} -> [area EXCEPT !.w = NotBelowZero(@ - amount)]
    [] OTHER -> area

\* The order of ordered_for_output: by layer, and by object id within one.
Before(cur, p, q) ==
  \/ cur[p].layer < cur[q].layer
  \/ cur[p].layer = cur[q].layer /\ p < q

\* The panels that have taken what they reserve when p is placed.
earlier(cur, p) == {q \in Panels : output[q] = output[p] /\ Before(cur, q, p)}

\* Of the panels ps the one whose reservation is taken last.
last(cur, ps) == CHOOSE p \in ps : \A q \in ps \ {p} : Before(cur, q, p)

full(o) == [x |-> 0, y |-> 0, w |-> outputs[o].w, h |-> outputs[o].h]

\* What the reservations of the panels ps, taken in their order, leave of an area.
usable(cur, area, ps) ==
  MapThenFoldSet(LAMBDA p, left : IF cur[p].zone > 0 THEN shrink(left, cur[p].anchor, cur[p].zone)
                                  ELSE left,
                 area, LAMBDA p : p, LAMBDA rest : last(cur, rest), ps)

\* Mutant: a panel is placed in what its own zone has shrunk, too.
OwnZoneToo(cur, p) == usable(cur, full(output[p]), earlier(cur, p) \cup {p})

\* What the panels placed before p left, or everything for one that ignores them.
within(cur, p) ==
  IF cur[p].zone < 0 THEN full(output[p])
  ELSE usable(cur, full(output[p]), earlier(cur, p))

geometry(cur, p) == place(within(cur, p), cur[p])

Size(rect) == << rect.w, rect.h >>

-----------------------------------------------------------------------------
\* Mutant: the panels that come after the one that changed.
LaterOnes(cur, p) == {q \in Panels : output[q] = output[p] /\
                       (cur[q].layer > cur[p].layer \/ (cur[q].layer = cur[p].layer /\ q >= p))}

\* The panels a commit of p configures: p, and reconfigure_output_layers.
reconfigured(cur, p) == {q \in Panels : output[q] = output[p]}

\* zwlr_layer_surface::configure of each: the place is always written, and a
\* configure sent only when the size is another.
configure(cur, ps) ==
  LET new(q) == geometry(cur, q)
  IN  /\ position' = [q \in Panels |-> IF q \in ps /\ position[q] # None
                                       THEN << new(q).x, new(q).y >> ELSE position[q]]
      /\ told' = [q \in Panels |-> IF q \in ps THEN Size(new(q)) ELSE told[q]]
      /\ unanswered' = [q \in Panels |-> IF q \in ps /\ told[q] # Size(new(q))
                                         THEN unanswered[q] + 1 ELSE unanswered[q]]
      /\ \A q \in Panels : unanswered'[q] <= MaxUnanswered

\* handle_get_layer_surface, on an output there is: arranged with the others at
\* once, though it has asked for nothing and is told nothing.
GetLayerSurface(p, o, layer) ==
  /\ output[p] = None /\ outputs[o] # None
  /\ output' = [output EXCEPT ![p] = o]
  /\ pending' = [pending EXCEPT ![p] = Default(layer)]
  /\ current' = [current EXCEPT ![p] = Default(layer)]
  /\ position' = [position EXCEPT ![p] = << 0, 0 >>]
  /\ UNCHANGED << outputs, told, unanswered, configured, unsettled >>

\* A run of set_size, set_anchor, set_exclusive_zone, set_margin and set_layer.
Ask(p, r) ==
  /\ output[p] # None
  /\ pending' = [pending EXCEPT ![p] = r]
  /\ UNCHANGED << outputs, output, current, position, told, unanswered, configured, unsettled >>

\* wl_surface.commit of a panel's surface.  On an output that has gone there is
\* no geometry, and only `current` moves.
Commit(p) ==
  /\ output[p] # None /\ position[p] # None
  /\ current' = [current EXCEPT ![p] = pending[p]]
  /\ IF outputs[output[p]] = None
     THEN UNCHANGED << position, told, unanswered, unsettled >>
     ELSE /\ configure(current', reconfigured(current', p))
          /\ unsettled' = unsettled \ {output[p]}
  /\ UNCHANGED << outputs, output, pending, configured >>

\* ack_configure of the n-th configure outstanding, which answers those before.
AckConfigure(p, n) ==
  /\ n \in 1 .. unanswered[p]
  /\ unanswered' = [unanswered EXCEPT ![p] = @ - n]
  /\ configured' = [configured EXCEPT ![p] = TRUE]
  /\ UNCHANGED << outputs, output, pending, current, position, told, unsettled >>

\* wl_surface.destroy under a panel, which stays arranged and goes on reserving.
DestroySurface(p) ==
  /\ position[p] # None
  /\ position' = [position EXCEPT ![p] = None]
  /\ UNCHANGED << outputs, output, pending, current, told, unanswered, configured, unsettled >>

\* destroy, or its client gone.  Nobody else is placed again.
Destroy(p) ==
  /\ output[p] # None
  /\ output' = [output EXCEPT ![p] = None]
  /\ pending' = [pending EXCEPT ![p] = None] /\ current' = [current EXCEPT ![p] = None]
  /\ position' = [position EXCEPT ![p] = None] /\ told' = [told EXCEPT ![p] = None]
  /\ unanswered' = [unanswered EXCEPT ![p] = 0]
  /\ configured' = [configured EXCEPT ![p] = FALSE]
  /\ unsettled' = unsettled \cup {output[p]}
  /\ UNCHANGED outputs

\* upsert_output and retire_output, which tells the panels to close and leaves
\* them; nobody is placed again.
SetOutput(o, area) ==
  /\ outputs[o] # area
  /\ outputs' = [outputs EXCEPT ![o] = area]
  /\ unsettled' = unsettled \cup {o}
  /\ UNCHANGED << output, pending, current, position, told, unanswered, configured >>

Next ==
  \/ \E p \in Panels :
       \/ \E o \in Outputs, layer \in {r.layer : r \in Requests} : GetLayerSurface(p, o, layer)
       \/ \E r \in Requests : Ask(p, r)
       \/ Commit(p) \/ DestroySurface(p) \/ Destroy(p)
       \/ \E n \in 1 .. MaxUnanswered : AckConfigure(p, n)
  \/ \E o \in Outputs, area \in Areas \cup {None} : SetOutput(o, area)

Spec == Init /\ [][Next]_vars

-----------------------------------------------------------------------------
\* Every variable has its type.
TypeOK ==
  /\ outputs \in [Outputs -> Areas \cup {None}]
  /\ output \in [Panels -> Outputs \cup {None}]
  /\ pending \in [Panels -> LayerSurfaceStatePending \cup {None}]
  /\ current \in [Panels -> LayerSurfaceStatePending \cup {None}]
  /\ position \in [Panels -> (Int \X Int) \cup {None}]
  /\ told \in [Panels -> (Nat \X Nat) \cup {None}]
  /\ unanswered \in [Panels -> 0 .. MaxUnanswered] /\ configured \in [Panels -> BOOLEAN]
  /\ unsettled \subseteq Outputs

Arranged(p) == output[p] # None /\ outputs[output[p]] # None

\* As long as a panel only came or committed since an output was last arranged,
\* the place each panel's menus are hung from and the size its client was last
\* sent are those it is drawn at (reconfigure_output_layers).
PanelsKnowTheirPlace ==
  \A p \in Panels :
    (Arranged(p) /\ output[p] \notin unsettled /\ told[p] # None) =>
      /\ told[p] = Size(geometry(current, p))
      /\ position[p] # None => position[p] = << geometry(current, p).x, geometry(current, p).y >>

\* Do two areas, neither of them empty, have a point in common?
Overlap(a, b) ==
  /\ a.w > 0 /\ b.w > 0 /\ a.x < b.x + b.w /\ b.x < a.x + a.w
  /\ a.h > 0 /\ b.h > 0 /\ a.y < b.y + b.h /\ b.y < a.y + a.h

\* Does the strip a panel reserves hold all of it?
FitsItsZone(r) ==
  \/ r.anchor \in {{"left", "right", e} : e \in {"top", "bottom"}} /\ r.size[2] + r.margin <= r.zone
  \/ r.anchor \in {{"top", "bottom", e} : e \in {"left", "right"}} /\ r.size[1] + r.margin <= r.zone

\* Is a panel no larger than the room left for it?  A margin below zero takes it
\* out of that room.
Fits(q) ==
  LET room == within(current, q)
      is   == geometry(current, q)
      edge == current[q].margin
  IN  edge >= 0 /\ is.w + edge <= room.w /\ is.h + edge <= room.h

\* No window maximised into what is left, and no panel that is arranged later
\* and fits, lies under a panel that reserved all the room it takes (arrange,
\* shrink and place agree).
ReservedIsClear ==
  \A p \in Panels :
    (Arranged(p) /\ current[p].zone > 0 /\ FitsItsZone(current[p])) =>
      LET here == {q \in Panels : output[q] = output[p]}
      IN  /\ ~Overlap(geometry(current, p), usable(current, full(output[p]), here))
          /\ \A q \in here :
               (p \in earlier(current, q) /\ current[q].zone >= 0 /\ Fits(q)) =>
                 ~Overlap(geometry(current, p), geometry(current, q))
=============================================================================
