---------------------------- MODULE SurfaceTree ----------------------------
(***************************************************************************)
(* Subsurface trees, synchronised commits and frame callbacks              *)
(* (src/protocol/wl_subcompositor.rs, wl_subsurface.rs, wl_surface.rs,     *)
(* src/input.rs and the tree walks of src/state/compositor_state.rs), for  *)
(* the surfaces of one client.                                             *)
(*                                                                         *)
(* A surface links to its parent twice: by its own `parent' and by the     *)
(* parent's `children'.  Going up (is_ancestor, is_effectively_synced)     *)
(* follows the first, going down (applying caches, composing) the second.  *)
(*                                                                         *)
(* The n-th commit of a surface is the number n.  It carries new contents  *)
(* and one frame callback.                                                 *)
(***************************************************************************)
EXTENDS Naturals, Sequences, FiniteSets, Functions

CONSTANTS Surfaces,     \* the ids a client uses for its wl_surfaces
          NoSurface,    \* `parent: None`
          MaxCommits,   \* bound: commits of all surfaces together
          MaxObjects,   \* bound: wl_subsurface objects of a surface at once;
                        \* more than one needs get_subsurface to be repeated
          Screens       \* the sets of surfaces that may be on screen together

ASSUME SurfacesAssumption == NoSurface \notin Surfaces /\ IsFiniteSet(Surfaces)
ASSUME BoundsAssumption == MaxCommits \in Nat /\ MaxObjects \in Nat
ASSUME ScreensAssumption == Screens \subseteq SUBSET Surfaces /\ Screens # {}

VARIABLES
  alive,       \* state.surfaces
  parent,      \* Surface::parent
  children,    \* Surface::children
  isSub,       \* the surfaces whose is_subsurface is set
  sync,        \* the surfaces whose subsurface_sync is set
  objects,     \* subsurface_map: how many wl_subsurface objects name a surface
  committed,   \* how many commits the client has made
  cached,      \* Surface::cached: the commits it has accumulated
  content,     \* the commit whose contents are current
  callbacks,   \* Surface::frame_callbacks
  answered,    \* the callbacks told done
  visible,     \* the surfaces whose visible_on is not empty
  leftBehind,  \* surfaces whose cache was once left with nothing to apply it
  total        \* how many commits there have been

links == <<parent, children, isSub, sync>>
commits == <<committed, cached, content, callbacks>>
vars == <<alive, links, objects, commits, answered, visible, leftBehind, total>>

Count == 0 .. MaxCommits

Init ==
  /\ alive = {}
  /\ parent = [s \in Surfaces |-> NoSurface]
  /\ children = [s \in Surfaces |-> << >>]
  /\ isSub = {}
  /\ sync = {}
  /\ objects = [s \in Surfaces |-> 0]
  /\ committed = [s \in Surfaces |-> 0]
  /\ cached = [s \in Surfaces |-> << >>]
  /\ content = [s \in Surfaces |-> 0]
  /\ callbacks = [s \in Surfaces |-> << >>]
  /\ answered = [s \in Surfaces |-> << >>]
  /\ visible = {}
  /\ leftBehind = {}
  /\ total = 0

-----------------------------------------------------------------------------
(* Walking the tree.  A walk stops after as many steps as there are        *)
(* surfaces, as in the code.                                               *)

Steps == Cardinality(Surfaces) + 1

\* Everything a walk from `start' comes to, where `next' leads.
Reachable(start, next) ==
  LET Within[n \in 0 .. Steps] ==
        IF n = 0 THEN start
        ELSE LET nearer == Within[n - 1] IN nearer \cup UNION {next[x] : x \in nearer}
  IN Within[Steps]

\* Where `parent' leads.
Upwards == [x \in Surfaces |-> IF x \in alive THEN {parent[x]} \ {NoSurface} ELSE {}]

\* Mutant: only the candidate and its own parent are looked at.
IsNear(s, candidate) ==
  candidate = s \/ (candidate \in alive /\ parent[candidate] = s)

\* is_ancestor: walks up from the candidate parent.  A walk that does not end
\* counts as an ancestor too.
IsAncestor(s, candidate) ==
  LET above == Reachable({candidate}, Upwards)
  IN s \in above \/ \A x \in above : x \in alive /\ parent[x] # NoSurface

\* is_effectively_synced: the surface or a subsurface above it is synchronised.
\* The walk stops at what is no subsurface.
EffectivelySynced(s) ==
  LET upSubs == [x \in Surfaces |-> IF x \in isSub THEN Upwards[x] ELSE {}]
  IN Reachable({s}, upSubs) \cap alive \cap isSub \cap sync # {}

SyncedChildren(s) == {c \in Range(children[s]) : EffectivelySynced(c)}

\* Mutant: the cascade stops one level down.
CascadeOneLevel(s) == {s} \cup SyncedChildren(s)

\* apply_surface_state: the surfaces its queue visits.
Cascade(s) == Reachable({s}, [x \in Surfaces |-> SyncedChildren(x)])

-----------------------------------------------------------------------------
(* Commits.                                                                *)

Latest(older, newer) == IF newer = << >> THEN older ELSE newer[Len(newer)]

\* apply_surface_state, after the links have changed: s gets `these' and keeps
\* `left' cached, everything the cascade reaches below gets what it has cached.
Apply(s, these, left) ==
  LET reached == Cascade(s)'
      gained == [x \in Surfaces |-> CASE x = s -> these
                                      [] x \in reached \ {s} -> cached[x]
                                      [] OTHER -> << >>]
  IN /\ cached' = [x \in Surfaces |-> CASE x = s -> left
                                        [] x \in reached \ {s} -> << >>
                                        [] OTHER -> cached[x]]
     /\ callbacks' = [x \in Surfaces |-> callbacks[x] \o gained[x]]
     /\ content' = [x \in Surfaces |-> Latest(content[x], gained[x])]

\* Mutant: a commit into the cache replaces what is there.
OnlyNewest(older, newer) == newer

\* SurfacePending::merge.
Merge(older, newer) == older \o newer

\* handle_frame and handle_commit.
Commit(s) ==
  /\ s \in alive
  /\ total < MaxCommits
  /\ total' = total + 1
  /\ committed' = [committed EXCEPT ![s] = @ + 1]
  /\ UNCHANGED <<alive, links, objects, answered, visible>>
  /\ LET this == <<committed[s] + 1>>
     IN \/ /\ EffectivelySynced(s)
           /\ cached' = [cached EXCEPT ![s] = Merge(@, this)]
           /\ UNCHANGED <<content, callbacks>>
        \/ ~ EffectivelySynced(s) /\ Apply(s, this, cached[s])

-----------------------------------------------------------------------------
(* Making and unmaking surfaces and their links.                           *)

CreateSurface(s) ==
  /\ s \notin alive
  /\ alive' = alive \cup {s}
  /\ parent' = [parent EXCEPT ![s] = NoSurface]
  /\ children' = [children EXCEPT ![s] = << >>]
  /\ isSub' = isSub \ {s}
  /\ sync' = sync \cup {s}
  /\ committed' = [committed EXCEPT ![s] = 0]
  /\ cached' = [cached EXCEPT ![s] = << >>]
  /\ content' = [content EXCEPT ![s] = 0]
  /\ callbacks' = [callbacks EXCEPT ![s] = << >>]
  /\ answered' = [answered EXCEPT ![s] = << >>]
  /\ UNCHANGED <<objects, visible, total>>

\* Vec::retain.
Without(list, s) ==
  LET Kept[n \in 0 .. Len(list)] ==
        IF n = 0 THEN << >>
        ELSE IF list[n] = s THEN Kept[n - 1] ELSE Append(Kept[n - 1], list[n])
  IN Kept[Len(list)]

\* Mutant: the parent keeps a child that is gone.
ChildKept(p, s) == children

\* The children after s has left p, if p is still there.
ChildLeft(p, s) ==
  IF p \in alive THEN [children EXCEPT ![p] = Without(@, s)] ELSE children

\* destroy_surface.  Its children keep naming it as their parent.
DestroySurface(s) ==
  /\ s \in alive
  /\ alive' = alive \ {s}
  /\ children' = ChildLeft(parent[s], s)
  /\ visible' = visible \ {s}
  /\ UNCHANGED <<parent, isSub, sync, objects, commits, answered, total>>

\* wl_subcompositor.get_subsurface, of two surfaces the client has.
GetSubsurface(s, p) ==
  /\ s \in alive /\ p \in alive
  /\ objects[s] < MaxObjects
  /\ ~ IsAncestor(s, p)
  /\ objects' = [objects EXCEPT ![s] = @ + 1]
  /\ parent' = [parent EXCEPT ![s] = p]
  /\ isSub' = isSub \cup {s}
  /\ sync' = sync \cup {s}
  /\ children' = [children EXCEPT ![p] = Append(@, s)]
  /\ UNCHANGED <<alive, commits, answered, visible, total>>

\* Mutant: a request is served whether or not its object is known.
AnyObject(s) == TRUE

\* subsurface_map knows an object for the surface.
HasObject(s) == objects[s] > 0

\* wl_subsurface.destroy: the role goes, and what was cached is applied.
DestroySubsurface(s) ==
  /\ HasObject(s)
  /\ objects' = [objects EXCEPT ![s] = @ - 1]
  /\ UNCHANGED <<alive, committed, answered, visible, total>>
  /\ \/ /\ s \in alive
        /\ parent' = [parent EXCEPT ![s] = NoSurface]
        /\ isSub' = isSub \ {s}
        /\ sync' = sync \ {s}
        /\ children' = ChildLeft(parent[s], s)
        /\ Apply(s, cached[s], << >>)
     \/ s \notin alive /\ UNCHANGED <<links, cached, content, callbacks>>

SetSync(s) ==
  /\ HasObject(s) /\ s \in alive
  /\ sync' = sync \cup {s}
  /\ UNCHANGED <<alive, parent, children, isSub, objects, commits, answered, visible, total>>

\* set_desync: applies the cache unless a subsurface above is synchronised.
SetDesync(s) ==
  /\ HasObject(s) /\ s \in alive
  /\ sync' = sync \ {s}
  /\ UNCHANGED <<alive, parent, children, isSub, objects, committed, answered, visible, total>>
  /\ \/ EffectivelySynced(s)' /\ UNCHANGED <<cached, content, callbacks>>
     \/ ~ EffectivelySynced(s)' /\ Apply(s, cached[s], << >>)

InsertedAt(list, i, s) == SubSeq(list, 1, i - 1) \o <<s>> \o SubSeq(list, i, Len(list))

\* place_above and place_below: next to a sibling, or at that end of the list
\* when there is no such sibling.
Place(s, sibling, above) ==
  LET rest == Without(children[parent[s]], s)
      at == {i \in DOMAIN rest : rest[i] = sibling}
  IN /\ HasObject(s) /\ s \in alive /\ parent[s] \in alive
     /\ \/ /\ at = {}
           /\ children' = [children EXCEPT ![parent[s]] =
                             IF above THEN Append(rest, s) ELSE <<s>> \o rest]
        \/ \E i \in at :
             /\ \A j \in at : i <= j
             /\ children' = [children EXCEPT ![parent[s]] =
                               InsertedAt(rest, IF above THEN i + 1 ELSE i, s)]
     /\ UNCHANGED <<alive, parent, isSub, sync, objects, commits, answered, visible, total>>

-----------------------------------------------------------------------------
(* Frame callbacks (fire_frame_callbacks).                                 *)

Fire(covered) ==
  /\ answered' = [s \in Surfaces |-> IF s \in covered THEN answered[s] \o callbacks[s]
                                                     ELSE answered[s]]
  /\ callbacks' = [s \in Surfaces |-> IF s \in covered THEN << >> ELSE callbacks[s]]
  /\ UNCHANGED <<alive, links, objects, committed, cached, content, total>>

\* FramePresented: the surfaces the output was showing.  There is one output.
Presented == Fire(alive \cap visible) /\ UNCHANGED visible

\* Mutant: surfaces no output shows are not paced by anything.
NobodyOffscreen(onScreen) == {}

Offscreen(onScreen) == alive \ onScreen

\* The housekeeping tick: what is on screen is worked out anew, whatever the
\* shell shows by now, and what is not is answered here.
Housekeeping ==
  \E screen \in Screens :
    /\ visible' = screen \cap alive
    /\ Fire(Offscreen(visible'))

\* remove_output, when it was the only one.
OutputGone ==
  /\ visible' = {}
  /\ UNCHANGED <<alive, links, objects, commits, answered, total>>

-----------------------------------------------------------------------------
Step ==
  \/ \E s \in Surfaces :
       \/ CreateSurface(s) \/ DestroySurface(s) \/ Commit(s)
       \/ SetSync(s) \/ SetDesync(s) \/ DestroySubsurface(s)
       \/ \E p \in Surfaces : GetSubsurface(s, p)
       \/ \E sibling \in Surfaces, above \in BOOLEAN : Place(s, sibling, above)
  \/ Presented \/ Housekeeping \/ OutputGone

\* Commits cached by a surface that nothing synchronises any longer.
Stranded == {s \in alive : cached[s] # << >> /\ ~ EffectivelySynced(s)}

Noting(A) == A /\ leftBehind' = (leftBehind \cap alive') \cup Stranded'

Next == Noting(Step)

(***************************************************************************)
(* The backend presents in the end what an output shows (a commit makes a  *)
(* scene owed, module FramePacer), the housekeeping timer keeps ticking,   *)
(* and displays are not unplugged for ever, each before its first frame.   *)
(* No client has to do anything.                                           *)
(***************************************************************************)
Fairness ==
  /\ WF_vars(Noting(Presented))
  /\ WF_vars(Noting(Housekeeping))
  /\ <>[][~ OutputGone]_vars

Spec == Init /\ [][Next]_vars

FairSpec == Spec /\ Fairness

-----------------------------------------------------------------------------
(* Properties.                                                             *)

TypeOK ==
  /\ alive \subseteq Surfaces
  /\ parent \in [Surfaces -> Surfaces \cup {NoSurface}]
  /\ children \in [Surfaces -> Seq(Surfaces)]
  /\ isSub \subseteq Surfaces
  /\ sync \subseteq Surfaces
  /\ objects \in [Surfaces -> 0 .. MaxObjects]
  /\ committed \in [Surfaces -> Count]
  /\ cached \in [Surfaces -> Seq(Count)]
  /\ content \in [Surfaces -> Count]
  /\ callbacks \in [Surfaces -> Seq(Count)]
  /\ answered \in [Surfaces -> Seq(Count)]
  /\ visible \subseteq Surfaces
  /\ leftBehind \subseteq Surfaces
  /\ total \in Count

\* The two links agree: a surface is in one list of children at most, once,
\* and that of its parent; so a walk down visits every surface once.  Through
\* surfaces destroyed in any order and ids used again.
LinksAgree ==
  \A p \in alive : \A i \in DOMAIN children[p] :
    /\ children[p][i] \in alive
    /\ parent[children[p][i]] = p
    /\ \A j \in DOMAIN children[p] : children[p][i] = children[p][j] => i = j

\* No walk down the children comes back to where it started, so composing,
\* hit testing and applying a commit end.
DownwardAcyclic ==
  LET below(s) == Reachable(Range(children[s]), [x \in Surfaces |-> Range(children[x])])
  IN \A s \in alive : s \notin below(s)

FirstCommits(n) == [i \in 1 .. n |-> i]

\* Every frame callback is answered once, in the order it was committed,
\* however often caching and applying took turns; and the newest commit not
\* cached is the one shown.  Except for a surface whose cache was left behind.
CommitsLandInOrder ==
  \A s \in alive \ leftBehind :
    /\ answered[s] \o callbacks[s] \o cached[s] = FirstCommits(committed[s])
    /\ content[s] = committed[s] - Len(cached[s])

\* d's commits wait for those of s, somewhere above it.  A surface whose parent
\* is gone waits for none, not even for a new one with its parent's id.
WaitsFor(d, s) ==
  LET waiting == {x \in alive : /\ EffectivelySynced(x)
                                /\ parent[x] \in alive /\ x \in Range(children[parent[x]])}
      upWaiting == [x \in Surfaces |-> IF x \in waiting THEN {parent[x]} ELSE {}]
  IN d \in waiting /\ s \in Reachable({parent[d]}, upWaiting)

\* A window and the subsurfaces synchronised to it update in one piece: when a
\* commit of the window is applied, nothing below it stays cached.
TreeLandsTogether ==
  [][\A s \in alive \cap alive' :
       content'[s] # content[s]
         => \A d \in Surfaces : WaitsFor(d, s)' => cached'[d] = << >>]_vars

\* A committed frame callback is answered in the end, whether the surface is on
\* a screen, on none, or its output went away.
CallbacksAnswered ==
  \A s \in Surfaces, n \in 1 .. MaxCommits :
    n \in Range(callbacks[s]) ~> n \notin Range(callbacks[s]) \/ s \notin alive
=============================================================================
