-------------------------- MODULE BufferLifecycle --------------------------
(***************************************************************************)
(* When a client hears that a buffer is its own again                      *)
(* (src/state/compositor_state.rs, src/protocol/wl_surface.rs,             *)
(* src/scene.rs, src/input.rs).                                            *)
(*                                                                         *)
(* A client attaches a buffer to a surface, commits, and must not draw     *)
(* into it again until wl_buffer.release.  The compositor knows buffers by *)
(* id, and an id is the client's to reuse the moment it destroys the       *)
(* buffer; what is being read is a buffer, not an id.  So the model tells  *)
(* the two apart: `buffers' maps each live id to the buffer it names.      *)
(*                                                                         *)
(* A buffer is read through its guard (an Arc), held by every scene that   *)
(* shows it: the scene last published, the scene the backend is drawing    *)
(* from, and the texture the scene cache retains for a surface.            *)
(*                                                                         *)
(* Time is counted in requests handled: what the client holds is what it   *)
(* has been told by then.  A release still on the wire is not modelled.    *)
(***************************************************************************)
EXTENDS Naturals, FiniteSets, Functions

CONSTANTS Windows,          \* surfaces with a role of their own
          Subsurfaces,      \* synchronised subsurfaces of them
          ParentOf,         \* Subsurfaces -> Windows
          BufferIds,        \* the ids a client uses for its wl_buffers
          NoBuffer,         \* no buffer: an attach of null
          Unchanged,        \* a commit that attaches nothing
          MaxBuffers,       \* bound: how many buffers are ever made
          SharesCached      \* may a cached commit's buffer be in another one

Surfaces == Windows \cup Subsurfaces

ASSUME SurfacesAssumption ==
  /\ Windows \cap Subsurfaces = {}
  /\ ParentOf \in [Subsurfaces -> Windows]
ASSUME BuffersAssumption ==
  /\ NoBuffer \notin BufferIds /\ Unchanged \notin BufferIds
  /\ NoBuffer # Unchanged
  /\ MaxBuffers \in Nat
ASSUME HabitsAssumption == SharesCached \in BOOLEAN

VARIABLES
  buffers,     \* state.buffers: live id -> the buffer it names, with its guard
  alive,       \* state.surfaces
  attached,    \* Surface::buffer_id
  pending,     \* SurfacePending::buffer_attached and buffer_id
  cached,      \* the same of Surface::cached
  toRelease,   \* state.buffers_pending_release
  releasing,   \* state.releasing_buffers
  visible,     \* the windows some output shows
  stale,       \* something changed that the next scene will show
  scene,       \* the published scene: surface -> the buffer it shows
  retained,    \* SceneCache::retained: surface -> the buffer last composed
  drawing,     \* the buffers of the scene the backend is drawing from
  made,        \* how many buffers there have been
  inherited,   \* live buffers made under an id that was still named: history
  busy,        \* buffers committed and not released since: the client's view
  replaced,    \* buffers a commit took off the last surface showing them
  composed     \* surfaces composed since they last had no buffer

tree == <<alive, attached, pending, cached>>
queues == <<toRelease, releasing>>
images == <<scene, retained, drawing>>
client == <<made, inherited, busy>>
vars == <<buffers, tree, queues, visible, stale, images, client, replaced, composed>>

Buffer == 1 .. MaxBuffers
AttachedBuffer == BufferIds \cup {NoBuffer}
Change == AttachedBuffer \cup {Unchanged}

Init ==
  /\ buffers = << >>
  /\ alive = Surfaces
  /\ attached = [s \in Surfaces |-> NoBuffer]
  /\ pending = [s \in Surfaces |-> Unchanged]
  /\ cached = [s \in Surfaces |-> Unchanged]
  /\ toRelease = {}
  /\ releasing = {}
  /\ visible = Windows
  /\ stale = FALSE
  /\ scene = << >>
  /\ retained = << >>
  /\ drawing = {}
  /\ made = 0
  /\ inherited = {}
  /\ busy = {}
  /\ replaced = {}
  /\ composed = {}

-----------------------------------------------------------------------------
(* Who has a buffer.                                                       *)

Shows(s, b) == s \in alive /\ attached[s] = b

\* buffer_is_being_read, of a buffer rather than an id: somebody besides
\* state.buffer_guards holds the guard.
BeingRead(buffer) == buffer \in Range(scene) \cup Range(retained) \cup drawing

\* The buffers some surface shows, or will show when a commit is applied.
BuffersIn(ids) == {buffers[b] : b \in ids \cap DOMAIN buffers}
HandedOver == BuffersIn({attached[s] : s \in alive} \cup {cached[s] : s \in alive})

\* A commit named the id and it still stands: as what a surface shows or will,
\* or as what the next tick is to release.  An attach that has not been committed
\* is not counted: it attaches whatever the id names by then.
StillNamed(b) ==
  \/ \E s \in alive : b \in {attached[s], cached[s]}
  \/ b \in toRelease

-----------------------------------------------------------------------------
(* Requests about buffers.                                                 *)

\* register_buffer, of any id that names no buffer now: a release that is owed
\* under it is forgotten if a tick has begun it, and not if it waits for one.
CreateBuffer(b) ==
  /\ b \notin DOMAIN buffers
  /\ made < MaxBuffers
  /\ made' = made + 1
  /\ inherited' = inherited \cup {n \in {made + 1} : StillNamed(b)}
  /\ buffers' = [x \in DOMAIN buffers \cup {b} |-> IF x = b THEN made + 1 ELSE buffers[x]]
  /\ releasing' = releasing \ {b}
  /\ UNCHANGED <<tree, toRelease, visible, stale, images, busy, replaced, composed>>

\* destroy_buffer: it leaves both queues.  The surfaces that name it are left
\* naming it.
DestroyBuffer(b) ==
  /\ b \in DOMAIN buffers
  /\ buffers' = Restrict(buffers, DOMAIN buffers \ {b})
  /\ releasing' = releasing \ {b}
  /\ toRelease' = toRelease \ {b}
  /\ busy' = busy \ {buffers[b]}
  /\ replaced' = replaced \ {buffers[b]}
  /\ inherited' = inherited \ {buffers[b]}
  /\ UNCHANGED <<tree, visible, stale, images, made, composed>>

-----------------------------------------------------------------------------
(* Requests about surfaces.                                                *)

\* wl_surface.attach, with a live buffer or null.
Attach(s, b) ==
  /\ s \in alive
  /\ b \in DOMAIN buffers \cup {NoBuffer}
  /\ pending' = [pending EXCEPT ![s] = b]
  /\ UNCHANGED <<buffers, alive, attached, cached, queues, visible, stale, images, client,
                 replaced, composed>>

\* SurfacePending::merge, of what it says about the buffer.
Merge(older, newer) == IF newer = Unchanged THEN older ELSE newer

\* The buffer a surface shows once a change is applied.
Applied(s, change) == IF change = Unchanged THEN attached[s] ELSE change

\* Mutant: only a commit that attaches another buffer retires the old one.
RetiredByBuffer(after) ==
  {attached[s] : s \in {x \in alive : after[x] \notin {attached[x], NoBuffer}}} \ {NoBuffer}

\* Mutant: a surface that had no buffer retires one as well.
RetiredEvenNull(after) == {attached[s] : s \in {x \in alive : after[x] # attached[x]}}

\* The ids a commit takes off a surface, whatever it attaches instead.
Retired(after) ==
  {attached[s] : s \in {x \in alive : after[x] # attached[x]}} \ {NoBuffer}

\* What the client has handed over by a commit that attaches b.
Busied(b) == busy \cup BuffersIn({b})

\* A buffer is replaced when the last surface showing it shows another; it is
\* not while one shows it.
Replacements(after) ==
  (replaced \cup BuffersIn({attached[s] : s \in alive}))
    \ BuffersIn({after[s] : s \in alive})

\* apply_surface_state, of a window and of the caches of its subsurfaces.
ApplyCommit(s) ==
  LET children == {c \in alive \cap Subsurfaces : ParentOf[c] = s}
      after == [x \in Surfaces |-> CASE x = s -> Applied(s, pending[s])
                                     [] x \in children -> Applied(x, cached[x])
                                     [] OTHER -> attached[x]]
  IN /\ attached' = after
     /\ cached' = [x \in Surfaces |-> IF x \in children THEN Unchanged ELSE cached[x]]
     /\ toRelease' = toRelease \cup Retired(after)
     /\ replaced' = Replacements(after)
     /\ composed' = {x \in composed : after[x] # NoBuffer}
     /\ stale' = TRUE

\* The commit hands over a buffer that another commit handed over as well, and
\* one of the two waits in a cache.
Shared(s) ==
  /\ BuffersIn({pending[s]}) \cap busy # {}
  /\ s \in Subsurfaces \/ pending[s] \in {cached[x] : x \in alive}

\* handle_commit: a window's commit is applied, a synchronised subsurface's
\* waits in its cache.
Commit(s) ==
  /\ s \in alive
  /\ SharesCached \/ ~ Shared(s)
  /\ pending' = [pending EXCEPT ![s] = Unchanged]
  /\ busy' = Busied(pending[s])
  /\ \/ s \in Windows /\ ApplyCommit(s)
     \/ /\ s \in Subsurfaces
        /\ cached' = [cached EXCEPT ![s] = Merge(@, pending[s])]
        /\ UNCHANGED <<attached, toRelease, replaced, composed, stale>>
  /\ UNCHANGED <<buffers, alive, releasing, visible, images, made, inherited>>

\* destroy_surface: its buffer is not retired.
DestroySurface(s) ==
  /\ s \in alive
  /\ alive' = alive \ {s}
  /\ attached' = [attached EXCEPT ![s] = NoBuffer]
  /\ pending' = [pending EXCEPT ![s] = Unchanged]
  /\ cached' = [cached EXCEPT ![s] = Unchanged]
  /\ composed' = composed \ {s}
  /\ stale' = TRUE
  /\ UNCHANGED <<buffers, queues, visible, images, client, replaced>>

-----------------------------------------------------------------------------
(* Scenes.                                                                 *)

\* Mutant: a retained texture goes with its buffer.
RetainedWhileBufferLives ==
  {s \in DOMAIN retained \cap alive : attached[s] \in DOMAIN buffers}

\* SceneCache::gc keeps what a surface last showed for as long as the surface
\* has a buffer, live or not.
KeptByGc == {s \in DOMAIN retained \cap alive : attached[s] # NoBuffer}

\* The surfaces build walks: visible windows and what hangs below them.
Walked == {s \in alive : /\ attached[s] # NoBuffer
                         /\ (IF s \in Windows THEN s ELSE ParentOf[s]) \in alive \cap visible}

\* push_surface: the committed buffer if it exists, else what is retained.
Compose ==
  LET live == {s \in Walked : attached[s] \in DOMAIN buffers}
      fallback == (Walked \ live) \cap KeptByGc
      shown == [s \in live \cup fallback |->
                  IF s \in live THEN buffers[attached[s]] ELSE retained[s]]
  IN /\ stale
     /\ stale' = FALSE
     /\ scene' = shown
     /\ retained' = [s \in KeptByGc \cup live |->
                       IF s \in live THEN buffers[attached[s]] ELSE retained[s]]
     /\ composed' = composed \cup live
     /\ UNCHANGED <<buffers, tree, queues, visible, drawing, client, replaced>>

\* The shell shows another workspace.
Switch ==
  /\ \E w \in Windows : visible' = (visible \ {w}) \cup ({w} \ visible)
  /\ stale' = TRUE
  /\ UNCHANGED <<buffers, tree, queues, images, client, replaced, composed>>

\* The backend takes the newest frame, and lets go of it (outside src/).
Take ==
  /\ drawing' = Range(scene)
  /\ UNCHANGED <<buffers, tree, queues, visible, stale, scene, retained, client, replaced,
                 composed>>

LetGo ==
  /\ drawing' = {}
  /\ UNCHANGED <<buffers, tree, queues, visible, stale, scene, retained, client, replaced,
                 composed>>

-----------------------------------------------------------------------------
(* Releases.                                                               *)

\* start_buffer_releases: ids still attached somewhere are dropped, the next
\* commit that replaces them retires them again.
Started == releasing \cup {b \in toRelease : ~ \E s \in Surfaces : Shows(s, b)}

\* What is owed and nobody reads, before the second look at the surfaces.
UnreadOwed(kept) ==
  {b \in Started : b \in DOMAIN buffers =>
                     buffers[b] \notin Range(scene) \cup Range(kept) \cup drawing}

\* finish_buffer_releases: neither read nor attached again meanwhile.
Finished(kept) ==
  {b \in UnreadOwed(kept) : ~ \E s \in Surfaces : Shows(s, b)}

\* The last gate before the wire: only an id that names a buffer is sent.
Released(kept) == BuffersIn(Finished(kept))

\* Mutant: what was released stays owed.
EverStarted(kept) == Started

StillOwed(kept) == Started \ Finished(kept)

\* The housekeeping tick, in its order: gc, start, finish.
Housekeeping ==
  LET kept == Restrict(retained, KeptByGc) IN
     /\ retained' = kept
     /\ toRelease' = {}
     /\ releasing' = StillOwed(kept)
     /\ busy' = busy \ Released(kept)
     /\ replaced' = replaced \ Released(kept)
     /\ UNCHANGED <<buffers, tree, visible, stale, scene, drawing, made, inherited, composed>>

-----------------------------------------------------------------------------
Request ==
  \/ \E b \in BufferIds : CreateBuffer(b) \/ DestroyBuffer(b)
  \/ \E s \in Surfaces : (\E b \in AttachedBuffer : Attach(s, b)) \/ Commit(s) \/ DestroySurface(s)

Next == Request \/ Compose \/ Switch \/ Take \/ LetGo \/ Housekeeping

(***************************************************************************)
(* The housekeeping timer ticks forever; a scene that is owed is composed  *)
(* because the backend keeps asking for frames (module FramePacer); and the *)
(* backend in the end lets go of a frame, if only for a newer one.  A      *)
(* client need not do anything.                                            *)
(***************************************************************************)
Fairness == WF_vars(Housekeeping) /\ WF_vars(Compose) /\ WF_vars(LetGo)

Spec == Init /\ [][Next]_vars

FairSpec == Spec /\ Fairness

-----------------------------------------------------------------------------
(* Properties.                                                             *)

TypeOK ==
  /\ DOMAIN buffers \subseteq BufferIds /\ buffers \in [DOMAIN buffers -> Buffer]
  /\ alive \subseteq Surfaces
  /\ attached \in [Surfaces -> AttachedBuffer]
  /\ pending \in [Surfaces -> Change]
  /\ cached \in [Surfaces -> Change]
  /\ toRelease \subseteq BufferIds
  /\ releasing \subseteq BufferIds
  /\ visible \subseteq Windows
  /\ stale \in BOOLEAN
  /\ DOMAIN scene \subseteq Surfaces /\ scene \in [DOMAIN scene -> Buffer]
  /\ DOMAIN retained \subseteq Surfaces /\ retained \in [DOMAIN retained -> Buffer]
  /\ drawing \subseteq Buffer
  /\ made \in 0 .. MaxBuffers
  /\ inherited \subseteq Buffer
  /\ busy \subseteq Buffer
  /\ replaced \subseteq Buffer
  /\ composed \subseteq Surfaces

\* A live buffer the client may draw into, because it never handed it over or
\* has been told it is released, is shown by no surface and read by nobody:
\* through skipped frames, hidden windows, retained textures, buffers
\* recommitted while their release was owed, and ids reused at any moment.  All
\* but a buffer whose id a commit of an older one had left named when it was made.
ReleasedIsFree ==
  \A b \in DOMAIN buffers :
    buffers[b] \notin busy \cup inherited =>
      /\ ~ BeingRead(buffers[b])
      /\ ~ \E s \in alive : attached[s] = b

\* A release reaches a client only for a buffer it handed over, and once per
\* handing over: for a buffer that merely has the id of an older one only if a
\* surface, a cache or the queue still had that id from the older one when the
\* new one was made.
ReleasesWhatWasHandedOver ==
  [][Housekeeping =>
       BuffersIn(Finished(retained')) \subseteq busy \cup inherited]_vars

\* A window that has shown something, and has had a buffer ever since, is
\* never composed away while its window is visible: a buffer destroyed under
\* it falls back to what it last showed.
NeverBlanked ==
  [][stale /\ ~ stale' => composed \cap Walked \subseteq DOMAIN scene']_vars

\* What a surface committed is gone, whether or not its id names another by now.
Gone(s) == attached[s] \in DOMAIN buffers => buffers[attached[s]] \in inherited

\* The buffer is what its surface falls back to: the window is hidden, so no
\* scene has overwritten it, or what was committed since is gone.
StandsIn(buffer) ==
  \E s \in DOMAIN retained \cap alive :
    /\ retained[s] = buffer
    /\ s \notin Walked \/ Gone(s)

WasReplaced(b) == b \in DOMAIN buffers /\ buffers[b] \in replaced

\* A buffer that a commit took off the last surface showing it is released in
\* the end, unless it is destroyed, shown again, or left standing in for a
\* surface that cannot be composed.
ReplacedIsReleased ==
  \A b \in BufferIds :
    WasReplaced(b) ~> ~ WasReplaced(b) \/ StandsIn(buffers[b])

\* Every buffer handed over comes back once no surface shows it, is going to,
\* or has nothing else to show, as long as its surface lives: one that a cached
\* commit attached and a later one superseded was never shown at all.
SupersededComesBack ==
  \A buffer \in Buffer :
    buffer \in busy
      ~> \/ buffer \notin busy
         \/ buffer \in HandedOver \/ StandsIn(buffer)
         \/ alive # Surfaces
=============================================================================
