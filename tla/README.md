# tokio_way_core in TLA+

`tokio_way_core` is the mechanism half of a Wayland compositor: it speaks the
protocol to clients, delivers input, builds scenes and paces frames. Window
management is the caller's, behind the `Shell` trait; sockets and the display
hardware are other crates, at the far ends of channels. This directory holds
TLA+ models of that code, the properties it must have, TLC runs that check them
on small instances, and proofs, checked by TLAPS, that hold for all instances.

Paths below are those of the repository (`src/run.rs`). `PROJECT.json` maps
every definition to the lines it models and lists runs, mutants, hazards,
findings and theorems.

- [The system](#the-system)
- [The modules](#the-modules)
- [Runs](#runs), [what they found](#where-the-code-and-its-documentation-disagree)
- [Fairness](#fairness)
- [Proofs](#proofs)
- [What is not modelled](#what-is-not-modelled)
- [Plan](#plan)

## The system

One task owns the whole `CompositorState`. Its loop (`run_compositor`) selects
between client messages, backend messages, a 16 ms housekeeping tick and
cancellation; a pass handles what it received, to the end, and then runs
`FramePacer::publish`. All queued client messages are drained in one pass. No
handler awaits, so there are no interleavings *within* the state; what makes the
system hard is the order of passes, and the parties that keep running meanwhile:

- the **backend thread**, which asks for frames, takes the newest one from a
  `watch` slot of one value (skipping any number), reads client memory while it
  draws, and reports presentations, hotplugs and the fate of dma-buf imports;
- the **clients**, which send any legal sequence of requests, destroy objects in
  any order, reuse an id the moment they have destroyed it, and vanish;
- the **shell**, whose hooks run with the shell detached from the state and
  whose answers (what is visible, what changed) may differ at every call.

### Components

| Component | State it keeps | Operations | What makes it hard, what makes it correct |
|---|---|---|---|
| Loop and frame pacing (`run.rs`) | `dirty`, `cursor_dirty`; `FramePacer`: published scenes, stale and waiting outputs, serials | one arm per message; `invalidate`, `request`, `publish`, `collect`, `forget_gone_outputs` | Requests and changes race; frames are skipped; outputs come and go. A request is never left waiting over something new; a patched screen equals a repainted one; serials never repeat. |
| Scene builder (`scene.rs`) | `SceneCache`: what was sent per buffer, what was last shown per surface | `build`, `output_damage`, `ensure_image`, `gc`, `build_cursor` | Works from buffers that may be gone. A window is never blanked; an upload is never less than what changed. |
| Buffers and releases (`compositor_state.rs`, `input.rs`) | buffers with guards, two queues of releases | register, destroy, attach, commit; start and finish releases at the tick | Read by frames in flight, retained textures, caches; ids reused. Released exactly when free, and in the end. |
| Damage (`compositor_state.rs`, `wl_surface.rs`) | `ShmBuffer::damage`, content serials | mark, clear, mapping to buffer pixels | Consumed by several outputs at their own pace. |
| Surfaces and subsurfaces (`wl_surface.rs`, `wl_subsurface.rs`, `wl_subcompositor.rs`) | two-way links, stacking, pending, cached and current state | create, destroy, link, restack, set_sync/desync, commit | Double buffering through nested levels; links changed between commit and apply. A tree lands together; no commit is lost or reordered. |
| Frame callbacks, presentation (`input.rs`) | callbacks per surface, `visible_on` | fire on presentation, or at the tick when off screen | Each answered once, in order, and in the end. |
| Shm pools (`wl_shm*.rs`) | pools, dead but referenced ones | create, resize, destroy, cleanup | A dead pool's id is reused; descriptor closed once, mapping alive while read. |
| Dma-buf imports (`zwp_linux_*.rs`) | params, imports in flight by token | add, create, create_immed, `resolve_import` | Late verdicts for things that are gone or renamed. |
| Client objects (`client_state.rs`, `protocol/mod.rs`) | objects and versions, unclaimed descriptors, a bounded send queue | register, unregister, queue_fds, send, send_error | Id reuse, pairing by order, cutting off a client that does not read. |
| Client teardown (`remove_client_resources`) | everything above | one sweep | Its order: buffers before pools, drags before surfaces are forgotten. |
| Configure handshake (`xdg_surface.rs`, `zwlr_layer_surface.rs`) | configures outstanding (at most 256), `configured` | send, ack, first buffer | Acks of bursts, old and invented serials; no content before a configure. |
| Windows, grabs (`xdg_toplevel.rs`, `input.rs`) | window states, what to restore, the grab, the resize anchor | set_window_state, start/update/end grab, apply_resize_anchor | Clients commit sizes behind the pointer; states change under a grab. |
| Popups, positioners (`xdg_popup.rs`, `xdg_positioner.rs`) | popup tree, grabbed popups | place, reposition, dismiss | Constraint adjustment, a pure algorithm. |
| Input delivery (`input.rs`, `wl_pointer.rs`, `wl_keyboard.rs`, `wl_touch.rs`) | focus, pointer surface, touch points, modifiers, consumed keys | motion, buttons, keys, touch, `switch_focus` | Enter and leave paired; half a keystroke; surfaces destroyed under a pointer or finger. |
| Selections and drags (`wl_data_*`, `zwp_primary_*`, `zwlr_data_control_*`) | sources, offers, two selections, the drag | set, announce, negotiate, drop, cancel | Offers outlive sources; negotiation after the drop; clients vanish mid-drag. |
| Outputs and globals (`wl_output.rs`, `wl_registry.rs`) | outputs, global names, bindings | upsert, retire, broadcast, enter/leave | Names never reused; clients bind what is being withdrawn. |
| Layer surfaces (`layer.rs`, `zwlr_layer_*`) | anchors, zones, pending and current | arrange, configure | Each zone moves every other surface. |
| Viewports, fractional scale | crop and destination, scale last told | pending, applied by commit | A crop lands with the buffer it crops. |
| Regions, keys, bell, decorations | small | small | Pure or trivial. |
| Shell seam (`shell.rs`) | the caller's | hooks | Detached while a hook runs. |

## The modules

| Module | Models |
|---|---|
| `Painting` | what a quad list looks like, `output_damage`, repainting by damage |
| `FrameDelivery` | what the pacer promises: whole versions, in order |
| `FramePacer` (extends `Painting`, refines `FrameDelivery`) | the loop's passes about scenes and outputs, `publish`, the slot, the backend |
| `BufferLifecycle` | buffers from creation to release |
| `DamageUpload` | damage accumulated, cleared, sent and patched |
| `ShmPools` | pools, the buffers carved out of them, mappings and descriptors |
| `BufferImports` | dma-buf params, the request channel, verdicts that come late |
| `SurfaceTree` | links, synchronised commits, frame callbacks |
| `Configures` | configures, acknowledgements, the first buffer |
| `Positioner` | where a popup goes, a pure algorithm |
| `Popups` (extends `Positioner`) | popups of windows, panels and of each other, grabs, dismissal |
| `LayerPanels` | placement of panels, what they reserve, when they are configured |
| `WindowStates` | maximized and fullscreen, moves and resizes, what a window was told |
| `ToplevelFamilies` | dialogs, their parents and the stack |
| `KeyboardDelivery` | focus, keys, modifiers, bindings |
| `PointerDelivery` | pointer and fingers: enter, leave, grabs, drags |
| `DataTransfer` | both selections, offers, drags and their negotiation |
| `Contents` | what clients give to be shown and where it may go: `DamageUpload`, `BufferImports`, `ShmPools`, `Configures`, `Popups` and `LayerPanels` side by side |
| `Desktop` | what the user and the clients do there: `WindowStates` (for one window and for two), `ToplevelFamilies`, `KeyboardDelivery`, `PointerDelivery` and `DataTransfer` (dragging and selecting) side by side |
| `ClientMemory_proof` | theorems about `BufferImports` and instances of `ShmPools` and `DamageUpload` |
| `WindowStates_proof` | theorems about `WindowStates` and instances of `Configures` and `ToplevelFamilies` |
| `Popups_proof` | theorems about `Positioner`, `Popups` and an instance of `LayerPanels` |
| `InputDelivery_proof` | theorems about `PointerDelivery` and instances of `KeyboardDelivery` and `DataTransfer` |
| `Composition_proof` | what those four show, of `Contents` and `Desktop` |
| the other `*_proof` | theorems about the module they extend |
| `MC_*` | constants for TLC; `MC_Contents` and `MC_Desktop` let one part of theirs move at a time |

A client that goes (`remove_client_resources`) is an action of `ShmPools`,
`BufferImports`, `KeyboardDelivery`, `PointerDelivery` and `DataTransfer` (`Gone`,
`ClientGone`, `Disconnect`): the order of the sweep, or what others are told in it,
matters there. `LayerPanels` has the part of it that takes a panel away (`Destroy`).
The others have no such action. `BufferLifecycle`, `SurfaceTree`, `DamageUpload`,
`Configures` and `Popups` are about one client and promise it something: once it is
gone there is nobody left to keep that to. `WindowStates` and `ToplevelFamilies`
have what a client destroys itself, window by window; that the sweep also ends a
grab of one of its windows is in `PointerDelivery`.

**FramePacer.** Each action of the compositor is a whole pass: the handler and
the `publish` after it, so no state between the two exists. State variables are
the fields of the same names. What an output should show is a list of quads that
`ScenePass`, the tick and the hooks change nondeterministically; how protocol
state determines it is left to the other modules. Two quads are equal when
`same_element` says so. The backend is modelled from the messages it sends and
from the contract in `publish`'s comments: it takes the newest frame, patches
if the scene's `damage_from` is what it drew last, repaints otherwise. It
remembers drawings across an unplug, the harder case for serials. Serials of one
publication go to the due outputs in any order (`HashSet` iteration).

**FrameDelivery** says what all of that amounts to. An output is offered
versions; a version has a number of its own and is what the output should show
when it is offered; a screen takes the version offered at the time, whole, and
only ever a higher number. Patches, the one-value slot, waiting requests,
forgotten outputs and remembered drawings do not occur in it. `FramePacer`'s
`Delivers` is this specification under the mapping `Wanted`, `Offered`,
`nextSerial - 1`, `OnScreen`.

**BufferLifecycle.** The code knows buffers by id; what is read is memory behind
an `Arc`. `buffers` maps live ids to the buffer each names, so the model can say
that a *buffer* was released under an id that now means another. The readers of
an `Arc` are `scene`, `retained` and `drawing`. `Housekeeping` is the tick's
`collect`, `start_buffer_releases` and `finish_buffer_releases` in their order.
`busy` and `replaced` are history: what the client handed over and was not told
it has back, and what a commit took off the last surface showing it. So is
`inherited`: the live buffers that were made under an id which a surface, a cache
or the queue of releases still had from an older one. An id may be reused at any
moment (`CreateBuffer` asks only that it name nothing now), and the properties say
what holds of a buffer that inherited nothing. One constant describes clients:
`SharesCached` (a buffer is committed twice, one of them into a cache).

**DamageUpload.** A cell of a picture holds the number of the commit that drew
it. Memory is read when the backend draws, so a redraw between building the
scene and drawing it shows. `ensure_buffer_image` is `Image` and `Sent`; one
`publish` composes the due outputs in any order and only the first gets the
patch.

**ShmPools.** A dead pool stays in `pools` while a buffer names its id, and the
id may by then name another pool; `guards` is what keeps each buffer on the
mapping it was made with. A descriptor is the number of the `create_pool` that
brought it; `open` and `twice` say what became of each. A request that is
answered with an error and changes nothing else is left out: the client then
goes, which `Gone` has at any time.

**BufferImports.** The i-th import is token i. `requests` is the bounded channel
to the backend and `answers` what comes back, at any later time, when the params
object, the buffer or the client may be gone or the id reused. `asked`, `told`
and `verdict` are history. An offer is "good", "unknown" or "misfit" by what the
code can check itself; formats and plane geometry go no further. The names the
compositor gives objects of its own may run out (`MaxServerIds`): a `create` that
was imported is then answered with `failed`. `abandoned` are
buffers whose params object was destroyed before the verdict.

**SurfaceTree.** Up links (`parent`) and down links (`children`) are separate
variables because they are separate fields, changed by different lines and
walked by different code. The n-th commit of a surface is the number n, so the
three lists `answered`, `callbacks` and `cached` tell what was lost, doubled or
reordered. The walks are bounded by the number of surfaces, as in the code. One
client, one output.

**Configures.** One serial counter serves all events. `pending` forgets its
oldest serial when it is full, as `record_configure` does; `sent` and `answered`
are what a client remembers, and `astray` whether it broke the protocol. Which
state a configure announces is `WindowStates`' business.

**Positioner, Popups, WindowStates** work along one axis: the code settles each
axis by itself, with the same lines. A popup stands for its `xdg_surface` and
its `wl_surface`. In `Popups`, `given` remembers what a popup was placed by: the
positioner, where its parent was, and whether that was on the output. A positioner
may name the size its parent is about to have (`parentWidth`, 0 for none), and then
that is the region and not the output. In
`WindowStates` the compositor owns positions and the client its sizes, committed
in its own time; `told` is the states in the last configure.

**LayerPanels** has both axes, since anchors span one and reserve from the other.
`unsettled` are the outputs whose room changed without anybody being placed again.
Numbers are integers: sums past the range of an `i32`, which absurd margins and
zones could reach, are not followed. One margin stands for the four.

**ToplevelFamilies.** The stack is the shell's; `raise_with_children` and
`toplevel_family` reorder it.

**KeyboardDelivery, PointerDelivery.** `on`, `held`, `known` and `fingers` are
what a client believes, from the events it was sent. A hit test finds any
surface there is, or none; what the shell does in a hook is `ShellDecides`. A grab
or a drag that ends before its button comes up (a window that changes state, Escape,
a source that is destroyed) is `LetGo`.

**DataTransfer.** One action per request, in the three protocols' common form:
`GetDevice`, `SetSelection` and `DestroySource` stand for a handler of each, and
the constants say which device or source speaks which protocol, as the `interface`
tag and the three device lists do. `sources`, `offers`, `selection` and `drag` are
the fields of those names; an offer whose `source` is `None` answers everything
with nothing and is not told apart from one that is gone. `told`, `entered`,
`agreed` and `dropped` are history: what a device and a target last heard, and
which sources' drags ended in a drop. `Ends` is what a source heard of its end,
by what its version has events for. `Disconnect` is the whole of `remove_client_resources` for this state, with
the two places where the shell may move the focus, before the selections are
cleared and after. A client has one surface and at most one device of a kind in
the runs.

## Runs

| Run | Checks | Instance | Shows |
|---|---|---|---|
| `pacer_replug` | `TypeOK`, `ScreenFaithful`, `WaitingMeansCurrent`, `Delivers` | 1 output, 2 cells, 5 looks, 3 changes, 4 hotplugs | Patching is right, no request waits over something new, and the pacer implements `FrameDelivery`, across unplug and replug. |
| `pacer_two` | `SlotCarriesAllScenes`, `EventuallyShown` | 2 outputs, 3 looks, 2 changes, 2 hotplugs | The one-value slot loses nothing; what should be shown reaches the screen. |
| `buffers_safe` | `TypeOK`, `ReleasedIsFree`, `ReleasesWhatWasHandedOver` | window and subsurface, 2 ids, 2 buffers | A released buffer is neither shown nor read; nothing is released that was not handed over. |
| `buffers_window` | `NeverBlanked`, `ReplacedIsReleased` | window, 2 ids, 3 buffers | A window is not blanked by destroying buffers under it; a replaced buffer comes back. |
| `buffers_superseded` | `SupersededComesBack` | window and subsurface, 2 ids, 2 buffers | violated, see below |
| `tree_nested` | `TypeOK`, `LinksAgree`, `DownwardAcyclic`, `TreeLandsTogether` | 3 surfaces, 2 commits | Links agree through any order of linking, restacking, destroying and reusing; a window and all that is synchronised to it land together. |
| `tree_pair` | `CommitsLandInOrder`, `CallbacksAnswered` | 2 surfaces, 4 commits | No commit or callback is lost, doubled or reordered, and every callback is answered. |
| `tree_relink` | `DownwardAcyclic` | 3 surfaces, no commits, 2 objects per surface | violated, see below |
| `damage_elsewhere` | `TextureIsTheBuffer` | 2 outputs, the window on one | violated, see below |
| `contents` | see the next table | | What clients show, and where. |
| `desktop` | see the next table | | What the user and the clients do. |
| `keys_come_up` | `KeysComeUp` | 3 windows, 2 clients, 3 keys, 1 binding | violated, see below |

`contents` and `desktop` check `Contents` and `Desktop`, each several modules side
by side. A step of the whole is a step of one part and leaves the others alone;
no part writes what another reads, because each abstracts from the rest of the
state in its own way (a popup's window moves as it likes in `Popups`, whatever
`WindowStates` would do). TLC therefore takes behaviours in which one part moves
(`part`): for a property of that part they are all there is to see, and the states
are those of the parts one after another, not their product. That this loses
nothing is what the lemmas `...Run` of `Composition_proof` say. `ContentsTypeOK`
and `DesktopTypeOK` are the type invariants of all parts, and every other property
is the part's of the same name. Both modules assume what their parts ask of their
constants.

| Run, part | Module | Checks | Instance |
|---|---|---|---|
| `contents`, pixels | `DamageUpload` | `TextureIsTheBuffer`: patches leave no stale cell | 2 outputs both showing the window, 2 ids, 3 commits, 2 buffers |
| imports | `BufferImports` | `AnsweredOnce`: no params object waits for nothing or hears twice; `VerdictsFindTheirBuffer`: a verdict reaches the buffer it is about and no later holder of the id | 3 params objects of which 2 may live, 1 plane, 1 buffer id, 2 imports, a channel of 1, 1 name of the server's |
| pools | `ShmPools` | `ReadsItsOwnMemory`: a buffer is drawn from the memory it was made of; `NoneLeaksNoneTwice`: each descriptor is closed, once | 2 pool ids, 3 pools, sizes 1 and 2 |
| configures | `Configures` | `HonestIsSafe`: a client that keeps the rules is not disconnected | 2 surfaces, at most 2 outstanding, 4 serials |
| popups | `Popups` | `PlacedAsAllowed`: a popup is where its positioner lets it be; `ClosedFromTheTop`: no menu closes before its submenu | 2 popups, 2 positioners, one naming a parent 2 wide, an output 3 wide |
| panels | `LayerPanels` | `PanelsKnowTheirPlace`: a panel's client was told the size it is drawn at; `ReservedIsClear`: nothing placed later reaches into what a panel reserves | 2 panels, 3 wishes, an output of 4 by 3 |
| `desktop`, drag | `DataTransfer` | `OffersAreCurrent`, `SourceFate`, `EntitledKnow`, `SidesAgree`, `NobodyLeftEntered`: through every change of mind, drop, cancel and teardown | 2 clients with a data device each, the second below version 3; 1 source, which may also go to the clipboard, 2 actions, 2 offers per device |
| selecting | `DataTransfer` | `OffersAreCurrent`, `SourceFate`, `EntitledKnow`: who may read a selection knows it | a client with a primary device and source; a manager of both selections with a source; 2 offers per device |
| two windows, one window | `WindowStates` | `ToldIsTrue`: a window's last configure tells it its states; `AnchoredEdgeHolds`: the edge opposite the dragged one stays, whatever the client commits | two windows on an output 1 wide, 1 grab; one on an output 3 wide with a panel, committing up to 2, 2 grabs, 2 limits |
| families | `ToplevelFamilies` | `DialogsOnTop`: a dialog is above its parent | 4 windows |
| keyboard | `KeyboardDelivery` | `TheFocusedClientKnows`: focus, modifiers and keys as the client believes them | 3 windows, 2 clients, a modifier, a bound key, Escape |
| pointer | `PointerDelivery` | `HoversAgree`, `FingersAgree`: pointer and fingers as clients believe them | 3 surfaces, 2 clients, 1 button, 1 finger |

Every property has a mutant in `PROJECT.json`: a plausible bug in a mapped
definition under which the run fails.

**Bounds.** One output already shows everything about patching and
serials: serials are shared between outputs but compared per output. Two outputs
are needed, and enough, for the slot and for damage, where one output's
composing affects another. Three changes with four hotplugs let an output be
drawn, forgotten, brought back and drawn again with something new; two cells and
overlapping quads distinguish covered, moved and restacked windows. Two buffers
of a window and a subsurface are double buffering plus a cache; a third lets an
id be destroyed and used again while the old buffer is still owed. Three
surfaces are the least with a level in the middle, which every nesting rule is
about; two commits there are one cached in the middle or at the leaf and the one
above that applies it. A pair of surfaces with four commits caches two of them
behind one another and still has two to apply them with. Three commits over two
cells make a patch that skips one of them visible. `MaxObjects = 1` means a
client asks for one `wl_subsurface` per surface at a time, the protocol's rule;
`tree_relink` is about clients that do not.

Two clients are an origin and a target, or an owner and a manager. The source that
is dragged is of version 3: one below it hears nothing of a drop, which is in the
theorem, for any versions, and not in the run, where a second source is beyond its
size. One source is enough for its own fate, as it can be used once and destroyed and made anew; the
primary source, which can be used again, and the manager's compete for the
primary selection; the clipboard changes hands in both parts, by data devices in
the one and by a manager in the other. Two actions make a preference matter, and
two offers of a device let an old one outlive a new one; a step that needs a
third is not taken.

Two imports and one id make a verdict arrive when the id holds the next buffer,
and a channel of one is full at the second request. Three pools under two ids
put a pool over a dead one and a third beside both; two sizes tell a grown pool
from the old mapping. One plane is enough to have none, one twice and one too
many; that planes run without a gap decides only whether a request is legal. Two
outstanding configures and four serials overflow the queue with an
acknowledgement still to come. One menu fits, flips or slides with where its
parent is; the other is wider than the size it names for its parent, and slides and
shrinks whatever the output is. With one name of the server's, a second `create`
that is imported finds none. Three wishes
are a bar and a dock that reserve different edges and a backdrop that ignores
zones and reserves nothing; two of them compete. Four windows make a family with
a grandchild and a stranger between. `MaxGrabs` is two, so that an anchor left
by the first grab is there in the second; a width of 2 and a pointer that goes 3
far make a client that commits less than it was asked for, or just that. Two
windows need no room: what one does to the states, the focus and the grab of the
other does not depend on where they are, and on an output one pixel wide a
window is still maximized, covers it, and is told that it is being resized; the
pointer moves in the part with one window. Three surfaces are two of one
client's, so that focus and pointer move within a client and across; fingers
meet only in a cancel, so one is enough beside a proof for any number.

In `tree_nested` nothing is ever on screen (`Screens = {{}}`), as visibility
plays no part in linking or in applying commits. `SharesCached` is `FALSE` in all
runs: the protocol leaves open what a client is owed that has one buffer in two
commits.
`GrabsAgain` and `ReusesIds` are `FALSE` for the gaps below.

**Deadlock** is checked in every run but `contents`, where a client that has gone
(`BufferImports`, `ShmPools`), a client that was disconnected and serials that
are used up (`Configures`) leave nothing more to do.

## Where the code and its documentation disagree

Each of these is a `violation` run whose counterexample TLC prints.

1. `damage_elsewhere`: composing any output clears the damage of all buffers
   (`run.rs:170`). The comment argues that a texture the other output needs is
   uploaded or absent; it can also be uploaded and two commits old.
2. `tree_relink`: a second `get_subsurface` leaves the surface in its old
   parent's `children` (`wl_subcompositor.rs:109`); a cycle of children can then
   be closed, which the parents' walk does not see.
3. `buffers_superseded`: merging two cached commits forgets the first one's
   buffer (`compositor_state.rs:149`).
4. `keys_come_up`: "the client never sees a consumed press" (`shell.rs:203`), but
   if the binding moves the focus, the window that gains it is entered with the
   consumed key among the pressed ones (`wl_keyboard.rs:104`). Its release is
   swallowed with the press, so the client believes it held from then on.

The properties of the passing runs are stated around more gaps, which the
models have as well:

- `OutputInfo` brings in or changes outputs without marking the state dirty,
  unlike its three sibling messages (`run.rs:317`): a new output waits for an
  unrelated change. `WaitingMeansCurrent` excepts exactly these (`quiet`).
- Leaving synchronised mode applies one's own cache and the caches of
  synchronised children, not that of a desynchronised child that was held back
  only by this surface (`wl_subsurface.rs:63`, `:176`). `CommitsLandInOrder`
  excepts surfaces this once happened to (`leftBehind`).
- Destroying a surface does not queue its buffer for release
  (`compositor_state.rs:2736`). `ReplacedIsReleased` is about buffers a commit
  replaced.
- `register_buffer` clears only the second queue, so a surface, a cache or the first
  queue that still names a reused id shows or releases the new buffer
  (`compositor_state.rs:1569`). `ReleasedIsFree` and `ReleasesWhatWasHandedOver`
  except exactly such a buffer (`inherited`); without the exception TLC finds both
  violated in `buffers_safe`.
- Destroying the source of a drag cancels the drag, and with it sends the source
  the `cancelled` that `wl_data_source.rs:69` says is not sent
  (`compositor_state.rs:2205`).
- A data device made while a drag is over its client hears motion, leave or drop
  without an enter (`input.rs:928`). `NobodyLeftEntered` is about the other
  direction.
- A client with two data devices settles a drag on each by itself, and its source
  hears whichever changed last; `finish` on both sends `dnd_finished` twice
  (`wl_data_offer.rs:165`). The runs give a client one of a kind.
- A dropped offer that is destroyed without `finish`, or whose client goes, leaves
  the source waiting for `dnd_finished`. The code leaves that to the protocol;
  `SourceFate` counts the drop as the end. A source below version 3 is told of no
  drop at all (`wl_data_source.rs:155`), and `SourceFate` says so.

The newer modules have these:

- *Windows.* `set_window_state` drops the grab but not the resize anchor
  (`compositor_state.rs:1933`), so a late commit still moves a window that has
  been maximized; `AnchoredEdgeHolds` is about resizes under way. Maximizing,
  restoring and maximizing again before the client has answered takes the
  maximized size for the one to restore. A second grab in one press leaves the
  first window told that it is being resized (`GrabsAgain`), and a window that is
  destroyed leaves its grab behind.
- *Focus.* Destroying a toplevel drops the keyboard focus without a leave
  (`KeyboardDelivery`'s `DestroyToplevel`).
- *Pointer.* A press that finds another surface under the pointer enters it
  without leaving the old one (`run.rs:571`): clients this happened to are
  `robbed`. `get_pointer` does not catch up with a pointer that is already there
  (`late`). `HoversAgree` excepts both until the pointer next comes or goes.
- *Panels.* Destroying a panel, its client or the output's size does not place the
  others again (`unsettled`); a destroyed `wl_surface` goes on reserving; maximized
  windows are not laid out again. A refused commit has already applied the layer
  surface's state, against the comment at `wl_surface.rs:369`.
- *Popups.* A popup that a panel adopted cannot be repositioned: its parent is
  looked for under the name `get_popup` was given, which is null.
- *Configures.* A client that acknowledges first a serial that the full queue has
  forgotten is not configured, and its next buffer is fatal; `HonestIsSafe` asks
  that the first answer come before that. Making the `xdg_surface` anew leaves
  shown content that was never configured.
- *Families.* A destroyed parent's dialogs go on naming its id; with
  `ReusesIds = TRUE` they belong to whatever takes it.
- *Imports.* Destroying the params object cancels a pending import, so a buffer of
  `create_immed` that the backend refuses is never found out (`abandoned`).
- *Pools.* Resizing a pool marks every buffer that names its id, also those of an
  older pool under that id. It costs an upload.

## Fairness

- The loop keeps receiving messages while there are some (`tokio::select!` over
  ready channels), so handling backend messages is weakly fair; the housekeeping
  interval ticks for ever.
- The backend asks for frames on plugged outputs, draws the scenes it is given,
  presents, and lets go of a frame in the end. This is its contract; it is
  outside this repository.
- `BufferLifecycle`'s `Compose` is weakly fair on the strength of
  `EventuallyShown`.
- Outputs do not go for ever in `SurfaceTree` (`<>[][~ OutputGone]`): an output
  that vanished before every presentation would starve any client.
- Clients, pointer, hotplugs and the shell are never obliged to do anything.

## Proofs

Each `_proof` module extends the module it is about and is checked by TLAPS, for
every value of the constants, whatever their size. "States" says which of the runs'
properties a theorem is about.

| Module | Theorem | States |
|---|---|---|
| `FramePacer_proof` | `TypeCorrect` | `TypeOK` |
| | `ScreensAreFaithful` | `ScreenFaithful` |
| | `SerialsNameScenes` | equal serials mean equal scenes, no run checks it |
| | `SlotIsComplete` | `SlotCarriesAllScenes` |
| | `PacerDelivers` | `Delivers`, the refinement |
| | `RequestsAreKept` | `WaitingMeansCurrent` |
| `BufferLifecycle_proof` | `TypeCorrect` | `TypeOK` |
| | `ReleaseIsSafe` | `ReleasedIsFree`, for clients with `~ SharesCached` |
| | `ReleaseIsOfItsBuffer` | `ReleasesWhatWasHandedOver`, for clients with `~ SharesCached` |
| | `FallsBack` | `NeverBlanked` |
| `SurfaceTree_proof` | `TypeCorrect` | `TypeOK` |
| | `LinksHold` | `LinksAgree`, for one `wl_subsurface` per surface |
| | `CommitsInOrder` | `CommitsLandInOrder` |
| | `WalksUpEnd` | parents form no ring, no run checks it |
| | `WalksDownEnd` | `DownwardAcyclic`, for one `wl_subsurface` per surface |
| | `TreesLandTogether` | `TreeLandsTogether` |

What holds of `Contents` and of `Desktop` is shown in two stages. A theorem of the
part, in its own module, has the inductive invariant and all of the argument;
the theorem of `Composition_proof` is what the run checks.

| `Composition_proof` | States | From | Of |
|---|---|---|---|
| `ContentsTyped` | `ContentsTypeOK` | `DamageTyped`, `TypeCorrect`, `PoolsTyped` | `ClientMemory_proof` |
| | | `TypeCorrect`, `PanelsTyped` | `Popups_proof` |
| | | `ConfiguresTyped` | `WindowStates_proof` |
| `TexturesAreTheBuffers` | `TextureIsTheBuffer`, of a window on every output | `TexturesAreRight` | `ClientMemory_proof` |
| `ParamsAreAnsweredOnce` | `AnsweredOnce` | `EveryoneIsAnswered` | |
| `VerdictsAreOfTheirBuffer` | `VerdictsFindTheirBuffer` | `VerdictsFindTheirs` | |
| `BuffersReadTheirOwnMemory` | `ReadsItsOwnMemory` | `OwnMemory` | |
| `DescriptorsAreClosedOnce` | `NoneLeaksNoneTwice` | `NothingLeaks` | |
| `PopupsArePlaced` | `PlacedAsAllowed` | `PlacedRight`, which rests on `PlacementIsKept` | `Popups_proof` |
| `MenusCloseInOrder` | `ClosedFromTheTop` | `MenusCloseFromTheTop` | |
| `PanelsAreTold` | `PanelsKnowTheirPlace` | `PanelsAreTold` | |
| `ReservedStaysClear` | `ReservedIsClear` | `ReservedStaysClear` | |
| `HonestClientsStay` | `HonestIsSafe` | `HonestIsSafe` | `WindowStates_proof` |
| `DesktopTyped` | `DesktopTypeOK` | `TypeCorrect`, `FamiliesTyped` | `WindowStates_proof` |
| | | `PointerTyped`, `KeyboardTyped`, `TransferTyped` | `InputDelivery_proof` |
| `WindowsAreTold` | `ToldIsTrue`, for one grab per press | `WindowsAreTold` | `WindowStates_proof` |
| `EdgesHold` | `AnchoredEdgeHolds` | `EdgesHold` | |
| `DialogsStayOnTop` | `DialogsOnTop`, for ids not used again while a dialog names them | `DialogsStayOnTop` | |
| `TheFocusedKnow` | `TheFocusedClientKnows` | `KeyboardIsKnown` | `InputDelivery_proof` |
| `PointersAgree` | `HoversAgree` | `PointersAgree` | |
| `TouchesAgree` | `FingersAgree` | `TouchesAgree` | |
| `OffersReadWhatTheySay` | `OffersAreCurrent` | `OffersReadWhatTheySay` | |
| `SourcesHearTheirEnd` | `SourceFate` | `SourcesHearOneEnd` | |
| `TheEntitledAreTold` | `EntitledKnow` | `EntitledAreTold` | |
| `SidesSettle` | `SidesAgree`, for one data device per client | `SidesSettle`; `OffersSettle` is the half that needs no such condition | |
| `NobodyStaysEntered` | `NobodyLeftEntered` | `NobodyIsLeftEntered` | |

**FramePacer** assumes what the module states: finitely many outputs, and looks
that are sequences of quads and include the empty one.
`ScreenFaithful` is not inductive. The backend patches when the serial it
remembers is the scene's `damageFrom`, so a step keeps the screen right only if
that serial can name no scene but the one damage was counted from. The inductive
invariant `PacerInv` adds that serials in use are below the next one
(`SerialsBelowNext`), that the slot has every published scene
(`SlotCarriesAllScenes`; it may have more, of outputs since forgotten), that an
equal serial means equal quads (`SerialNamesScene`), and that wherever the
slot's damage is counted from what a backend drew, nothing outside it differs
(`DamageCovers`). `OutputDamageCovers` is the lemma about `output_damage`
itself: outside the damage it reports, two quad lists paint alike.
`EveryPassPublishes` reduces all passes to `Publish` with some arguments, so
preservation is proved once for the compositor (`PassKeepsInv`), once for `Draw`
(`DrawKeepsInv`), and once for the rest, which touch no scene. The refinement
adds that no screen is ahead of the slot (`NeverAhead`): a pass maps to `Offer`,
a drawing to `Show`, and everything else to a stutter. `WaitingMeansCurrent`
follows from what a pass leaves behind (`NothingIsOwed`): nothing is dirty, an
output that is neither stale nor `quiet` was published what it should show, and
none is both stale and waiting.

**BufferLifecycle.** That a surface falls back rests on `ComposedIsRetained`: what
was composed and not emptied since is in `retained`. That holds for any client;
what is said of releases holds for one with `~ SharesCached`, as in the runs,
whichever ids it reuses. An id is `Fresh` while it names a buffer that inherited
nothing. A fresh id in either queue still names a buffer that is owed
(`QueuedIsBusy`) and a cached one was handed over by that commit alone
(`CachedOnce`), so a release takes nothing from a surface that has yet to show it;
and a new buffer is read by nobody, since all that is read is numbered below it
(`NumbersAreOld`).

**SurfaceTree.** A walk is a recursive function of the steps taken.
`ReachableIsLeast` says what it comes to, the least set that contains its start
and is closed, so that the bound the code puts on its steps never cuts it short;
all later proofs use that lemma and not the recursion. `NoRing` is inductive:
`GetSubsurface` refuses an ancestor, and every other step only removes links.
`LinksAgree` needs `ListedAgree` (a surface is listed only while it has its
object) and `MaxObjects <= 1`; with that, walks down are walks up and end as
well. `tree_relink` shows the other case. The other theorems hold for any
`MaxObjects`. `CommitsLandInOrder` needs `OrderKept`, what is cached with nothing
to apply it has been noted in `leftBehind`.

**ShmPools** needs no assumption but for its types, that its bounds are numbers. `PoolsInv` relates the four places a mapping or
a descriptor is known: a pool's mapping is of its own descriptor
(`MappingsAreTheirs`), a buffer has a guard exactly when it was made of memory,
and that guard is the memory (`GuardsAreTheirs`), and the descriptors of pools in the
table are the open ones and all different (`FdsAreTheirs`).

**DamageUpload** assumes that no buffer has the name of none, and a window on
every output: `damage_elsewhere` shows the other case. Every serial of a buffer
has a mark, the last commit whose drawing its content under that serial has. A
texture is right in each cell not drawn since the mark of its serial
(`TexturesHold`), a patch has every cell drawn between the marks of the serial it
is for and of its own (`PatchesSuffice`), and the damage noted every cell drawn
since the mark of the serial last sent (`DamageIsNoted`). The marks of a buffer
nobody reads begin anew when the window takes it.

**BufferImports** assumes that the ids clients give are none of those the server
gives, which the protocol's ranges see to. Serials are never given twice, so a
verdict finds the buffer it was asked for (`SerialsName`), and a buffer without a
verdict is still what its pending import describes, unless that was `abandoned`
(`WaitingIsPending`). A params object that asked has one import pending or was told
something, never both (`OneAnswer`); every pending import is in the channel or
among the answers (`PendingIsUnderWay`), once (`UnderWayOnce`).

**Popups** assumes an output and positioners of the expected form
(`PopupsAssumption`). `PlacementIsKept` goes by the three adjustments one after
the other (`SlideFits`, `ShrinkFits`), each taken only where the one before left
the popup outside. Where a popup is on screen and what is above it are recursive
over parents; that such a function exists needs parents to come before their
children (`ParentsComeFirst`, `WalkExists`), and `FromTheParents` is the induction
that says what it is. Grabs form a chain of parents (`GrabsAreAChain`), of which
every dismissal leaves a prefix, so menus close from the top.

**LayerPanels** assumes requests of the form a client can make, with sizes that are
not below zero, which `set_size` sees to, and ids that are numbers
(`PanelsAssumption`). There may be any number of panels, of which finitely many are there
at a time. What panels leave of an output is a fold over a set of them in their
order; that the fold is defined, and one value whichever set it is started from,
is an induction over sets (`LeftExists`, `LeftAgrees`, by `SetInduction`). A panel is
placed the same as long as nothing is asked anew on its output (`SameGeometry`), and
when a panel comes, since that reserves nothing before it commits
(`NothingReserved`, `NewPanelMovesNobody`); a commit places everybody on its output,
and what else changes room is in `unsettled`. `ReservedIsClear` is in the
arithmetic alone. What is left after a panel that takes no more than its zone lies
beyond it on the side of its edge, or is empty (`BeyondAtFirst`), and later strips
leave less of that (`BeyondStays`, `LaterRoomIsBeyond`); a panel that fits stays in the
room it is given (`AlongOneAxis`). Two conditions are needed that a small instance
did not show: an area left empty may begin inside a panel, so only areas with a
point overlap, and a margin below zero takes a panel out of its room on purpose.

**WindowStates** assumes a screen and hints of the expected form
(`WindowsAssumption`). A step tells a window of every state it changes, or changes
none of its states (`ToldRight`), which is shown window by window;
`~ GrabsAgain` is the rule without which it fails. Every step that moves the
anchor, the grab or the edge moves them together.

**Configures** assumes only that its bounds are numbers. Serials a surface was sent
are below the next one and no later than the newest (`SentIsBelow`), so a client
that answers what it was sent is never taken to invent. Until its first answer
the queue holds exactly what was sent, as long as that is no more than the queue
keeps (`WaitsForItsFirst`), so the first answer always configures.

**ToplevelFamilies** assumes that no window has the name of none, and of clients
`~ ReusesIds`: a window made under an id that a dialog still names is put above
that dialog. The invariant is `DialogsOnTop` and the types; what is hard is that
the code's bounded walks find the whole family. The walk to the root stops for
want of a parent and not at its bound, since the place in the stack falls with
each step, and after `set_parent` since `would_cycle` saw the walk that follows
(`WalksEnd`, `SetParentKeeps`). The rounds of `descendants_of` are not empty and
have nothing in common (`AreRounds`), so that there are no more than windows
(`RoundsAreFew`) and what they find is closed under children (`RoundsAre`). A
dialog of the family comes a round after its parent, and one outside it has its
parent outside as well.

**KeyboardDelivery** assumes that windows have owners and that neither Escape nor
a binding's key is a modifier, which `KeyCombo::parse` sees to: a key that is
consumed would otherwise change the modifiers unheard. `NoModifierConsumed`
carries that to the key's release.

**PointerDelivery** assumes that surfaces have owners. `HoversAgree` excepts two
kinds of clients; it is kept because a `late` one believes nothing
(`LateHearNothing`) and a `robbed` one is not under the pointer
(`RobbedAreElsewhere`), so that each is right when it is excepted no longer.

**DataTransfer** assumes what the module says of devices, sources and versions
(`TransferAssumption`). `SourceFate` is kept source by source, for each that can be
used once (`Fates`, `FateIsHeard`), and needs that a drag and a selection are of sources
used for that and of no other (`DragIsItsSources`, `SelectionsAreHeld`). With that
what ends one use of a source cuts no offer of another, so `OffersAreCurrent` is
kept, with `DragOffersAreDrags`: a drag keeps no offer that was cut, so its drop
makes no offer dropped that was not dragged. `EntitledKnow` and `NobodyLeftEntered`
are inductive with the types alone, over the loops that tell each device. Every
offer has settled on what both sides say (`OffersSettle`), whatever devices a
client has. That the source has heard the same holds for one data device per
client (`OneDataDevice`): a drag over a client gives each of its data devices an
offer, the client may accept a different action on each, and the source hears
of every one and keeps the last. Clients have one data device per seat; the run
has one.

**Contents, Desktop.** Nothing is strengthened for the composition. A run of the
whole is a run of each part (`PixelsRun` to `DraggingRun`): the first state is one
of it, its own step is a step of it, and any other step leaves it alone. A part is
an instance in two places, in the composition and in the proof about it, which the
prover tells apart; the lemmas `...Init`, `...Next` and those named for a property
expand both, and match the operators in between first where that is too much at
once (popups, panels, families, transfers). The assumptions are `ContentsAssumption` and
`DesktopAssumption`, which collect those of the parts, and `OneDataDevice` where
the table says so. That clients grab once per press and use no id again while a
dialog names it is in how `Desktop` instantiates the two modules.

**Induction.** The library's induction theorems take an operator and cannot be
used by the provers here. Induction over numbers is stated of a set instead
(`LeastNumber`, `Induction`, from `WFMin` about `<`), and the recursive functions
the models use are shown to exist before anything is said of them
(`WithinExists`, `WalkExists`, `LeftExists`).

**Only model-checked.** Liveness (`EventuallyShown`, `ReplacedIsReleased`,
`CallbacksAnswered`), which needs fairness and ENABLED, and TLAPS handles neither.
Every invariant and every action property the passing runs check is a theorem, some
under the condition the table names.

## What is not modelled

The table of components in `PROJECT.json` gives each its status. Within the
modelled parts:

- The socket between client and compositor: requests are handled and events
  heard at once. A release on the wire while its buffer is destroyed is not
  expressed.
- Client objects: the pairing of descriptors with requests by order, which the
  decoder in another crate decides, and the bounded queue of a client that does
  not read, which could lose any event of any module.
- Viewports, scale and transform of a commit, and mapping damage through them:
  floating point, rounded outwards.
- How the scene is derived from state: `FramePacer` lets it change freely. The
  cursor, effects and capture.
- The backend's own failures.
- Coordinates of events, scrolling, touch motion; keyboard interactivity of
  panels.
- Titles, window geometry, ping, decorations.
- Several outputs in `SurfaceTree`; globals and the outputs clients bind.
- Formats, modifiers and plane geometry of dma-bufs, which only decide whether a
  request is legal.
- Of positioners: `reactive` and `set_parent_configure`, which nothing in the code
  reads back.
- In `DataTransfer`: mime types and the pipe; the serials that refuse a request;
  the drag icon and its role; several surfaces of a client; a client that has no
  server ids left to give an offer.
- Regions, the text of key bindings, the system bell: pure or trivial.
- Code outside the crate (the backend, `PoolMapping::new`) is modelled from how
  `src/` uses it and marked external in the map.

## Plan

What is left, in this order:

1. `CommitState`: a viewport and a scale next to the buffer they come with, taken
   at different times by `wl_surface.rs:546`.
2. `OutputGlobals`: names never reused, bindings of what is being withdrawn,
   enter and leave of surfaces.
3. The cursor: what is rebuilt when the surface under it or its client goes.
