---------------------------- MODULE DamageUpload ----------------------------
(***************************************************************************)
(* Uploading only what a client says it redrew (src/scene.rs ensure_image, *)
(* src/state/compositor_state.rs mark_buffer_damaged and                   *)
(* clear_buffer_damage, src/run.rs publish), for one window.               *)
(*                                                                         *)
(* A commit tells which cells of the window changed.  The compositor notes *)
(* them with the buffer and, when it next composes it, sends them along as *)
(* a patch on the image it sent before, named by its content serial.  The  *)
(* backend keeps a texture per buffer id: it patches it if it is of that   *)
(* very serial, and uploads the whole buffer otherwise.  Pixels are read   *)
(* from the client's memory when the backend draws, not when the scene is  *)
(* built.                                                                  *)
(*                                                                         *)
(* A cell of a picture is the number of the commit that last drew it.      *)
(* Buffers have one size, and none is destroyed while the window shows it  *)
(* (module BufferLifecycle models that).                                   *)
(***************************************************************************)
EXTENDS Naturals, FiniteSets, Functions

CONSTANTS Outputs,
          BufferIds,     \* the ids the client uses for its shm buffers
          Cells,         \* the cells of the window
          NoBuffer,      \* the window shows no buffer yet
          NoImage,       \* no image: the output's scene has no window in it
          MaxCommits,    \* bound: commits of the window
          MaxBuffers,    \* bound: how many buffers are ever made
          ShownOn        \* the outputs the window is on

\* What the constants have to be.
NamesAssumption == NoBuffer \notin BufferIds
BoundsAssumption == MaxCommits \in Nat /\ MaxBuffers \in Nat
ShownOnAssumption == ShownOn \subseteq Outputs /\ ShownOn # {}

VARIABLES
  live,          \* state.buffers
  memory,        \* what a buffer holds
  serial,        \* Buffer::content_serial
  damage,        \* ShmBuffer::damage: cells, or Cells for None
  known,         \* ShmBuffer::damage is Some: damage is described
  nextSerial,    \* state.next_content_serial
  attached,      \* the window's buffer
  picture,       \* what the client last drew
  commits,       \* how many commits there have been
  made,          \* how many buffers there have been
  stale,         \* FramePacer::stale
  cache,         \* SceneCache::buffers: the serial last sent, 0 for none
  published,     \* the image of the window in each output's scene
  drawn,         \* the image each output last drew
  texture        \* the backend's texture of each buffer: its serial and cells

buffer == <<live, memory, serial, damage, known, nextSerial, made>>
window == <<attached, picture, commits>>
backend == <<drawn, texture>>
vars == <<buffer, window, stale, cache, published, backend>>

Blank == [c \in Cells |-> 0]

Init ==
  /\ live = {}
  /\ memory = [b \in BufferIds |-> Blank]
  /\ serial = [b \in BufferIds |-> 0]
  /\ damage = [b \in BufferIds |-> Cells]
  /\ known = {}
  /\ nextSerial = 1
  /\ attached = NoBuffer
  /\ picture = Blank
  /\ commits = 0
  /\ made = 0
  /\ stale = {}
  /\ cache = [b \in BufferIds |-> 0]
  /\ published = [o \in Outputs |-> NoImage]
  /\ drawn = [o \in Outputs |-> NoImage]
  /\ texture = [b \in BufferIds |-> [serial |-> 0, cells |-> Blank]]

-----------------------------------------------------------------------------
(* The client.                                                             *)

\* register_buffer: nobody has read it, so it is wholly new.
Create(b) ==
  /\ b \notin live
  /\ made < MaxBuffers
  /\ made' = made + 1
  /\ live' = live \cup {b}
  /\ memory' = [memory EXCEPT ![b] = Blank]
  /\ serial' = [serial EXCEPT ![b] = nextSerial]
  /\ nextSerial' = nextSerial + 1
  /\ damage' = [damage EXCEPT ![b] = Cells]
  /\ known' = known \ {b}
  /\ UNCHANGED <<window, stale, cache, published, backend>>

\* The buffers an image somewhere still reads.
Read == {published[o].buffer : o \in {x \in Outputs : published[x] # NoImage}}
          \cup {drawn[o].buffer : o \in {x \in Outputs : drawn[x] # NoImage}}

\* destroy_buffer.
Destroy(b) ==
  /\ b \in live /\ b # attached /\ b \notin Read
  /\ live' = live \ {b}
  /\ UNCHANGED <<memory, serial, damage, known, nextSerial, made, window, stale,
                 cache, published, backend>>

\* Mutant: a second commit between two scenes hides what the first changed.
NewestOnly(b, cells) == cells

\* mark_buffer_damaged: adds to what nobody has read yet, and once a change
\* was not described no later one is.
Accumulated(b, cells) == IF b \in known THEN damage[b] \cup cells ELSE Cells

(***************************************************************************)
(* wl_surface.commit of a buffer the client has drawn its picture into:    *)
(* the one it shows, or one that nobody reads.  Only `cells' of the picture*)
(* have changed; no cells at all stand for a commit without damage.        *)
(***************************************************************************)
Commit(b, cells) ==
  /\ b \in live
  /\ b = attached \/ b \notin Read
  /\ commits < MaxCommits
  /\ commits' = commits + 1
  /\ picture' = [c \in Cells |-> IF cells = {} \/ c \in cells THEN commits + 1 ELSE picture[c]]
  /\ memory' = [memory EXCEPT ![b] = picture']
  /\ attached' = b
  /\ serial' = [serial EXCEPT ![b] = nextSerial]
  /\ nextSerial' = nextSerial + 1
  /\ damage' = [damage EXCEPT ![b] = IF cells = {} THEN Cells ELSE Accumulated(b, cells)]
  /\ known' = IF cells = {} THEN known \ {b} ELSE known
  /\ stale' = Outputs
  /\ UNCHANGED <<live, made, cache, published, backend>>

-----------------------------------------------------------------------------
(* Composing.                                                              *)

Kept == [b \in BufferIds |-> IF b \in live THEN cache[b] ELSE 0]

\* ensure_image: a patch on the image last sent, if there was one and it has
\* changed.  No cells stand for the whole buffer.
Image(b, sent) ==
  [buffer |-> b, serial |-> serial[b],
   previous |-> IF sent # serial[b] THEN sent ELSE 0,
   cells |-> IF sent # 0 /\ sent # serial[b] /\ b \in known THEN damage[b] ELSE {}]

\* Mutant: the cache notes the serial that the next change will get.
SentNext(b) == nextSerial

\* What the cache notes of an image: the serial it was sent with.
Sent(b) == serial[b]

(***************************************************************************)
(* publish: the cache is collected, every output that is due is composed,  *)
(* in any order, and all damage is forgotten.  Only the first scene of a   *)
(* publish carries the patch; the others find the image unchanged.         *)
(***************************************************************************)
Publish ==
  \E due \in (SUBSET stale) \ {{}}, first \in Outputs :
    LET on == IF attached = NoBuffer THEN {} ELSE due \cap ShownOn IN
      /\ first \in (IF on = {} THEN due ELSE on)
      /\ stale' = stale \ due
      /\ published' = [o \in Outputs |->
           CASE o \in on -> Image(attached, IF o = first THEN Kept[attached] ELSE Sent(attached))
             [] o \in due \ on -> NoImage
             [] OTHER -> published[o]]
      /\ cache' = [b \in BufferIds |->
           IF on # {} /\ b = attached THEN Sent(b) ELSE Kept[b]]
      /\ damage' = [b \in BufferIds |-> {}]
      /\ known' = BufferIds
      /\ UNCHANGED <<live, memory, serial, nextSerial, made, window, backend>>

\* The housekeeping tick collects the cache as well (FramePacer::collect).
Collect ==
  /\ cache' = Kept
  /\ UNCHANGED <<buffer, window, stale, published, backend>>

-----------------------------------------------------------------------------
(* The backend (outside src/).                                             *)

Patched(image, old) ==
  [c \in Cells |-> IF c \in image.cells THEN memory[image.buffer][c] ELSE old.cells[c]]

\* Draws an image: a texture of its serial is good, one of the serial it
\* patches is patched, and otherwise the whole buffer is uploaded.
Uploaded(image) ==
  LET old == texture[image.buffer] IN
    IF old.serial = image.serial THEN old
    ELSE [serial |-> image.serial,
          cells |-> IF image.cells # {} /\ old.serial = image.previous
                    THEN Patched(image, old) ELSE memory[image.buffer]]

NoTexture == [serial |-> 0, cells |-> Blank]

\* An output takes the newest frame.  A texture that no output draws any more
\* is dropped; a backend that keeps more has only more to patch.
Draw(o) ==
  /\ drawn' = [drawn EXCEPT ![o] = published[o]]
  /\ LET used == {drawn'[x].buffer : x \in {y \in Outputs : drawn'[y] # NoImage}}
         image == published[o]
     IN texture' = [b \in BufferIds |->
          CASE image # NoImage /\ b = image.buffer -> Uploaded(image)
            [] b \notin used -> NoTexture
            [] OTHER -> texture[b]]
  /\ UNCHANGED <<buffer, window, stale, cache, published>>

-----------------------------------------------------------------------------
Next ==
  \/ \E b \in BufferIds :
       Create(b) \/ Destroy(b) \/ \E cells \in SUBSET Cells : Commit(b, cells)
  \/ Publish \/ Collect
  \/ \E o \in Outputs : Draw(o)

Spec == Init /\ [][Next]_vars

-----------------------------------------------------------------------------
(* Properties.                                                             *)

Serials == 0 .. MaxCommits + MaxBuffers
Contents == [Cells -> 0 .. MaxCommits]
Images == [buffer : BufferIds, serial : Serials, previous : Serials, cells : SUBSET Cells]

TypeOK ==
  /\ live \subseteq BufferIds
  /\ memory \in [BufferIds -> Contents]
  /\ serial \in [BufferIds -> Serials]
  /\ damage \in [BufferIds -> SUBSET Cells]
  /\ known \subseteq BufferIds
  /\ nextSerial \in Serials \cup {MaxCommits + MaxBuffers + 1}
  /\ attached \in live \cup {NoBuffer}
  /\ picture \in Contents
  /\ commits \in 0 .. MaxCommits
  /\ made \in 0 .. MaxBuffers
  /\ stale \subseteq Outputs
  /\ cache \in [BufferIds -> Serials]
  /\ published \in [Outputs -> Images \cup {NoImage}]
  /\ drawn \in [Outputs -> Images \cup {NoImage}]
  /\ texture \in [BufferIds -> [serial : Serials, cells : Contents]]

\* A texture that says it is of a buffer's present serial holds what the buffer
\* holds: no cell is left as an earlier commit drew it, whatever was patched,
\* skipped or recomposed between.
TextureIsTheBuffer ==
  \A b \in live : texture[b].serial = serial[b] => texture[b].cells = memory[b]
=============================================================================
