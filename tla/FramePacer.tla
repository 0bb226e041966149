----------------------------- MODULE FramePacer -----------------------------
(***************************************************************************)
(* Frame pacing (src/run.rs): which outputs get a new scene, when, and     *)
(* what the backend is told has changed since the last one.                *)
(*                                                                         *)
(* One task owns the compositor's state.  Every pass of its loop handles   *)
(* one message and ends in FramePacer::publish, so an action here is a     *)
(* handler followed by Publish.  The backend is another thread: it asks    *)
(* for frames through a channel, and reads the newest frame from a slot    *)
(* that holds one value, so it may skip any number of publications.        *)
(*                                                                         *)
(* What an output should show is a list of quads (module Painting) that    *)
(* the compositor's state determines; how protocol state determines it is  *)
(* not modelled here, only that it may change and who notices.             *)
(***************************************************************************)
EXTENDS Painting, FiniteSets

CONSTANTS OutputIds,    \* every output that may ever be plugged in
          Looks,        \* the quad lists an output may be asked to show
          MaxChanges,   \* bound: how often what is shown changes
          MaxHotplugs   \* bound: how often outputs come, go or are reannounced

ASSUME OutputsAssumption == IsFiniteSet(OutputIds)
ASSUME LooksAssumption == Looks \subseteq Seq(Quad) /\ <<>> \in Looks

VARIABLES
  \* The compositor task.
  outputs,       \* state.outputs: the outputs taken in and not removed
  look,          \* what each output would show if a scene were built now
  dirty,         \* state.dirty
  cursorDirty,   \* state.cursor_dirty
  published,     \* FramePacer::published: output -> its newest scene
  stale,         \* FramePacer::stale
  waiting,       \* FramePacer::waiting
  nextSerial,    \* FramePacer::next_serial
  cursorSerial,  \* the serial of the cursor as last built
  \* Between the two.
  frame,         \* the watch slot: the newest frame sent
  inbox,         \* backend messages not yet handled, oldest first
  \* The backend thread.
  plugged,       \* outputs the backend can see
  asked,         \* outputs whose request for a frame it has not seen answered
  drawn,         \* output -> what it last drew there
  \* Bookkeeping of the model.
  quiet,         \* outputs an OutputInfo brought in or changed since the
                 \* state was last marked dirty (the arm does not mark it)
  changes, hotplugs

compositor == <<outputs, look, dirty, cursorDirty, published, stale, waiting,
                nextSerial, cursorSerial>>
backend == <<plugged, asked, drawn>>
vars == <<compositor, frame, inbox, backend, quiet, changes, hotplugs>>

-----------------------------------------------------------------------------
(* Scenes and frames.                                                      *)

FirstSerialZero == 0   \* mutant: serials counted from 0

\* Serials start at 1, so 0 stands for `damage_from: None`.
NoSerial == 0
FirstSerial == 1

Scene == [serial     : Nat \ {0},
          quads      : Looks,
          damageFrom : Nat,
          damage     : SUBSET Cells]

\* A member of S for each of some of the outputs.
PerOutput(f, S) == DOMAIN f \subseteq OutputIds /\ f \in [DOMAIN f -> S]

Message == [type : {"OutputAdded", "OutputRemoved", "OutputChanged",
                    "FrameRequested"},
            output : OutputIds]
           \cup [type : {"OutputInfo"}, outputs : SUBSET OutputIds]

About(type, o) == [type |-> type, output |-> o]
Announcing(set) == [type |-> "OutputInfo", outputs |-> set]

Drawing == [serial : Nat \ {0}, quads : Looks, screen : [Cells -> Pictures \cup {Background}]]

Init ==
  /\ outputs = {}
  /\ look = [o \in OutputIds |-> <<>>]
  /\ dirty = TRUE
  /\ cursorDirty = TRUE
  /\ published = << >>
  /\ stale = {}
  /\ waiting = {}
  /\ nextSerial = FirstSerial
  /\ cursorSerial = 0
  /\ frame = [scenes |-> << >>, cursor |-> 0]
  /\ inbox = << >>
  /\ plugged = {}
  /\ asked = {}
  /\ drawn = << >>
  /\ quiet = {}
  /\ changes = 0
  /\ hotplugs = 0

-----------------------------------------------------------------------------
(* FramePacer::publish, the end of every pass.                             *)

\* scene::build and the damage the pacer fills in.  A scene for an output
\* that is gone has no elements.
Compose(o, serial, live, looks, before) ==
  LET quads == IF o \in live THEN looks[o] ELSE << >>
      known == o \in DOMAIN before
  IN [serial     |-> serial,
      quads      |-> quads,
      damageFrom |-> IF known THEN before[o].serial ELSE NoSerial,
      damage     |-> IF known THEN OutputDamage(before[o].quads, quads) ELSE {}]

\* Mutants: a serial counted per output and forgotten with it; a change that
\* marks only the outputs waiting for it; requests that are not kept when
\* nothing is due; a frame sent only when the cursor moved.
SerialsPerOutput(due) ==
  {[o \in due |-> IF o \in DOMAIN published THEN published[o].serial + 1 ELSE 1]}
InvalidatedIfWaiting(set, live) == set \cup (live \cap waiting)
UnservedForgotten(asking, due) == {}
FrameOwedToCursor(due, cursorMoved) == cursorMoved

\* Serials handed out to the outputs of one publication, in whatever order
\* the set of due outputs happens to iterate.
SerialsFor(due) ==
  {f \in [due -> nextSerial .. (nextSerial + Cardinality(due) - 1)] :
     \A a, b \in due : f[a] = f[b] => a = b}

SerialAfter(due) == nextSerial + Cardinality(due)

\* invalidate: the dirty flag is one for all outputs.
Invalidated(set, live) == set \cup live

\* A request not served by this publication stays.
Unserved(asking, due) == asking \ due

FrameOwed(due, cursorMoved) == due # {} \/ cursorMoved

(***************************************************************************)
(* The arguments are the state as the handler left it: the live outputs,   *)
(* what they show, whether it marked the state or the cursor dirty, and    *)
(* the pacer's three sets.                                                 *)
(***************************************************************************)
Publish(live, looks, marks, marksCursor, before, outdated, asking) ==
  LET cursorMoved == cursorDirty \/ marksCursor
      invalid == IF dirty \/ marks THEN Invalidated(outdated, live) ELSE outdated
      due == invalid \cap asking
  IN /\ outputs' = live
     /\ look' = looks
     /\ dirty' = FALSE
     /\ cursorDirty' = FALSE
     /\ cursorSerial' = IF cursorMoved THEN cursorSerial + 1 ELSE cursorSerial
     /\ stale' = invalid \ due
     /\ waiting' = Unserved(asking, due)
     /\ nextSerial' = SerialAfter(due)
     /\ \E serials \in SerialsFor(due) :
          published' = [o \in DOMAIN before \cup due |->
                          IF o \in due
                          THEN Compose(o, serials[o], live, looks, before)
                          ELSE before[o]]
     /\ frame' = IF FrameOwed(due, cursorMoved)
                 THEN [scenes |-> published', cursor |-> cursorSerial']
                 ELSE frame

\* Every way one of the candidates comes to show something else.
Redrawings(candidates) == {[look EXCEPT ![o] = l] : o \in candidates, l \in Looks}

\* An output is quiet from an OutputInfo that does not mark the state dirty
\* until the state is next marked dirty.
Quieten(marks, newly) == quiet' = IF dirty \/ marks THEN {} ELSE quiet \cup newly

Change == changes < MaxChanges /\ changes' = changes + 1

-----------------------------------------------------------------------------
(* Passes of the compositor's loop.                                        *)

\* A client's requests, or input that moves a window: something on one output
\* looks different and the handler marked the state dirty.  A commit into a
\* cursor surface marks the cursor as well.
ScenePass ==
  /\ Change
  /\ \E looks \in Redrawings(outputs), cursor \in BOOLEAN :
       Publish(outputs, looks, TRUE, cursor, published, stale, waiting)
  /\ Quieten(TRUE, {})
  /\ UNCHANGED <<inbox, backend, hotplugs>>

\* Pointer motion over nothing that reacts: the cursor and only the cursor.
PointerPass ==
  /\ Change
  /\ Publish(outputs, look, FALSE, TRUE, published, stale, waiting)
  /\ UNCHANGED <<inbox, backend, quiet, hotplugs>>

\* The housekeeping tick: gone outputs are forgotten, and the shell may have
\* stepped an animation.
HousekeepingPass ==
  LET kept == [o \in DOMAIN published \cap outputs |-> published[o]]
      Tick(looks, marks) ==
        Publish(outputs, looks, marks, FALSE, kept, stale \cap outputs, waiting \cap outputs)
  IN /\ \/ Tick(look, FALSE) /\ UNCHANGED <<quiet, changes>>
        \/ Change /\ Quieten(TRUE, {})
           /\ \E looks \in Redrawings(outputs) : Tick(looks, TRUE)
     /\ UNCHANGED <<inbox, backend, hotplugs>>

Received(type) == inbox # << >> /\ Head(inbox).type = type /\ inbox' = Tail(inbox)

\* FrameRequested: the shell may step an animation, then pacer.request.
FrameRequestedPass ==
  /\ Received("FrameRequested")
  /\ LET asking == waiting \cup {Head(inbox).output}
     IN \/ /\ Publish(outputs, look, FALSE, FALSE, published, stale, asking)
           /\ UNCHANGED <<quiet, changes>>
        \/ /\ Change
           /\ \E looks \in Redrawings(outputs) :
                Publish(outputs, looks, TRUE, FALSE, published, stale, asking)
           /\ Quieten(TRUE, {})
  /\ UNCHANGED <<backend, hotplugs>>

\* An output set that has just changed to `live` is laid out again, or not:
\* that is the shell's decision.
Relaid(live, marks, newly) ==
  \/ /\ Publish(live, look, marks, FALSE, published, stale, waiting)
     /\ Quieten(marks, newly)
     /\ UNCHANGED changes
  \/ /\ Change
     /\ \E o \in live : \E looks \in Redrawings({o}) :
          /\ Publish(live, looks, marks, FALSE, published, stale, waiting)
          /\ Quieten(marks, newly \cup {o})

\* OutputAdded and OutputChanged both take the output in (upsert_output) and
\* mark the state dirty; OutputRemoved retires it and marks it dirty.
OutputAddedPass ==
  /\ Received("OutputAdded")
  /\ Relaid(outputs \cup {Head(inbox).output}, TRUE, {})
  /\ UNCHANGED <<backend, hotplugs>>

OutputChangedPass ==
  /\ Received("OutputChanged")
  /\ Relaid(outputs \cup {Head(inbox).output}, TRUE, {})
  /\ UNCHANGED <<backend, hotplugs>>

OutputRemovedPass ==
  /\ Received("OutputRemoved")
  /\ Relaid(outputs \ {Head(inbox).output}, TRUE, {})
  /\ UNCHANGED <<backend, hotplugs>>

\* OutputInfo is the whole set the backend can see.  The arm itself marks
\* nothing dirty: only retiring an output does (remove_output), or the shell
\* hook if it chooses to.
OutputInfoPass ==
  /\ Received("OutputInfo")
  /\ LET announced == Head(inbox).outputs
         retired == outputs \ announced
     IN \E hookDirties \in BOOLEAN :
          Relaid(announced, retired # {} \/ hookDirties, announced \ outputs)
  /\ UNCHANGED <<backend, hotplugs>>

BackendMessagePass ==
  \/ FrameRequestedPass
  \/ OutputAddedPass
  \/ OutputChangedPass
  \/ OutputRemovedPass
  \/ OutputInfoPass
-----------------------------------------------------------------------------
(* The backend thread (outside src/; modelled from the messages it sends   *)
(* and from what run.rs says it does with a frame).                        *)

Tell(messages) == inbox' = inbox \o messages

\* The set of outputs changed: told one output at a time or as a whole set.
HotplugTold(type, o, now) == Tell(<<About(type, o)>>) \/ Tell(<<Announcing(now)>>)

Hotplug == hotplugs < MaxHotplugs /\ hotplugs' = hotplugs + 1

Plug(o) ==
  /\ Hotplug
  /\ o \notin plugged
  /\ plugged' = plugged \cup {o}
  /\ HotplugTold("OutputAdded", o, plugged \cup {o})
  /\ UNCHANGED <<compositor, frame, asked, drawn, quiet, changes>>

\* The screen goes; what the backend last drew there stays remembered, which
\* is the harder case for a serial that were ever reused.
Unplug(o) ==
  /\ Hotplug
  /\ o \in plugged
  /\ plugged' = plugged \ {o}
  /\ asked' = asked \ {o}
  /\ HotplugTold("OutputRemoved", o, plugged \ {o})
  /\ UNCHANGED <<compositor, frame, drawn, quiet, changes>>

Reconfigure(o) ==
  /\ Hotplug
  /\ o \in plugged
  /\ HotplugTold("OutputChanged", o, plugged)
  /\ UNCHANGED <<compositor, frame, backend, quiet, changes>>

\* Ready for another frame, and says so once.
Ask(o) ==
  /\ o \in plugged \ asked
  /\ asked' = asked \cup {o}
  /\ Tell(<<About("FrameRequested", o)>>)
  /\ UNCHANGED <<compositor, frame, plugged, drawn, quiet, changes, hotplugs>>

\* Draws the scene now in the slot if it has not drawn it: patching what it
\* drew before when the scene's damage is counted from exactly that scene, and
\* repainting everything otherwise.
DrawnFrom(o, scene) ==
  IF o \in DOMAIN drawn /\ drawn[o].serial = scene.damageFrom
  THEN Repainted(drawn[o].screen, scene.quads, scene.damage)
  ELSE Painted(scene.quads)

Draw(o) ==
  /\ o \in plugged \cap DOMAIN frame.scenes
  /\ o \in DOMAIN drawn => drawn[o].serial # frame.scenes[o].serial
  /\ LET scene == frame.scenes[o]
         drawing == [serial |-> scene.serial,
                     quads  |-> scene.quads,
                     screen |-> DrawnFrom(o, scene)]
     IN drawn' = [p \in DOMAIN drawn \cup {o} |-> IF p = o THEN drawing ELSE drawn[p]]
  /\ asked' = asked \ {o}
  /\ UNCHANGED <<compositor, frame, inbox, plugged, quiet, changes, hotplugs>>

BackendStep == \E o \in OutputIds : Plug(o) \/ Unplug(o) \/ Reconfigure(o) \/ Ask(o) \/ Draw(o)

-----------------------------------------------------------------------------
Next ==
  \/ ScenePass
  \/ PointerPass
  \/ HousekeepingPass
  \/ BackendMessagePass
  \/ BackendStep

(***************************************************************************)
(* The loop keeps receiving while messages are queued (tokio::select! over *)
(* channels that stay ready), and a plugged output keeps asking for frames *)
(* and drawing the ones it is given.  Nothing obliges a client to commit,  *)
(* the pointer to move or an output to come or go.                         *)
(***************************************************************************)
Fairness ==
  /\ WF_vars(BackendMessagePass)
  /\ \A o \in OutputIds : WF_vars(Ask(o)) /\ WF_vars(Draw(o))

Spec == Init /\ [][Next]_vars

FairSpec == Spec /\ Fairness

-----------------------------------------------------------------------------
(* Properties.                                                             *)

TypeOK ==
  /\ outputs \subseteq OutputIds
  /\ look \in [OutputIds -> Looks]
  /\ dirty \in BOOLEAN /\ cursorDirty \in BOOLEAN
  /\ PerOutput(published, Scene)
  /\ stale \subseteq OutputIds
  /\ waiting \subseteq OutputIds
  /\ nextSerial \in Nat \ {0}
  /\ cursorSerial \in Nat
  /\ frame = [scenes |-> frame.scenes, cursor |-> frame.cursor]
  /\ PerOutput(frame.scenes, Scene)
  /\ frame.cursor \in Nat
  /\ inbox \in Seq(Message)
  /\ plugged \subseteq OutputIds
  /\ asked \subseteq OutputIds
  /\ PerOutput(drawn, Drawing)
  /\ quiet \subseteq OutputIds
  /\ changes \in Nat
  /\ hotplugs \in Nat

\* What a backend has put on a screen by patching is what drawing the whole
\* scene would have put there, however many frames it skipped and however
\* often the output came and went: damage never reports less than changed.
ScreenFaithful ==
  \A o \in DOMAIN drawn : drawn[o].screen = Painted(drawn[o].quads)

\* A scene serial names one scene of an output for good, so a backend that
\* compares serials is never told that something it drew is still up to date
\* when it is not, even across the output being forgotten and coming back.
SerialNamesScene ==
  \A o \in DOMAIN drawn \cap DOMAIN frame.scenes :
    drawn[o].serial = frame.scenes[o].serial => drawn[o].quads = frame.scenes[o].quads

\* The slot holds one value, so every frame sent carries the newest scene of
\* every output, not only of the one it was composed for: no output's scene is
\* lost because another output published before its backend looked.
SlotCarriesAllScenes ==
  \A o \in DOMAIN published : o \in DOMAIN frame.scenes /\ frame.scenes[o] = published[o]

\* An output that asked and was not served has nothing newer to be shown: a
\* request that arrives first is kept until something changes, and a change
\* that arrives first is kept until somebody asks.  Outputs an OutputInfo
\* brought in or changed without marking the state dirty are excepted.
WaitingMeansCurrent ==
  \A o \in (waiting \cap outputs) \ quiet :
    o \in DOMAIN published /\ published[o].quads = look[o]

\* The versions offered to the backend, those it shows, and what it should show.
Wanted == [o \in OutputIds |-> IF o \in outputs THEN look[o] ELSE << >>]
Offered == [o \in DOMAIN frame.scenes |->
              [version |-> frame.scenes[o].serial, quads |-> frame.scenes[o].quads]]
OnScreen == [o \in DOMAIN drawn |->
              [version |-> drawn[o].serial, quads |-> drawn[o].quads, screen |-> drawn[o].screen]]

Delivery == INSTANCE FrameDelivery WITH
              want <- Wanted, offered <- Offered, versions <- nextSerial - 1, shown <- OnScreen

\* The pacer, the slot and the backend implement whole versions that only go
\* forward (module FrameDelivery): the damage, the frames a backend skips, the
\* requests and changes kept for later, and outputs that are forgotten and come
\* back never show on a screen.
Delivers == Delivery!Spec

Shown(o) == o \in DOMAIN drawn /\ drawn[o].quads = look[o]

\* What an output should show reaches its screen, in whatever order the change
\* and the request for a frame arrive, unless the output goes away.
EventuallyShown ==
  \A o \in OutputIds :
    o \in (plugged \cap outputs) \ quiet
      ~> Shown(o) \/ o \notin (plugged \cap outputs) \ quiet
=============================================================================
