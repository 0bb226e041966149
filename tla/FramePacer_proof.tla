-------------------------- MODULE FramePacer_proof --------------------------
(***************************************************************************)
(* Proofs about FramePacer, for any set of outputs, any cells, pictures    *)
(* and looks, and any bounds.                                              *)
(*                                                                         *)
(* ScreenFaithful is not inductive: what keeps a patched screen right is   *)
(* that the damage in the slot is counted from a scene the backend can     *)
(* recognise by its serial.  The inductive invariant adds                  *)
(*   - serials in use are below the next one                               *)
(*   - SlotCarriesAllScenes: damage is counted from a scene of the slot    *)
(*   - SerialNamesScene: a serial the backend recognises names that scene  *)
(*   - DamageCovers: where the slot's damage is counted from what the      *)
(*     backend drew, nothing outside it differs.                           *)
(* That requests are kept rests on NothingIsOwed: between passes nothing   *)
(* is stale or dirty but what OutputInfo left unmarked.                    *)
(***************************************************************************)
EXTENDS FramePacer, FiniteSetTheorems, TLAPS

SerialsBelowNext ==
  /\ \A o \in DOMAIN frame.scenes : frame.scenes[o].serial < nextSerial
  /\ \A o \in DOMAIN drawn : drawn[o].serial < nextSerial

SameOutside(quads, others, damage) ==
  \A cell \in Cells \ damage : PaintedCell(quads, cell) = PaintedCell(others, cell)

DamageCovers ==
  \A o \in DOMAIN drawn \cap DOMAIN frame.scenes :
    drawn[o].serial = frame.scenes[o].damageFrom
      => SameOutside(drawn[o].quads, frame.scenes[o].quads, frame.scenes[o].damage)

PacerInv ==
  /\ TypeOK
  /\ SerialsBelowNext
  /\ SlotCarriesAllScenes
  /\ SerialNamesScene
  /\ DamageCovers
  /\ ScreenFaithful

-----------------------------------------------------------------------------
\* Outside the damage output_damage reports between two quad lists, drawing
\* either leaves the same in every cell: it never reports less than changed.
LEMMA OutputDamageCovers ==
  ASSUME NEW previous \in Seq(Quad), NEW current \in Seq(Quad)
  PROVE  SameOutside(previous, current, OutputDamage(previous, current))
<1>1. SUFFICES ASSUME NEW cell \in Cells,
                      cell \notin OutputDamage(previous, current)
               PROVE  PaintedCell(previous, cell) = PaintedCell(current, cell)
  BY DEF SameOutside
<1>2. ASSUME NEW i \in DOMAIN previous \cup DOMAIN current,
             ~ SameElement(previous, current, i)
      PROVE  i \notin Covering(previous, cell) /\ i \notin Covering(current, cell)
  BY <1>1, <1>2 DEF OutputDamage, CellsAt, Covering
<1>3. ASSUME NEW i
      PROVE  i \in Covering(previous, cell) <=> i \in Covering(current, cell)
  <2>1. CASE i \in DOMAIN previous \cup DOMAIN current /\ SameElement(previous, current, i)
    BY <2>1 DEF SameElement, Covering
  <2>2. CASE i \in DOMAIN previous \cup DOMAIN current /\ ~ SameElement(previous, current, i)
    BY <2>2, <1>2
  <2>3. CASE i \notin DOMAIN previous \cup DOMAIN current
    BY <2>3 DEF Covering
  <2>4. QED BY <2>1, <2>2, <2>3
<1>4. Seen(previous, cell) = Seen(current, cell)
  BY <1>3 DEF Seen
<1>5. CASE Seen(previous, cell) = {}
  BY <1>4, <1>5 DEF PaintedCell
<1>6. CASE Seen(previous, cell) # {}
  <2> DEFINE top == CHOOSE i \in Seen(previous, cell) : TRUE
  <2>1. top \in Covering(previous, cell)
    BY <1>6 DEF Seen
  <2>2. SameElement(previous, current, top)
    BY <2>1, <1>2 DEF Covering
  <2>3. previous[top] = current[top]
    BY <2>2 DEF SameElement
  <2>4. QED BY <1>4, <1>6, <2>3 DEF PaintedCell
<1>7. QED BY <1>5, <1>6
-----------------------------------------------------------------------------
(* Typing of what a publication builds.                                    *)

LEMMA CardinalityOfOutputs ==
  ASSUME NEW due \in SUBSET OutputIds
  PROVE  Cardinality(due) \in Nat
BY OutputsAssumption, FS_Subset, FS_CardinalityType

LEMMA OutputDamageType ==
  ASSUME NEW previous \in Seq(Quad), NEW current \in Seq(Quad)
  PROVE  OutputDamage(previous, current) \subseteq Cells
<1>1. ASSUME NEW quads \in Seq(Quad), NEW i
      PROVE  CellsAt(quads, i) \subseteq Cells
  <2>1. CASE i \in DOMAIN quads
    <3>1. quads[i] \in Quad
      BY <2>1
    <3>2. QED BY <2>1, <3>1 DEF CellsAt, Quad
  <2>2. CASE i \notin DOMAIN quads
    BY <2>2 DEF CellsAt
  <2>3. QED BY <2>1, <2>2
<1>2. QED BY <1>1 DEF OutputDamage

LEMMA ComposeType ==
  ASSUME NEW o \in OutputIds, NEW serial \in Nat \ {0}, NEW live,
         NEW looks \in [OutputIds -> Looks],
         NEW before, PerOutput(before, Scene)
  PROVE  /\ Compose(o, serial, live, looks, before) \in Scene
         /\ Compose(o, serial, live, looks, before).serial = serial
<1> DEFINE quads == IF o \in live THEN looks[o] ELSE << >>
<1>1. quads \in Looks
  BY LooksAssumption
<1>2. ASSUME o \in DOMAIN before
      PROVE  /\ before[o].serial \in Nat
             /\ OutputDamage(before[o].quads, quads) \in SUBSET Cells
  <2>1. before[o] \in Scene
    BY <1>2 DEF PerOutput
  <2>2. before[o].quads \in Seq(Quad) /\ quads \in Seq(Quad) /\ before[o].serial \in Nat
    BY <2>1, <1>1, LooksAssumption DEF Scene
  <2>3. QED BY <2>2, OutputDamageType
<1>3. QED BY <1>1, <1>2 DEF Compose, Scene, NoSerial

\* What a handler may hand to Publish: some outputs and what they show, and
\* the published scenes of some of the outputs that had one.
Kept(before) == /\ DOMAIN before \subseteq DOMAIN published
                /\ before = [o \in DOMAIN before |-> published[o]]

LEMMA PublishType ==
  ASSUME TypeOK,
         NEW live \in SUBSET OutputIds, NEW looks \in [OutputIds -> Looks],
         NEW marks, NEW marksCursor,
         NEW before, Kept(before),
         NEW outdated \in SUBSET OutputIds, NEW asking \in SUBSET OutputIds,
         Publish(live, looks, marks, marksCursor, before, outdated, asking)
  PROVE  /\ (outputs \subseteq OutputIds)'
         /\ (look \in [OutputIds -> Looks])'
         /\ (dirty \in BOOLEAN)' /\ (cursorDirty \in BOOLEAN)'
         /\ PerOutput(published, Scene)'
         /\ (stale \subseteq OutputIds)'
         /\ (waiting \subseteq OutputIds)'
         /\ (nextSerial \in Nat \ {0})'
         /\ (cursorSerial \in Nat)'
         /\ (frame = [scenes |-> frame.scenes, cursor |-> frame.cursor])'
         /\ PerOutput(frame.scenes, Scene)'
         /\ (frame.cursor \in Nat)'
<1> DEFINE invalid == IF dirty \/ marks THEN Invalidated(outdated, live) ELSE outdated
           due == invalid \cap asking
<1>1. invalid \subseteq OutputIds /\ due \subseteq OutputIds
  BY DEF Invalidated
<1>2. Cardinality(due) \in Nat
  BY <1>1, CardinalityOfOutputs
<1>3. PerOutput(before, Scene)
  BY DEF TypeOK, PerOutput, Kept
<1>4. PICK serials \in SerialsFor(due) :
        published' = [o \in DOMAIN before \cup due |->
                        IF o \in due THEN Compose(o, serials[o], live, looks, before)
                                     ELSE before[o]]
  BY DEF Publish
<1>5. \A o \in due : serials[o] \in Nat \ {0}
  BY <1>2, <1>4 DEF SerialsFor, TypeOK
<1>6. \A o \in DOMAIN before \cup due : published'[o] \in Scene
  <2>1. ASSUME NEW o \in due PROVE published'[o] \in Scene
    BY <1>1, <1>3, <1>4, <1>5, <2>1, ComposeType
  <2>2. ASSUME NEW o \in DOMAIN before \ due PROVE published'[o] \in Scene
    BY <1>3, <1>4, <2>2 DEF PerOutput
  <2>3. QED BY <2>1, <2>2
<1>7. PerOutput(published, Scene)'
  BY <1>1, <1>3, <1>4, <1>6 DEF PerOutput
<1>8. cursorSerial' \in Nat /\ nextSerial' \in Nat \ {0}
  BY <1>2 DEF Publish, TypeOK, SerialAfter
<1>9. /\ (frame = [scenes |-> frame.scenes, cursor |-> frame.cursor])'
      /\ PerOutput(frame.scenes, Scene)'
      /\ (frame.cursor \in Nat)'
  <2>1. CASE FrameOwed(due, cursorDirty \/ marksCursor)
    <3>1. frame' = [scenes |-> published', cursor |-> cursorSerial']
      BY <2>1 DEF Publish
    <3>2. QED BY <3>1, <1>7, <1>8
  <2>2. CASE ~ FrameOwed(due, cursorDirty \/ marksCursor)
    <3>1. frame' = frame
      BY <2>2 DEF Publish
    <3>2. QED BY <3>1 DEF TypeOK, PerOutput
  <2>3. QED BY <2>1, <2>2
<1>10. QED
  BY <1>1, <1>7, <1>8, <1>9 DEF Publish, Unserved
-----------------------------------------------------------------------------
(* Every pass of the loop publishes, and leaves the backend alone.         *)

Pass == ScenePass \/ PointerPass \/ HousekeepingPass \/ BackendMessagePass

Publishes ==
  \E live \in SUBSET OutputIds, looks \in [OutputIds -> Looks],
     outdated \in SUBSET OutputIds, asking \in SUBSET OutputIds :
    \E marks, marksCursor, before :
      /\ Kept(before)
      /\ Publish(live, looks, marks, marksCursor, before, outdated, asking)

LEMMA RedrawingsType ==
  ASSUME TypeOK, NEW candidates \in SUBSET OutputIds
  PROVE  Redrawings(candidates) \subseteq [OutputIds -> Looks]
BY DEF Redrawings, TypeOK

LEMMA ReceivedType ==
  ASSUME TypeOK, NEW type, Received(type)
  PROVE  /\ Head(inbox) \in Message
         /\ Head(inbox).type = type
         /\ inbox' \in Seq(Message)
BY DEF TypeOK, Received

\* A pass changes nothing but what Publish changes, the queue it takes its
\* message from, and the model's bookkeeping.
PassFrame ==
  /\ UNCHANGED <<backend, hotplugs>>
  /\ inbox' \in Seq(Message)
  /\ quiet' \subseteq OutputIds
  /\ changes' \in Nat

LEMMA RelaidPublishes ==
  ASSUME TypeOK, NEW live \in SUBSET OutputIds, NEW marks,
         NEW newly \in SUBSET OutputIds, Relaid(live, marks, newly)
  PROVE  Publishes /\ quiet' \subseteq OutputIds /\ changes' \in Nat
<1>1. Kept(published)
  BY DEF Kept, TypeOK, PerOutput
<1>2. CASE /\ Publish(live, look, marks, FALSE, published, stale, waiting)
           /\ Quieten(marks, newly)
           /\ UNCHANGED changes
  <2>1. Publishes
    BY <1>1, <1>2 DEF Publishes, TypeOK
  <2>2. QED BY <1>2, <2>1 DEF Quieten, TypeOK
<1>3. CASE /\ Change
           /\ \E o \in live : \E looks \in Redrawings({o}) :
                /\ Publish(live, looks, marks, FALSE, published, stale, waiting)
                /\ Quieten(marks, newly \cup {o})
  <2>0. PICK o \in live : \E looks \in Redrawings({o}) :
          /\ Publish(live, looks, marks, FALSE, published, stale, waiting)
          /\ Quieten(marks, newly \cup {o})
    BY <1>3
  <2>1. PICK looks \in Redrawings({o}) :
          /\ Publish(live, looks, marks, FALSE, published, stale, waiting)
          /\ Quieten(marks, newly \cup {o})
    BY <2>0
  <2>2. looks \in [OutputIds -> Looks]
    BY <2>1, RedrawingsType
  <2>3. Publishes
    BY <1>1, <2>1, <2>2 DEF Publishes, TypeOK
  <2>4. quiet' \subseteq OutputIds
    BY <2>1 DEF Quieten, TypeOK
  <2>5. QED BY <1>3, <2>3, <2>4 DEF Change, TypeOK
<1>4. QED BY <1>2, <1>3 DEF Relaid

LEMMA EveryPassPublishes ==
  ASSUME TypeOK, Pass
  PROVE  Publishes /\ PassFrame
<1>1. Kept(published)
  BY DEF Kept, TypeOK, PerOutput
<1>2. CASE ScenePass
  <2>1. PICK looks \in Redrawings(outputs), cursor \in BOOLEAN :
          Publish(outputs, looks, TRUE, cursor, published, stale, waiting)
    BY <1>2 DEF ScenePass
  <2>2. looks \in [OutputIds -> Looks]
    BY RedrawingsType DEF TypeOK
  <2>3. Publishes
    BY <1>1, <2>1, <2>2 DEF Publishes, TypeOK
  <2>4. QED BY <1>2, <2>3 DEF ScenePass, PassFrame, Quieten, Change, TypeOK
<1>3. CASE PointerPass
  <2>1. Publish(outputs, look, FALSE, TRUE, published, stale, waiting)
    BY <1>3 DEF PointerPass
  <2>2. Publishes
    BY <1>1, <2>1 DEF Publishes, TypeOK
  <2>3. QED BY <1>3, <2>2 DEF PointerPass, PassFrame, Change, TypeOK
<1>4. CASE HousekeepingPass
  <2> DEFINE kept == [o \in DOMAIN published \cap outputs |-> published[o]]
  <2>1. Kept(kept)
    BY DEF Kept
  <2>2. \E looks \in [OutputIds -> Looks], marks \in BOOLEAN :
          Publish(outputs, looks, marks, FALSE, kept, stale \cap outputs, waiting \cap outputs)
    BY <1>4, RedrawingsType DEF HousekeepingPass, TypeOK
  <2>3. Publishes
    <3>1. stale \cap outputs \in SUBSET OutputIds /\ waiting \cap outputs \in SUBSET OutputIds
      BY DEF TypeOK
    <3> HIDE DEF kept
    <3>2. QED BY <2>1, <2>2, <3>1 DEF Publishes, TypeOK
  <2>4. UNCHANGED <<inbox, backend, hotplugs>> /\ (quiet' = quiet \/ quiet' = {})
        /\ (changes' = changes \/ changes' = changes + 1)
    BY <1>4 DEF HousekeepingPass, Quieten, Change
  <2>5. QED BY <2>3, <2>4 DEF PassFrame, TypeOK
<1>5. CASE FrameRequestedPass
  <2> DEFINE asking == waiting \cup {Head(inbox).output}
  <2>1. Head(inbox).output \in OutputIds /\ inbox' \in Seq(Message)
    BY <1>5, ReceivedType DEF FrameRequestedPass, Message
  <2>2. \E looks \in [OutputIds -> Looks], marks \in BOOLEAN :
          Publish(outputs, looks, marks, FALSE, published, stale, asking)
    BY <1>5, RedrawingsType DEF FrameRequestedPass, TypeOK
  <2>3. asking \in SUBSET OutputIds
    BY <2>1 DEF TypeOK
  <2>4. Publishes
    <3> HIDE DEF asking
    <3>1. QED BY <1>1, <2>2, <2>3 DEF Publishes, TypeOK
  <2>5. UNCHANGED <<backend, hotplugs>> /\ (quiet' = quiet \/ quiet' = {})
        /\ (changes' = changes \/ changes' = changes + 1)
    BY <1>5 DEF FrameRequestedPass, Quieten, Change
  <2>6. QED BY <2>1, <2>4, <2>5 DEF PassFrame, TypeOK
<1>6. CASE OutputAddedPass
  <2>1. Head(inbox).output \in OutputIds /\ inbox' \in Seq(Message)
    BY <1>6, ReceivedType DEF OutputAddedPass, Message
  <2>2. outputs \cup {Head(inbox).output} \in SUBSET OutputIds
    BY <2>1 DEF TypeOK
  <2>3. Relaid(outputs \cup {Head(inbox).output}, TRUE, {}) /\ UNCHANGED <<backend, hotplugs>>
    BY <1>6 DEF OutputAddedPass
  <2>4. Publishes /\ quiet' \subseteq OutputIds /\ changes' \in Nat
    BY <2>2, <2>3, RelaidPublishes, {} \in SUBSET OutputIds, Zenon
  <2>5. QED BY <2>1, <2>3, <2>4 DEF PassFrame
<1>7. CASE OutputChangedPass
  <2>1. Head(inbox).output \in OutputIds /\ inbox' \in Seq(Message)
    BY <1>7, ReceivedType DEF OutputChangedPass, Message
  <2>2. outputs \cup {Head(inbox).output} \in SUBSET OutputIds
    BY <2>1 DEF TypeOK
  <2>3. Relaid(outputs \cup {Head(inbox).output}, TRUE, {}) /\ UNCHANGED <<backend, hotplugs>>
    BY <1>7 DEF OutputChangedPass
  <2>4. Publishes /\ quiet' \subseteq OutputIds /\ changes' \in Nat
    BY <2>2, <2>3, RelaidPublishes, {} \in SUBSET OutputIds, Zenon
  <2>5. QED BY <2>1, <2>3, <2>4 DEF PassFrame
<1>8. CASE OutputRemovedPass
  <2>1. Head(inbox).output \in OutputIds /\ inbox' \in Seq(Message)
    BY <1>8, ReceivedType DEF OutputRemovedPass, Message
  <2>2. outputs \ {Head(inbox).output} \in SUBSET OutputIds
    BY <2>1 DEF TypeOK
  <2>3. Relaid(outputs \ {Head(inbox).output}, TRUE, {}) /\ UNCHANGED <<backend, hotplugs>>
    BY <1>8 DEF OutputRemovedPass
  <2>4. Publishes /\ quiet' \subseteq OutputIds /\ changes' \in Nat
    BY <2>2, <2>3, RelaidPublishes, {} \in SUBSET OutputIds, Zenon
  <2>5. QED BY <2>1, <2>3, <2>4 DEF PassFrame
<1>9. CASE OutputInfoPass
  <2>1. Head(inbox).outputs \in SUBSET OutputIds /\ inbox' \in Seq(Message)
    BY <1>9, ReceivedType DEF OutputInfoPass, Message
  <2>2. PICK hookDirties \in BOOLEAN :
          Relaid(Head(inbox).outputs, outputs \ Head(inbox).outputs # {} \/ hookDirties,
                 Head(inbox).outputs \ outputs)
    BY <1>9 DEF OutputInfoPass
  <2>3. QED BY <1>9, <2>1, <2>2, RelaidPublishes DEF OutputInfoPass, PassFrame
<1>10. QED
  BY <1>2, <1>3, <1>4, <1>5, <1>6, <1>7, <1>8, <1>9 DEF Pass, BackendMessagePass
-----------------------------------------------------------------------------
(* Type correctness.                                                       *)

LEMMA PassKeepsTypes ==
  ASSUME TypeOK, Pass
  PROVE  TypeOK'
<1>1. Publishes /\ PassFrame
  BY EveryPassPublishes
<1>2. PICK live \in SUBSET OutputIds, looks \in [OutputIds -> Looks],
           outdated \in SUBSET OutputIds, asking \in SUBSET OutputIds :
        \E marks, marksCursor, before :
          /\ Kept(before)
          /\ Publish(live, looks, marks, marksCursor, before, outdated, asking)
  BY <1>1 DEF Publishes
<1>3. PICK marks, marksCursor, before :
        /\ Kept(before)
        /\ Publish(live, looks, marks, marksCursor, before, outdated, asking)
  BY <1>2
<1>4. /\ (outputs \subseteq OutputIds)'
      /\ (look \in [OutputIds -> Looks])'
      /\ (dirty \in BOOLEAN)' /\ (cursorDirty \in BOOLEAN)'
      /\ PerOutput(published, Scene)'
      /\ (stale \subseteq OutputIds)'
      /\ (waiting \subseteq OutputIds)'
      /\ (nextSerial \in Nat \ {0})'
      /\ (cursorSerial \in Nat)'
      /\ (frame = [scenes |-> frame.scenes, cursor |-> frame.cursor])'
      /\ PerOutput(frame.scenes, Scene)'
      /\ (frame.cursor \in Nat)'
  BY <1>3, PublishType
<1>5. PerOutput(drawn, Drawing)'
  BY <1>1 DEF PassFrame, backend, TypeOK, PerOutput
<1>6. QED BY <1>1, <1>4, <1>5 DEF PassFrame, backend, TypeOK

LEMMA InitTypes == Init => TypeOK
BY LooksAssumption
   DEF Init, TypeOK, PerOutput, FirstSerial, Scene, Drawing, Message

\* Appending one message of the right type keeps the queue well typed.
LEMMA TellType ==
  ASSUME TypeOK, NEW message \in Message, Tell(<<message>>)
  PROVE  inbox' \in Seq(Message)
BY DEF TypeOK, Tell

LEMMA HotplugToldType ==
  ASSUME TypeOK, NEW type \in {"OutputAdded", "OutputRemoved", "OutputChanged"},
         NEW o \in OutputIds, NEW now \in SUBSET OutputIds, HotplugTold(type, o, now)
  PROVE  inbox' \in Seq(Message)
<1>1. About(type, o) \in Message /\ Announcing(now) \in Message
  BY DEF About, Announcing, Message
<1>2. QED BY <1>1, TellType DEF HotplugTold

LEMMA PaintedCellType ==
  ASSUME NEW quads \in Seq(Quad), NEW cell \in Cells
  PROVE  PaintedCell(quads, cell) \in Pictures \cup {Background}
<1>1. CASE Seen(quads, cell) = {}
  BY <1>1 DEF PaintedCell
<1>2. CASE Seen(quads, cell) # {}
  <2> DEFINE top == CHOOSE i \in Seen(quads, cell) : TRUE
  <2>1. top \in DOMAIN quads
    BY <1>2 DEF Seen, Covering
  <2> HIDE DEF top
  <2>2. quads[top] \in Quad
    BY <2>1
  <2> USE DEF top
  <2>3. QED BY <1>2, <2>2 DEF PaintedCell, Quad
<1>3. QED BY <1>1, <1>2

LEMMA DrawType ==
  ASSUME TypeOK, NEW o \in OutputIds, Draw(o)
  PROVE  PerOutput(drawn, Drawing)'
<1> DEFINE scene == frame.scenes[o]
           drawing == [serial |-> scene.serial, quads |-> scene.quads,
                       screen |-> DrawnFrom(o, scene)]
<1>1. scene \in Scene
  BY DEF TypeOK, PerOutput, Draw
<1>2. ASSUME NEW cell \in Cells
      PROVE  PaintedCell(scene.quads, cell) \in Pictures \cup {Background}
  BY <1>1, LooksAssumption, PaintedCellType DEF Scene
<1>3. DrawnFrom(o, scene) \in [Cells -> Pictures \cup {Background}]
  <2>1. CASE o \in DOMAIN drawn /\ drawn[o].serial = scene.damageFrom
    <3>1. drawn[o].screen \in [Cells -> Pictures \cup {Background}]
      BY <2>1 DEF TypeOK, PerOutput, Drawing
    <3>2. QED BY <1>2, <2>1, <3>1 DEF DrawnFrom, Repainted
  <2>2. CASE ~ (o \in DOMAIN drawn /\ drawn[o].serial = scene.damageFrom)
    BY <1>2, <2>2 DEF DrawnFrom, Painted
  <2>3. QED BY <2>1, <2>2
<1>4. drawing \in Drawing
  <2>1. scene.serial \in Nat \ {0} /\ scene.quads \in Looks
    BY <1>1 DEF Scene
  <2>2. QED BY <1>3, <2>1 DEF Drawing
<1>5. drawn' = [p \in DOMAIN drawn \cup {o} |-> IF p = o THEN drawing ELSE drawn[p]]
  BY DEF Draw
<1> HIDE DEF drawing
<1>6. QED BY <1>4, <1>5 DEF TypeOK, PerOutput

LEMMA StepTypes == TypeOK /\ [Next]_vars => TypeOK'
<1> SUFFICES ASSUME TypeOK, [Next]_vars PROVE TypeOK'
  OBVIOUS
<1>2. CASE Pass
  BY <1>2, PassKeepsTypes
<1>3. CASE UNCHANGED vars
  BY <1>3 DEF vars, compositor, backend, TypeOK, PerOutput
<1>4. ASSUME NEW o \in OutputIds, Plug(o) \/ Unplug(o) \/ Reconfigure(o)
      PROVE  TypeOK'
  <2>1. inbox' \in Seq(Message)
    <3>1. plugged \cup {o} \in SUBSET OutputIds /\ plugged \ {o} \in SUBSET OutputIds
          /\ plugged \in SUBSET OutputIds
      BY DEF TypeOK
    <3>2. \/ HotplugTold("OutputAdded", o, plugged \cup {o})
          \/ HotplugTold("OutputRemoved", o, plugged \ {o})
          \/ HotplugTold("OutputChanged", o, plugged)
      BY <1>4 DEF Plug, Unplug, Reconfigure
    <3>3. QED BY <3>1, <3>2, HotplugToldType
  <2>2. QED
    BY <1>4, <2>1 DEF Plug, Unplug, Reconfigure, Hotplug, TypeOK, PerOutput, compositor, backend
<1>5. ASSUME NEW o \in OutputIds, Ask(o) PROVE TypeOK'
  <2>1. About("FrameRequested", o) \in Message
    BY DEF About, Message
  <2>2. inbox' \in Seq(Message)
    BY <1>5, <2>1, TellType DEF Ask
  <2>3. QED BY <1>5, <2>2 DEF Ask, TypeOK, PerOutput, compositor
<1>6. ASSUME NEW o \in OutputIds, Draw(o) PROVE TypeOK'
  <2>1. PerOutput(drawn, Drawing)'
    BY <1>6, DrawType
  <2>2. QED BY <1>6, <2>1 DEF Draw, TypeOK, PerOutput, compositor
<1>7. QED
  BY <1>2, <1>3, <1>4, <1>5, <1>6 DEF Next, Pass, BackendStep

\* Every value stays of its type: in particular the scenes of the slot and of
\* the pacer, with the damage computed for them.
THEOREM TypeCorrect == Spec => []TypeOK
<1>1. Init => TypeOK
  BY InitTypes
<1>2. TypeOK /\ [Next]_vars => TypeOK'
  BY StepTypes
<1>3. QED BY <1>1, <1>2, PTL DEF Spec
-----------------------------------------------------------------------------
(* A pass keeps the invariant: what the slot gains.                        *)

\* One output's scene after a publication: either it is new, with a serial
\* nobody has seen, or it is the scene of the slot before.
LEMMA SceneAfterPublish ==
  ASSUME PacerInv,
         NEW live \in SUBSET OutputIds, NEW looks \in [OutputIds -> Looks],
         NEW marks, NEW marksCursor,
         NEW before, Kept(before),
         NEW outdated \in SUBSET OutputIds, NEW asking \in SUBSET OutputIds,
         Publish(live, looks, marks, marksCursor, before, outdated, asking)
  PROVE  /\ nextSerial' >= nextSerial
         /\ SlotCarriesAllScenes'
         /\ \A o \in DOMAIN frame'.scenes :
              \/ o \in DOMAIN frame.scenes /\ frame'.scenes[o] = frame.scenes[o]
              \/ /\ frame'.scenes[o].serial >= nextSerial
                 /\ frame'.scenes[o].serial < nextSerial'
                 /\ frame'.scenes[o].quads \in Looks
                 /\ frame'.scenes[o].quads = IF o \in live THEN looks[o] ELSE << >>
                 /\ \/ frame'.scenes[o].damageFrom = NoSerial
                    \/ /\ o \in DOMAIN frame.scenes
                       /\ frame'.scenes[o].damageFrom = frame.scenes[o].serial
                       /\ frame'.scenes[o].damage =
                            OutputDamage(frame.scenes[o].quads, frame'.scenes[o].quads)
<1> DEFINE invalid == IF dirty \/ marks THEN Invalidated(outdated, live) ELSE outdated
           due == invalid \cap asking
           owed == FrameOwed(due, cursorDirty \/ marksCursor)
<1>1. due \in SUBSET OutputIds
  BY DEF Invalidated
<1>2. Cardinality(due) \in Nat /\ nextSerial \in Nat \ {0}
  BY <1>1, CardinalityOfOutputs DEF PacerInv, TypeOK
<1>3. nextSerial' = nextSerial + Cardinality(due)
  BY DEF Publish, SerialAfter
<1>4. PICK serials \in SerialsFor(due) :
        published' = [o \in DOMAIN before \cup due |->
                        IF o \in due THEN Compose(o, serials[o], live, looks, before)
                                     ELSE before[o]]
  BY DEF Publish
<1>5. \A o \in due : /\ serials[o] \in Nat \ {0}
                     /\ serials[o] >= nextSerial
                     /\ serials[o] < nextSerial'
  <2>1. serials \in [due -> nextSerial .. (nextSerial + Cardinality(due) - 1)]
    BY <1>4 DEF SerialsFor
  <2> HIDE DEF due
  <2>2. \A o \in due : serials[o] \in nextSerial .. (nextSerial + Cardinality(due) - 1)
    BY <2>1
  <2>3. QED BY <1>2, <1>3, <2>2
<1>6. \A o \in DOMAIN before : /\ o \in DOMAIN published
                               /\ before[o] = published[o]
                               /\ o \in DOMAIN frame.scenes
                               /\ before[o] = frame.scenes[o]
  BY DEF Kept, PacerInv, SlotCarriesAllScenes
<1>7. PerOutput(before, Scene)
  BY DEF PacerInv, TypeOK, PerOutput, Kept
<1>8. CASE owed
  <2>1. frame' = [scenes |-> published', cursor |-> cursorSerial']
    BY <1>8 DEF Publish
  <2>2. SlotCarriesAllScenes'
    BY <2>1 DEF SlotCarriesAllScenes
  <2>3. ASSUME NEW o \in due
        PROVE  /\ published'[o].serial >= nextSerial
               /\ published'[o].serial < nextSerial'
               /\ published'[o].quads \in Looks
               /\ published'[o].quads = IF o \in live THEN looks[o] ELSE << >>
               /\ \/ published'[o].damageFrom = NoSerial
                  \/ /\ o \in DOMAIN frame.scenes
                     /\ published'[o].damageFrom = frame.scenes[o].serial
                     /\ published'[o].damage =
                          OutputDamage(frame.scenes[o].quads, published'[o].quads)
    <3>1. published'[o] = Compose(o, serials[o], live, looks, before)
      BY <1>4
    <3>2. published'[o] \in Scene /\ published'[o].serial = serials[o]
      BY <1>1, <1>5, <1>7, <3>1, ComposeType
    <3>6. published'[o].quads = IF o \in live THEN looks[o] ELSE << >>
      BY <3>1 DEF Compose
    <3> HIDE DEF due
    <3>3. CASE o \in DOMAIN before
      <4>1. /\ published'[o].damageFrom = before[o].serial
            /\ published'[o].damage = OutputDamage(before[o].quads, published'[o].quads)
        BY <3>1, <3>3 DEF Compose
      <4>2. o \in DOMAIN frame.scenes /\ before[o] = frame.scenes[o]
        BY <1>6, <3>3
      <4>3. QED BY <1>5, <2>3, <3>2, <3>6, <4>1, <4>2 DEF Scene
    <3>4. CASE o \notin DOMAIN before
      <4>1. published'[o].damageFrom = NoSerial
        BY <3>1, <3>4 DEF Compose
      <4>2. QED BY <1>5, <2>3, <3>2, <3>6, <4>1 DEF Scene
    <3>5. QED BY <3>3, <3>4
  <2>4. ASSUME NEW o \in DOMAIN before \ due
        PROVE  o \in DOMAIN frame.scenes /\ published'[o] = frame.scenes[o]
    BY <1>4, <1>6
  <2>5. DOMAIN frame'.scenes = DOMAIN before \cup due
    BY <1>4, <2>1
  <2>6. nextSerial' >= nextSerial
    BY <1>2, <1>3
  <2> HIDE DEF due
  <2>7. QED BY <2>1, <2>2, <2>3, <2>4, <2>5, <2>6
<1>9. CASE ~ owed
  <2>1. frame' = frame /\ due = {}
    BY <1>9 DEF Publish, FrameOwed
  <2>2. published' = before
    <3>1. published' = [o \in DOMAIN before |-> before[o]]
      BY <1>4, <2>1
    <3>2. QED BY <1>7, <3>1 DEF PerOutput
  <2>3. SlotCarriesAllScenes'
    BY <1>6, <2>1, <2>2 DEF SlotCarriesAllScenes
  <2>4. QED BY <1>2, <1>3, <2>1, <2>3
<1>10. QED BY <1>8, <1>9

LEMMA PassKeepsInv ==
  ASSUME PacerInv, Pass
  PROVE  PacerInv'
<1>1. Publishes /\ PassFrame /\ TypeOK'
  BY EveryPassPublishes, PassKeepsTypes DEF PacerInv
<1>2. PICK live \in SUBSET OutputIds, looks \in [OutputIds -> Looks],
           outdated \in SUBSET OutputIds, asking \in SUBSET OutputIds :
        \E marks, marksCursor, before :
          /\ Kept(before)
          /\ Publish(live, looks, marks, marksCursor, before, outdated, asking)
  BY <1>1 DEF Publishes
<1>3. PICK marks, marksCursor, before :
        /\ Kept(before)
        /\ Publish(live, looks, marks, marksCursor, before, outdated, asking)
  BY <1>2
<1>4. /\ nextSerial' >= nextSerial
      /\ SlotCarriesAllScenes'
      /\ \A o \in DOMAIN frame'.scenes :
           \/ o \in DOMAIN frame.scenes /\ frame'.scenes[o] = frame.scenes[o]
           \/ /\ frame'.scenes[o].serial >= nextSerial
              /\ frame'.scenes[o].serial < nextSerial'
              /\ frame'.scenes[o].quads \in Looks
              /\ \/ frame'.scenes[o].damageFrom = NoSerial
                 \/ /\ o \in DOMAIN frame.scenes
                    /\ frame'.scenes[o].damageFrom = frame.scenes[o].serial
                    /\ frame'.scenes[o].damage =
                         OutputDamage(frame.scenes[o].quads, frame'.scenes[o].quads)
  BY <1>3, SceneAfterPublish
<1>5. drawn' = drawn
  BY <1>1 DEF PassFrame, backend
<1>6. /\ nextSerial \in Nat \ {0} /\ nextSerial' \in Nat \ {0}
      /\ \A o \in DOMAIN frame.scenes : /\ frame.scenes[o].serial \in Nat \ {0}
                                        /\ frame.scenes[o].quads \in Seq(Quad)
      /\ \A o \in DOMAIN drawn : /\ drawn[o].serial \in Nat \ {0}
                                 /\ drawn[o].quads \in Seq(Quad)
      /\ \A o \in DOMAIN frame'.scenes : /\ frame'.scenes[o].serial \in Nat \ {0}
                                         /\ frame'.scenes[o].quads \in Seq(Quad)
  BY <1>1, LooksAssumption DEF PacerInv, TypeOK, PerOutput, Scene, Drawing
<1>7. SerialsBelowNext'
  BY <1>4, <1>5, <1>6 DEF PacerInv, SerialsBelowNext
<1>8. SerialNamesScene'
  BY <1>4, <1>5, <1>6 DEF PacerInv, SerialsBelowNext, SerialNamesScene
<1>9. DamageCovers'
  <2>1. SUFFICES ASSUME NEW o \in DOMAIN drawn \cap DOMAIN frame'.scenes,
                        drawn[o].serial = frame'.scenes[o].damageFrom
                 PROVE  SameOutside(drawn[o].quads, frame'.scenes[o].quads,
                                    frame'.scenes[o].damage)
    BY <1>5 DEF DamageCovers
  <2>2. CASE o \in DOMAIN frame.scenes /\ frame'.scenes[o] = frame.scenes[o]
    BY <2>1, <2>2 DEF PacerInv, DamageCovers
  <2>3. CASE /\ o \in DOMAIN frame.scenes
             /\ frame'.scenes[o].damageFrom = frame.scenes[o].serial
             /\ frame'.scenes[o].damage =
                  OutputDamage(frame.scenes[o].quads, frame'.scenes[o].quads)
    <3>1. drawn[o].quads = frame.scenes[o].quads
      BY <2>1, <2>3 DEF PacerInv, SerialNamesScene
    <3>2. SameOutside(frame.scenes[o].quads, frame'.scenes[o].quads,
                      OutputDamage(frame.scenes[o].quads, frame'.scenes[o].quads))
      BY <1>6, <2>1, <2>3, OutputDamageCovers
    <3>3. QED BY <2>3, <3>1, <3>2
  <2>4. CASE frame'.scenes[o].damageFrom = NoSerial
    BY <1>6, <2>1, <2>4 DEF NoSerial
  <2>5. QED BY <1>4, <2>1, <2>2, <2>3, <2>4
<1>10. ScreenFaithful'
  BY <1>5 DEF PacerInv, ScreenFaithful
<1>11. QED BY <1>1, <1>4, <1>7, <1>8, <1>9, <1>10 DEF PacerInv

-----------------------------------------------------------------------------
(* The backend's steps keep the invariant.                                 *)

\* Nothing in the invariant beyond types is touched by an output coming or
\* going or asking for a frame.
LEMMA QuietStepKeepsInv ==
  ASSUME PacerInv, TypeOK', UNCHANGED <<published, nextSerial, frame, drawn>>
  PROVE  PacerInv'
BY DEF PacerInv, SerialsBelowNext, SlotCarriesAllScenes, SerialNamesScene,
       DamageCovers, ScreenFaithful

\* Drawing by patching leaves what drawing everything would.
LEMMA PatchIsFaithful ==
  ASSUME NEW old, NEW quads, NEW damage, NEW screen,
         screen = Painted(old), SameOutside(old, quads, damage)
  PROVE  Repainted(screen, quads, damage) = Painted(quads)
<1>1. ASSUME NEW cell \in Cells
      PROVE  (IF cell \in damage THEN PaintedCell(quads, cell) ELSE screen[cell])
               = PaintedCell(quads, cell)
  <2>1. CASE cell \in damage
    BY <2>1
  <2>2. CASE cell \notin damage
    <3>1. screen[cell] = PaintedCell(old, cell)
      BY DEF Painted
    <3>2. PaintedCell(old, cell) = PaintedCell(quads, cell)
      BY <2>2 DEF SameOutside
    <3>3. QED BY <2>2, <3>1, <3>2
  <2>3. QED BY <2>1, <2>2
<1>2. QED BY <1>1 DEF Repainted, Painted

LEMMA DrawIsFaithful ==
  ASSUME PacerInv, NEW o \in DOMAIN frame.scenes
  PROVE  DrawnFrom(o, frame.scenes[o]) = Painted(frame.scenes[o].quads)
<1> DEFINE scene == frame.scenes[o]
<1>1. CASE o \in DOMAIN drawn /\ drawn[o].serial = scene.damageFrom
  <2>1. SameOutside(drawn[o].quads, scene.quads, scene.damage)
    BY <1>1 DEF PacerInv, DamageCovers
  <2>2. drawn[o].screen = Painted(drawn[o].quads)
    BY <1>1 DEF PacerInv, ScreenFaithful
  <2>3. Repainted(drawn[o].screen, scene.quads, scene.damage) = Painted(scene.quads)
    BY <2>1, <2>2, PatchIsFaithful
  <2>4. QED BY <1>1, <2>3 DEF DrawnFrom
<1>2. CASE ~ (o \in DOMAIN drawn /\ drawn[o].serial = scene.damageFrom)
  BY <1>2 DEF DrawnFrom
<1>3. QED BY <1>1, <1>2

LEMMA DrawKeepsInv ==
  ASSUME PacerInv, TypeOK', NEW o \in OutputIds, Draw(o)
  PROVE  PacerInv'
<1> DEFINE scene == frame.scenes[o]
           drawing == [serial |-> scene.serial, quads |-> scene.quads,
                       screen |-> DrawnFrom(o, scene)]
<1>1. /\ o \in DOMAIN frame.scenes
      /\ drawn' = [p \in DOMAIN drawn \cup {o} |-> IF p = o THEN drawing ELSE drawn[p]]
      /\ UNCHANGED <<published, nextSerial, frame>>
  BY DEF Draw, compositor
<1>2. DrawnFrom(o, scene) = Painted(scene.quads)
  BY <1>1, DrawIsFaithful
<1>3. /\ drawing.serial = scene.serial
      /\ drawing.quads = scene.quads
      /\ drawing.screen = Painted(scene.quads)
  BY <1>2
<1> HIDE DEF drawing
<1>4. ASSUME NEW p \in DOMAIN drawn'
      PROVE  \/ p = o /\ drawn'[p] = drawing
             \/ p # o /\ p \in DOMAIN drawn /\ drawn'[p] = drawn[p]
  BY <1>1, <1>4
<1>5. ScreenFaithful'
  BY <1>3, <1>4 DEF PacerInv, ScreenFaithful
<1>6. SerialsBelowNext'
  BY <1>1, <1>3, <1>4 DEF PacerInv, SerialsBelowNext
<1>7. SerialNamesScene'
  BY <1>1, <1>3, <1>4 DEF PacerInv, SerialNamesScene
<1>8. DamageCovers'
  <2>1. SUFFICES ASSUME NEW p \in DOMAIN drawn' \cap DOMAIN frame.scenes,
                        drawn'[p].serial = frame.scenes[p].damageFrom
                 PROVE  SameOutside(drawn'[p].quads, frame.scenes[p].quads,
                                    frame.scenes[p].damage)
    BY <1>1 DEF DamageCovers
  <2>2. CASE p = o
    BY <1>3, <1>4, <2>1, <2>2 DEF SameOutside
  <2>3. CASE p # o
    BY <1>4, <2>1, <2>3 DEF PacerInv, DamageCovers
  <2>4. QED BY <2>2, <2>3
<1>9. SlotCarriesAllScenes'
  BY <1>1 DEF PacerInv, SlotCarriesAllScenes
<1>10. QED BY <1>5, <1>6, <1>7, <1>8, <1>9 DEF PacerInv

LEMMA InitInv == Init => PacerInv
BY InitTypes
   DEF Init, PacerInv, SerialsBelowNext, SlotCarriesAllScenes, SerialNamesScene,
       DamageCovers, ScreenFaithful

LEMMA StepKeepsInv == PacerInv /\ [Next]_vars => PacerInv'
<1> SUFFICES ASSUME PacerInv, [Next]_vars PROVE PacerInv'
  OBVIOUS
<1>1. TypeOK'
  BY StepTypes DEF PacerInv
<1>2. CASE Pass
  BY <1>2, PassKeepsInv
<1>3. CASE UNCHANGED vars
  BY <1>1, <1>3, QuietStepKeepsInv DEF vars, compositor, backend
<1>4. ASSUME NEW o \in OutputIds, Plug(o) \/ Unplug(o) \/ Reconfigure(o) \/ Ask(o)
      PROVE  PacerInv'
  <2>1. UNCHANGED <<published, nextSerial, frame, drawn>>
    BY <1>4 DEF Plug, Unplug, Reconfigure, Ask, compositor, backend
  <2>2. QED BY <1>1, <2>1, QuietStepKeepsInv
<1>5. ASSUME NEW o \in OutputIds, Draw(o) PROVE PacerInv'
  BY <1>1, <1>5, DrawKeepsInv
<1>6. QED
  BY <1>2, <1>3, <1>4, <1>5 DEF Next, Pass, BackendStep

LEMMA InvHolds == Spec => []PacerInv
<1>1. PacerInv /\ [Next]_vars => PacerInv'
  BY StepKeepsInv
<1>2. QED BY <1>1, InitInv, PTL DEF Spec

\* Patching never leaves a screen different from drawing the whole scene,
\* however many frames the backend skips: FramePacer::publish counts damage
\* from a scene the backend can recognise, and never reports too little.
THEOREM ScreensAreFaithful == Spec => []ScreenFaithful
<1>1. PacerInv => ScreenFaithful
  BY DEF PacerInv
<1>2. QED BY <1>1, InvHolds, PTL

\* A scene serial is never handed out again for something else, even when an
\* output is forgotten by the housekeeping pass and comes back.
THEOREM SerialsNameScenes == Spec => []SerialNamesScene
<1>1. PacerInv => SerialNamesScene
  BY DEF PacerInv
<1>2. QED BY <1>1, InvHolds, PTL

\* The newest scene of every output is in the slot, whichever output the last
\* frame was composed for.
THEOREM SlotIsComplete == Spec => []SlotCarriesAllScenes
<1>1. PacerInv => SlotCarriesAllScenes
  BY DEF PacerInv
<1>2. QED BY <1>1, InvHolds, PTL
-----------------------------------------------------------------------------
(* The pacer implements FrameDelivery.                                     *)

\* What is drawn is never newer than what is offered; with SerialNamesScene
\* this is what makes a screen only go forward.
NeverAhead ==
  \A o \in DOMAIN drawn \cap DOMAIN frame.scenes : drawn[o].serial <= frame.scenes[o].serial

LEMMA PassOffers ==
  ASSUME PacerInv, Pass
  PROVE  /\ Delivery!Offer
         /\ NeverAhead => NeverAhead'
<1>1. Publishes /\ PassFrame /\ TypeOK'
  BY EveryPassPublishes, PassKeepsTypes DEF PacerInv
<1>2. PICK live \in SUBSET OutputIds, looks \in [OutputIds -> Looks],
           outdated \in SUBSET OutputIds, asking \in SUBSET OutputIds :
        \E marks, marksCursor, before :
          /\ Kept(before)
          /\ Publish(live, looks, marks, marksCursor, before, outdated, asking)
  BY <1>1 DEF Publishes
<1>3. PICK marks, marksCursor, before :
        /\ Kept(before)
        /\ Publish(live, looks, marks, marksCursor, before, outdated, asking)
  BY <1>2
<1>4. /\ nextSerial' >= nextSerial
      /\ \A o \in DOMAIN frame'.scenes :
           \/ o \in DOMAIN frame.scenes /\ frame'.scenes[o] = frame.scenes[o]
           \/ /\ frame'.scenes[o].serial >= nextSerial
              /\ frame'.scenes[o].serial < nextSerial'
              /\ frame'.scenes[o].quads = IF o \in live THEN looks[o] ELSE << >>
  BY <1>3, SceneAfterPublish
<1>5. outputs' = live /\ look' = looks
  BY <1>3 DEF Publish
<1>6. /\ nextSerial \in Nat /\ nextSerial' \in Nat
      /\ DOMAIN frame'.scenes \subseteq OutputIds
      /\ \A o \in DOMAIN frame.scenes : frame.scenes[o].serial \in Nat
      /\ \A o \in DOMAIN frame'.scenes : frame'.scenes[o].serial \in Nat
      /\ \A o \in DOMAIN drawn : drawn[o].serial \in Nat
  BY <1>1 DEF PacerInv, TypeOK, PerOutput, Scene, Drawing
<1>7. drawn' = drawn
  BY <1>1 DEF PassFrame, backend
<1>8. Wanted' \in [OutputIds -> Looks]
  BY <1>1, LooksAssumption DEF Wanted, TypeOK
<1>9. ASSUME NEW o \in DOMAIN Offered'
      PROVE  \/ o \in DOMAIN Offered /\ Offered'[o] = Offered[o]
             \/ Delivery!IsNew(o)
  <2>1. o \in DOMAIN frame'.scenes /\ o \in OutputIds
    BY <1>6, <1>9 DEF Offered
  <2>2. CASE o \in DOMAIN frame.scenes /\ frame'.scenes[o] = frame.scenes[o]
    BY <2>1, <2>2 DEF Offered
  <2>3. CASE /\ frame'.scenes[o].serial >= nextSerial
             /\ frame'.scenes[o].serial < nextSerial'
             /\ frame'.scenes[o].quads = IF o \in live THEN looks[o] ELSE << >>
    <3>1. /\ Offered'[o].version = frame'.scenes[o].serial
          /\ Offered'[o].quads = frame'.scenes[o].quads
      BY <2>1 DEF Offered
    <3>2. Wanted'[o] = IF o \in live THEN looks[o] ELSE << >>
      BY <1>5, <2>1 DEF Wanted
    <3>3. QED BY <1>6, <2>1, <2>3, <3>1, <3>2 DEF Delivery!IsNew
  <2>4. QED BY <1>4, <2>1, <2>2, <2>3
<1>10. Delivery!Offer
  <2>1. nextSerial' - 1 >= nextSerial - 1
    <3>1. nextSerial \in Nat /\ nextSerial' \in Nat /\ nextSerial' >= nextSerial
      BY <1>4, <1>6
    <3>2. ASSUME NEW m \in Nat, NEW n \in Nat, n >= m PROVE n - 1 >= m - 1
      BY <3>2
    <3>3. QED BY <3>1, <3>2
  <2>2. OnScreen' = OnScreen
    BY <1>7 DEF OnScreen
  <2>3. QED BY <1>8, <1>9, <2>1, <2>2 DEF Delivery!Offer
<1>11. NeverAhead => NeverAhead'
  BY <1>4, <1>6, <1>7 DEF NeverAhead, PacerInv, SerialsBelowNext
<1>12. QED BY <1>10, <1>11

LEMMA DrawShows ==
  ASSUME PacerInv, NeverAhead, NEW o \in OutputIds, Draw(o)
  PROVE  Delivery!Show(o) /\ NeverAhead'
<1> DEFINE scene == frame.scenes[o]
           drawing == [serial |-> scene.serial, quads |-> scene.quads,
                       screen |-> DrawnFrom(o, scene)]
<1>1. /\ o \in DOMAIN frame.scenes
      /\ o \in DOMAIN drawn => drawn[o].serial # scene.serial
      /\ drawn' = [p \in DOMAIN drawn \cup {o} |-> IF p = o THEN drawing ELSE drawn[p]]
      /\ UNCHANGED <<outputs, look, nextSerial, frame>>
  BY DEF Draw, compositor
<1>2. /\ scene.serial \in Nat
      /\ \A p \in DOMAIN drawn : drawn[p].serial \in Nat
  BY <1>1 DEF PacerInv, TypeOK, PerOutput, Scene, Drawing
<1>3. drawing.serial = scene.serial /\ drawing.quads = scene.quads
      /\ drawing.screen = Painted(scene.quads)
  BY <1>1, DrawIsFaithful
<1> HIDE DEF drawing
<1>4. o \in DOMAIN drawn => drawn[o].serial < scene.serial
  BY <1>1, <1>2 DEF NeverAhead
<1>5. NeverAhead'
  BY <1>1, <1>2, <1>3 DEF NeverAhead
<1>6. OnScreen' = [p \in DOMAIN OnScreen \cup {o} |->
                     IF p # o THEN OnScreen[p]
                     ELSE [version |-> Offered[o].version, quads |-> Offered[o].quads,
                           screen |-> Painted(Offered[o].quads)]]
  BY <1>1, <1>3 DEF OnScreen, Offered
<1>7. UNCHANGED <<Wanted, Offered, nextSerial - 1>>
  BY <1>1 DEF Wanted, Offered
<1>8. /\ o \in DOMAIN Offered
      /\ o \in DOMAIN OnScreen => OnScreen[o].version < Offered[o].version
  BY <1>1, <1>4 DEF Offered, OnScreen
<1>9. Delivery!Painted(Offered[o].quads) = Painted(Offered[o].quads)
  BY DEF Delivery!Painted, Delivery!PaintedCell, Delivery!Seen, Delivery!Covering,
         Painted, PaintedCell, Seen, Covering
<1>10. QED BY <1>5, <1>6, <1>7, <1>8, <1>9 DEF Delivery!Show

LEMMA QuietStepStutters ==
  ASSUME UNCHANGED <<outputs, look, nextSerial, frame, drawn>>
  PROVE  UNCHANGED Delivery!vars /\ (NeverAhead => NeverAhead')
BY DEF Delivery!vars, Wanted, Offered, OnScreen, NeverAhead

LEMMA StepDelivers ==
  PacerInv /\ NeverAhead /\ [Next]_vars => [Delivery!Next]_(Delivery!vars) /\ NeverAhead'
<1> SUFFICES ASSUME PacerInv, NeverAhead, [Next]_vars
             PROVE  [Delivery!Next]_(Delivery!vars) /\ NeverAhead'
  OBVIOUS
<1>1. CASE Pass
  BY <1>1, PassOffers DEF Delivery!Next
<1>2. CASE UNCHANGED vars
  BY <1>2, QuietStepStutters DEF vars, compositor, backend
<1>3. ASSUME NEW o \in OutputIds, Plug(o) \/ Unplug(o) \/ Reconfigure(o) \/ Ask(o)
      PROVE  UNCHANGED Delivery!vars /\ NeverAhead'
  <2>1. UNCHANGED <<outputs, look, nextSerial, frame, drawn>>
    BY <1>3 DEF Plug, Unplug, Reconfigure, Ask, compositor, backend
  <2>2. QED BY <2>1, QuietStepStutters
<1>4. ASSUME NEW o \in OutputIds, Draw(o)
      PROVE  Delivery!Next /\ NeverAhead'
  BY <1>4, DrawShows DEF Delivery!Next
<1>5. QED BY <1>1, <1>2, <1>3, <1>4 DEF Next, Pass, BackendStep

LEMMA InitDelivers == Init => Delivery!Init /\ NeverAhead
<1> SUFFICES ASSUME Init PROVE Delivery!Init /\ NeverAhead
  OBVIOUS
<1>1. Wanted = [o \in OutputIds |-> << >>]
  BY DEF Init, Wanted
<1>2. Offered = << >> /\ OnScreen = << >>
  BY DEF Init, Offered, OnScreen
<1>3. nextSerial - 1 = 0
  BY DEF Init, FirstSerial
<1>4. NeverAhead
  BY DEF Init, NeverAhead
<1>5. QED BY <1>1, <1>2, <1>3, <1>4 DEF Delivery!Init

\* The pacer, the slot and the backend implement whole versions that only go
\* forward: damage, skipped frames, kept requests and outputs that come back
\* never show.
THEOREM PacerDelivers == Spec => Delivers
<1>1. Init => Delivery!Init /\ NeverAhead
  BY InitDelivers
<1>2. PacerInv /\ NeverAhead /\ [Next]_vars => [Delivery!Next]_(Delivery!vars) /\ NeverAhead'
  BY StepDelivers
<1>3. QED BY <1>1, <1>2, InvHolds, PTL DEF Spec, Delivers, Delivery!Spec

-----------------------------------------------------------------------------
(* No request is left behind.                                              *)

\* An output that is not invalidated shows what it should, and one that is has
\* nobody asking: the loop ends every pass with dirty cleared, so a change is
\* either published, or kept in stale until somebody asks.
NothingIsOwed ==
  /\ dirty => outputs = {}
  /\ \A o \in outputs \ (quiet \cup stale) :
       o \in DOMAIN published /\ published[o].quads = look[o]
  /\ waiting \cap stale = {}

\* What a handler that marks nothing may change: outputs it takes in, and what
\* those show, are quiet; nothing invalidated or published is dropped.
Fits(live, looks, marks, before, outdated) ==
  dirty \/ marks
  \/ /\ live \subseteq outputs \cup quiet'
     /\ quiet \subseteq quiet'
     /\ \A o \in live \ quiet' : looks[o] = look[o]
     /\ stale \cap live \subseteq outdated
     /\ live \cap DOMAIN published \subseteq DOMAIN before

LEMMA PublishOwesNothing ==
  ASSUME NothingIsOwed,
         NEW live, NEW looks, NEW marks, NEW marksCursor, NEW before, NEW outdated, NEW asking,
         Kept(before), Fits(live, looks, marks, before, outdated),
         Publish(live, looks, marks, marksCursor, before, outdated, asking)
  PROVE  NothingIsOwed'
<1> DEFINE invalid == IF dirty \/ marks THEN Invalidated(outdated, live) ELSE outdated
           due == invalid \cap asking
<1>1. /\ outputs' = live /\ look' = looks /\ dirty' = FALSE
      /\ stale' = invalid \ due /\ waiting' = asking \ due
  BY DEF Publish, Unserved
<1>2. PICK serials \in SerialsFor(due) :
        published' = [o \in DOMAIN before \cup due |->
                        IF o \in due THEN Compose(o, serials[o], live, looks, before)
                                     ELSE before[o]]
  BY DEF Publish
<1>3. ASSUME NEW o \in live, o \in due
      PROVE  o \in DOMAIN published' /\ published'[o].quads = looks[o]
  <2>1. published'[o] = Compose(o, serials[o], live, looks, before)
    BY <1>2, <1>3
  <2>2. QED BY <1>2, <1>3, <2>1 DEF Compose
<1>4. ASSUME NEW o \in live, o \notin quiet', o \notin stale'
      PROVE  o \in DOMAIN published' /\ published'[o].quads = looks[o]
  <2>1. CASE o \in due
    BY <1>3, <2>1
  <2>2. CASE o \notin due
    <3>1. o \notin invalid
      BY <1>1, <1>4, <2>2
    <3>2. ~ (dirty \/ marks) /\ o \notin outdated
      BY <3>1 DEF Invalidated
    <3>3. /\ o \in outputs \ (quiet \cup stale) /\ looks[o] = look[o]
          /\ o \in DOMAIN published => o \in DOMAIN before
      BY <1>4, <3>2 DEF Fits
    <3>4. o \in DOMAIN before /\ before[o] = published[o] /\ published[o].quads = look[o]
      BY <3>3 DEF NothingIsOwed, Kept
    <3>5. QED BY <1>2, <2>2, <3>3, <3>4
  <2>3. QED BY <2>1, <2>2
<1> HIDE DEF due
<1>5. waiting' \cap stale' = {}
  BY <1>1 DEF due
<1>6. QED BY <1>1, <1>4, <1>5 DEF NothingIsOwed

LEMMA RelaidOwesNothing ==
  ASSUME TypeOK, NothingIsOwed, NEW live \in SUBSET OutputIds, NEW marks, NEW newly,
         Relaid(live, marks, newly),
         marks \/ live \subseteq outputs \cup newly
  PROVE  NothingIsOwed'
<1>1. Kept(published)
  BY DEF Kept, TypeOK, PerOutput
<1>2. ASSUME NEW looks, NEW more,
             Publish(live, looks, marks, FALSE, published, stale, waiting),
             Quieten(marks, newly \cup more), \A o \in OutputIds \ more : looks[o] = look[o]
      PROVE  NothingIsOwed'
  <2>1. Fits(live, looks, marks, published, stale)
    BY <1>2 DEF Fits, Quieten
  <2>2. QED BY <1>1, <1>2, <2>1, PublishOwesNothing
<1>3. CASE /\ Publish(live, look, marks, FALSE, published, stale, waiting)
           /\ Quieten(marks, newly)
  <2>1. newly = newly \cup {}
    OBVIOUS
  <2>2. QED BY <1>2, <1>3, <2>1
<1>4. CASE \E o \in live : \E looks \in Redrawings({o}) :
             /\ Publish(live, looks, marks, FALSE, published, stale, waiting)
             /\ Quieten(marks, newly \cup {o})
  <2>1. PICK o \in live : \E looks \in Redrawings({o}) :
          /\ Publish(live, looks, marks, FALSE, published, stale, waiting)
          /\ Quieten(marks, newly \cup {o})
    BY <1>4
  <2>2. PICK looks \in Redrawings({o}) :
          /\ Publish(live, looks, marks, FALSE, published, stale, waiting)
          /\ Quieten(marks, newly \cup {o})
    BY <2>1
  <2>3. looks \in [OutputIds -> Looks] /\ \A p \in OutputIds \ {o} : looks[p] = look[p]
    BY DEF Redrawings, TypeOK
  <2>4. QED BY <1>2, <2>2, <2>3
<1>5. QED BY <1>3, <1>4 DEF Relaid

LEMMA PassOwesNothing ==
  ASSUME TypeOK, NothingIsOwed, Pass
  PROVE  NothingIsOwed'
<1>1. Kept(published)
  BY DEF Kept, TypeOK, PerOutput
<1>2. CASE ScenePass
  <2>1. PICK looks \in Redrawings(outputs), cursor \in BOOLEAN :
          Publish(outputs, looks, TRUE, cursor, published, stale, waiting)
    BY <1>2 DEF ScenePass
  <2>2. Fits(outputs, looks, TRUE, published, stale)
    BY DEF Fits
  <2>3. QED BY <1>1, <2>1, <2>2, PublishOwesNothing
<1>3. CASE PointerPass
  <2>1. /\ Publish(outputs, look, FALSE, TRUE, published, stale, waiting)
        /\ Fits(outputs, look, FALSE, published, stale)
    BY <1>3 DEF PointerPass, Fits
  <2>2. QED BY <1>1, <2>1, PublishOwesNothing
<1>4. CASE HousekeepingPass
  <2> DEFINE kept == [o \in DOMAIN published \cap outputs |-> published[o]]
  <2>1. Kept(kept) /\ DOMAIN kept = DOMAIN published \cap outputs
    BY DEF Kept
  <2> HIDE DEF kept
  <2>2. \E looks, marks :
          /\ Publish(outputs, looks, marks, FALSE, kept, stale \cap outputs, waiting \cap outputs)
          /\ marks \/ (looks = look /\ UNCHANGED quiet)
    <3>1. CASE /\ Publish(outputs, look, FALSE, FALSE, kept, stale \cap outputs,
                          waiting \cap outputs)
               /\ UNCHANGED <<quiet, changes>>
      BY <3>1
    <3>2. CASE \E looks \in Redrawings(outputs) :
                 Publish(outputs, looks, TRUE, FALSE, kept, stale \cap outputs,
                         waiting \cap outputs)
      BY <3>2
    <3>3. QED BY <1>4, <3>1, <3>2 DEF HousekeepingPass, kept
  <2>3. PICK looks, marks :
          /\ Publish(outputs, looks, marks, FALSE, kept, stale \cap outputs, waiting \cap outputs)
          /\ marks \/ (looks = look /\ UNCHANGED quiet)
    BY <2>2
  <2>4. Fits(outputs, looks, marks, kept, stale \cap outputs)
    BY <2>1, <2>3 DEF Fits
  <2>5. QED BY <2>1, <2>3, <2>4, PublishOwesNothing
<1>5. CASE FrameRequestedPass
  <2> DEFINE asking == waiting \cup {Head(inbox).output}
  <2>1. CASE /\ Publish(outputs, look, FALSE, FALSE, published, stale, asking)
             /\ UNCHANGED <<quiet, changes>>
    <3>1. Fits(outputs, look, FALSE, published, stale)
      BY <2>1 DEF Fits
    <3>2. QED BY <1>1, <2>1, <3>1, PublishOwesNothing
  <2>2. CASE \E looks \in Redrawings(outputs) :
               Publish(outputs, looks, TRUE, FALSE, published, stale, asking)
    <3>1. PICK looks : Publish(outputs, looks, TRUE, FALSE, published, stale, asking)
      BY <2>2
    <3>2. Fits(outputs, looks, TRUE, published, stale)
      BY DEF Fits
    <3>3. QED BY <1>1, <3>1, <3>2, PublishOwesNothing
  <2>3. QED BY <1>5, <2>1, <2>2 DEF FrameRequestedPass
<1>6. ASSUME NEW type, Received(type), type \in {"OutputAdded", "OutputChanged", "OutputRemoved"}
      PROVE  Head(inbox).output \in OutputIds
  BY <1>6, ReceivedType DEF Message
<1>7. CASE OutputAddedPass \/ OutputChangedPass
  <2>1. outputs \cup {Head(inbox).output} \in SUBSET OutputIds
    BY <1>6, <1>7 DEF OutputAddedPass, OutputChangedPass, TypeOK
  <2>2. Relaid(outputs \cup {Head(inbox).output}, TRUE, {})
    BY <1>7 DEF OutputAddedPass, OutputChangedPass
  <2>3. QED BY <2>1, <2>2, RelaidOwesNothing
<1>8. CASE OutputRemovedPass
  <2>1. outputs \ {Head(inbox).output} \in SUBSET OutputIds
    BY DEF TypeOK
  <2>2. Relaid(outputs \ {Head(inbox).output}, TRUE, {})
    BY <1>8 DEF OutputRemovedPass
  <2>3. QED BY <2>1, <2>2, RelaidOwesNothing
<1>9. CASE OutputInfoPass
  <2> DEFINE announced == Head(inbox).outputs
  <2>1. announced \in SUBSET OutputIds
    BY <1>9, ReceivedType DEF OutputInfoPass, Message
  <2>2. PICK hookDirties \in BOOLEAN :
          Relaid(announced, outputs \ announced # {} \/ hookDirties, announced \ outputs)
    BY <1>9 DEF OutputInfoPass
  <2>3. announced \subseteq outputs \cup (announced \ outputs)
    OBVIOUS
  <2> HIDE DEF announced
  <2>4. QED BY <2>1, <2>2, <2>3, RelaidOwesNothing
<1>10. QED
  BY <1>2, <1>3, <1>4, <1>5, <1>7, <1>8, <1>9 DEF Pass, BackendMessagePass

\* A request for a frame that was not served leaves nothing newer unshown,
\* whichever came first, the request or the change, and whatever OutputInfo
\* leaves unmarked touches only the outputs it brought in.
THEOREM RequestsAreKept == Spec => []WaitingMeansCurrent
<1>1. Init => NothingIsOwed
  BY DEF Init, NothingIsOwed
<1>2. TypeOK /\ NothingIsOwed /\ [Next]_vars => NothingIsOwed'
  <2> SUFFICES ASSUME TypeOK, NothingIsOwed, [Next]_vars PROVE NothingIsOwed'
    OBVIOUS
  <2>1. CASE Pass
    BY <2>1, PassOwesNothing
  <2>2. CASE BackendStep \/ UNCHANGED vars
    <3>1. UNCHANGED <<outputs, look, dirty, published, stale, waiting, quiet>>
      BY <2>2 DEF BackendStep, Plug, Unplug, Reconfigure, Ask, Draw, vars, compositor
    <3>2. QED BY <3>1 DEF NothingIsOwed
  <2>3. QED BY <2>1, <2>2 DEF Next, Pass
<1>3. NothingIsOwed => WaitingMeansCurrent
  BY DEF NothingIsOwed, WaitingMeansCurrent
<1>4. QED BY <1>1, <1>2, <1>3, TypeCorrect, PTL DEF Spec
=============================================================================
