------------------------- MODULE InputDelivery_proof -------------------------
(***************************************************************************)
(* Proofs about PointerDelivery, KeyboardDelivery and DataTransfer, for    *)
(* any surfaces, windows, clients, buttons, fingers, keys, bindings,       *)
(* devices, sources and offers.                                            *)
(*                                                                         *)
(* HoversAgree sets two kinds of clients aside, so it is kept only if they *)
(* can be told what they are when they come back.  A client that asked for *)
(* its pointer late believes nothing (LateHearNothing), so that losing the *)
(* surface under the pointer puts it right; one a press took the pointer   *)
(* from is not under it (RobbedAreElsewhere), so that it is right as soon  *)
(* as the surface it still believes in is destroyed; and a pointer object  *)
(* begins with no hover (NoPointerNoHover).  FingersAgree rests on the     *)
(* same of fingers (NoTouchNoFingers).                                     *)
(*                                                                         *)
(* TheFocusedClientKnows compares what a client believes with the state of *)
(* the keyboard.  It is kept by a key that is consumed, of which a client  *)
(* hears nothing, because such a key is never a modifier: Escape is none,  *)
(* and a binding is not parsed that names one as its key (KeyCombo::parse, *)
(* src/keys.rs).  That a key being released was consumed then says the     *)
(* same of it, so NoModifierConsumed joins the invariant.                  *)
(*                                                                         *)
(* What an offer reads follows the sources: a drag and a selection are of  *)
(* sources used for that (DragIsItsSources, SelectionsAreHeld), so that    *)
(* what ends one use of a source leaves the offers of its others alone.  A *)
(* drag keeps only offers that are dragged still (DragOffersAreDrags), so  *)
(* that its drop turns no other into a dropped one.  What a source heard   *)
(* is what its offer settled on as long as it has one (OneEach), which it  *)
(* has when a client has one data device.                                  *)
(***************************************************************************)
EXTENDS PointerDelivery, Integers, FiniteSets, FiniteSetTheorems, WellFoundedInduction,
        NaturalsInduction, TLAPS

NoPointerNoHover == \A c \in Clients \ pointers : on[c] = None

LateHearNothing == \A c \in late : on[c] = None

RobbedAreElsewhere == robbed \cap ClientOf(pointer_surface) = {}

HoverInv ==
  /\ surfaces \subseteq Surfaces
  /\ pointer_surface \in surfaces \cup {None}
  /\ on \in [Clients -> Surfaces \cup {None}]
  /\ pointers \subseteq Clients /\ late \subseteq Clients /\ robbed \subseteq Clients
  /\ NoPointerNoHover
  /\ LateHearNothing
  /\ RobbedAreElsewhere
  /\ HoversAgree

NoTouchNoFingers == \A c \in Clients \ touches : fingers[c] = {}

FingerInv ==
  /\ surfaces \subseteq Surfaces
  /\ touch_points \in [Fingers -> surfaces \cup {None}]
  /\ fingers \in [Clients -> SUBSET Fingers]
  /\ NoTouchNoFingers
  /\ FingersAgree

-----------------------------------------------------------------------------
(* The pointer moves from one surface to another.                          *)

LEMMA OwnersAreClients ==
  ASSUME PointerAssumption, NEW s \in Surfaces \cup {None}
  PROVE  ClientOf(s) \subseteq Clients
BY DEF PointerAssumption, ClientOf

\* Nothing of it changes.
LEMMA HoverStays ==
  ASSUME HoverInv, UNCHANGED <<pointer_surface, on, late, robbed, pointers>>,
         surfaces \subseteq surfaces', surfaces' \subseteq Surfaces
  PROVE  HoverInv'
<1>1. /\ NoPointerNoHover' /\ LateHearNothing' /\ RobbedAreElsewhere' /\ HoversAgree'
  BY DEF HoverInv, NoPointerNoHover, LateHearNothing, RobbedAreElsewhere, HoversAgree,
         ClientOf
<1>2. QED BY <1>1 DEF HoverInv

\* A leave and an enter put both clients right.
LEMMA LeaveAndEnterKeeps ==
  ASSUME HoverInv, NEW s \in surfaces \cup {None},
         leave_and_enter(s), UNCHANGED <<surfaces, pointers>>
  PROVE  HoverInv'
<1>1. CASE s = pointer_surface
  BY <1>1, HoverStays DEF leave_and_enter, HoverInv
<1>2. CASE s # pointer_surface
  <2>1. /\ pointer_surface' = s
        /\ on' = [c \in Clients |-> IF c \in ClientOf(s) \cap pointers THEN s
                                    ELSE IF c \in ClientOf(pointer_surface) THEN None
                                    ELSE on[c]]
        /\ late' = late \ (ClientOf(s) \cup ClientOf(pointer_surface))
        /\ robbed' = robbed \ (ClientOf(s) \cup ClientOf(pointer_surface))
    BY <1>2 DEF leave_and_enter
  <2>2. on' \in [Clients -> Surfaces \cup {None}]
    BY <2>1 DEF HoverInv
  <2>3. NoPointerNoHover'
    BY <2>1 DEF HoverInv, NoPointerNoHover
  <2>4. LateHearNothing'
    BY <2>1 DEF HoverInv, LateHearNothing
  <2>5. RobbedAreElsewhere'
    BY <2>1 DEF RobbedAreElsewhere, ClientOf
  <2>6. HoversAgree'
    BY <2>1 DEF HoverInv, HoversAgree, ClientOf
  <2>7. QED BY <2>1, <2>2, <2>3, <2>4, <2>5, <2>6 DEF HoverInv
<1>3. QED BY <1>1, <1>2

\* An enter alone leaves the client it took the pointer from set aside.
LEMMA EnterByPressKeeps ==
  ASSUME PointerAssumption, HoverInv, NEW s \in surfaces \cup {None},
         enter_by_press(s), UNCHANGED <<surfaces, pointers>>
  PROVE  HoverInv'
<1>1. CASE s = pointer_surface
  BY <1>1, HoverStays DEF enter_by_press, HoverInv
<1>2. CASE s # pointer_surface
  <2>1. /\ pointer_surface' = s
        /\ on' = [c \in Clients |-> IF c \in ClientOf(s) \cap pointers THEN s ELSE on[c]]
        /\ late' = late \ ClientOf(s)
        /\ robbed' = (robbed \cup ClientOf(pointer_surface)) \ ClientOf(s)
    BY <1>2 DEF enter_by_press
  <2>2. on' \in [Clients -> Surfaces \cup {None}]
    BY <2>1 DEF HoverInv
  <2>3. robbed' \subseteq Clients
    <3>1. pointer_surface \in Surfaces \cup {None}
      BY DEF HoverInv
    <3>2. QED BY <2>1, <3>1, OwnersAreClients DEF HoverInv
  <2>4. NoPointerNoHover'
    BY <2>1 DEF HoverInv, NoPointerNoHover
  <2>5. LateHearNothing'
    BY <2>1 DEF HoverInv, LateHearNothing
  <2>6. RobbedAreElsewhere'
    BY <2>1 DEF RobbedAreElsewhere, ClientOf
  <2>7. HoversAgree'
    <3>1. ASSUME NEW c \in pointers \ (late' \cup robbed')
          PROVE  on'[c] = IF c \in ClientOf(s) THEN s ELSE None
      <4>1. CASE c \in ClientOf(s)
        BY <2>1, <4>1 DEF HoverInv
      <4>2. CASE c \notin ClientOf(s)
        <5>1. c \notin late \cup robbed \cup ClientOf(pointer_surface)
          BY <2>1, <4>2
        <5>2. QED BY <2>1, <4>2, <5>1 DEF HoverInv, HoversAgree
      <4>3. QED BY <4>1, <4>2
    <3>2. QED BY <2>1, <3>1 DEF HoversAgree
  <2>8. QED BY <2>1, <2>2, <2>3, <2>4, <2>5, <2>6, <2>7 DEF HoverInv
<1>3. QED BY <1>1, <1>2

-----------------------------------------------------------------------------
(* Surfaces and pointer objects go and come.                               *)

LEMMA DestroyKeepsHovers ==
  ASSUME PointerAssumption, HoverInv, NEW s \in Surfaces, DestroySurface(s)
  PROVE  HoverInv'
<1>1. /\ surfaces' = surfaces \ {s}
      /\ pointer_surface' = (IF pointer_surface = s THEN None ELSE pointer_surface)
      /\ on' = [c \in Clients |-> IF on[c] = s THEN None ELSE on[c]]
      /\ late' = (IF s = pointer_surface THEN late \ {Owner[s]} ELSE late)
      /\ robbed' = {c \in robbed : on'[c] # None}
      /\ pointers' = pointers
  BY DEF DestroySurface, forget_surfaces
<1>2. on' \in [Clients -> Surfaces \cup {None}]
  BY <1>1 DEF HoverInv
<1>3. NoPointerNoHover'
  BY <1>1 DEF HoverInv, NoPointerNoHover
<1>4. LateHearNothing'
  BY <1>1 DEF HoverInv, LateHearNothing
<1>5. RobbedAreElsewhere'
  BY <1>1 DEF HoverInv, RobbedAreElsewhere, ClientOf
<1>6. HoversAgree'
  <2>1. ASSUME NEW c \in pointers \ (late' \cup robbed')
        PROVE  on'[c] = IF c \in ClientOf(pointer_surface') THEN pointer_surface' ELSE None
    <3>1. c \in Clients /\ s # None
      BY DEF PointerAssumption, HoverInv
    <3>2. CASE c \in robbed
      <4>1. on'[c] = None
        BY <1>1, <2>1, <3>2
      <4>2. c \notin ClientOf(pointer_surface')
        BY <1>1, <3>2 DEF HoverInv, RobbedAreElsewhere, ClientOf
      <4>3. QED BY <4>1, <4>2
    <3>3. CASE c \in late
      <4>1. on'[c] = None /\ s = pointer_surface
        BY <1>1, <2>1, <3>1, <3>3 DEF HoverInv, LateHearNothing
      <4>2. QED BY <1>1, <4>1 DEF ClientOf
    <3>4. CASE c \notin late \cup robbed
      BY <1>1, <3>1, <3>4 DEF HoverInv, HoversAgree, ClientOf
    <3>5. QED BY <3>2, <3>3, <3>4
  <2>2. QED BY <1>1, <2>1 DEF HoversAgree
<1>7. QED BY <1>1, <1>2, <1>3, <1>4, <1>5, <1>6 DEF HoverInv

LEMMA GoneKeepsHovers ==
  ASSUME HoverInv, NEW c \in Clients, ClientGone(c)
  PROVE  HoverInv'
<1>1. /\ surfaces' = surfaces \ {s \in surfaces : Owner[s] = c}
      /\ pointer_surface' = (IF pointer_surface \in surfaces /\ Owner[pointer_surface] = c
                             THEN None ELSE pointer_surface)
      /\ on' = [on EXCEPT ![c] = None]
      /\ late' = late \ {c} /\ robbed' = robbed \ {c} /\ pointers' = pointers \ {c}
  BY DEF ClientGone, forget_surfaces
<1>2. on' \in [Clients -> Surfaces \cup {None}]
  BY <1>1 DEF HoverInv
<1>3. pointer_surface' \in surfaces' \cup {None}
  BY <1>1 DEF HoverInv
<1>4. NoPointerNoHover'
  BY <1>1 DEF HoverInv, NoPointerNoHover
<1>5. LateHearNothing'
  BY <1>1 DEF HoverInv, LateHearNothing
<1>6. RobbedAreElsewhere'
  BY <1>1 DEF HoverInv, RobbedAreElsewhere, ClientOf
<1>7. HoversAgree'
  <2>1. ASSUME NEW d \in pointers \ (late \cup robbed), d # c
        PROVE  on'[d] = IF d \in ClientOf(pointer_surface') THEN pointer_surface' ELSE None
    <3>1. on'[d] = on[d]
      BY <1>1, <2>1 DEF HoverInv
    <3>2. on[d] = IF d \in ClientOf(pointer_surface) THEN pointer_surface ELSE None
      BY DEF HoverInv, HoversAgree
    <3>3. QED BY <1>1, <2>1, <3>1, <3>2 DEF HoverInv, ClientOf
  <2>2. QED BY <1>1, <2>1 DEF HoversAgree
<1>8. QED BY <1>1, <1>2, <1>3, <1>4, <1>5, <1>6, <1>7 DEF HoverInv

LEMMA PointersComeAndGo ==
  ASSUME HoverInv, NEW c \in Clients,
         GetPointer(c) \/ ReleasePointer(c)
  PROVE  HoverInv'
<1>1. CASE GetPointer(c)
  <2>1. /\ c \notin pointers /\ pointers' = pointers \cup {c}
        /\ late' = late \cup (ClientOf(pointer_surface) \cap {c})
        /\ UNCHANGED <<surfaces, pointer_surface, on, robbed>>
    BY <1>1 DEF GetPointer
  <2>2. on[c] = None
    BY <2>1 DEF HoverInv, NoPointerNoHover
  <2>3. NoPointerNoHover' /\ LateHearNothing'
    BY <2>1, <2>2 DEF HoverInv, NoPointerNoHover, LateHearNothing
  <2>4. RobbedAreElsewhere'
    BY <2>1 DEF HoverInv, RobbedAreElsewhere, ClientOf
  <2>5. HoversAgree'
    BY <2>1, <2>2 DEF HoverInv, HoversAgree, ClientOf
  <2>6. QED BY <2>1, <2>3, <2>4, <2>5 DEF HoverInv
<1>2. CASE ReleasePointer(c)
  <2>1. /\ pointers' = pointers \ {c} /\ on' = [on EXCEPT ![c] = None]
        /\ late' = late \ {c} /\ robbed' = robbed \ {c}
        /\ UNCHANGED <<surfaces, pointer_surface>>
    BY <1>2 DEF ReleasePointer
  <2>2. on' \in [Clients -> Surfaces \cup {None}]
    BY <2>1 DEF HoverInv
  <2>3. NoPointerNoHover' /\ LateHearNothing'
    BY <2>1 DEF HoverInv, NoPointerNoHover, LateHearNothing
  <2>4. RobbedAreElsewhere'
    BY <2>1 DEF HoverInv, RobbedAreElsewhere, ClientOf
  <2>5. HoversAgree'
    BY <2>1 DEF HoverInv, HoversAgree, ClientOf
  <2>6. QED BY <2>1, <2>2, <2>3, <2>4, <2>5 DEF HoverInv
<1>3. QED BY <1>1, <1>2

-----------------------------------------------------------------------------
(* Hovers: every step.                                                     *)

LEMMA NothingIsASurface == ASSUME HoverInv PROVE hit_test \subseteq surfaces \cup {None}
BY DEF hit_test

LEMMA PressKeepsHovers ==
  ASSUME PointerAssumption, HoverInv, NEW b \in Buttons, Press(b)
  PROVE  HoverInv'
<1>1. UNCHANGED <<surfaces, pointers>>
  BY DEF Press
<1>2. \/ UNCHANGED <<pointer_surface, on, late, robbed>>
      \/ leave_and_enter(None)
      \/ \E s \in hit_test : enter_by_press(s)
  BY DEF Press, taken_by
<1>3. CASE UNCHANGED <<pointer_surface, on, late, robbed>>
  BY <1>1, <1>3, HoverStays DEF HoverInv
<1>4. CASE leave_and_enter(None)
  BY <1>1, <1>4, LeaveAndEnterKeeps
<1>5. CASE \E s \in hit_test : enter_by_press(s)
  BY <1>1, <1>5, NothingIsASurface, EnterByPressKeeps
<1>6. QED BY <1>2, <1>3, <1>4, <1>5

LEMMA MotionKeepsHovers ==
  ASSUME HoverInv, PointerMoved \/ StartGrab \/ StartDrag
  PROVE  HoverInv'
<1>1. UNCHANGED <<surfaces, pointers>>
  BY DEF PointerMoved, StartGrab, StartDrag
<1>2. \/ UNCHANGED <<pointer_surface, on, late, robbed>>
      \/ \E s \in hit_test \cup {None} : leave_and_enter(s)
  BY DEF PointerMoved, StartGrab, StartDrag, taken_by
<1>3. CASE UNCHANGED <<pointer_surface, on, late, robbed>>
  BY <1>1, <1>3, HoverStays DEF HoverInv
<1>4. CASE \E s \in hit_test \cup {None} : leave_and_enter(s)
  BY <1>1, <1>4, NothingIsASurface, LeaveAndEnterKeeps
<1>5. QED BY <1>2, <1>3, <1>4

LEMMA StepKeepsHovers ==
  ASSUME PointerAssumption, HoverInv, [Next]_vars
  PROVE  HoverInv'
<1>1. CASE UNCHANGED vars
  BY <1>1, HoverStays DEF vars, ptr_vars, HoverInv
<1>2. ASSUME NEW s \in Surfaces, CreateSurface(s)
      PROVE  HoverInv'
  BY <1>2, HoverStays DEF CreateSurface, ptr_vars, HoverInv
<1>3. ASSUME NEW c \in Clients, GetTouch(c) \/ ReleaseTouch(c)
      PROVE  HoverInv'
  BY <1>3, HoverStays DEF GetTouch, ReleaseTouch, ptr_vars, HoverInv
<1>4. CASE Menu \/ LetGo
  BY <1>4, HoverStays DEF Menu, LetGo, ptr_vars, HoverInv
<1>5. ASSUME NEW b \in Buttons, Release(b)
      PROVE  HoverInv'
  BY <1>5, HoverStays DEF Release, ptr_vars, HoverInv
<1>6. ASSUME NEW f \in Fingers,
             TouchUp(f) \/ \E s \in Surfaces : TouchDown(f, s)
      PROVE  HoverInv'
  BY <1>6, HoverStays DEF TouchUp, TouchDown, ptr_vars, HoverInv
<1>7. CASE TouchCancel
  BY <1>7, HoverStays DEF TouchCancel, ptr_vars, HoverInv
<1>8. QED
  BY <1>1, <1>2, <1>3, <1>4, <1>5, <1>6, <1>7, DestroyKeepsHovers, GoneKeepsHovers,
     PointersComeAndGo, PressKeepsHovers, MotionKeepsHovers DEF Next

LEMMA InitHovers == Init => HoverInv
BY DEF Init, HoverInv, NoPointerNoHover, LateHearNothing, RobbedAreElsewhere, HoversAgree,
       ClientOf

-----------------------------------------------------------------------------
(* Fingers.                                                                *)

\* Nothing of them changes.
LEMMA FingersStay ==
  ASSUME FingerInv, UNCHANGED <<touches, touch_points, fingers>>,
         surfaces \subseteq surfaces', surfaces' \subseteq Surfaces
  PROVE  FingerInv'
BY DEF FingerInv, NoTouchNoFingers, FingersAgree, ClientOf

\* Surfaces are destroyed, and the fingers on them are forgotten.
LEMMA ForgetKeepsFingers ==
  ASSUME FingerInv, NEW gone, forget_surfaces(gone), UNCHANGED touches
  PROVE  FingerInv'
<1>1. /\ surfaces' = surfaces \ gone
      /\ touch_points' = [f \in Fingers |-> IF touch_points[f] \in gone THEN None
                                            ELSE touch_points[f]]
      /\ fingers' = [c \in Clients |-> {f \in fingers[c] : touch_points[f] \notin gone}]
  BY DEF forget_surfaces, fingers_kept
<1>2. /\ touch_points' \in [Fingers -> surfaces' \cup {None}]
      /\ fingers' \in [Clients -> SUBSET Fingers]
  BY <1>1 DEF FingerInv
<1>3. NoTouchNoFingers'
  BY <1>1 DEF FingerInv, NoTouchNoFingers
<1>4. FingersAgree'
  BY <1>1 DEF FingerInv, FingersAgree, ClientOf
<1>5. QED BY <1>1, <1>2, <1>3, <1>4 DEF FingerInv

\* All surfaces of the client that goes are destroyed, so no finger is left it.
LEMMA GoneKeepsFingers ==
  ASSUME FingerInv, NEW c \in Clients, ClientGone(c)
  PROVE  FingerInv'
<1> DEFINE gone == {s \in surfaces : Owner[s] = c}
<1>1. /\ surfaces' = surfaces \ gone
      /\ touch_points' = [f \in Fingers |-> IF touch_points[f] \in gone THEN None
                                            ELSE touch_points[f]]
      /\ fingers' = [d \in Clients |-> {f \in fingers[d] : touch_points[f] \notin gone}]
      /\ touches' = touches \ {c}
  BY DEF ClientGone, forget_surfaces, fingers_kept
<1>2. /\ touch_points' \in [Fingers -> surfaces' \cup {None}]
      /\ fingers' \in [Clients -> SUBSET Fingers]
  BY <1>1 DEF FingerInv
<1>3. fingers'[c] = {}
  BY <1>1 DEF FingerInv, FingersAgree, ClientOf
<1>4. NoTouchNoFingers'
  BY <1>1, <1>3 DEF FingerInv, NoTouchNoFingers
<1>5. FingersAgree'
  BY <1>1 DEF FingerInv, FingersAgree, ClientOf
<1>6. QED BY <1>1, <1>2, <1>4, <1>5 DEF FingerInv

LEMMA TouchKeepsFingers ==
  ASSUME FingerInv, NEW f \in Fingers,
         TouchUp(f) \/ \E s \in Surfaces : TouchDown(f, s)
  PROVE  FingerInv'
<1>1. CASE TouchUp(f)
  <2>1. /\ touch_points' = [touch_points EXCEPT ![f] = None]
        /\ fingers' = [c \in Clients |-> IF c \in ClientOf(touch_points[f]) \cap touches
                                         THEN fingers[c] \ {f} ELSE fingers[c]]
        /\ UNCHANGED <<surfaces, touches>>
    BY <1>1 DEF TouchUp, lifted_from
  <2>2. /\ touch_points' \in [Fingers -> surfaces' \cup {None}]
        /\ fingers' \in [Clients -> SUBSET Fingers]
    BY <2>1 DEF FingerInv
  <2>3. NoTouchNoFingers'
    BY <2>1 DEF FingerInv, NoTouchNoFingers
  <2>4. FingersAgree'
    BY <2>1 DEF FingerInv, FingersAgree, NoTouchNoFingers, ClientOf
  <2>5. QED BY <2>1, <2>2, <2>3, <2>4 DEF FingerInv
<1>2. ASSUME NEW s \in Surfaces, TouchDown(f, s)
      PROVE  FingerInv'
  <2>1. /\ touch_points' = [touch_points EXCEPT ![f] = s]
        /\ fingers' = [c \in Clients |-> IF c \in ClientOf(s) \cap touches
                                         THEN fingers[c] \cup {f} ELSE fingers[c]]
        /\ touch_points[f] = None /\ s \in surfaces /\ s # None
        /\ UNCHANGED <<surfaces, touches>>
    BY <1>2 DEF TouchDown, hit_test
  <2>2. /\ touch_points' \in [Fingers -> surfaces' \cup {None}]
        /\ fingers' \in [Clients -> SUBSET Fingers]
    BY <2>1 DEF FingerInv
  <2>3. NoTouchNoFingers'
    BY <2>1 DEF FingerInv, NoTouchNoFingers
  <2>4. FingersAgree'
    BY <2>1 DEF FingerInv, FingersAgree, ClientOf
  <2>5. QED BY <2>1, <2>2, <2>3, <2>4 DEF FingerInv
<1>3. QED BY <1>1, <1>2

\* Every client with a finger down has a finger on a surface of its own, and is
\* told.
LEMMA CancelKeepsFingers ==
  ASSUME FingerInv, TouchCancel
  PROVE  FingerInv'
<1> DEFINE told == (UNION {ClientOf(touch_points[f]) : f \in Fingers}) \cap touches
<1>1. /\ touch_points' = [f \in Fingers |-> None]
      /\ fingers' = [c \in Clients |-> IF c \in told THEN {} ELSE fingers[c]]
      /\ UNCHANGED <<surfaces, touches>>
  BY DEF TouchCancel
<1>2. ASSUME NEW c \in Clients PROVE fingers'[c] = {}
  <2>1. CASE c \in told
    BY <1>1, <2>1
  <2>2. CASE c \notin told
    <3>1. \A f \in fingers[c] : f \in Fingers /\ c \in ClientOf(touch_points[f])
      BY DEF FingerInv, FingersAgree
    <3>2. fingers[c] # {} => c \in UNION {ClientOf(touch_points[f]) : f \in Fingers}
      BY <3>1
    <3>3. fingers[c] # {} => c \in touches
      BY DEF FingerInv, NoTouchNoFingers
    <3>4. QED BY <1>1, <2>2, <3>2, <3>3
  <2>3. QED BY <2>1, <2>2
<1>3. /\ touch_points' \in [Fingers -> surfaces' \cup {None}]
      /\ fingers' \in [Clients -> SUBSET Fingers]
  <2>1. \A c \in Clients : fingers'[c] \subseteq Fingers
    BY <1>2
  <2>2. QED BY <1>1, <2>1
<1>4. QED BY <1>1, <1>2, <1>3 DEF FingerInv, NoTouchNoFingers, FingersAgree

LEMMA TouchesComeAndGo ==
  ASSUME FingerInv, NEW c \in Clients, GetTouch(c) \/ ReleaseTouch(c)
  PROVE  FingerInv'
<1>1. CASE GetTouch(c)
  BY <1>1 DEF GetTouch, FingerInv, NoTouchNoFingers, FingersAgree, ClientOf
<1>2. CASE ReleaseTouch(c)
  <2>1. /\ touches' = touches \ {c} /\ fingers' = [fingers EXCEPT ![c] = {}]
        /\ UNCHANGED <<surfaces, touch_points>>
    BY <1>2 DEF ReleaseTouch
  <2>2. fingers' \in [Clients -> SUBSET Fingers]
    BY <2>1 DEF FingerInv
  <2>3. NoTouchNoFingers'
    BY <2>1 DEF FingerInv, NoTouchNoFingers
  <2>4. FingersAgree'
    BY <2>1 DEF FingerInv, FingersAgree, ClientOf
  <2>5. QED BY <2>1, <2>2, <2>3, <2>4 DEF FingerInv
<1>3. QED BY <1>1, <1>2

LEMMA StepKeepsFingers ==
  ASSUME FingerInv, [Next]_vars
  PROVE  FingerInv'
<1>1. CASE UNCHANGED vars
  BY <1>1, FingersStay DEF vars, touch_vars, FingerInv
<1>2. ASSUME NEW s \in Surfaces, CreateSurface(s)
      PROVE  FingerInv'
  BY <1>2, FingersStay DEF CreateSurface, touch_vars, FingerInv
<1>3. ASSUME NEW s \in Surfaces, DestroySurface(s)
      PROVE  FingerInv'
  BY <1>3, ForgetKeepsFingers DEF DestroySurface
<1>4. ASSUME NEW c \in Clients, GetPointer(c) \/ ReleasePointer(c)
      PROVE  FingerInv'
  BY <1>4, FingersStay DEF GetPointer, ReleasePointer, touch_vars, FingerInv
<1>5. CASE PointerMoved \/ StartGrab \/ StartDrag \/ LetGo \/ Menu
  BY <1>5, FingersStay DEF PointerMoved, StartGrab, StartDrag, LetGo, Menu, touch_vars,
                           FingerInv
<1>6. ASSUME NEW b \in Buttons, Press(b) \/ Release(b)
      PROVE  FingerInv'
  BY <1>6, FingersStay DEF Press, Release, touch_vars, FingerInv
<1>7. QED
  BY <1>1, <1>2, <1>3, <1>4, <1>5, <1>6, GoneKeepsFingers, TouchKeepsFingers,
     CancelKeepsFingers, TouchesComeAndGo DEF Next

LEMMA InitFingers == Init => FingerInv
BY DEF Init, FingerInv, NoTouchNoFingers, FingersAgree

-----------------------------------------------------------------------------
(* The theorems.                                                           *)

\* A client's pointer is where the compositor has it, and no other client keeps
\* a hover, but for the two kinds of clients HoversAgree sets aside, which are
\* right again as soon as the pointer next leaves them (deliver_pointer_motion,
\* release_pointer_to_grab, destroy_surface).
THEOREM PointersAgree ==
  ASSUME PointerAssumption
  PROVE  Spec => []HoversAgree
<1>1. HoverInv /\ [Next]_vars => HoverInv'
  BY StepKeepsHovers
<1>2. HoverInv => HoversAgree
  BY DEF HoverInv
<1>3. QED BY <1>1, <1>2, InitHovers, PTL DEF Spec

\* Whatever becomes of surfaces, touch objects and clients under a finger, a
\* client believes a finger down only while the compositor has it on a surface of
\* that client (touch_up, touch_cancel, destroy_surface).
THEOREM TouchesAgree == Spec => []FingersAgree
<1>1. FingerInv /\ [Next]_vars => FingerInv'
  BY StepKeepsFingers
<1>2. FingerInv => FingersAgree
  BY DEF FingerInv
<1>3. QED BY <1>1, <1>2, InitFingers, PTL DEF Spec

-----------------------------------------------------------------------------
(* Type correctness.                                                       *)

\* What HoverInv and FingerInv do not say of the types.
PointerTypes ==
  /\ focused \in surfaces \cup {None}
  /\ pressed_buttons \subseteq Buttons /\ owned_by \in {"grab", "drag", None}
  /\ grabbed_popups \in BOOLEAN /\ late \subseteq pointers

LEMMA ForgetTypes ==
  ASSUME PointerTypes, NEW gone, forget_surfaces(gone),
         pressed_buttons' = pressed_buttons, grabbed_popups' \in {grabbed_popups, FALSE},
         late' \subseteq pointers', owned_by' \in {owned_by, None}
  PROVE  PointerTypes'
BY DEF PointerTypes, forget_surfaces

LEMMA PointerStepTypes ==
  ASSUME HoverInv, PointerTypes, [Next]_vars
  PROVE  PointerTypes'
<1>1. CASE UNCHANGED vars \/ LetGo \/ Menu \/ TouchCancel
  BY <1>1 DEF vars, ptr_vars, LetGo, Menu, TouchCancel, PointerTypes
<1>2. ASSUME NEW s \in Surfaces, CreateSurface(s)
      PROVE  PointerTypes'
  BY <1>2 DEF CreateSurface, ptr_vars, PointerTypes
<1>3. ASSUME NEW s \in Surfaces, DestroySurface(s)
      PROVE  PointerTypes'
  BY <1>3, ForgetTypes DEF DestroySurface, PointerTypes
<1>4. ASSUME NEW c \in Clients, ClientGone(c)
      PROVE  PointerTypes'
  <2>1. late' \subseteq pointers'
    BY <1>4 DEF ClientGone, PointerTypes
  <2>2. QED BY <1>4, <2>1, ForgetTypes DEF ClientGone
<1>5. ASSUME NEW c \in Clients,
             GetPointer(c) \/ ReleasePointer(c) \/ GetTouch(c) \/ ReleaseTouch(c)
      PROVE  PointerTypes'
  BY <1>5 DEF GetPointer, ReleasePointer, GetTouch, ReleaseTouch, ptr_vars, PointerTypes
<1>6. CASE PointerMoved
  BY <1>6 DEF PointerMoved, leave_and_enter, windows, PointerTypes
<1>7. CASE StartGrab \/ StartDrag
  BY <1>7 DEF StartGrab, StartDrag, taken_by, leave_and_enter, PointerTypes
<1>8. ASSUME NEW b \in Buttons, Press(b)
      PROVE  PointerTypes'
  <2>1. pressed_buttons' \subseteq Buttons /\ UNCHANGED <<surfaces, pointers>>
    BY <1>8 DEF Press, PointerTypes
  <2>2. focused' \in surfaces' \cup {None}
    BY <1>8, <2>1 DEF Press, ShellDecides, windows, PointerTypes
  <2>3. late' \subseteq pointers'
    BY <1>8 DEF Press, taken_by, leave_and_enter, enter_by_press, PointerTypes
  <2>4. owned_by' \in {"grab", "drag", None} /\ grabbed_popups' \in BOOLEAN
    BY <1>8 DEF Press, taken_by, PointerTypes
  <2>5. QED BY <2>1, <2>2, <2>3, <2>4 DEF PointerTypes
<1>9. ASSUME NEW b \in Buttons, Release(b)
      PROVE  PointerTypes'
  BY <1>9 DEF Release, ptr_vars, PointerTypes
<1>10. ASSUME NEW f \in Fingers, TouchUp(f) \/ \E s \in Surfaces : TouchDown(f, s)
       PROVE  PointerTypes'
  BY <1>10 DEF TouchUp, TouchDown, ShellDecides, windows, ptr_vars, PointerTypes
<1>11. QED
  BY <1>1, <1>2, <1>3, <1>4, <1>5, <1>6, <1>7, <1>8, <1>9, <1>10 DEF Next

\* The variables of PointerDelivery have their types.
LEMMA PointerTyped ==
  ASSUME PointerAssumption
  PROVE  Spec => []TypeOK
<1>1. Init => PointerTypes
  BY DEF Init, PointerTypes
<1>2. HoverInv /\ FingerInv /\ PointerTypes => TypeOK
  BY DEF HoverInv, FingerInv, PointerTypes, TypeOK
<1>3. HoverInv /\ PointerTypes /\ [Next]_vars => PointerTypes'
  BY PointerStepTypes
<1>4. HoverInv /\ [Next]_vars => HoverInv'
  BY StepKeepsHovers
<1>5. FingerInv /\ [Next]_vars => FingerInv'
  BY StepKeepsFingers
<1>6. QED BY <1>1, <1>2, <1>3, <1>4, <1>5, InitHovers, InitFingers, PTL DEF Spec

-----------------------------------------------------------------------------
(* The keyboard.                                                           *)

CONSTANTS Windows, WindowOwner, Keys, Modifiers, KeyCombos
VARIABLES keySurfaces, toplevels, keyFocused, keyboards, pressed_keys, consumed_keys, dragging,
          keyOn, held, known

K == INSTANCE KeyboardDelivery
  WITH Owner <- WindowOwner, surfaces <- keySurfaces, focused <- keyFocused, on <- keyOn

NoModifierConsumed == consumed_keys \cap Modifiers = {}

KeyboardInv ==
  /\ toplevels \subseteq keySurfaces /\ keySurfaces \subseteq Windows
  /\ keyFocused \in toplevels \cup {None}
  /\ consumed_keys \subseteq pressed_keys
  /\ keyOn \in [Clients -> Windows \cup {None}]
  /\ held \in [Clients -> SUBSET Keys]
  /\ pressed_keys \subseteq Keys
  /\ known \in [Clients -> SUBSET Modifiers]
  /\ NoModifierConsumed
  /\ K!TheFocusedClientKnows

-----------------------------------------------------------------------------
(* Focus.                                                                  *)

\* A change of focus, or none, by a handler or in a hook of the shell keeps
\* the invariant if the keys that were pressed meanwhile are consumed ones.
LEMMA FocusMoves ==
  ASSUME K!KeyboardAssumption, KeyboardInv,
         toplevels' \subseteq keySurfaces', keySurfaces' \subseteq Windows,
         UNCHANGED keyboards,
         pressed_keys' \subseteq Keys,
         consumed_keys' \subseteq pressed_keys',
         pressed_keys' \cap Modifiers = pressed_keys \cap Modifiers,
         pressed_keys' \ consumed_keys' \subseteq pressed_keys \ consumed_keys,
         consumed_keys' \cap Modifiers = {},
         toplevels \subseteq toplevels',
         \/ UNCHANGED <<keyFocused, keyOn, held, known>>
         \/ K!clear_focus
         \/ \E win \in toplevels' : K!switch_focus(win)
  PROVE  KeyboardInv'
<1>1. CASE UNCHANGED <<keyFocused, keyOn, held, known>>
  <2>1. K!TheFocusedClientKnows'
    BY <1>1 DEF KeyboardInv, K!TheFocusedClientKnows, K!FocusedClient, K!modifiers
  <2>2. QED BY <1>1, <2>1 DEF KeyboardInv, NoModifierConsumed
<1>2. CASE K!clear_focus
  <2>1. keyFocused' = None /\ known' = known
    BY <1>2 DEF K!clear_focus
  <2>2. K!TheFocusedClientKnows'
    BY <2>1 DEF K!TheFocusedClientKnows, K!FocusedClient
  <2>3. keyOn' \in [Clients -> Windows \cup {None}] /\ held' \in [Clients -> SUBSET Keys]
    BY <1>2 DEF K!clear_focus, KeyboardInv
  <2>4. QED BY <2>1, <2>2, <2>3 DEF KeyboardInv, NoModifierConsumed
<1>3. ASSUME NEW win \in toplevels', win # keyFocused, K!switch_focus(win)
      PROVE  KeyboardInv'
  <2>1. keyFocused' = win /\ K!leave_and_enter(WindowOwner[win], win)
    BY <1>3 DEF K!switch_focus
  <2>2. win \in Windows /\ win # None
    BY DEF K!KeyboardAssumption
  <2>3. /\ keyOn' \in [Clients -> Windows \cup {None}]
        /\ held' \in [Clients -> SUBSET Keys]
        /\ known' \in [Clients -> SUBSET Modifiers]
    BY <2>1, <2>2 DEF K!leave_and_enter, KeyboardInv
  <2>4. ASSUME NEW c \in keyboards', c = WindowOwner[win]
        PROVE  /\ keyOn'[c] = win /\ held'[c] = pressed_keys'
               /\ known'[c] = pressed_keys' \cap Modifiers
    BY <2>1, <2>2, <2>4 DEF K!leave_and_enter, K!KeyboardAssumption
  <2>5. K!TheFocusedClientKnows'
    BY <2>1, <2>4 DEF K!TheFocusedClientKnows, K!FocusedClient, K!modifiers
  <2>6. QED BY <2>1, <2>3, <2>5 DEF KeyboardInv, NoModifierConsumed
<1>4. ASSUME NEW win \in toplevels', win = keyFocused, K!switch_focus(win)
      PROVE  UNCHANGED <<keyFocused, keyOn, held, known>>
  BY <1>4 DEF K!switch_focus
<1>5. QED BY <1>1, <1>2, <1>3, <1>4

\* What the shell decides in a hook is one of those.
LEMMA ShellKeeps ==
  ASSUME K!KeyboardAssumption, KeyboardInv, K!ShellDecides,
         UNCHANGED <<keySurfaces, toplevels, keyboards>>,
         pressed_keys' \subseteq Keys,
         consumed_keys' \subseteq pressed_keys',
         pressed_keys' \cap Modifiers = pressed_keys \cap Modifiers,
         pressed_keys' \ consumed_keys' \subseteq pressed_keys \ consumed_keys,
         consumed_keys' \cap Modifiers = {}
  PROVE  KeyboardInv'
<1>1. /\ toplevels' \subseteq keySurfaces' /\ keySurfaces' \subseteq Windows
      /\ toplevels \subseteq toplevels' /\ UNCHANGED keyboards
  BY DEF KeyboardInv
<1>2. \/ UNCHANGED <<keyFocused, keyOn, held, known>>
      \/ K!clear_focus
      \/ \E win \in toplevels' : K!switch_focus(win)
  BY DEF K!ShellDecides
<1>3. QED BY <1>1, <1>2, FocusMoves

-----------------------------------------------------------------------------
(* Windows.                                                                *)

LEMMA GetToplevelKeeps ==
  ASSUME K!KeyboardAssumption, KeyboardInv, NEW win \in Windows, K!GetToplevel(win)
  PROVE  KeyboardInv'
<1>1. /\ toplevels' = toplevels \cup {win} /\ win \in keySurfaces
      /\ UNCHANGED <<keySurfaces, keyboards, pressed_keys, consumed_keys>>
      /\ K!switch_focus(win)
  BY DEF K!GetToplevel
<1>2. /\ toplevels' \subseteq keySurfaces' /\ keySurfaces' \subseteq Windows
      /\ toplevels \subseteq toplevels'
      /\ pressed_keys' \subseteq Keys /\ consumed_keys' \subseteq pressed_keys'
      /\ pressed_keys' \cap Modifiers = pressed_keys \cap Modifiers
      /\ pressed_keys' \ consumed_keys' \subseteq pressed_keys \ consumed_keys
      /\ consumed_keys' \cap Modifiers = {}
      /\ UNCHANGED keyboards
  BY <1>1 DEF KeyboardInv, NoModifierConsumed
<1>3. \E w \in toplevels' : K!switch_focus(w)
  BY <1>1
<1>4. QED BY <1>2, <1>3, FocusMoves

\* Where the focus goes nowhere, whoever had it is sent nothing any more.
LEMMA DestroyToplevelKeeps ==
  ASSUME K!KeyboardAssumption, KeyboardInv, NEW win \in Windows, K!DestroyToplevel(win)
  PROVE  KeyboardInv'
<1>1. K!TheFocusedClientKnows'
  BY DEF K!DestroyToplevel, KeyboardInv, K!TheFocusedClientKnows, K!FocusedClient, K!modifiers
<1>2. QED BY <1>1 DEF K!DestroyToplevel, KeyboardInv, NoModifierConsumed

LEMMA KeyboardSurfaceKeeps ==
  ASSUME K!KeyboardAssumption, KeyboardInv, NEW s \in Windows, K!DestroySurface(s)
  PROVE  KeyboardInv'
<1>1. /\ keyOn' \in [Clients -> Windows \cup {None}]
      /\ held' \in [Clients -> SUBSET Keys]
      /\ keyFocused' = (IF keyFocused = s THEN None ELSE keyFocused)
      /\ UNCHANGED <<keyboards, pressed_keys, consumed_keys, known>>
  BY DEF K!DestroySurface, KeyboardInv
<1>2. K!TheFocusedClientKnows'
  <2>1. SUFFICES ASSUME keyFocused # None, keyFocused # s, WindowOwner[keyFocused] \in keyboards
                 PROVE  /\ keyOn'[WindowOwner[keyFocused]] = keyFocused
                        /\ held'[WindowOwner[keyFocused]] = held[WindowOwner[keyFocused]]
                        /\ known[WindowOwner[keyFocused]] = K!modifiers
                        /\ pressed_keys \ consumed_keys \subseteq held[WindowOwner[keyFocused]]
    BY <1>1 DEF K!TheFocusedClientKnows, K!FocusedClient, K!modifiers
  <2>2. WindowOwner[keyFocused] \in Clients
    BY <2>1 DEF KeyboardInv, K!KeyboardAssumption
  <2>3. keyOn[WindowOwner[keyFocused]] = keyFocused
    BY <2>1 DEF KeyboardInv, K!TheFocusedClientKnows, K!FocusedClient
  <2>4. /\ known[WindowOwner[keyFocused]] = K!modifiers
        /\ pressed_keys \ consumed_keys \subseteq held[WindowOwner[keyFocused]]
    BY <2>1 DEF KeyboardInv, K!TheFocusedClientKnows, K!FocusedClient
  <2>5. QED BY <2>1, <2>2, <2>3, <2>4 DEF K!DestroySurface
<1>3. QED BY <1>1, <1>2 DEF K!DestroySurface, KeyboardInv, NoModifierConsumed

-----------------------------------------------------------------------------
(* Keyboards.                                                              *)

LEMMA GetKeyboardKeeps ==
  ASSUME K!KeyboardAssumption, KeyboardInv, NEW c \in Clients, K!GetKeyboard(c)
  PROVE  KeyboardInv'
<1>1. /\ keyboards' = keyboards \cup {c}
      /\ UNCHANGED <<keySurfaces, toplevels, keyFocused, pressed_keys, consumed_keys>>
  BY DEF K!GetKeyboard
<1>2. CASE c \in K!FocusedClient
  <2>1. /\ keyOn' = [keyOn EXCEPT ![c] = keyFocused]
        /\ held' = [held EXCEPT ![c] = pressed_keys]
        /\ known' = [known EXCEPT ![c] = K!modifiers]
    BY <1>2 DEF K!GetKeyboard, K!catch_up
  <2>2. /\ keyOn' \in [Clients -> Windows \cup {None}]
        /\ held' \in [Clients -> SUBSET Keys]
        /\ known' \in [Clients -> SUBSET Modifiers]
    BY <2>1 DEF KeyboardInv, K!modifiers
  <2>3. K!TheFocusedClientKnows'
    <3>1. keyOn'[c] = keyFocused /\ held'[c] = pressed_keys /\ known'[c] = K!modifiers
      BY <2>1 DEF KeyboardInv
    <3>2. K!FocusedClient = {c}
      BY <1>2 DEF K!FocusedClient
    <3>3. QED BY <1>1, <3>1, <3>2 DEF K!TheFocusedClientKnows, K!FocusedClient, K!modifiers
  <2>4. QED BY <1>1, <2>2, <2>3 DEF KeyboardInv, NoModifierConsumed
<1>3. CASE c \notin K!FocusedClient
  <2>1. UNCHANGED <<keyOn, held, known>>
    BY <1>3 DEF K!GetKeyboard, K!catch_up
  <2>2. K!TheFocusedClientKnows'
    BY <1>1, <1>3, <2>1 DEF KeyboardInv, K!TheFocusedClientKnows, K!FocusedClient, K!modifiers
  <2>3. QED BY <1>1, <2>1, <2>2 DEF KeyboardInv, NoModifierConsumed
<1>4. QED BY <1>2, <1>3

\* A client without a keyboard is sent no keys; the others believe what they did.
LEMMA ForgetKeeps ==
  ASSUME K!KeyboardAssumption, KeyboardInv, NEW c \in Clients, K!Forget(c),
         toplevels' \subseteq keySurfaces', keySurfaces' \subseteq Windows,
         keyFocused' \in toplevels' \cup {None},
         keyFocused' \in {keyFocused, None},
         UNCHANGED <<pressed_keys, consumed_keys>>
  PROVE  KeyboardInv'
<1>1. /\ keyboards' = keyboards \ {c}
      /\ keyOn' = [keyOn EXCEPT ![c] = None]
      /\ held' = [held EXCEPT ![c] = {}]
      /\ known' = [known EXCEPT ![c] = {}]
  BY DEF K!Forget
<1>2. /\ keyOn' \in [Clients -> Windows \cup {None}]
      /\ held' \in [Clients -> SUBSET Keys]
      /\ known' \in [Clients -> SUBSET Modifiers]
  BY <1>1 DEF KeyboardInv
<1>3. K!TheFocusedClientKnows'
  <2>1. SUFFICES ASSUME NEW d \in K!FocusedClient' \cap keyboards'
                 PROVE  /\ keyOn'[d] = keyFocused'
                        /\ known'[d] = K!modifiers'
                        /\ pressed_keys' \ consumed_keys' \subseteq held'[d]
    BY DEF K!TheFocusedClientKnows
  <2>2. d # c /\ d \in keyboards /\ d \in K!FocusedClient /\ keyFocused' = keyFocused
    BY <1>1, <2>1 DEF K!FocusedClient
  <2>3. d \in Clients
    BY <2>2 DEF K!FocusedClient, KeyboardInv, K!KeyboardAssumption
  <2>4. keyOn'[d] = keyOn[d] /\ held'[d] = held[d] /\ known'[d] = known[d]
    BY <1>1, <2>2, <2>3 DEF KeyboardInv
  <2>5. QED BY <2>2, <2>4 DEF KeyboardInv, K!TheFocusedClientKnows, K!modifiers
<1>4. QED BY <1>2, <1>3 DEF KeyboardInv, NoModifierConsumed

LEMMA ReleaseKeyboardKeeps ==
  ASSUME K!KeyboardAssumption, KeyboardInv, NEW c \in Clients, K!ReleaseKeyboard(c)
  PROVE  KeyboardInv'
<1>1. /\ K!Forget(c)
      /\ UNCHANGED <<keySurfaces, toplevels, keyFocused, pressed_keys, consumed_keys>>
  BY DEF K!ReleaseKeyboard
<1>2. /\ toplevels' \subseteq keySurfaces' /\ keySurfaces' \subseteq Windows
      /\ keyFocused' \in toplevels' \cup {None} /\ keyFocused' \in {keyFocused, None}
  BY <1>1 DEF KeyboardInv
<1>3. QED BY <1>1, <1>2, ForgetKeeps

LEMMA KeyboardClientGoneKeeps ==
  ASSUME K!KeyboardAssumption, KeyboardInv, NEW c \in Clients, K!ClientGone(c)
  PROVE  KeyboardInv'
<1>1. /\ K!Forget(c) /\ UNCHANGED <<pressed_keys, consumed_keys>>
      /\ keySurfaces' = {s \in keySurfaces : WindowOwner[s] # c}
      /\ toplevels' = {s \in toplevels : WindowOwner[s] # c}
      /\ keyFocused' = IF c \in K!FocusedClient THEN None ELSE keyFocused
  BY DEF K!ClientGone
<1>2. /\ toplevels' \subseteq keySurfaces' /\ keySurfaces' \subseteq Windows
      /\ keyFocused' \in toplevels' \cup {None} /\ keyFocused' \in {keyFocused, None}
  BY <1>1 DEF KeyboardInv, K!FocusedClient
<1>3. QED BY <1>1, <1>2, ForgetKeeps

-----------------------------------------------------------------------------
(* Keys.                                                                   *)

\* A consumed press moves no modifier, and the client need not hear of it.
LEMMA ConsumedPressKeeps ==
  ASSUME K!KeyboardAssumption, KeyboardInv, NEW key \in Keys, key \notin Modifiers,
         key \notin pressed_keys,
         pressed_keys' = pressed_keys \cup {key},
         consumed_keys' = consumed_keys \cup {key},
         K!ShellDecides,
         UNCHANGED <<keySurfaces, toplevels, keyboards>>
  PROVE  KeyboardInv'
<1>1. /\ pressed_keys' \subseteq Keys /\ consumed_keys' \subseteq pressed_keys'
      /\ pressed_keys' \cap Modifiers = pressed_keys \cap Modifiers
      /\ pressed_keys' \ consumed_keys' \subseteq pressed_keys \ consumed_keys
      /\ consumed_keys' \cap Modifiers = {}
  BY DEF KeyboardInv, NoModifierConsumed
<1>2. QED BY <1>1, ShellKeeps

\* A key that is delivered.
LEMMA DeliveredKeeps ==
  ASSUME K!KeyboardAssumption, KeyboardInv, NEW key \in Keys, NEW pressed \in BOOLEAN,
         K!deliver(key, pressed),
         key \notin consumed_keys,
         pressed_keys' = IF pressed THEN pressed_keys \cup {key} ELSE pressed_keys \ {key},
         UNCHANGED <<keySurfaces, toplevels, keyFocused, keyboards, consumed_keys, keyOn>>
  PROVE  KeyboardInv'
<1>1. /\ held' \in [Clients -> SUBSET Keys]
      /\ known' \in [Clients -> SUBSET Modifiers]
  BY DEF K!deliver, KeyboardInv
<1>2. K!TheFocusedClientKnows'
  <2>1. SUFFICES ASSUME NEW c \in K!FocusedClient \cap keyboards
                 PROVE  /\ keyOn[c] = keyFocused
                        /\ known'[c] = pressed_keys' \cap Modifiers
                        /\ pressed_keys' \ consumed_keys \subseteq held'[c]
    BY DEF K!TheFocusedClientKnows, K!FocusedClient, K!modifiers
  <2>2. c \in Clients
    BY <2>1 DEF K!FocusedClient, KeyboardInv, K!KeyboardAssumption
  <2>3. /\ keyOn[c] = keyFocused /\ known[c] = pressed_keys \cap Modifiers
        /\ pressed_keys \ consumed_keys \subseteq held[c]
    BY <2>1 DEF KeyboardInv, K!TheFocusedClientKnows, K!modifiers
  <2>4. /\ held'[c] = IF pressed THEN held[c] \cup {key} ELSE held[c] \ {key}
        /\ known'[c] = IF key \in Modifiers THEN pressed_keys' \cap Modifiers ELSE known[c]
    BY <2>1, <2>2 DEF K!deliver
  <2>5. QED BY <2>3, <2>4
<1>3. QED BY <1>1, <1>2 DEF KeyboardInv, NoModifierConsumed

LEMMA KeyDownKeeps ==
  ASSUME K!KeyboardAssumption, KeyboardInv, NEW key \in Keys, K!KeyDown(key)
  PROVE  KeyboardInv'
<1>1. /\ key \notin pressed_keys /\ pressed_keys' = pressed_keys \cup {key}
      /\ UNCHANGED <<keySurfaces, toplevels, keyboards>>
  BY DEF K!KeyDown
<1>2. CASE /\ key = "esc"
           /\ consumed_keys' = consumed_keys \cup {key}
           /\ UNCHANGED <<keyFocused, keyOn, held, known>>
  <2>1. K!ShellDecides
    BY <1>2 DEF K!ShellDecides
  <2>2. QED BY <1>1, <1>2, <2>1, ConsumedPressKeeps DEF K!KeyboardAssumption
<1>3. CASE /\ \E combo \in KeyCombos : K!matches(combo, key, pressed_keys')
           /\ consumed_keys' = consumed_keys \cup {key}
           /\ K!ShellDecides
  <2>1. key \notin Modifiers
    BY <1>3 DEF K!matches, K!KeyboardAssumption
  <2>2. QED BY <1>1, <1>3, <2>1, ConsumedPressKeeps
<1>4. CASE K!deliver(key, TRUE) /\ UNCHANGED <<keyFocused, keyOn, consumed_keys>>
  <2>1. key \notin consumed_keys
    BY <1>1 DEF KeyboardInv
  <2>2. QED BY <1>1, <1>4, <2>1, DeliveredKeeps
<1>5. QED BY <1>2, <1>3, <1>4 DEF K!KeyDown

LEMMA KeyUpKeeps ==
  ASSUME K!KeyboardAssumption, KeyboardInv, NEW key \in Keys, K!KeyUp(key)
  PROVE  KeyboardInv'
<1>1. /\ pressed_keys' = pressed_keys \ {key}
      /\ consumed_keys' = consumed_keys \ {key}
      /\ UNCHANGED <<keySurfaces, toplevels, keyFocused, keyboards, keyOn>>
  BY DEF K!KeyUp
<1>2. CASE key \in consumed_keys
  <2>1. UNCHANGED <<held, known>>
    BY <1>2 DEF K!KeyUp
  <2>2. /\ pressed_keys' \cap Modifiers = pressed_keys \cap Modifiers
        /\ pressed_keys' \ consumed_keys' = pressed_keys \ consumed_keys
        /\ consumed_keys' \subseteq pressed_keys' /\ pressed_keys' \subseteq Keys
        /\ consumed_keys' \cap Modifiers = {}
    BY <1>1, <1>2 DEF KeyboardInv, NoModifierConsumed
  <2>3. K!ShellDecides
    BY <1>1, <2>1 DEF K!ShellDecides
  <2>4. QED BY <1>1, <2>2, <2>3, ShellKeeps
<1>3. CASE key \notin consumed_keys
  <2>1. K!deliver(key, FALSE) /\ consumed_keys' = consumed_keys
    BY <1>1, <1>3 DEF K!KeyUp
  <2>2. QED BY <1>1, <1>3, <2>1, DeliveredKeeps
<1>4. QED BY <1>2, <1>3

-----------------------------------------------------------------------------
(* The theorem.                                                            *)

LEMMA InitKeyboard == K!Init => KeyboardInv
BY DEF K!Init, KeyboardInv, NoModifierConsumed, K!TheFocusedClientKnows, K!FocusedClient

LEMMA KeyboardStepKeeps ==
  ASSUME K!KeyboardAssumption, KeyboardInv, [K!Next]_(K!vars)
  PROVE  KeyboardInv'
<1>1. ASSUME NEW s \in Windows, K!CreateSurface(s)
      PROVE  KeyboardInv'
  <2>1. K!TheFocusedClientKnows'
    BY <1>1 DEF K!CreateSurface, KeyboardInv, K!TheFocusedClientKnows, K!FocusedClient,
                K!modifiers
  <2>2. QED BY <1>1, <2>1 DEF K!CreateSurface, KeyboardInv, NoModifierConsumed
<1>2. ASSUME UNCHANGED <<keySurfaces, toplevels, keyFocused, keyboards, pressed_keys,
                         consumed_keys, keyOn, held, known>>
      PROVE  KeyboardInv'
  <2>1. K!TheFocusedClientKnows'
    BY <1>2 DEF KeyboardInv, K!TheFocusedClientKnows, K!FocusedClient, K!modifiers
  <2>2. QED BY <1>2, <2>1 DEF KeyboardInv, NoModifierConsumed
<1>3. CASE UNCHANGED K!vars
  BY <1>2, <1>3 DEF K!vars
<1>4. CASE K!StartDrag
  BY <1>2, <1>4 DEF K!StartDrag
<1>5. CASE K!Refocus
  <2>1. /\ K!ShellDecides
        /\ UNCHANGED <<keySurfaces, toplevels, keyboards, pressed_keys, consumed_keys>>
    BY <1>5 DEF K!Refocus
  <2>2. QED BY <2>1, ShellKeeps DEF KeyboardInv, NoModifierConsumed
<1>6. ASSUME NEW s \in Windows,
             K!CreateSurface(s) \/ K!GetToplevel(s) \/ K!DestroyToplevel(s) \/ K!DestroySurface(s)
      PROVE  KeyboardInv'
  BY <1>1, <1>6, GetToplevelKeeps, DestroyToplevelKeeps, KeyboardSurfaceKeeps
<1>7. ASSUME NEW c \in Clients, K!GetKeyboard(c) \/ K!ReleaseKeyboard(c) \/ K!ClientGone(c)
      PROVE  KeyboardInv'
  BY <1>7, GetKeyboardKeeps, ReleaseKeyboardKeeps, KeyboardClientGoneKeeps
<1>8. ASSUME NEW key \in Keys, K!KeyDown(key) \/ K!KeyUp(key)
      PROVE  KeyboardInv'
  BY <1>8, KeyDownKeeps, KeyUpKeeps
<1>9. QED BY <1>3, <1>4, <1>5, <1>6, <1>7, <1>8 DEF K!Next

\* A client that is sent keys knows which of its surfaces they are for, which
\* modifiers apply and every key that is down for it, in whatever order focus,
\* keyboard objects, windows, bindings and keys come (switch_focus,
\* handle_get_keyboard, the KeyInput arm).
THEOREM KeyboardIsKnown ==
  ASSUME K!KeyboardAssumption
  PROVE  K!Spec => []K!TheFocusedClientKnows
<1>1. KeyboardInv /\ [K!Next]_(K!vars) => KeyboardInv'
  BY KeyboardStepKeeps
<1>2. KeyboardInv => K!TheFocusedClientKnows
  BY DEF KeyboardInv
<1>3. QED BY <1>1, <1>2, InitKeyboard, PTL DEF K!Spec

\* The variables of KeyboardDelivery have their types.
LEMMA KeyboardTyped ==
  ASSUME K!KeyboardAssumption
  PROVE  K!Spec => []K!TypeOK
<1> DEFINE Rest == keyboards \subseteq Clients /\ dragging \in BOOLEAN
<1>1. K!Init => Rest
  BY DEF K!Init
<1>2. Rest /\ [K!Next]_(K!vars) => Rest'
  <2>1. SUFFICES ASSUME Rest, [K!Next]_(K!vars) PROVE Rest'
    OBVIOUS
  <2>2. keyboards' \subseteq Clients
    BY <2>1 DEF K!Next, K!vars, K!CreateSurface, K!GetToplevel, K!DestroyToplevel,
                K!DestroySurface, K!GetKeyboard, K!ReleaseKeyboard, K!ClientGone, K!Forget,
                K!KeyDown, K!KeyUp, K!Refocus, K!StartDrag
  <2>3. dragging' \in BOOLEAN
    BY <2>1 DEF K!Next, K!vars, K!CreateSurface, K!GetToplevel, K!DestroyToplevel,
                K!DestroySurface, K!GetKeyboard, K!ReleaseKeyboard, K!ClientGone,
                K!KeyDown, K!KeyUp, K!Refocus, K!StartDrag
  <2>4. QED BY <2>2, <2>3
<1>3. KeyboardInv /\ Rest => K!TypeOK
  BY DEF KeyboardInv, K!TypeOK
<1>4. KeyboardInv /\ [K!Next]_(K!vars) => KeyboardInv'
  BY KeyboardStepKeeps
<1>5. QED BY <1>1, <1>2, <1>3, <1>4, InitKeyboard, PTL DEF K!Spec

-----------------------------------------------------------------------------
(* Selections and drags (module DataTransfer), for any clients, sources,   *)
(* devices and actions.                                                    *)

CONSTANTS OldClients, DataSources, PrimarySources, ControlSources, DataDevices, PrimaryDevices,
          ControlDevices, OldManagers, OwnerOf, Actions, MaxOffers, NoClient, NoSource, Never
VARIABLES clients, mapped, devices, sources, offers, selection, drag, focus, buttonHeld, told,
          entered, agreed, dropped

T == INSTANCE DataTransfer WITH held <- buttonHeld

TransferAssumption ==
  /\ T!OwnersAssumption /\ T!NamesAssumption /\ T!KindsAssumption
  /\ T!ActionsAssumption /\ T!BoundAssumption

-----------------------------------------------------------------------------
(* Giving offers.                                                          *)

LEMMA LeastNumber ==
  ASSUME NEW S \in SUBSET Nat, S # {}
  PROVE  \E n \in S : \A m \in S : n <= m
<1>1. IsWellFoundedOn(OpToRel(<, Nat), Nat)
  BY NatLessThanWellFounded
<1>2. \E n \in S : \A m \in S : ~ (<<m, n>> \in OpToRel(<, Nat))
  BY <1>1, WFMin, Zenon
<1>3. ASSUME NEW n \in Nat, NEW m \in Nat, m < n
      PROVE  <<m, n>> \in OpToRel(<, Nat)
  <2>1. <<m, n>> \in Nat \X Nat
    OBVIOUS
  <2>2. <<m, n>>[1] < <<m, n>>[2]
    BY <1>3
  <2>3. QED BY <2>1, <2>2, Zenon DEF OpToRel
<1>4. \E n \in S : \A m \in S : ~ (m < n)
  BY <1>2, <1>3, Zenon
<1>5. QED BY <1>4

\* The names a device can still give to offers.
Free(offs, d) == {n \in 1 .. MaxOffers : offs[<<d, n>>].kind = "absent"}

RoomFor(offs, k) == \A d \in T!Devices : Cardinality(Free(offs, d)) >= k

LEMMA SlotIsFree ==
  ASSUME MaxOffers \in Nat, NEW offs, NEW d, Free(offs, d) # {}
  PROVE  T!Slot(offs, d) \in Free(offs, d)
<1>1. PICK n \in Free(offs, d) : \A m \in Free(offs, d) : n <= m
  <2>1. Free(offs, d) \in SUBSET Nat
    BY DEF Free
  <2>2. QED BY <2>1, LeastNumber
<1>2. /\ n \in 1 .. MaxOffers /\ offs[<<d, n>>].kind = "absent"
      /\ \A m \in 1 .. n - 1 : offs[<<d, m>>].kind # "absent"
  <2>1. n \in 1 .. MaxOffers /\ offs[<<d, n>>].kind = "absent"
    BY DEF Free
  <2>2. \A m \in 1 .. n - 1 : m \in 1 .. MaxOffers /\ ~(n <= m)
    BY <2>1
  <2>3. QED BY <1>1, <2>1, <2>2 DEF Free
<1>3. \E m \in 1 .. MaxOffers : /\ offs[<<d, m>>].kind = "absent"
                                /\ \A k \in 1 .. m - 1 : offs[<<d, k>>].kind # "absent"
  BY <1>2
<1>4. QED BY <1>3, Zenon DEF T!Slot, Free

LEMMA FreeIsFinite ==
  ASSUME MaxOffers \in Nat, NEW offs, NEW d
  PROVE  IsFiniteSet(Free(offs, d)) /\ Cardinality(Free(offs, d)) \in Nat
<1>1. IsFiniteSet(1 .. MaxOffers)
  BY FS_Interval
<1>2. Free(offs, d) \in SUBSET (1 .. MaxOffers)
  BY DEF Free
<1>3. QED BY <1>1, <1>2, FS_Subset, FS_CardinalityType

LEMMA RoomIsFree ==
  ASSUME MaxOffers \in Nat, NEW offs, NEW k \in Nat, k > 0, RoomFor(offs, k)
  PROVE  \A d \in T!Devices : Free(offs, d) # {}
<1>1. Cardinality({}) = 0
  BY FS_EmptySet
<1>2. QED BY <1>1 DEF RoomFor

LEMMA RoomIsRoom ==
  ASSUME NEW k \in Nat, T!Room(k)
  PROVE  RoomFor(offers, k)
BY DEF T!Room, RoomFor, Free, T!Cardinality, Cardinality

\* Offers that were there are still there, what is new is one of `kind' from one
\* of these sources, of these devices.
Adds(offs, new, kind, ss, ds) ==
  /\ new \in [T!Offers -> T!Offer]
  /\ \A o \in T!Offers :
       \/ new[o] = offs[o]
       \/ /\ offs[o].kind = "absent" /\ o[1] \in ds
          /\ \E s \in ss \ {NoSource} : new[o] = T!NewOffer(kind, s)

LEMMA NewOfferIs ==
  ASSUME TransferAssumption, NEW kind \in {"absent", "selection", "drag", "dropped"},
         NEW s \in T!Sources \cup {NoSource}
  PROVE  /\ T!NewOffer(kind, s) \in T!Offer
         /\ T!NewOffer(kind, s).kind = kind /\ T!NewOffer(kind, s).source = s
         /\ T!NewOffer(kind, s).resolved = T!NoAction
BY DEF T!NewOffer, T!Offer, T!NoAction

LEMMA GivenIs ==
  ASSUME TransferAssumption, NEW offs \in [T!Offers -> T!Offer], NEW ds,
         NEW kind \in {"selection", "drag"}, NEW s \in T!Sources \cup {NoSource},
         \A d \in T!Devices \cap ds : Free(offs, d) # {}
  PROVE  Adds(offs, T!Given(offs, ds, kind, s), kind, {s}, ds)
<1> DEFINE new == T!Given(offs, ds, kind, s)
<1>1. new = [o \in T!Offers |-> IF s # NoSource /\ o[1] \in ds /\ o[2] = T!Slot(offs, o[1])
                                THEN T!NewOffer(kind, s) ELSE offs[o]]
  BY DEF T!Given
<1> HIDE DEF new
<1>2. T!NewOffer(kind, s) \in T!Offer
  BY NewOfferIs
<1>3. new \in [T!Offers -> T!Offer]
  BY <1>1, <1>2
<1>4. ASSUME NEW o \in T!Offers, s # NoSource, o[1] \in ds, o[2] = T!Slot(offs, o[1])
      PROVE  offs[o].kind = "absent"
  <2>1. o[1] \in T!Devices /\ o = <<o[1], o[2]>>
    BY DEF T!Offers
  <2>2. o[2] \in Free(offs, o[1])
    BY <1>4, <2>1, SlotIsFree DEF TransferAssumption, T!BoundAssumption
  <2>3. QED BY <2>1, <2>2 DEF Free
<1>5. QED BY <1>1, <1>3, <1>4 DEF Adds, new

\* A device that is given an offer can be given one less.
LEMMA GivenRoom ==
  ASSUME TransferAssumption, NEW offs \in [T!Offers -> T!Offer], NEW ds,
         NEW kind \in {"selection", "drag"}, NEW s \in T!Sources \cup {NoSource},
         NEW d \in T!Devices, NEW k \in Nat, Cardinality(Free(offs, d)) >= k
  PROVE  /\ d \notin ds => Free(T!Given(offs, ds, kind, s), d) = Free(offs, d)
         /\ k > 0 => Cardinality(Free(T!Given(offs, ds, kind, s), d)) >= k - 1
<1> DEFINE new == T!Given(offs, ds, kind, s)
           n == T!Slot(offs, d)
<1>1. new = [o \in T!Offers |-> IF s # NoSource /\ o[1] \in ds /\ o[2] = T!Slot(offs, o[1])
                                THEN T!NewOffer(kind, s) ELSE offs[o]]
  BY DEF T!Given
<1>2. ASSUME NEW m \in 1 .. MaxOffers
      PROVE  new[<<d, m>>] = IF s # NoSource /\ d \in ds /\ m = n
                             THEN T!NewOffer(kind, s) ELSE offs[<<d, m>>]
  <2>1. <<d, m>> \in T!Offers /\ <<d, m>>[1] = d /\ <<d, m>>[2] = m
    BY DEF T!Offers
  <2>2. QED BY <1>1, <2>1
<1> HIDE DEF new, n
<1>3. d \notin ds => Free(new, d) = Free(offs, d)
  BY <1>2 DEF Free
<1>4. Free(offs, d) \ {n} \subseteq Free(new, d)
  BY <1>2 DEF Free
<1>5. ASSUME k > 0
      PROVE  Cardinality(Free(new, d)) >= k - 1
  <2>1. MaxOffers \in Nat
    BY DEF TransferAssumption, T!BoundAssumption
  <2>2. /\ IsFiniteSet(Free(offs, d)) /\ Cardinality(Free(offs, d)) \in Nat
        /\ IsFiniteSet(Free(new, d)) /\ Cardinality(Free(new, d)) \in Nat
    BY <2>1, FreeIsFinite
  <2>3. Cardinality(Free(offs, d) \ {n}) >= Cardinality(Free(offs, d)) - 1
    <3>1. Cardinality(Free(offs, d) \ {n}) =
            IF n \in Free(offs, d) THEN Cardinality(Free(offs, d)) - 1
                                  ELSE Cardinality(Free(offs, d))
      BY <2>2, FS_RemoveElement
    <3>2. QED BY ONLY <2>2, <3>1
  <2>4. Cardinality(Free(offs, d) \ {n}) <= Cardinality(Free(new, d))
    BY <1>4, <2>2, FS_Subset
  <2>5. Cardinality(Free(offs, d) \ {n}) \in Nat
    BY <1>4, <2>2, FS_Subset, FS_CardinalityType
  <2>6. QED BY <1>5, <2>2, <2>3, <2>4, <2>5
<1>6. QED BY <1>3, <1>5 DEF new

LEMMA AddsAndAdds ==
  ASSUME TransferAssumption, NEW a, NEW b, NEW c, NEW kind \in {"selection", "drag"},
         NEW ss \in SUBSET (T!Sources \cup {NoSource}),
         NEW tt \in SUBSET (T!Sources \cup {NoSource}),
         NEW ds, NEW es, Adds(a, b, kind, ss, ds), Adds(b, c, kind, tt, es)
  PROVE  Adds(a, c, kind, ss \cup tt, ds \cup es)
<1>1. ASSUME NEW o \in T!Offers
      PROVE  \/ c[o] = a[o]
             \/ /\ a[o].kind = "absent" /\ o[1] \in ds \cup es
                /\ \E s \in (ss \cup tt) \ {NoSource} : c[o] = T!NewOffer(kind, s)
  <2>1. CASE b[o] = a[o]
    BY <2>1 DEF Adds
  <2>2. CASE b[o] # a[o]
    <3>1. PICK s \in ss \ {NoSource} :
            b[o] = T!NewOffer(kind, s) /\ a[o].kind = "absent" /\ o[1] \in ds
      BY <2>2 DEF Adds
    <3>2. b[o].kind # "absent"
      BY <3>1, NewOfferIs
    <3>3. c[o] = b[o]
      BY <3>2 DEF Adds
    <3>4. QED BY <3>1, <3>3
  <2>3. QED BY <2>1, <2>2
<1>2. QED BY <1>1 DEF Adds

LEMMA HandedOutIs ==
  ASSUME TransferAssumption, NEW offs \in [T!Offers -> T!Offer],
         NEW now \in [T!Selections -> T!Sources \cup {NoSource}], NEW ds, NEW es,
         NEW k \in Nat, RoomFor(offs, k), k > 1 \/ (k > 0 /\ ds \cap es = {})
  PROVE  /\ Adds(offs, T!HandedOut(offs, now, ds, es), "selection",
                 {now["clipboard"], now["primary"]}, ds \cup es)
         /\ ds \cap es = {} => RoomFor(T!HandedOut(offs, now, ds, es), k - 1)
<1> DEFINE one == T!Given(offs, ds, "selection", now["clipboard"])
           both == T!Given(one, es, "selection", now["primary"])
<1>1. /\ now["clipboard"] \in T!Sources \cup {NoSource}
      /\ now["primary"] \in T!Sources \cup {NoSource}
  BY DEF T!Selections
<1>2. T!HandedOut(offs, now, ds, es) = both
  BY DEF T!HandedOut
<1>3. MaxOffers \in Nat
  BY DEF TransferAssumption, T!BoundAssumption
<1>4. \A d \in T!Devices : Cardinality(Free(offs, d)) >= k
  BY DEF RoomFor
<1>5. Adds(offs, one, "selection", {now["clipboard"]}, ds)
  <2>1. \A d \in T!Devices \cap ds : Free(offs, d) # {}
    BY <1>3, RoomIsFree
  <2>2. QED BY <1>1, <2>1, GivenIs
<1>6. one \in [T!Offers -> T!Offer]
  BY <1>5 DEF Adds
<1>7. ASSUME NEW d \in T!Devices
      PROVE  /\ d \notin ds => Free(one, d) = Free(offs, d)
             /\ Cardinality(Free(one, d)) >= k - 1
  <2>1. Cardinality(Free(offs, d)) >= k /\ k > 0
    BY <1>4
  <2>2. "selection" \in {"selection", "drag"}
    OBVIOUS
  <2> HIDE DEF one
  <2>3. /\ d \notin ds => Free(T!Given(offs, ds, "selection", now["clipboard"]), d) = Free(offs, d)
        /\ k > 0 =>
             Cardinality(Free(T!Given(offs, ds, "selection", now["clipboard"]), d)) >= k - 1
    BY <1>1, <2>1, <2>2, GivenRoom, Zenon
  <2>4. QED BY <2>1, <2>3 DEF one
<1> HIDE DEF one
<1>8. \A d \in T!Devices \cap es : Free(one, d) # {}
  <2>1. SUFFICES ASSUME NEW d \in T!Devices \cap es PROVE Cardinality(Free(one, d)) > 0
    BY FS_EmptySet
  <2> d \in T!Devices /\ Cardinality(Free(one, d)) \in Nat
    BY <1>3, FreeIsFinite
  <2>2. CASE d \in ds
    <3>1. k > 1 /\ Cardinality(Free(one, d)) >= k - 1
      BY <1>7, <2>2
    <3>2. QED BY <3>1
  <2>3. CASE d \notin ds
    <3>1. Cardinality(Free(one, d)) >= k /\ k > 0
      BY <1>4, <1>7, <2>3
    <3>2. QED BY <3>1
  <2>4. QED BY <2>2, <2>3
<1>9. Adds(one, both, "selection", {now["primary"]}, es)
  BY <1>1, <1>6, <1>8, GivenIs
<1> HIDE DEF both
<1>10. Adds(offs, both, "selection", {now["clipboard"]} \cup {now["primary"]}, ds \cup es)
  BY <1>1, <1>5, <1>9, AddsAndAdds
<1>11. {now["clipboard"]} \cup {now["primary"]} = {now["clipboard"], now["primary"]}
  OBVIOUS
<1>12. ASSUME ds \cap es = {}, NEW d \in T!Devices
       PROVE  Cardinality(Free(both, d)) >= k - 1
  <2>1. CASE d \in es
    <3>1. Cardinality(Free(one, d)) >= k
      BY <1>4, <1>7, <1>12, <2>1
    <3>2. k > 0
      OBVIOUS
    <3>3. QED BY <1>1, <1>6, <3>1, <3>2, GivenRoom DEF both
  <2>2. CASE d \notin es
    <3>1. k - 1 \in Nat /\ Cardinality(Free(one, d)) >= k - 1
      BY <1>7
    <3>2. Free(both, d) = Free(one, d)
      <4>1. "selection" \in {"selection", "drag"}
        OBVIOUS
      <4>2. PICK j \in Nat : Cardinality(Free(one, d)) >= j
        BY <3>1
      <4>3. /\ d \notin es =>
                  Free(T!Given(one, es, "selection", now["primary"]), d) = Free(one, d)
            /\ j > 0 =>
                 Cardinality(Free(T!Given(one, es, "selection", now["primary"]), d)) >= j - 1
        BY <1>1, <1>6, <4>1, <4>2, GivenRoom, Zenon
      <4>4. QED BY <2>2, <4>3 DEF both
    <3>3. QED BY <3>1, <3>2
  <2>3. QED BY <2>1, <2>2
<1>13. ds \cap es = {} => RoomFor(both, k - 1)
  BY <1>12 DEF RoomFor
<1>14. QED BY <1>2, <1>10, <1>11, <1>13

-----------------------------------------------------------------------------
(* What the operators of module DataTransfer return.                       *)

LEMMA CutIs ==
  ASSUME TransferAssumption, NEW offs \in [T!Offers -> T!Offer], NEW these
  PROVE  /\ T!Cut(offs, these) \in [T!Offers -> T!Offer]
         /\ \A o \in T!Offers : T!Cut(offs, these)[o] = IF o \in these THEN T!NoOffer ELSE offs[o]
         /\ T!NoOffer.kind = "absent"
<1>1. T!NoOffer \in T!Offer /\ T!NoOffer.kind = "absent"
  BY NewOfferIs DEF T!NoOffer
<1>2. T!Cut(offs, these) = [o \in T!Offers |-> IF o \in these THEN T!NoOffer ELSE offs[o]]
  BY DEF T!Cut
<1>3. QED BY <1>1, <1>2

LEMMA CutMakesRoom ==
  ASSUME TransferAssumption, NEW offs \in [T!Offers -> T!Offer], NEW these,
         NEW k \in Nat, RoomFor(offs, k)
  PROVE  RoomFor(T!Cut(offs, these), k)
<1>1. SUFFICES ASSUME NEW d \in T!Devices
               PROVE  Cardinality(Free(T!Cut(offs, these), d)) >= k
  BY DEF RoomFor
<1>2. MaxOffers \in Nat
  BY DEF TransferAssumption, T!BoundAssumption
<1>3. Free(offs, d) \subseteq Free(T!Cut(offs, these), d)
  <2>1. ASSUME NEW n \in Free(offs, d)
        PROVE  n \in Free(T!Cut(offs, these), d)
    <3>1. n \in 1 .. MaxOffers /\ offs[<<d, n>>].kind = "absent" /\ <<d, n>> \in T!Offers
      BY DEF Free, T!Offers
    <3>2. T!Cut(offs, these)[<<d, n>>].kind = "absent"
      BY <3>1, CutIs
    <3>3. QED BY <3>1, <3>2 DEF Free
  <2>2. QED BY <2>1
<1>4. /\ Cardinality(Free(offs, d)) \in Nat
      /\ IsFiniteSet(Free(T!Cut(offs, these), d))
      /\ Cardinality(Free(T!Cut(offs, these), d)) \in Nat
  BY <1>2, FreeIsFinite
<1>5. Cardinality(Free(offs, d)) <= Cardinality(Free(T!Cut(offs, these), d))
  BY <1>3, <1>4, FS_Subset
<1>6. Cardinality(Free(offs, d)) >= k
  BY DEF RoomFor
<1>7. QED BY <1>4, <1>5, <1>6

LEMMA SettledIsAnAction ==
  ASSUME TransferAssumption, NEW mask, NEW s, NEW offer \in T!Offer, NEW c
  PROVE  T!Settled(mask, s, offer, c) \in Actions \cup {T!NoAction}
<1> DEFINE allowed == IF T!Version(OwnerOf[s]) >= 3 THEN mask ELSE {T!Copy}
           wanted == IF T!Version(c) >= 3 THEN offer.actions ELSE {T!Copy}
           preferred == IF T!Version(c) >= 3 THEN offer.preferred ELSE T!Copy
           both == allowed \cap wanted
<1>1. wanted \subseteq Actions
  BY DEF TransferAssumption, T!ActionsAssumption, T!Offer
<1>2. both \subseteq Actions
  BY <1>1
<1>3. T!Settled(mask, s, offer, c) =
        CASE both = {} -> T!NoAction
          [] preferred \in both -> preferred
          [] OTHER -> CHOOSE a \in both : \A b \in both : a <= b
  BY DEF T!Settled
<1> HIDE DEF both, preferred
<1>4. CASE both = {}
  BY <1>3, <1>4
<1>5. CASE both # {}
  <2>1. both \in SUBSET Nat
    BY <1>2 DEF TransferAssumption, T!ActionsAssumption
  <2>2. \E a \in both : \A b \in both : a <= b
    BY <1>5, <2>1, LeastNumber
  <2>3. (CHOOSE a \in both : \A b \in both : a <= b) \in both
    BY <2>2
  <2>4. QED BY <1>2, <1>3, <1>5, <2>3
<1>6. QED BY <1>4, <1>5

\* An offer but for the action it has settled on.
Unsettled(offer) == [offer EXCEPT !.resolved = T!NoAction]

LEMMA ResolvedIs ==
  ASSUME TransferAssumption, NEW offs \in [T!Offers -> T!Offer], NEW srcs, NEW these
  PROVE  /\ T!Resolved(offs, srcs, these) \in [T!Offers -> T!Offer]
         /\ \A o \in T!Offers :
              /\ Unsettled(T!Resolved(offs, srcs, these)[o]) = Unsettled(offs[o])
              /\ T!Resolved(offs, srcs, these)[o].resolved =
                   IF o \in these /\ T!OfDrag(offs[o])
                   THEN T!Settled(srcs[offs[o].source].actions, offs[o].source, offs[o],
                                  OwnerOf[o[1]])
                   ELSE offs[o].resolved
<1> DEFINE new == T!Resolved(offs, srcs, these)
           act(o) == T!Settled(srcs[offs[o].source].actions, offs[o].source, offs[o],
                               OwnerOf[o[1]])
<1>1. new = [o \in T!Offers |-> IF o \in these /\ T!OfDrag(offs[o])
                                THEN [offs[o] EXCEPT !.resolved = act(o)] ELSE offs[o]]
  BY DEF T!Resolved
<1>2. \A o \in T!Offers : act(o) \in Actions \cup {T!NoAction}
  BY SettledIsAnAction
<1> HIDE DEF new, act
<1>3. ASSUME NEW o \in T!Offers
      PROVE  /\ new[o] \in T!Offer /\ Unsettled(new[o]) = Unsettled(offs[o])
             /\ new[o].resolved = IF o \in these /\ T!OfDrag(offs[o]) THEN act(o)
                                                                   ELSE offs[o].resolved
  <2>1. CASE o \in these /\ T!OfDrag(offs[o])
    <3>1. new[o] = [offs[o] EXCEPT !.resolved = act(o)]
      BY <1>1, <2>1
    <3>2. QED BY <1>2, <2>1, <3>1 DEF T!Offer, Unsettled
  <2>2. CASE ~(o \in these /\ T!OfDrag(offs[o]))
    <3>1. new[o] = offs[o]
      BY <1>1, <2>2
    <3>2. QED BY <2>2, <3>1
  <2>3. QED BY <2>1, <2>2
<1>4. new \in [T!Offers -> T!Offer]
  BY <1>1, <1>3
<1>5. QED BY <1>3, <1>4 DEF new, act

LEMMA UnsettledSame ==
  ASSUME NEW a \in T!Offer, NEW b \in T!Offer, Unsettled(a) = Unsettled(b)
  PROVE  /\ a.kind = b.kind /\ a.source = b.source /\ a.accepted = b.accepted
         /\ a.actions = b.actions /\ a.preferred = b.preferred
<1>1. /\ Unsettled(a).kind = a.kind /\ Unsettled(a).source = a.source
      /\ Unsettled(a).accepted = a.accepted /\ Unsettled(a).actions = a.actions
      /\ Unsettled(a).preferred = a.preferred
  BY DEF Unsettled, T!Offer
<1>2. /\ Unsettled(b).kind = b.kind /\ Unsettled(b).source = b.source
      /\ Unsettled(b).accepted = b.accepted /\ Unsettled(b).actions = b.actions
      /\ Unsettled(b).preferred = b.preferred
  BY DEF Unsettled, T!Offer
<1>3. QED BY <1>1, <1>2

LEMMA SameOffer ==
  ASSUME NEW a \in T!Offer, NEW b \in T!Offer, Unsettled(a) = Unsettled(b),
         a.resolved = b.resolved
  PROVE  a = b
BY UnsettledSame DEF T!Offer

LEMMA SettledOnNothing ==
  ASSUME NEW a \in T!Offer, a.resolved = T!NoAction
  PROVE  Unsettled(a) = a
BY DEF T!Offer, Unsettled

LEMMA CancelledIs ==
  ASSUME NEW srcs \in [T!Sources -> T!Source], NEW ss
  PROVE  /\ T!Cancelled(srcs, ss) \in [T!Sources -> T!Source]
         /\ \A s \in T!Sources :
              /\ T!Cancelled(srcs, ss)[s].role = srcs[s].role
              /\ T!Cancelled(srcs, ss)[s].actions = srcs[s].actions
              /\ T!Cancelled(srcs, ss)[s].cancelled = (s \in ss \/ srcs[s].cancelled)
<1> DEFINE new == T!Cancelled(srcs, ss)
<1>1. new = [s \in T!Sources |-> IF s \in ss THEN [srcs[s] EXCEPT !.cancelled = TRUE] ELSE srcs[s]]
  BY DEF T!Cancelled
<1> HIDE DEF new
<1>2. ASSUME NEW s \in T!Sources
      PROVE  /\ new[s] \in T!Source /\ new[s].role = srcs[s].role
             /\ new[s].actions = srcs[s].actions
             /\ new[s].cancelled = (s \in ss \/ srcs[s].cancelled)
  <2>1. CASE s \in ss
    BY <1>1, <2>1 DEF T!Source
  <2>2. CASE s \notin ss
    BY <1>1, <2>2 DEF T!Source
  <2>3. QED BY <2>1, <2>2
<1>3. new \in [T!Sources -> T!Source]
  BY <1>1, <1>2
<1>4. QED BY <1>2, <1>3 DEF new

LEMMA ClaimedIs ==
  ASSUME sources \in [T!Sources -> T!Source], NEW s
  PROVE  /\ T!Claimed(s) \in [T!Sources -> T!Source]
         /\ \A r \in T!Sources :
              /\ T!Claimed(s)[r].role = IF r = s /\ r \notin PrimarySources THEN "selection"
                                                                       ELSE sources[r].role
              /\ T!Claimed(s)[r].cancelled = sources[r].cancelled
              /\ T!Claimed(s)[r].actions = sources[r].actions
<1> DEFINE new == T!Claimed(s)
<1>1. new = [r \in T!Sources |-> IF r = s /\ r \notin PrimarySources
                                 THEN [sources[r] EXCEPT !.role = "selection"] ELSE sources[r]]
  BY DEF T!Claimed
<1> HIDE DEF new
<1>2. ASSUME NEW r \in T!Sources
      PROVE  /\ new[r] \in T!Source
             /\ new[r].role = IF r = s /\ r \notin PrimarySources THEN "selection"
                                                                  ELSE sources[r].role
             /\ new[r].cancelled = sources[r].cancelled
             /\ new[r].actions = sources[r].actions
  <2>1. CASE r = s /\ r \notin PrimarySources
    BY <1>1, <2>1 DEF T!Source
  <2>2. CASE ~(r = s /\ r \notin PrimarySources)
    BY <1>1, <2>2 DEF T!Source
  <2>3. QED BY <2>1, <2>2
<1>3. new \in [T!Sources -> T!Source]
  BY <1>1, <1>2
<1>4. QED BY <1>2, <1>3 DEF new

\* What devices can have heard of.
Heardof == T!Sources \cup {NoSource, Never}
Hearsay == [T!Devices -> [T!Selections -> Heardof]]

LEMMA HearsIs ==
  ASSUME NEW t \in Hearsay, NEW ds,
         NEW sel \in T!Selections, NEW s \in T!Sources \cup {NoSource}
  PROVE  /\ T!Hears(t, ds, sel, s) \in Hearsay
         /\ \A d \in T!Devices, other \in T!Selections :
              T!Hears(t, ds, sel, s)[d][other] = IF d \in ds /\ other = sel THEN s ELSE t[d][other]
<1> DEFINE new == T!Hears(t, ds, sel, s)
<1>1. new = [d \in T!Devices |-> IF d \in ds THEN [t[d] EXCEPT ![sel] = s] ELSE t[d]]
  BY DEF T!Hears
<1> HIDE DEF new
<1>2. s \in Heardof
  BY DEF Heardof
<1>3. ASSUME NEW d \in T!Devices
      PROVE  /\ new[d] \in [T!Selections -> Heardof]
             /\ \A other \in T!Selections :
                  new[d][other] = IF d \in ds /\ other = sel THEN s ELSE t[d][other]
  BY <1>1, <1>2 DEF Hearsay
<1>4. QED BY <1>1, <1>3 DEF new, Hearsay

LEMMA ToldBothIs ==
  ASSUME NEW t \in Hearsay, NEW ds, NEW es,
         NEW now \in [T!Selections -> T!Sources \cup {NoSource}]
  PROVE  /\ T!ToldBoth(t, now, ds, es) \in Hearsay
         /\ \A d \in T!Devices, sel \in T!Selections :
              T!ToldBoth(t, now, ds, es)[d][sel] =
                IF \/ sel = "clipboard" /\ d \in ds
                   \/ sel = "primary" /\ d \in es
                THEN now[sel] ELSE t[d][sel]
<1>1. /\ "clipboard" \in T!Selections /\ "primary" \in T!Selections
      /\ \A sel \in T!Selections : sel = "clipboard" \/ sel = "primary"
  BY DEF T!Selections
<1>2. PICK one : one = T!Hears(t, ds, "clipboard", now["clipboard"])
  OBVIOUS
<1>3. PICK both : both = T!Hears(one, es, "primary", now["primary"])
  OBVIOUS
<1>4. /\ one \in Hearsay
      /\ \A d \in T!Devices, sel \in T!Selections :
           one[d][sel] = IF d \in ds /\ sel = "clipboard" THEN now["clipboard"] ELSE t[d][sel]
  BY <1>1, <1>2, HearsIs
<1>5. /\ both \in Hearsay
      /\ \A d \in T!Devices, sel \in T!Selections :
           both[d][sel] = IF d \in es /\ sel = "primary" THEN now["primary"] ELSE one[d][sel]
  <2>1. now["primary"] \in T!Sources \cup {NoSource}
    BY <1>1
  <2>2. one \in Hearsay
    BY <1>4
  <2>3. QED BY <1>1, <1>3, <2>1, <2>2, HearsIs, Z3
<1>6. T!ToldBoth(t, now, ds, es) = both
  BY <1>2, <1>3 DEF T!ToldBoth
<1>7. QED BY <1>1, <1>4, <1>5, <1>6

LEMMA ToldClearedIs ==
  ASSUME NEW t \in Hearsay, NEW f, NEW ss
  PROVE  /\ T!ToldCleared(t, f, ss) \in Hearsay
         /\ \A d \in T!Devices, sel \in T!Selections :
              T!ToldCleared(t, f, ss)[d][sel] =
                IF selection[sel] \in ss /\ d \in T!Audience(f, sel) THEN NoSource ELSE t[d][sel]
<1>1. NoSource \in Heardof
  BY DEF Heardof
<1>2. T!ToldCleared(t, f, ss) =
        [d \in T!Devices |-> [sel \in T!Selections |->
           IF selection[sel] \in ss /\ d \in T!Audience(f, sel) THEN NoSource ELSE t[d][sel]]]
  BY DEF T!ToldCleared
<1>3. QED BY <1>1, <1>2 DEF Hearsay

-----------------------------------------------------------------------------
(* What each step does to the offers.                                      *)

LEMMA SetSelectionOffers ==
  ASSUME TransferAssumption, T!TypeOK, NEW d \in T!Devices, NEW sel \in T!Selections,
         NEW s \in T!Sources \cup {NoSource}, T!SetSelection(d, sel, s)
  PROVE  Adds(T!Cut(offers, T!From(offers, T!Replaced(sel, s))), offers', "selection", {s},
              T!Audience(focus, sel))
<1> DEFINE cut == T!Cut(offers, T!From(offers, T!Replaced(sel, s)))
<1>1. offers \in [T!Offers -> T!Offer] /\ RoomFor(offers, 1)
  BY RoomIsRoom DEF T!TypeOK, T!SetSelection
<1>2. cut \in [T!Offers -> T!Offer] /\ RoomFor(cut, 1)
  BY <1>1, CutIs, CutMakesRoom
<1>3. offers' = T!Given(cut, T!Audience(focus, sel), "selection", s)
  BY DEF T!SetSelection
<1> HIDE DEF cut
<1>4. \A e \in T!Devices : Free(cut, e) # {}
  BY <1>2, RoomIsFree DEF TransferAssumption, T!BoundAssumption
<1>5. QED BY <1>2, <1>3, <1>4, GivenIs DEF cut

\* The sources a client can be told of.
Held == {selection["clipboard"], selection["primary"]}

LEMMA Separate ==
  ASSUME TransferAssumption, NEW f
  PROVE  T!Following(f, "clipboard") \cap T!Following(f, "primary") = {}
BY DEF TransferAssumption, T!KindsAssumption, T!Following, T!Hearing

LEMMA FocusOffers ==
  ASSUME TransferAssumption, T!TypeOK, NEW c \in Clients, T!Focus(c)
  PROVE  Adds(offers, offers', "selection", Held,
              T!Following(c, "clipboard") \cup T!Following(c, "primary"))
<1>1. /\ offers \in [T!Offers -> T!Offer] /\ RoomFor(offers, 1)
      /\ selection \in [T!Selections -> T!Sources \cup {NoSource}]
  BY RoomIsRoom DEF T!TypeOK, T!Focus
<1>2. offers' = T!HandedOut(offers, selection, T!Following(c, "clipboard"),
                            T!Following(c, "primary"))
  BY DEF T!Focus
<1>3. T!Following(c, "clipboard") \cap T!Following(c, "primary") = {}
  BY Separate
<1>4. PICK k \in Nat : k > 0 /\ RoomFor(offers, k)
  BY <1>1
<1>5. QED BY <1>1, <1>2, <1>3, <1>4, HandedOutIs DEF Held

LEMMA GetDeviceOffers ==
  ASSUME TransferAssumption, T!TypeOK, NEW d \in T!Devices, T!GetDevice(d)
  PROVE  Adds(offers, offers', "selection", Held,
              T!AtOnce(d, "clipboard") \cup T!AtOnce(d, "primary"))
<1>1. /\ offers \in [T!Offers -> T!Offer]
      /\ selection \in [T!Selections -> T!Sources \cup {NoSource}]
  BY DEF T!TypeOK
<1>2. offers' = T!HandedOut(offers, selection, T!AtOnce(d, "clipboard"), T!AtOnce(d, "primary"))
  BY DEF T!GetDevice
<1>3. PICK k \in {1, 2} : RoomFor(offers, k) /\ (d \in ControlDevices => k = 2)
  <2>1. CASE d \in ControlDevices
    BY <2>1, RoomIsRoom DEF T!GetDevice
  <2>2. CASE d \notin ControlDevices
    BY <2>2, RoomIsRoom DEF T!GetDevice
  <2>3. QED BY <2>1, <2>2
<1>4. d \notin ControlDevices => T!AtOnce(d, "clipboard") \cap T!AtOnce(d, "primary") = {}
  BY DEF TransferAssumption, T!KindsAssumption, T!AtOnce, T!Hearing
<1>5. k \in Nat /\ (k > 1 \/ (k > 0 /\ T!AtOnce(d, "clipboard") \cap T!AtOnce(d, "primary") = {}))
  BY <1>3, <1>4
<1>6. QED BY <1>1, <1>2, <1>3, <1>5, HandedOutIs DEF Held

\* A drag that moves cuts its offers and gives new ones.
Dragged(t) == IF drag.source = NoSource THEN {}
              ELSE {<<d, T!Slot(T!Cut(offers, drag.offers), d)>> : d \in T!DataDevicesOf(t)}

LEMMA MoveDragOffers ==
  ASSUME TransferAssumption, T!TypeOK, NEW t \in Clients \cup {NoClient}, T!MoveDrag(t)
  PROVE  /\ offers' \in [T!Offers -> T!Offer]
         /\ drag' = [drag EXCEPT !.focus = t, !.offers = Dragged(t)]
         /\ Dragged(t) \subseteq T!Offers
         /\ \A o \in T!Offers :
              IF o \in Dragged(t)
              THEN /\ Unsettled(offers'[o]) = T!NewOffer("drag", drag.source)
                   /\ offers'[o].resolved =
                        T!Settled(sources[drag.source].actions, drag.source,
                                  T!NewOffer("drag", drag.source), OwnerOf[o[1]])
              ELSE offers'[o] = T!Cut(offers, drag.offers)[o]
         /\ \A o \in Dragged(t) : T!Cut(offers, drag.offers)[o].kind = "absent"
<1> DEFINE cut == T!Cut(offers, drag.offers)
           given == T!Given(cut, T!DataDevicesOf(t), "drag", drag.source)
<1>1. /\ offers \in [T!Offers -> T!Offer] /\ RoomFor(offers, 1)
      /\ drag.source \in T!Sources \cup {NoSource}
  BY RoomIsRoom DEF T!TypeOK, T!MoveDrag, T!Drag
<1>2. cut \in [T!Offers -> T!Offer] /\ RoomFor(cut, 1)
  BY <1>1, CutIs, CutMakesRoom
<1>3. /\ drag' = [drag EXCEPT !.focus = t, !.offers = Dragged(t)]
      /\ offers' = T!Resolved(given, sources, Dragged(t))
  BY DEF T!MoveDrag, Dragged
<1>4. /\ \A o \in T!Offers : o \in Dragged(t) <=> /\ drag.source # NoSource
                                                 /\ o[1] \in T!DataDevicesOf(t)
                                                 /\ o[2] = T!Slot(cut, o[1])
      /\ Dragged(t) \subseteq T!Offers
      /\ \A o \in Dragged(t) : cut[o].kind = "absent"
  <2>1. T!DataDevicesOf(t) \subseteq T!Devices
    BY DEF T!DataDevicesOf, T!Devices
  <2>2. ASSUME NEW d \in T!DataDevicesOf(t)
        PROVE  <<d, T!Slot(cut, d)>> \in T!Offers /\ cut[<<d, T!Slot(cut, d)>>].kind = "absent"
    <3> HIDE DEF cut
    <3>1. T!Slot(cut, d) \in Free(cut, d)
      BY <1>2, <2>1, RoomIsFree, SlotIsFree DEF TransferAssumption, T!BoundAssumption
    <3>2. QED BY <2>1, <3>1 DEF Free, T!Offers
  <2>3. ASSUME NEW o \in T!Offers
        PROVE  o = <<o[1], o[2]>>
    BY DEF T!Offers
  <2>4. QED BY <2>2, <2>3 DEF Dragged
<1> HIDE DEF cut
<1>5. \A d \in T!Devices : Free(cut, d) # {}
  BY <1>2, RoomIsFree DEF TransferAssumption, T!BoundAssumption
<1>6. /\ Adds(cut, given, "drag", {drag.source}, T!DataDevicesOf(t))
      /\ \A o \in T!Offers : drag.source # NoSource /\ o[1] \in T!DataDevicesOf(t)
                             /\ o[2] = T!Slot(cut, o[1]) =>
           given[o] = T!NewOffer("drag", drag.source)
      /\ \A o \in T!Offers : ~(o[1] \in T!DataDevicesOf(t) /\ o[2] = T!Slot(cut, o[1])) =>
           given[o] = cut[o]
  <2>1. \A d \in T!Devices \cap T!DataDevicesOf(t) : Free(cut, d) # {}
    BY <1>5
  <2>2. cut \in [T!Offers -> T!Offer] /\ drag.source \in T!Sources \cup {NoSource}
    BY <1>1, <1>2
  <2>3. "drag" \in {"selection", "drag"}
    OBVIOUS
  <2>4. Adds(cut, T!Given(cut, T!DataDevicesOf(t), "drag", drag.source), "drag",
             {drag.source}, T!DataDevicesOf(t))
    BY <2>1, <2>2, <2>3, GivenIs, Zenon
  <2>5. given = [o \in T!Offers |-> IF /\ drag.source # NoSource
                                       /\ o[1] \in T!DataDevicesOf(t)
                                       /\ o[2] = T!Slot(cut, o[1])
                                    THEN T!NewOffer("drag", drag.source) ELSE cut[o]]
    BY DEF T!Given
  <2>6. QED BY <2>4, <2>5
<1>7. drag.source = NoSource => \A o \in T!Offers : given[o] = cut[o]
  BY <1>6 DEF Adds
<1> HIDE DEF given
<1>8. given \in [T!Offers -> T!Offer]
  BY <1>6 DEF Adds
<1>9. \A o \in T!Offers : given[o] = IF o \in Dragged(t) THEN T!NewOffer("drag", drag.source)
                                                         ELSE cut[o]
  BY <1>4, <1>6, <1>7
<1>10. /\ offers' \in [T!Offers -> T!Offer]
       /\ \A o \in T!Offers :
            /\ Unsettled(offers'[o]) = Unsettled(given[o])
            /\ offers'[o].resolved =
                 IF o \in Dragged(t) /\ T!OfDrag(given[o])
                 THEN T!Settled(sources[given[o].source].actions, given[o].source, given[o],
                                OwnerOf[o[1]])
                 ELSE given[o].resolved
  BY <1>3, <1>8, ResolvedIs
<1>11. ASSUME NEW o \in T!Offers
       PROVE  IF o \in Dragged(t)
              THEN /\ Unsettled(offers'[o]) = T!NewOffer("drag", drag.source)
                   /\ offers'[o].resolved =
                        T!Settled(sources[drag.source].actions, drag.source,
                                  T!NewOffer("drag", drag.source), OwnerOf[o[1]])
              ELSE offers'[o] = cut[o]
  <2>1. CASE o \in Dragged(t)
    <3>1. given[o] = T!NewOffer("drag", drag.source)
      BY <1>9, <2>1
    <3>2. given[o].kind = "drag" /\ given[o].source = drag.source
      BY <1>1, <3>1, NewOfferIs
    <3>3. Unsettled(given[o]) = given[o]
      BY <1>1, <3>1, NewOfferIs, SettledOnNothing
    <3>4. QED BY <1>10, <2>1, <3>1, <3>2, <3>3 DEF T!OfDrag
  <2>2. CASE o \notin Dragged(t)
    <3>1. Unsettled(offers'[o]) = Unsettled(cut[o]) /\ offers'[o].resolved = cut[o].resolved
      BY <1>9, <1>10, <2>2
    <3>2. offers'[o] \in T!Offer /\ cut[o] \in T!Offer
      BY <1>2, <1>10
    <3>3. QED BY <2>2, <3>1, <3>2, SameOffer
  <2>3. QED BY <2>1, <2>2
<1>12. QED BY <1>3, <1>4, <1>10, <1>11 DEF cut

\* The focus while a client goes, and after.
Hooked(c) == {focus} \cup (mapped \ {c})
Refocused(c) == {NoClient} \cup (mapped \ {c})
Between(c, hooked) == IF hooked = c THEN NoClient ELSE hooked
After(c, hooked, refocused) == IF focus = c /\ refocused # NoClient THEN refocused
                                                                   ELSE Between(c, hooked)

\* The devices of a client that has the focus now and had not before.
Newly(f, was, sel) == IF f \in {was, NoClient} THEN {} ELSE T!Following(f, sel)

Cleared(c) == T!Cleared(T!SourcesOf(c))
ToldOfHook(hooked) ==
  T!ToldBoth(told, selection, Newly(hooked, focus, "clipboard"), Newly(hooked, focus, "primary"))
OffersOfHook(hooked) ==
  T!HandedOut(offers, selection, Newly(hooked, focus, "clipboard"),
              Newly(hooked, focus, "primary"))
Swept(c, offs) ==
  [o \in T!Offers |->
     IF OwnerOf[o[1]] = c THEN T!NoOffer
     ELSE T!Cut(offs, (IF drag.on /\ drag.origin = c THEN drag.offers ELSE {})
                        \cup T!From(offs, T!SourcesOf(c)))[o]]
SweptTold(c, hooked) ==
  [d \in T!Devices |->
     IF OwnerOf[d] = c THEN [sel \in T!Selections |-> Never]
     ELSE T!ToldCleared(ToldOfHook(hooked), hooked, T!SourcesOf(c))[d]]

LEMMA DisconnectIs ==
  ASSUME NEW c \in Clients, T!Disconnect(c)
  PROVE  \E hooked \in Hooked(c), refocused \in Refocused(c) :
           LET between == Between(c, hooked)
               after == After(c, hooked, refocused)
           IN  /\ c \in clients /\ T!Room(2)
               /\ clients' = clients \ {c} /\ mapped' = mapped \ {c}
               /\ devices' = devices \ T!DevicesOf(c)
               /\ sources' = [s \in T!Sources |-> IF OwnerOf[s] = c THEN T!Absent ELSE sources[s]]
               /\ selection' = Cleared(c)
               /\ drag' = CASE drag.on /\ drag.origin = c -> T!NoDrag
                            [] drag.on /\ drag.focus = c /\ ~ (drag.on /\ drag.origin = c) ->
                                 [drag EXCEPT !.focus = NoClient, !.offers = {}]
                            [] OTHER -> drag
               /\ entered' = entered \ (T!DevicesOf(c) \cup
                                        IF drag.on /\ drag.origin = c THEN T!Left ELSE {})
               /\ focus' = after
               /\ offers' = T!HandedOut(Swept(c, OffersOfHook(hooked)), Cleared(c),
                                        Newly(after, between, "clipboard"),
                                        Newly(after, between, "primary"))
               /\ told' = T!ToldBoth(SweptTold(c, hooked), Cleared(c),
                                     Newly(after, between, "clipboard"),
                                     Newly(after, between, "primary"))
               /\ buttonHeld' = buttonHeld /\ agreed' = agreed /\ dropped' = dropped
BY ZenonT(60) DEF T!Disconnect, Hooked, Refocused, Between, After, Newly, Cleared, ToldOfHook,
                  OffersOfHook, Swept, SweptTold

LEMMA ClearedIs ==
  ASSUME T!TypeOK, NEW ss
  PROVE  /\ T!Cleared(ss) \in [T!Selections -> T!Sources \cup {NoSource}]
         /\ \A sel \in T!Selections :
              T!Cleared(ss)[sel] = IF selection[sel] \in ss THEN NoSource ELSE selection[sel]
<1>1. T!Cleared(ss) =
        [sel \in T!Selections |-> IF selection[sel] \in ss THEN NoSource ELSE selection[sel]]
  BY DEF T!Cleared
<1>2. QED BY <1>1 DEF T!TypeOK

LEMMA NewlySeparate ==
  ASSUME TransferAssumption, NEW f, NEW was
  PROVE  Newly(f, was, "clipboard") \cap Newly(f, was, "primary") = {}
BY Separate DEF Newly

\* An offer that a client leaves behind which goes.
Spared(c, o) ==
  /\ OwnerOf[o[1]] # c /\ offers[o].source \notin T!SourcesOf(c)
  /\ ~(drag.on /\ drag.origin = c /\ o \in drag.offers)

LEMMA DisconnectOffers ==
  ASSUME TransferAssumption, T!TypeOK, NEW c \in Clients, T!Disconnect(c)
  PROVE  /\ offers' \in [T!Offers -> T!Offer]
         /\ \A o \in T!Offers :
              \/ offers'[o] = T!NoOffer
              \/ offers'[o] = offers[o] /\ Spared(c, o)
              \/ \E sel \in T!Selections :
                   /\ selection'[sel] # NoSource
                   /\ offers'[o] = T!NewOffer("selection", selection'[sel])
         /\ \A o \in T!Offers : offers[o].kind # "absent" /\ Spared(c, o) => offers'[o] = offers[o]
<1>1. PICK hooked \in Hooked(c), refocused \in Refocused(c) :
        /\ T!Room(2) /\ selection' = Cleared(c)
        /\ offers' = T!HandedOut(Swept(c, OffersOfHook(hooked)), Cleared(c),
                       Newly(After(c, hooked, refocused), Between(c, hooked), "clipboard"),
                       Newly(After(c, hooked, refocused), Between(c, hooked), "primary"))
  BY DisconnectIs
<1>2. /\ offers \in [T!Offers -> T!Offer] /\ RoomFor(offers, 2)
      /\ selection \in [T!Selections -> T!Sources \cup {NoSource}]
  BY <1>1, RoomIsRoom DEF T!TypeOK
<1> DEFINE one == OffersOfHook(hooked)
           two == T!Cut(one, (IF drag.on /\ drag.origin = c THEN drag.offers ELSE {})
                               \cup T!From(one, T!SourcesOf(c)))
           three == Swept(c, one)
           ds == Newly(hooked, focus, "clipboard")
           es == Newly(hooked, focus, "primary")
           fs == Newly(After(c, hooked, refocused), Between(c, hooked), "clipboard")
           gs == Newly(After(c, hooked, refocused), Between(c, hooked), "primary")
<1>3. Adds(offers, one, "selection", Held, ds \cup es) /\ RoomFor(one, 1)
  <2>1. ds \cap es = {} /\ 2 \in Nat /\ 2 > 1 /\ 2 - 1 = 1
    BY NewlySeparate
  <2>2. one = T!HandedOut(offers, selection, ds, es)
    BY DEF OffersOfHook
  <2> HIDE DEF one, ds, es
  <2>3. Adds(offers, one, "selection", Held, ds \cup es) /\ RoomFor(one, 2 - 1)
    BY <1>2, <2>1, <2>2, HandedOutIs DEF Held
  <2>4. QED BY <2>1, <2>3
<1> HIDE DEF one
<1>4. /\ one \in [T!Offers -> T!Offer]
      /\ two \in [T!Offers -> T!Offer] /\ RoomFor(two, 1)
      /\ \A o \in T!Offers :
           two[o] = IF o \in (IF drag.on /\ drag.origin = c THEN drag.offers ELSE {})
                             \cup T!From(one, T!SourcesOf(c))
                    THEN T!NoOffer ELSE one[o]
  <2>1. one \in [T!Offers -> T!Offer]
    BY <1>3 DEF Adds
  <2>2. QED BY <1>3, <2>1, CutIs, CutMakesRoom
<1>5. \A o \in T!Offers : two[o] # T!NoOffer =>
        /\ two[o] = one[o]
        /\ ~(drag.on /\ drag.origin = c /\ o \in drag.offers)
        /\ one[o].source \notin T!SourcesOf(c)
  BY <1>4 DEF T!From
<1>6. three = [o \in T!Offers |-> IF OwnerOf[o[1]] = c THEN T!NoOffer ELSE two[o]]
  BY DEF Swept
<1> HIDE DEF two, three
<1>7. three \in [T!Offers -> T!Offer] /\ RoomFor(three, 1)
  <2>1. three = T!Cut(two, {o \in T!Offers : OwnerOf[o[1]] = c})
    BY <1>6 DEF T!Cut
  <2>2. QED BY <1>4, <2>1, CutIs, CutMakesRoom
<1>8. /\ selection' \in [T!Selections -> T!Sources \cup {NoSource}]
      /\ \A sel \in T!Selections :
           selection'[sel] = IF selection[sel] \in T!SourcesOf(c) THEN NoSource ELSE selection[sel]
  BY <1>1, ClearedIs DEF Cleared
<1>9. Adds(three, offers', "selection", {selection'["clipboard"], selection'["primary"]},
           fs \cup gs)
  <2>1. fs \cap gs = {} /\ 1 \in Nat /\ 1 > 0
    BY NewlySeparate
  <2>2. offers' = T!HandedOut(three, selection', fs, gs)
    BY <1>1 DEF three, one
  <2> HIDE DEF fs, gs
  <2>3. PICK k \in Nat : k > 0 /\ RoomFor(three, k)
    BY <1>7
  <2>4. QED BY <1>7, <1>8, <2>1, <2>2, <2>3, HandedOutIs
<1>10. /\ "clipboard" \in T!Selections /\ "primary" \in T!Selections
       /\ Held = {selection["clipboard"], selection["primary"]}
  BY DEF T!Selections, Held
<1>11. ASSUME NEW o \in T!Offers
       PROVE  \/ offers'[o] = T!NoOffer
              \/ offers'[o] = offers[o] /\ Spared(c, o)
              \/ \E sel \in T!Selections :
                   /\ selection'[sel] # NoSource
                   /\ offers'[o] = T!NewOffer("selection", selection'[sel])
  <2>1. CASE offers'[o] # three[o]
    <3>1. PICK s \in {selection'["clipboard"], selection'["primary"]} \ {NoSource} :
            offers'[o] = T!NewOffer("selection", s)
      BY <1>9, <2>1 DEF Adds
    <3>2. QED BY <1>10, <3>1
  <2>2. CASE offers'[o] = three[o] /\ three[o] # T!NoOffer
    <3>1. /\ OwnerOf[o[1]] # c /\ three[o] = two[o] /\ two[o] # T!NoOffer
          /\ two[o] = one[o] /\ one[o].source \notin T!SourcesOf(c)
          /\ ~(drag.on /\ drag.origin = c /\ o \in drag.offers)
      BY <1>5, <1>6, <2>2
    <3>2. CASE one[o] = offers[o]
      BY <2>2, <3>1, <3>2 DEF Spared
    <3>3. CASE one[o] # offers[o]
      <4>1. PICK s \in Held \ {NoSource} :
              offers[o].kind = "absent" /\ one[o] = T!NewOffer("selection", s)
        BY <1>3, <3>3 DEF Adds
      <4>2. s \in T!Sources \cup {NoSource}
        BY <1>2, <1>10, <4>1
      <4>3. one[o].source = s
        BY <4>1, <4>2, NewOfferIs
      <4>4. \E sel \in T!Selections : selection[sel] = s /\ selection'[sel] = s
        BY <1>8, <1>10, <3>1, <4>1, <4>3
      <4>5. QED BY <2>2, <3>1, <4>1, <4>4
    <3>4. QED BY <3>2, <3>3
  <2>3. QED BY <2>1, <2>2
<1>12. ASSUME NEW o \in T!Offers, offers[o].kind # "absent", Spared(c, o)
       PROVE  offers'[o] = offers[o]
  <2>1. one[o] = offers[o]
    BY <1>3, <1>12 DEF Adds
  <2>2. two[o] = offers[o]
    BY <1>4, <1>12, <2>1 DEF Spared, T!From
  <2>3. three[o] = offers[o]
    BY <1>6, <1>12, <2>2 DEF Spared
  <2>4. QED BY <1>9, <1>12, <2>3 DEF Adds
<1>13. QED BY <1>9, <1>11, <1>12 DEF Adds

-----------------------------------------------------------------------------
(* The types are kept.                                                     *)

LEMMA PartsAreTyped ==
  ASSUME TransferAssumption
  PROVE  /\ T!Absent \in T!Source /\ T!NewSource \in T!Source
         /\ T!NoDrag \in T!Drag
         /\ T!NoOffer \in T!Offer
         /\ DataDevices \subseteq T!Devices
         /\ \A s \in T!Sources : OwnerOf[s] \in Clients
         /\ \A d \in T!Devices : OwnerOf[d] \in Clients
<1>1. T!NoOffer \in T!Offer
  BY NewOfferIs DEF T!NoOffer
<1>2. QED BY <1>1 DEF T!Absent, T!NewSource, T!Source, T!NoDrag, T!Drag, T!Devices, T!Sources,
                      TransferAssumption, T!OwnersAssumption

LEMMA InitTransferTyped == TransferAssumption /\ T!Init => T!TypeOK
<1>1. SUFFICES ASSUME TransferAssumption, T!Init PROVE T!TypeOK
  OBVIOUS
<1>2. QED BY <1>1, PartsAreTyped DEF T!Init, T!TypeOK, T!Selections, T!NoAction

\* Of the selections.
LEMMA SelectionTyped ==
  ASSUME TransferAssumption, T!TypeOK, NEW d \in T!Devices, NEW sel \in T!Selections,
         NEW s \in T!Sources \cup {NoSource}, T!SetSelection(d, sel, s)
  PROVE  T!TypeOK'
<1>1. sources' \in [T!Sources -> T!Source]
  BY ClaimedIs, CancelledIs DEF T!SetSelection, T!TypeOK
<1>2. offers' \in [T!Offers -> T!Offer]
  BY SetSelectionOffers DEF Adds
<1>3. told' \in Hearsay
  <2>1. told \in Hearsay
    BY DEF T!TypeOK, Hearsay, Heardof
  <2>2. QED BY <2>1, HearsIs DEF T!SetSelection
<1>4. selection' \in [T!Selections -> T!Sources \cup {NoSource}]
  BY DEF T!SetSelection, T!TypeOK
<1>5. QED BY <1>1, <1>2, <1>3, <1>4 DEF T!SetSelection, T!TypeOK, T!owners, Hearsay, Heardof

LEMMA FocusTyped ==
  ASSUME TransferAssumption, T!TypeOK, NEW c \in Clients, T!Focus(c)
  PROVE  T!TypeOK'
<1>1. offers' \in [T!Offers -> T!Offer]
  BY FocusOffers DEF Adds
<1>2. told' \in Hearsay
  <2>1. told \in Hearsay /\ selection \in [T!Selections -> T!Sources \cup {NoSource}]
    BY DEF T!TypeOK, Hearsay, Heardof
  <2>2. QED BY <2>1, ToldBothIs DEF T!Focus
<1>3. QED BY <1>1, <1>2 DEF T!Focus, T!TypeOK, T!owners, Hearsay, Heardof

LEMMA GetDeviceTyped ==
  ASSUME TransferAssumption, T!TypeOK, NEW d \in T!Devices, T!GetDevice(d)
  PROVE  T!TypeOK'
<1>1. offers' \in [T!Offers -> T!Offer]
  BY GetDeviceOffers DEF Adds
<1>2. told' \in Hearsay
  <2>1. told \in Hearsay /\ selection \in [T!Selections -> T!Sources \cup {NoSource}]
    BY DEF T!TypeOK, Hearsay, Heardof
  <2>2. QED BY <2>1, ToldBothIs DEF T!GetDevice
<1>3. QED BY <1>1, <1>2 DEF T!GetDevice, T!TypeOK, Hearsay, Heardof

LEMMA ReleaseDeviceTyped ==
  ASSUME TransferAssumption, T!TypeOK, NEW d \in T!Devices, T!ReleaseDevice(d)
  PROVE  T!TypeOK'
<1>1. told' \in [T!Devices -> [T!Selections -> T!Sources \cup {NoSource, Never}]]
  BY DEF T!ReleaseDevice, T!TypeOK
<1>2. QED BY <1>1 DEF T!ReleaseDevice, T!TypeOK

\* Of what a drag comes to mean.
LEMMA SourceActionsTyped ==
  ASSUME TransferAssumption, T!TypeOK, NEW s \in T!Sources, NEW mask \in SUBSET Actions,
         T!SetSourceActions(s, mask)
  PROVE  T!TypeOK'
<1>1. sources' \in [T!Sources -> T!Source]
  BY DEF T!SetSourceActions, T!TypeOK, T!Source
<1>2. offers' \in [T!Offers -> T!Offer]
  BY ResolvedIs DEF T!SetSourceActions, T!TypeOK
<1>3. agreed' \in [T!Sources -> Actions \cup {T!NoAction}]
  BY DEF T!SetSourceActions, T!Heard
<1>4. QED BY <1>1, <1>2, <1>3 DEF T!SetSourceActions, T!TypeOK, T!owners

LEMMA AnsweredTyped ==
  ASSUME TransferAssumption, T!TypeOK, NEW o \in T!Offers, NEW offer \in T!Offer,
         T!Answered(o, offer)
  PROVE  T!TypeOK'
<1>1. [offers EXCEPT ![o] = offer] \in [T!Offers -> T!Offer]
  BY DEF T!TypeOK
<1>2. offers' \in [T!Offers -> T!Offer]
  BY <1>1, ResolvedIs DEF T!Answered
<1>3. agreed' \in [T!Sources -> Actions \cup {T!NoAction}]
  BY DEF T!Answered, T!Heard
<1>4. QED BY <1>2, <1>3 DEF T!Answered, T!TypeOK, T!owners

LEMMA OfferRequestTyped ==
  ASSUME TransferAssumption, T!TypeOK, NEW o \in T!Offers, T!OfferRequest(o)
  PROVE  T!TypeOK'
<1>1. CASE \E yes \in BOOLEAN : T!Accept(o, yes)
  <2>1. PICK yes \in BOOLEAN : T!Answered(o, [offers[o] EXCEPT !.accepted = yes])
    BY <1>1 DEF T!Accept
  <2>2. offers[o] \in T!Offer
    BY DEF T!TypeOK
  <2>3. [offers[o] EXCEPT !.accepted = yes] \in T!Offer
    BY <2>2 DEF T!Offer
  <2>4. QED BY <2>1, <2>3, AnsweredTyped
<1>2. CASE \E mask \in SUBSET Actions, p \in Actions \cup {T!NoAction} :
             T!SetOfferActions(o, mask, p)
  <2>1. PICK mask \in SUBSET Actions, p \in Actions \cup {T!NoAction} :
          T!Answered(o, [offers[o] EXCEPT !.actions = mask, !.preferred = p])
    BY <1>2 DEF T!SetOfferActions
  <2>2. offers[o] \in T!Offer
    BY DEF T!TypeOK
  <2>3. [offers[o] EXCEPT !.actions = mask, !.preferred = p] \in T!Offer
    BY <2>2 DEF T!Offer
  <2>4. QED BY <2>1, <2>3, AnsweredTyped
<1>3. CASE T!Finish(o)
  BY <1>3, PartsAreTyped DEF T!Finish, T!TypeOK, T!owners
<1>4. CASE T!DestroyOffer(o)
  <2>1. drag' \in T!Drag
    BY <1>4 DEF T!DestroyOffer, T!TypeOK, T!Drag
  <2>2. QED BY <1>4, <2>1, PartsAreTyped DEF T!DestroyOffer, T!TypeOK, T!owners
<1>5. QED BY <1>1, <1>2, <1>3, <1>4 DEF T!OfferRequest

\* Of drags.
LEMMA StartDragTyped ==
  ASSUME TransferAssumption, T!TypeOK, NEW d \in T!Devices,
         NEW s \in T!Sources \cup {NoSource}, T!StartDrag(d, s)
  PROVE  T!TypeOK'
<1>1. sources' \in [T!Sources -> T!Source]
  BY DEF T!StartDrag, T!TypeOK, T!Source
<1>2. drag' \in T!Drag
  BY PartsAreTyped DEF T!StartDrag, T!NoDrag, T!Drag
<1>3. QED BY <1>1, <1>2 DEF T!StartDrag, T!TypeOK, T!owners

LEMMA MoveDragTyped ==
  ASSUME TransferAssumption, T!TypeOK, NEW t \in Clients \cup {NoClient}, T!MoveDrag(t)
  PROVE  T!TypeOK'
<1>1. /\ offers' \in [T!Offers -> T!Offer] /\ Dragged(t) \subseteq T!Offers
      /\ drag' = [drag EXCEPT !.focus = t, !.offers = Dragged(t)]
  BY MoveDragOffers
<1>2. drag' \in T!Drag
  BY <1>1 DEF T!TypeOK, T!Drag
<1>3. agreed' \in [T!Sources -> Actions \cup {T!NoAction}]
  BY DEF T!MoveDrag, T!Heard
<1>4. entered' \subseteq devices \cap DataDevices
  BY DEF T!MoveDrag, T!DataDevicesOf, T!DevicesOf, T!TypeOK
<1>5. QED BY <1>1, <1>2, <1>3, <1>4 DEF T!MoveDrag, T!TypeOK, T!owners

LEMMA ButtonUpTyped ==
  ASSUME TransferAssumption, T!TypeOK, T!ButtonUp
  PROVE  T!TypeOK'
<1>1. offers' \in [T!Offers -> T!Offer]
  <2>1. [o \in T!Offers |-> IF o \in drag.offers THEN [offers[o] EXCEPT !.kind = "dropped"]
                                                ELSE offers[o]] \in [T!Offers -> T!Offer]
    <3>1. ASSUME NEW o \in T!Offers
          PROVE  [offers[o] EXCEPT !.kind = "dropped"] \in T!Offer /\ offers[o] \in T!Offer
      BY DEF T!TypeOK, T!Offer
    <3>2. QED BY <3>1
  <2>2. T!Cut(offers, drag.offers) \in [T!Offers -> T!Offer]
    BY CutIs DEF T!TypeOK
  <2>3. offers \in [T!Offers -> T!Offer]
    BY DEF T!TypeOK
  <2>4. QED BY <2>1, <2>2, <2>3 DEF T!ButtonUp
<1>2. sources' \in [T!Sources -> T!Source]
  <2>1. T!Cancelled(sources, T!Ended) \in [T!Sources -> T!Source]
    BY CancelledIs DEF T!TypeOK
  <2>2. QED BY <2>1 DEF T!ButtonUp, T!TypeOK
<1>3. dropped' \subseteq T!Sources
  BY DEF T!ButtonUp, T!Dropped, T!TypeOK, T!Drag
<1>4. QED BY <1>1, <1>2, <1>3, PartsAreTyped DEF T!ButtonUp, T!TypeOK, T!owners

\* What cancel_drag leaves.
LEMMA CancelDragIs ==
  ASSUME TransferAssumption, T!TypeOK, T!CancelDrag
  PROVE  /\ drag' = T!NoDrag
         /\ sources' \in [T!Sources -> T!Source]
         /\ offers' \in [T!Offers -> T!Offer]
         /\ \A o \in T!Offers : offers'[o] = IF o \in drag.offers THEN T!NoOffer ELSE offers[o]
         /\ \A s \in T!Sources :
              /\ sources'[s].role = sources[s].role /\ sources'[s].actions = sources[s].actions
              /\ sources'[s].cancelled = (s = drag.source \/ sources[s].cancelled)
         /\ entered' = entered \ T!Left
<1>1. sources \in [T!Sources -> T!Source] /\ offers \in [T!Offers -> T!Offer]
  BY DEF T!TypeOK
<1>2. PICK ss : ss = {drag.source}
  OBVIOUS
<1>3. sources' = T!Cancelled(sources, ss) /\ offers' = T!Cut(offers, drag.offers)
  BY <1>2 DEF T!CancelDrag
<1>4. /\ offers' \in [T!Offers -> T!Offer]
      /\ \A o \in T!Offers : offers'[o] = IF o \in drag.offers THEN T!NoOffer ELSE offers[o]
  BY <1>1, <1>3, CutIs
<1>5. /\ sources' \in [T!Sources -> T!Source]
      /\ \A s \in T!Sources :
           /\ sources'[s].role = sources[s].role /\ sources'[s].actions = sources[s].actions
           /\ sources'[s].cancelled = (s \in ss \/ sources[s].cancelled)
  BY <1>1, <1>3, CancelledIs
<1>6. QED BY <1>2, <1>4, <1>5 DEF T!CancelDrag

\* Of sources, surfaces and clients that come and go.
LEMMA CreateSourceTyped ==
  ASSUME TransferAssumption, T!TypeOK, NEW s \in T!Sources, T!CreateSource(s)
  PROVE  T!TypeOK'
BY PartsAreTyped DEF T!CreateSource, T!TypeOK, T!owners, T!NoAction

LEMMA DestroySourceTyped ==
  ASSUME TransferAssumption, T!TypeOK, NEW s \in T!Sources, T!DestroySource(s)
  PROVE  T!TypeOK'
<1>1. selection' \in [T!Selections -> T!Sources \cup {NoSource}]
  BY ClearedIs DEF T!DestroySource
<1>2. told' \in Hearsay
  BY ToldClearedIs DEF T!DestroySource, T!TypeOK, Hearsay, Heardof
<1>3. offers' \in [T!Offers -> T!Offer]
  <2>1. offers \in [T!Offers -> T!Offer]
    BY DEF T!TypeOK
  <2>2. QED BY <2>1, CutIs DEF T!DestroySource
<1>4. drag' \in T!Drag /\ sources' \in [T!Sources -> T!Source]
  BY PartsAreTyped DEF T!DestroySource, T!TypeOK
<1>5. entered' \subseteq entered
  BY DEF T!DestroySource
<1>6. QED BY <1>1, <1>2, <1>3, <1>4, <1>5 DEF T!DestroySource, T!TypeOK, T!owners, Hearsay,
             Heardof

LEMMA DestroySurfaceTyped ==
  ASSUME TransferAssumption, T!TypeOK, NEW c \in Clients, T!DestroySurface(c)
  PROVE  T!TypeOK'
<1>1. /\ sources' \in [T!Sources -> T!Source] /\ offers' \in [T!Offers -> T!Offer]
      /\ drag' \in T!Drag /\ entered' \subseteq entered
  <2>1. CASE T!CancelDrag
    BY <2>1, CancelDragIs, PartsAreTyped
  <2>2. CASE ~ T!CancelDrag
    <3>1. drag \in T!Drag /\ [drag EXCEPT !.focus = NoClient, !.offers = {}] \in T!Drag
      BY DEF T!TypeOK, T!Drag
    <3>2. offers \in [T!Offers -> T!Offer] /\ sources \in [T!Sources -> T!Source]
      BY DEF T!TypeOK
    <3>3. T!Cut(offers, drag.offers) \in [T!Offers -> T!Offer]
      BY <3>2, CutIs
    <3>4. QED BY <2>2, <3>1, <3>2, <3>3 DEF T!DestroySurface
  <2>3. QED BY <2>1, <2>2
<1>2. QED BY <1>1 DEF T!DestroySurface, T!TypeOK

\* Every device hears of selections as they are said to it.
LEMMA SweptToldIs ==
  ASSUME TransferAssumption, T!TypeOK, NEW c \in Clients, NEW hooked
  PROVE  /\ ToldOfHook(hooked) \in Hearsay
         /\ SweptTold(c, hooked) \in Hearsay
         /\ \A d \in T!Devices, sel \in T!Selections :
              /\ ToldOfHook(hooked)[d][sel] =
                   IF d \in Newly(hooked, focus, sel) THEN selection[sel] ELSE told[d][sel]
              /\ SweptTold(c, hooked)[d][sel] =
                   IF OwnerOf[d] = c THEN Never
                   ELSE IF selection[sel] \in T!SourcesOf(c) /\ d \in T!Audience(hooked, sel)
                   THEN NoSource ELSE ToldOfHook(hooked)[d][sel]
<1>1. told \in Hearsay /\ selection \in [T!Selections -> T!Sources \cup {NoSource}]
  BY DEF T!TypeOK, Hearsay, Heardof
<1>2. PICK one : one = ToldOfHook(hooked)
  OBVIOUS
<1>3. /\ one \in Hearsay
      /\ \A d \in T!Devices, sel \in T!Selections :
           one[d][sel] = IF \/ sel = "clipboard" /\ d \in Newly(hooked, focus, "clipboard")
                            \/ sel = "primary" /\ d \in Newly(hooked, focus, "primary")
                         THEN selection[sel] ELSE told[d][sel]
  BY <1>1, <1>2, ToldBothIs DEF ToldOfHook
<1>4. \A d \in T!Devices, sel \in T!Selections :
        one[d][sel] = IF d \in Newly(hooked, focus, sel) THEN selection[sel] ELSE told[d][sel]
  <2>1. SUFFICES ASSUME NEW d \in T!Devices, NEW sel \in T!Selections
                 PROVE  one[d][sel] = IF d \in Newly(hooked, focus, sel) THEN selection[sel]
                                                                      ELSE told[d][sel]
    OBVIOUS
  <2>2. sel = "clipboard" \/ sel = "primary"
    BY DEF T!Selections
  <2>3. QED BY <1>3, <2>2
<1>5. PICK two : two = T!ToldCleared(one, hooked, T!SourcesOf(c))
  OBVIOUS
<1>6. /\ two \in Hearsay
      /\ \A d \in T!Devices, sel \in T!Selections :
           two[d][sel] = IF selection[sel] \in T!SourcesOf(c) /\ d \in T!Audience(hooked, sel)
                         THEN NoSource ELSE one[d][sel]
  BY <1>3, <1>5, ToldClearedIs
<1>7. SweptTold(c, hooked) =
        [d \in T!Devices |-> IF OwnerOf[d] = c THEN [sel \in T!Selections |-> Never] ELSE two[d]]
  BY <1>2, <1>5 DEF SweptTold
<1>8. SweptTold(c, hooked) \in Hearsay
  BY <1>6, <1>7 DEF Hearsay, Heardof
<1>9. QED BY <1>2, <1>3, <1>4, <1>6, <1>7, <1>8

LEMMA DisconnectTyped ==
  ASSUME TransferAssumption, T!TypeOK, NEW c \in Clients, T!Disconnect(c)
  PROVE  T!TypeOK'
<1>1. PICK hooked \in Hooked(c), refocused \in Refocused(c) :
        /\ clients' = clients \ {c} /\ mapped' = mapped \ {c}
        /\ devices' = devices \ T!DevicesOf(c)
        /\ sources' = [s \in T!Sources |-> IF OwnerOf[s] = c THEN T!Absent ELSE sources[s]]
        /\ selection' = Cleared(c)
        /\ drag' = CASE drag.on /\ drag.origin = c -> T!NoDrag
                     [] drag.on /\ drag.focus = c /\ ~ (drag.on /\ drag.origin = c) ->
                          [drag EXCEPT !.focus = NoClient, !.offers = {}]
                     [] OTHER -> drag
        /\ entered' = entered \ (T!DevicesOf(c) \cup
                                 IF drag.on /\ drag.origin = c THEN T!Left ELSE {})
        /\ focus' = After(c, hooked, refocused)
        /\ told' = T!ToldBoth(SweptTold(c, hooked), Cleared(c),
                     Newly(After(c, hooked, refocused), Between(c, hooked), "clipboard"),
                     Newly(After(c, hooked, refocused), Between(c, hooked), "primary"))
        /\ buttonHeld' = buttonHeld /\ agreed' = agreed /\ dropped' = dropped
  BY DisconnectIs
<1>2. offers' \in [T!Offers -> T!Offer]
  BY DisconnectOffers
<1>3. selection' \in [T!Selections -> T!Sources \cup {NoSource}]
  BY <1>1, ClearedIs DEF Cleared
<1>4. told' \in Hearsay
  BY <1>1, <1>3, SweptToldIs, ToldBothIs
<1>5. drag' \in T!Drag
  <2>1. T!NoDrag \in T!Drag /\ [drag EXCEPT !.focus = NoClient, !.offers = {}] \in T!Drag
        /\ drag \in T!Drag
    BY PartsAreTyped DEF T!TypeOK, T!Drag
  <2>2. drag' \in {T!NoDrag, [drag EXCEPT !.focus = NoClient, !.offers = {}], drag}
    BY <1>1
  <2>3. QED BY <2>1, <2>2
<1>6. sources' \in [T!Sources -> T!Source]
  BY <1>1, PartsAreTyped DEF T!TypeOK
<1>7. focus' \in mapped' \cup {NoClient}
  BY <1>1 DEF T!TypeOK, Hooked, Refocused, After, Between
<1>8. /\ clients' \subseteq Clients /\ mapped' \subseteq clients'
      /\ devices' \subseteq {d \in T!Devices : OwnerOf[d] \in clients'}
      /\ entered' \subseteq devices' \cap DataDevices
  BY <1>1 DEF T!TypeOK, T!DevicesOf
<1>9. QED BY <1>1, <1>2, <1>3, <1>4, <1>5, <1>6, <1>7, <1>8 DEF T!TypeOK, Hearsay, Heardof

LEMMA NextTransferTyped ==
  ASSUME TransferAssumption, T!TypeOK, [T!Next]_T!vars
  PROVE  T!TypeOK'
<1>1. ASSUME NEW s \in T!Sources, T!SourceRequest(s) PROVE T!TypeOK'
  BY <1>1, CreateSourceTyped, DestroySourceTyped, SourceActionsTyped DEF T!SourceRequest
<1>2. ASSUME NEW d \in T!Devices, T!DeviceRequest(d) PROVE T!TypeOK'
  BY <1>2, GetDeviceTyped, ReleaseDeviceTyped, StartDragTyped, SelectionTyped
     DEF T!DeviceRequest
<1>3. ASSUME NEW c \in Clients, T!CreateSurface(c) PROVE T!TypeOK'
  BY <1>3 DEF T!CreateSurface, T!TypeOK
<1>4. CASE \E c \in Clients : T!CreateSurface(c) \/ T!DestroySurface(c) \/ T!Disconnect(c)
  BY <1>3, <1>4, DestroySurfaceTyped, DisconnectTyped
<1>5. CASE T!Unfocus \/ T!ButtonDown
  BY <1>5 DEF T!Unfocus, T!ButtonDown, T!TypeOK, T!owners
<1>6. CASE T!Escape
  BY <1>6, CancelDragIs, PartsAreTyped DEF T!Escape, T!TypeOK, T!owners
<1>7. CASE T!Request
  BY <1>1, <1>2, <1>4, <1>7, OfferRequestTyped DEF T!Request
<1>8. CASE T!User
  BY <1>5, <1>6, <1>8, FocusTyped, MoveDragTyped, ButtonUpTyped DEF T!User
<1>9. CASE UNCHANGED T!vars
  BY <1>9 DEF T!vars, T!owners, T!TypeOK
<1>10. QED BY <1>7, <1>8, <1>9 DEF T!Next

\* Clients hold devices, sources and offers that are theirs, whatever comes and goes.
THEOREM TransferTyped ==
  ASSUME TransferAssumption
  PROVE  T!Spec => []T!TypeOK
<1>1. T!Init => T!TypeOK
  BY InitTransferTyped
<1>2. T!TypeOK /\ [T!Next]_(T!vars) => T!TypeOK'
  BY NextTransferTyped
<1>3. QED BY <1>1, <1>2, PTL DEF T!Spec

-----------------------------------------------------------------------------
(* Every source hears of its end.                                          *)

\* What is dragged is used for that, by the client it was dragged from.
DragIsItsSources ==
  /\ ~ drag.on => drag = T!NoDrag
  /\ drag.source # NoSource =>
       /\ drag.source \in DataSources /\ sources[drag.source].role = "drag"
       /\ OwnerOf[drag.source] = drag.origin

\* A source holds at most one of the selections, and was used for it.
SelectionsAreHeld ==
  /\ \A sel \in T!Selections : selection[sel] # NoSource =>
       /\ T!Live(selection[sel])
       /\ selection[sel] \notin PrimarySources => sources[selection[sel]].role = "selection"
  /\ selection["clipboard"] \notin PrimarySources
  /\ selection["clipboard"] # NoSource => selection["clipboard"] # selection["primary"]

UsedOnce == DataSources \cup ControlSources

Selected(s) == \E sel \in T!Selections : selection[sel] = s
BeingDragged(s) == drag.on /\ drag.source = s

\* The end of a source, role by role: what it says of itself, whoever is to hear.
FateOf(s) ==
  /\ sources[s].role = "unused" => ~ sources[s].cancelled /\ s \notin dropped
  /\ sources[s].role = "selection" => /\ sources[s].cancelled <=> ~ Selected(s)
                                      /\ s \notin dropped
  /\ sources[s].role = "drag" /\ BeingDragged(s) => ~ sources[s].cancelled /\ s \notin dropped
  /\ sources[s].role = "drag" /\ ~ BeingDragged(s) =>
       (sources[s].cancelled <=> s \notin dropped)
  /\ sources[s].role = "absent" => ~ Selected(s)

Fates == \A s \in UsedOnce : FateOf(s)

SourceInv ==
  /\ T!TypeOK
  /\ DragIsItsSources
  /\ SelectionsAreHeld
  /\ Fates

\* A source whose use ended one way has heard what its version has for that.
LEMMA FateIsHeard == SourceInv => T!SourceFate
<1>1. SUFFICES ASSUME SourceInv, NEW s \in UsedOnce
      PROVE  LET source == sources[s] IN
               /\ source.role = "unused" => T!Ends(s) = {}
               /\ source.role = "selection" =>
                    T!Ends(s) = IF Selected(s) THEN {} ELSE {"cancelled"}
               /\ source.role = "drag" =>
                    T!Ends(s) = IF BeingDragged(s) THEN {}
                                ELSE IF s \notin dropped THEN {"cancelled"}
                                ELSE IF T!Version(OwnerOf[s]) >= 3 THEN {"dnd_drop_performed"}
                                ELSE {}
               /\ source.role \in {"absent", "unused", "selection", "drag"}
               /\ source.role = "absent" => ~ Selected(s)
  BY DEF T!SourceFate, UsedOnce, Selected, BeingDragged
<1>2. FateOf(s) /\ sources[s] \in T!Source
  BY <1>1 DEF SourceInv, Fates, UsedOnce, T!TypeOK, T!Sources
<1>3. /\ "cancelled" \in T!Ends(s) <=> sources[s].cancelled
      /\ "dnd_drop_performed" \in T!Ends(s) <=> s \in dropped /\ T!Version(OwnerOf[s]) >= 3
      /\ T!Ends(s) \subseteq {"cancelled", "dnd_drop_performed"}
  BY DEF T!Ends
<1>4. QED BY <1>2, <1>3 DEF FateOf, T!Source

\* Steps of devices, offers and the focus.
LEMMA SourcesStay ==
  ASSUME SourceInv, T!TypeOK', UNCHANGED <<selection, dropped>>,
         drag'.on = drag.on, drag'.source = drag.source, drag'.origin = drag.origin,
         drag' = drag \/ drag.on,
         \A s \in T!Sources : /\ sources'[s].role = sources[s].role
                              /\ sources'[s].cancelled = sources[s].cancelled
  PROVE  SourceInv'
<1>1. DragIsItsSources'
  BY DEF SourceInv, DragIsItsSources, T!Sources
<1>2. SelectionsAreHeld'
  BY DEF SourceInv, SelectionsAreHeld, T!Live, T!TypeOK
<1>3. \A s \in UsedOnce : FateOf(s)
  BY DEF SourceInv, Fates
<1>4. ASSUME NEW s \in UsedOnce PROVE FateOf(s)'
  <2>1. s \in T!Sources
    BY DEF UsedOnce, T!Sources
  <2>2. QED BY <1>3, <2>1 DEF FateOf, Selected, BeingDragged
<1>5. QED BY <1>1, <1>2, <1>4 DEF SourceInv, Fates

LEMMA SelectionKeepsFate ==
  ASSUME TransferAssumption, SourceInv, NEW d \in T!Devices, NEW sel \in T!Selections,
         NEW s \in T!Sources \cup {NoSource}, T!SetSelection(d, sel, s)
  PROVE  SourceInv'
<1>1. T!TypeOK'
  BY SelectionTyped DEF SourceInv
<1>2. /\ drag' = drag /\ dropped' = dropped
      /\ selection' = [selection EXCEPT ![sel] = s]
      /\ selection \in [T!Selections -> T!Sources \cup {NoSource}]
      /\ sources \in [T!Sources -> T!Source] /\ NoSource \notin T!Sources
  BY DEF T!SetSelection, SourceInv, T!TypeOK, TransferAssumption, T!NamesAssumption
<1>3. \A r \in T!Sources :
        /\ sources'[r].role = IF r = s /\ r \notin PrimarySources THEN "selection"
                                                                  ELSE sources[r].role
        /\ sources'[r].cancelled = \/ r = selection[sel] /\ r # s
                                   \/ sources[r].cancelled
  <2>1. PICK srcs : srcs = T!Claimed(s)
    OBVIOUS
  <2>2. /\ srcs \in [T!Sources -> T!Source]
        /\ \A r \in T!Sources :
             /\ srcs[r].role = IF r = s /\ r \notin PrimarySources THEN "selection"
                                                                   ELSE sources[r].role
             /\ srcs[r].cancelled = sources[r].cancelled
    BY <1>2, <2>1, ClaimedIs
  <2>3. sources' = T!Cancelled(srcs, T!Replaced(sel, s))
    BY <2>1 DEF T!SetSelection
  <2>4. \A r \in T!Sources :
          /\ sources'[r].role = srcs[r].role
          /\ sources'[r].cancelled = (r \in T!Replaced(sel, s) \/ srcs[r].cancelled)
    BY <2>2, <2>3, CancelledIs
  <2>5. QED BY <1>2, <2>2, <2>4 DEF T!Replaced
<1>4. s # NoSource =>
        /\ s \in T!Sources /\ T!Live(s)
        /\ s \notin PrimarySources => sources[s].role = "unused"
        /\ s \in PrimarySources => sel = "primary"
  BY DEF T!SetSelection, T!MaySet, T!Hearing, TransferAssumption, T!KindsAssumption, T!Selections
<1>5. s # NoSource /\ s \notin PrimarySources => ~ Selected(s)
  BY <1>4 DEF SourceInv, SelectionsAreHeld, Selected
<1>6. DragIsItsSources'
  BY <1>2, <1>3, <1>4 DEF SourceInv, DragIsItsSources, TransferAssumption, T!KindsAssumption,
                          T!Sources
<1>7. "clipboard" \in T!Selections /\ "primary" \in T!Selections
      /\ \A other \in T!Selections : other = "clipboard" \/ other = "primary"
  BY DEF T!Selections
<1>8. SelectionsAreHeld'
  <2>1. ASSUME NEW other \in T!Selections, selection'[other] # NoSource
        PROVE  /\ sources'[selection'[other]].role # "absent"
               /\ selection'[other] \notin PrimarySources =>
                    sources'[selection'[other]].role = "selection"
    <3>1. CASE other = sel
      BY <1>2, <1>3, <1>4, <2>1, <3>1 DEF T!Live
    <3>2. CASE other # sel
      BY <1>2, <1>3, <2>1, <3>2 DEF T!Live, SourceInv, SelectionsAreHeld
    <3>3. QED BY <3>1, <3>2
  <2>2. selection'["clipboard"] \notin PrimarySources
    BY <1>2, <1>4, <1>7 DEF SourceInv, SelectionsAreHeld, T!Sources
  <2>3. selection'["clipboard"] # NoSource => selection'["clipboard"] # selection'["primary"]
    BY <1>2, <1>4, <1>5, <1>7, <2>2 DEF SourceInv, SelectionsAreHeld, Selected
  <2>4. QED BY <2>1, <2>2, <2>3 DEF SelectionsAreHeld, T!Live
<1>9. \A r \in UsedOnce : FateOf(r) /\ r \in T!Sources /\ r \notin PrimarySources
  BY DEF SourceInv, Fates, UsedOnce, T!Sources, TransferAssumption, T!KindsAssumption
<1>10. ASSUME NEW r \in UsedOnce PROVE FateOf(r)'
  <2>1. Selected(r)' <=> r = s \/ (Selected(r) /\ r # selection[sel])
    BY <1>2, <1>7, <1>9 DEF Selected, SourceInv, SelectionsAreHeld
  <2>2. BeingDragged(r)' <=> BeingDragged(r)
    BY <1>2 DEF BeingDragged
  <2>3. CASE r = s
    BY <1>2, <1>3, <1>4, <1>9, <2>1, <2>3 DEF FateOf
  <2>4. CASE r # s /\ r = selection[sel]
    BY <1>2, <1>3, <1>9, <2>1, <2>4 DEF FateOf, SourceInv, SelectionsAreHeld, UsedOnce,
       TransferAssumption, T!KindsAssumption
  <2>5. CASE r # s /\ r # selection[sel]
    BY <1>2, <1>3, <1>9, <2>1, <2>2, <2>5 DEF FateOf
  <2>6. QED BY <2>3, <2>4, <2>5
<1>11. QED BY <1>1, <1>6, <1>8, <1>10 DEF SourceInv, Fates

LEMMA StartDragKeepsFate ==
  ASSUME TransferAssumption, SourceInv, NEW d \in T!Devices,
         NEW s \in T!Sources \cup {NoSource}, T!StartDrag(d, s)
  PROVE  SourceInv'
<1>1. T!TypeOK'
  BY StartDragTyped DEF SourceInv
<1>2. /\ selection' = selection /\ dropped' = dropped /\ ~ drag.on
      /\ drag'.on /\ drag'.source = s /\ drag'.origin = OwnerOf[d]
      /\ s # NoSource => /\ s \in DataSources /\ OwnerOf[s] = OwnerOf[d]
                         /\ sources[s].role = "unused"
      /\ sources \in [T!Sources -> T!Source] /\ NoSource \notin T!Sources
      /\ drag = T!NoDrag
  BY DEF T!StartDrag, T!NoDrag, SourceInv, DragIsItsSources, T!TypeOK, TransferAssumption,
         T!NamesAssumption
<1>3. \A r \in T!Sources : /\ sources'[r].role = IF r = s THEN "drag" ELSE sources[r].role
                           /\ sources'[r].cancelled = sources[r].cancelled
  BY <1>2 DEF T!StartDrag, T!Source
<1>4. s # NoSource => s \in T!Sources /\ s \notin PrimarySources /\ ~ Selected(s)
  BY <1>2 DEF SourceInv, SelectionsAreHeld, Selected, T!Sources, TransferAssumption,
              T!KindsAssumption
<1>5. DragIsItsSources'
  BY <1>2, <1>3, <1>4 DEF DragIsItsSources
<1>6. SelectionsAreHeld'
  BY <1>2, <1>3, <1>4 DEF SourceInv, SelectionsAreHeld, Selected, T!Live, T!TypeOK
<1>7. \A r \in UsedOnce : FateOf(r) /\ r \in T!Sources
  BY DEF SourceInv, Fates, UsedOnce, T!Sources
<1>8. ASSUME NEW r \in UsedOnce PROVE FateOf(r)'
  <2>1. drag.source = NoSource
    BY <1>2 DEF T!NoDrag
  <2>2. QED BY <1>2, <1>3, <1>7, <2>1 DEF FateOf, Selected, BeingDragged
<1>9. QED BY <1>1, <1>5, <1>6, <1>8 DEF SourceInv, Fates

\* A drag that is over has told its source.
LEMMA EndedDragKeepsFate ==
  ASSUME TransferAssumption, SourceInv, T!TypeOK', selection' = selection, drag' = T!NoDrag,
         \A s \in T!Sources :
           /\ sources'[s].role = sources[s].role
           /\ \/ /\ sources'[s].cancelled = (s = drag.source \/ sources[s].cancelled)
                 /\ s \in dropped' <=> s \in dropped
              \/ /\ drag.on /\ sources'[s].cancelled = sources[s].cancelled
                 /\ s \in dropped' <=> (s = drag.source \/ s \in dropped)
  PROVE  SourceInv'
<1>1. DragIsItsSources'
  BY DEF DragIsItsSources, T!NoDrag
<1>2. SelectionsAreHeld'
  BY DEF SourceInv, SelectionsAreHeld, T!Live, T!TypeOK
<1>3. \A r \in UsedOnce : FateOf(r) /\ r \in T!Sources /\ r # NoSource
  BY DEF SourceInv, Fates, UsedOnce, T!Sources, TransferAssumption, T!NamesAssumption
<1>4. ASSUME NEW s \in UsedOnce PROVE FateOf(s)'
  <2>1. ~ BeingDragged(s)'
    BY <1>3 DEF BeingDragged, T!NoDrag
  <2>2. Selected(s)' <=> Selected(s)
    BY DEF Selected
  <2>3. s = drag.source => sources[s].role = "drag" /\ BeingDragged(s)
    BY <1>3 DEF SourceInv, DragIsItsSources, BeingDragged, T!NoDrag
  <2>4. CASE s = drag.source
    BY <1>3, <2>1, <2>2, <2>3, <2>4 DEF FateOf
  <2>5. CASE s # drag.source
    BY <1>3, <2>1, <2>2, <2>5 DEF FateOf, BeingDragged
  <2>6. QED BY <2>4, <2>5
<1>5. QED BY <1>1, <1>2, <1>4 DEF SourceInv, Fates

LEMMA CancelDragKeepsFate ==
  ASSUME TransferAssumption, SourceInv, T!TypeOK', UNCHANGED <<selection, dropped>>,
         T!CancelDrag
  PROVE  SourceInv'
BY CancelDragIs, EndedDragKeepsFate DEF SourceInv

LEMMA ButtonUpKeepsFate ==
  ASSUME TransferAssumption, SourceInv, T!ButtonUp
  PROVE  SourceInv'
<1>1. T!TypeOK' /\ drag' = T!NoDrag /\ selection' = selection
      /\ sources \in [T!Sources -> T!Source]
  BY ButtonUpTyped DEF SourceInv, T!ButtonUp, T!TypeOK
<1>2. CASE drag.on /\ T!Dropped /\ dropped' = dropped \cup {drag.source}
           /\ UNCHANGED sources
  BY <1>1, <1>2, EndedDragKeepsFate
<1>3. CASE /\ sources' = T!Cancelled(sources, T!Ended) /\ UNCHANGED dropped
  <2>1. \A s \in T!Sources :
          /\ sources'[s].role = sources[s].role
          /\ sources'[s].cancelled = (s = drag.source \/ sources[s].cancelled)
    BY <1>1, <1>3, CancelledIs DEF T!Ended
  <2>2. QED BY <1>1, <1>3, <2>1, EndedDragKeepsFate
<1>4. CASE ~ drag.on /\ UNCHANGED <<sources, dropped>>
  <2>1. drag = T!NoDrag
    BY <1>4 DEF SourceInv, DragIsItsSources
  <2>2. QED BY <1>1, <1>4, <2>1, SourcesStay
<1>5. QED BY <1>2, <1>3, <1>4 DEF T!ButtonUp

LEMMA CreateSourceKeepsFate ==
  ASSUME TransferAssumption, SourceInv, NEW s \in T!Sources, T!CreateSource(s)
  PROVE  SourceInv'
<1>1. T!TypeOK'
  BY CreateSourceTyped DEF SourceInv
<1>2. /\ UNCHANGED <<selection, drag>> /\ dropped' = dropped \ {s}
      /\ sources[s].role = "absent"
      /\ sources \in [T!Sources -> T!Source]
      /\ sources' = [sources EXCEPT ![s] = T!NewSource]
  BY DEF T!CreateSource, T!Live, SourceInv, T!TypeOK
<1>3. /\ sources'[s].role = "unused" /\ ~ sources'[s].cancelled
      /\ \A r \in T!Sources \ {s} : sources'[r] = sources[r]
  BY <1>2 DEF T!NewSource, T!Absent
<1>4. s # drag.source /\ ~ Selected(s)
  <2>1. NoSource \notin T!Sources
    BY DEF TransferAssumption, T!NamesAssumption
  <2>2. QED BY <1>2, <2>1 DEF SourceInv, DragIsItsSources, SelectionsAreHeld, Selected, T!Live
<1>5. DragIsItsSources'
  BY <1>2, <1>3, <1>4 DEF SourceInv, DragIsItsSources, T!Sources
<1>6. SelectionsAreHeld'
  BY <1>2, <1>3, <1>4 DEF SourceInv, SelectionsAreHeld, T!Live, Selected, T!TypeOK
<1>7. \A r \in UsedOnce : FateOf(r) /\ r \in T!Sources
  BY DEF SourceInv, Fates, UsedOnce, T!Sources
<1>8. ASSUME NEW r \in UsedOnce PROVE FateOf(r)'
  BY <1>2, <1>3, <1>4, <1>7 DEF FateOf, Selected, BeingDragged
<1>9. QED BY <1>1, <1>5, <1>6, <1>8 DEF SourceInv, Fates

\* Sources go, off the selections and out of the drag.
LEMMA GoneSourcesKeepFate ==
  ASSUME TransferAssumption, SourceInv, T!TypeOK', NEW ss \in SUBSET T!Sources,
         selection' = T!Cleared(ss), dropped' = dropped,
         \A s \in T!Sources :
           sources'[s] = IF s \in ss THEN T!Absent ELSE sources[s],
         \/ drag' = T!NoDrag /\ (drag.source = NoSource \/ drag.source \in ss)
         \/ /\ drag.source \notin ss /\ drag'.on = drag.on /\ drag'.source = drag.source
            /\ drag'.origin = drag.origin /\ (drag.on \/ drag' = drag)
  PROVE  SourceInv'
<1>1. NoSource \notin T!Sources /\ drag.source \in T!Sources \cup {NoSource}
      /\ T!NoDrag.source = NoSource /\ ~ T!NoDrag.on
  BY DEF TransferAssumption, T!NamesAssumption, SourceInv, T!TypeOK, T!Drag, T!NoDrag
<1>2. \A sel \in T!Selections :
        /\ selection'[sel] = IF selection[sel] \in ss THEN NoSource ELSE selection[sel]
        /\ selection[sel] \in T!Sources \cup {NoSource}
  BY ClearedIs DEF SourceInv, T!TypeOK
<1>3. "clipboard" \in T!Selections /\ "primary" \in T!Selections
  BY DEF T!Selections
<1>4. DragIsItsSources'
  BY <1>1 DEF SourceInv, DragIsItsSources, T!Sources
<1>5. SelectionsAreHeld'
  <2>1. ASSUME NEW sel \in T!Selections, selection'[sel] # NoSource
        PROVE  /\ sources'[selection'[sel]].role # "absent"
               /\ selection'[sel] \notin PrimarySources =>
                    sources'[selection'[sel]].role = "selection"
    BY <1>2, <2>1 DEF SourceInv, SelectionsAreHeld, T!Live
  <2>2. /\ selection'["clipboard"] \notin PrimarySources
        /\ selection'["clipboard"] # NoSource => selection'["clipboard"] # selection'["primary"]
    BY <1>1, <1>2, <1>3 DEF SourceInv, SelectionsAreHeld, T!Sources
  <2>3. QED BY <2>1, <2>2 DEF SelectionsAreHeld, T!Live
<1>6. \A r \in UsedOnce : FateOf(r) /\ r \in T!Sources
  BY DEF SourceInv, Fates, UsedOnce, T!Sources
<1>7. ASSUME NEW r \in UsedOnce PROVE FateOf(r)'
  <2>1. CASE r \in ss
    <3>1. sources'[r].role = "absent" /\ ~ Selected(r)'
      BY <1>1, <1>2, <1>6, <2>1 DEF T!Absent, Selected
    <3>2. QED BY <3>1 DEF FateOf
  <2>2. CASE r \notin ss
    <3>1. sources'[r] = sources[r]
      BY <1>6, <2>2
    <3>2. Selected(r)' <=> Selected(r)
      BY <1>1, <1>2, <1>6, <2>2 DEF Selected
    <3>3. BeingDragged(r)' <=> BeingDragged(r)
      BY <1>1, <1>6, <2>2 DEF BeingDragged
    <3>4. QED BY <1>6, <3>1, <3>2, <3>3 DEF FateOf
  <2>3. QED BY <2>1, <2>2
<1>8. QED BY <1>4, <1>5, <1>7 DEF SourceInv, Fates

LEMMA DestroySourceKeepsFate ==
  ASSUME TransferAssumption, SourceInv, NEW s \in T!Sources, T!DestroySource(s)
  PROVE  SourceInv'
<1>1. T!TypeOK'
  BY DestroySourceTyped DEF SourceInv
<1>2. NoSource \notin T!Sources /\ sources \in [T!Sources -> T!Source]
  BY DEF TransferAssumption, T!NamesAssumption, SourceInv, T!TypeOK
<1>3. drag.source = s => drag.on
  BY <1>2 DEF SourceInv, DragIsItsSources, T!NoDrag
<1>4. /\ selection' = T!Cleared({s}) /\ dropped' = dropped
      /\ sources' = [sources EXCEPT ![s] = T!Absent]
      /\ drag' = IF drag.on /\ drag.source = s THEN T!NoDrag ELSE drag
  BY DEF T!DestroySource
<1>5. \A r \in T!Sources : sources'[r] = IF r \in {s} THEN T!Absent ELSE sources[r]
  BY <1>2, <1>4
<1>6. PICK ss \in SUBSET T!Sources : ss = {s}
  OBVIOUS
<1>7. \/ drag' = T!NoDrag /\ drag.source \in ss
      \/ drag.source \notin ss /\ drag' = drag
  BY <1>3, <1>4, <1>6
<1>8. QED BY <1>1, <1>4, <1>5, <1>6, <1>7, GoneSourcesKeepFate

LEMMA DisconnectKeepsFate ==
  ASSUME TransferAssumption, SourceInv, NEW c \in Clients, T!Disconnect(c)
  PROVE  SourceInv'
<1>1. T!TypeOK'
  BY DisconnectTyped DEF SourceInv
<1>2. /\ sources' = [s \in T!Sources |-> IF OwnerOf[s] = c THEN T!Absent ELSE sources[s]]
      /\ selection' = T!Cleared(T!SourcesOf(c)) /\ dropped' = dropped
      /\ drag' = CASE drag.on /\ drag.origin = c -> T!NoDrag
                   [] drag.on /\ drag.focus = c /\ ~ (drag.on /\ drag.origin = c) ->
                        [drag EXCEPT !.focus = NoClient, !.offers = {}]
                   [] OTHER -> drag
  BY DisconnectIs DEF Cleared
<1>3. \A s \in T!Sources : sources'[s] = IF s \in T!SourcesOf(c) THEN T!Absent ELSE sources[s]
  BY <1>2 DEF T!SourcesOf
<1>4. /\ NoSource \notin T!Sources /\ drag.source \in T!Sources \cup {NoSource}
      /\ drag \in T!Drag /\ c # NoClient
  BY DEF TransferAssumption, T!NamesAssumption, SourceInv, T!TypeOK, T!Drag
<1>5. drag.source # NoSource => (drag.source \in T!SourcesOf(c) <=> drag.on /\ drag.origin = c)
  BY <1>4 DEF T!SourcesOf, SourceInv, DragIsItsSources, T!NoDrag
<1>6. CASE drag.on /\ drag.origin = c
  <2>1. drag' = T!NoDrag /\ (drag.source = NoSource \/ drag.source \in T!SourcesOf(c))
    BY <1>2, <1>5, <1>6
  <2>2. T!SourcesOf(c) \in SUBSET T!Sources
    BY DEF T!SourcesOf
  <2>3. QED BY <1>1, <1>2, <1>3, <2>1, <2>2, GoneSourcesKeepFate
<1>7. CASE ~(drag.on /\ drag.origin = c)
  <2>1. drag.source \notin T!SourcesOf(c)
    BY <1>4, <1>5, <1>7 DEF T!SourcesOf
  <2>2. /\ drag'.on = drag.on /\ drag'.source = drag.source /\ drag'.origin = drag.origin
        /\ drag.on \/ drag' = drag
    BY <1>2, <1>4, <1>7 DEF T!Drag
  <2>3. T!SourcesOf(c) \in SUBSET T!Sources
    BY DEF T!SourcesOf
  <2>4. QED BY <1>1, <1>2, <1>3, <2>1, <2>2, <2>3, GoneSourcesKeepFate
<1>8. QED BY <1>6, <1>7

LEMMA OfferRequestKeepsFate ==
  ASSUME TransferAssumption, SourceInv, NEW o \in T!Offers, T!OfferRequest(o)
  PROVE  SourceInv'
<1>1. T!TypeOK'
  BY OfferRequestTyped DEF SourceInv
<1>2. sources' = sources /\ selection' = selection /\ dropped' = dropped
      /\ (drag' = drag \/ drag' = [drag EXCEPT !.offers = @ \ {o}])
  BY DEF T!OfferRequest, T!Accept, T!SetOfferActions, T!Answered, T!Finish, T!DestroyOffer
<1>3. drag'.on = drag.on /\ drag'.source = drag.source /\ drag'.origin = drag.origin
  BY <1>2 DEF SourceInv, T!TypeOK, T!Drag
<1>4. drag' = drag \/ drag.on
  <2>1. SUFFICES ASSUME ~ drag.on PROVE drag' = drag
    OBVIOUS
  <2>2. drag.offers = {} /\ drag \in T!Drag
    BY <2>1 DEF SourceInv, DragIsItsSources, T!NoDrag, T!TypeOK
  <2>3. drag.offers \ {o} = drag.offers
    BY <2>2
  <2>4. [drag EXCEPT !.offers = drag.offers] = drag
    BY <2>2 DEF T!Drag
  <2>5. QED BY <1>2, <2>3, <2>4
<1>5. QED BY <1>1, <1>2, <1>3, <1>4, SourcesStay

LEMMA DestroySurfaceKeepsFate ==
  ASSUME TransferAssumption, SourceInv, NEW c \in Clients, T!DestroySurface(c)
  PROVE  SourceInv'
<1>1. T!TypeOK' /\ selection' = selection /\ dropped' = dropped
  BY DestroySurfaceTyped DEF SourceInv, T!DestroySurface
<1>2. CASE T!CancelDrag
  BY <1>1, <1>2, CancelDragKeepsFate
<1>3. CASE ~ T!CancelDrag
  <2>1. /\ sources' = sources
        /\ \/ drag.on /\ drag' = [drag EXCEPT !.focus = NoClient, !.offers = {}]
           \/ drag' = drag
    BY <1>3 DEF T!DestroySurface
  <2>2. drag'.on = drag.on /\ drag'.source = drag.source /\ drag'.origin = drag.origin
    BY <2>1 DEF SourceInv, T!TypeOK, T!Drag
  <2>3. QED BY <1>1, <2>1, <2>2, SourcesStay
<1>4. QED BY <1>2, <1>3

LEMMA SourceStepKeeps ==
  ASSUME TransferAssumption, SourceInv, [T!Next]_T!vars
  PROVE  SourceInv'
<1>1. T!TypeOK'
  BY NextTransferTyped DEF SourceInv
<1>2. ASSUME UNCHANGED <<sources, selection, drag, dropped>>
      PROVE  SourceInv'
  BY <1>1, <1>2, SourcesStay
<1>3. ASSUME NEW s \in T!Sources, NEW mask \in SUBSET Actions, T!SetSourceActions(s, mask)
      PROVE  SourceInv'
  <2>1. \A r \in T!Sources : /\ sources'[r].role = sources[r].role
                             /\ sources'[r].cancelled = sources[r].cancelled
    BY <1>3 DEF T!SetSourceActions, SourceInv, T!TypeOK, T!Source
  <2>2. UNCHANGED <<selection, drag, dropped>>
    BY <1>3 DEF T!SetSourceActions
  <2>3. QED BY <1>1, <2>1, <2>2, SourcesStay
<1>4. CASE \E s \in T!Sources : T!SourceRequest(s)
  BY <1>3, <1>4, CreateSourceKeepsFate, DestroySourceKeepsFate DEF T!SourceRequest
<1>5. ASSUME NEW d \in T!Devices, T!DeviceRequest(d)
      PROVE  SourceInv'
  <2>1. CASE T!GetDevice(d) \/ T!ReleaseDevice(d)
    BY <1>2, <2>1 DEF T!GetDevice, T!ReleaseDevice
  <2>2. QED BY <1>5, <2>1, StartDragKeepsFate, SelectionKeepsFate DEF T!DeviceRequest
<1>6. ASSUME NEW c \in Clients, T!CreateSurface(c) \/ T!Focus(c)
      PROVE  SourceInv'
  BY <1>2, <1>6 DEF T!CreateSurface, T!Focus
<1>7. CASE T!Request
  BY <1>4, <1>5, <1>6, <1>7, OfferRequestKeepsFate, DestroySurfaceKeepsFate, DisconnectKeepsFate
     DEF T!Request
<1>8. ASSUME NEW t \in Clients \cup {NoClient}, T!MoveDrag(t)
      PROVE  SourceInv'
  <2>1. drag' = [drag EXCEPT !.focus = t, !.offers = Dragged(t)]
    BY <1>8, MoveDragOffers DEF SourceInv
  <2>2. drag'.on = drag.on /\ drag'.source = drag.source /\ drag'.origin = drag.origin
    BY <2>1 DEF SourceInv, T!TypeOK, T!Drag
  <2>3. drag.on /\ UNCHANGED <<sources, selection, dropped>>
    BY <1>8 DEF T!MoveDrag
  <2>4. QED BY <1>1, <2>2, <2>3, SourcesStay
<1>9. CASE T!Unfocus \/ T!ButtonDown
  BY <1>2, <1>9 DEF T!Unfocus, T!ButtonDown
<1>10. CASE T!Escape
  BY <1>1, <1>10, CancelDragKeepsFate DEF T!Escape
<1>11. CASE T!User
  BY <1>6, <1>8, <1>9, <1>10, <1>11, ButtonUpKeepsFate DEF T!User
<1>12. CASE UNCHANGED T!vars
  BY <1>2, <1>12 DEF T!vars
<1>13. QED BY <1>7, <1>11, <1>12 DEF T!Next

LEMMA InitSources == ASSUME TransferAssumption PROVE T!Init => SourceInv
<1>1. SUFFICES ASSUME T!Init PROVE SourceInv
  OBVIOUS
<1>2. T!TypeOK
  BY <1>1, InitTransferTyped
<1>3. NoSource \notin T!Sources /\ "clipboard" \in T!Selections /\ "primary" \in T!Selections
      /\ drag = T!NoDrag /\ \A sel \in T!Selections : selection[sel] = NoSource
      /\ \A s \in T!Sources : sources[s].role = "absent"
  BY <1>1 DEF T!Init, TransferAssumption, T!NamesAssumption, T!Selections, T!Absent
<1>4. DragIsItsSources /\ SelectionsAreHeld
  BY <1>3 DEF DragIsItsSources, SelectionsAreHeld, T!NoDrag, T!Sources
<1>5. \A s \in UsedOnce : FateOf(s)
  BY <1>3 DEF UsedOnce, T!Sources, FateOf, Selected
<1>6. QED BY <1>2, <1>4, <1>5 DEF SourceInv, Fates

\* A client that put content on a selection or into a drag hears of the end of it
\* when that comes, and of no other: that another selection took its place, that
\* the drag came to nothing, or that it was dropped, which below version 3 it is
\* not told, and no other end instead (set_selection, start_drag, finish_drag,
\* cancel_drag, retire_data_source).
THEOREM SourcesHearOneEnd ==
  ASSUME TransferAssumption
  PROVE  T!Spec => []T!SourceFate
<1>1. SourceInv /\ [T!Next]_(T!vars) => SourceInv'
  BY SourceStepKeeps
<1>2. SourceInv => T!SourceFate
  BY FateIsHeard
<1>3. QED BY <1>1, <1>2, InitSources, PTL DEF T!Spec

-----------------------------------------------------------------------------
(* What an offer reads.                                                    *)

\* What a client that reads an offer may rely on, kind by kind.
Current(o) ==
  offers[o].kind # "absent" =>
    /\ offers[o].source \in T!Sources /\ sources[offers[o].source].role # "absent"
    /\ offers[o].kind = "selection" =>
         \E sel \in T!Selections : offers[o].source = selection[sel]
    /\ offers[o].kind = "drag" => /\ drag.on /\ offers[o].source = drag.source
                                  /\ o \in drag.offers /\ OwnerOf[o[1]] = drag.focus
    /\ offers[o].kind = "dropped" => offers[o].source \in dropped

\* A drag keeps no offer that was cut or dropped.
DragOffersAreDrags == \A o \in drag.offers : offers[o].kind = "drag"

OfferInv ==
  /\ SourceInv
  /\ \A o \in T!Offers : Current(o)
  /\ DragOffersAreDrags

LEMMA CurrentKindByKind ==
  ASSUME T!TypeOK, \A o \in T!Offers : Current(o)
  PROVE  T!OffersAreCurrent
<1>1. ASSUME NEW o \in T!Offers
      PROVE  offers[o].kind \in {"absent", "selection", "drag", "dropped"}
  BY DEF T!TypeOK, T!Offer
<1>2. QED BY <1>1 DEF T!OffersAreCurrent, Current, T!Live

\* What was the case of an offer is still of one that says the same.
LEMMA SameIsCurrent ==
  ASSUME NEW o \in T!Offers, Current(o),
         offers'[o].kind = offers[o].kind, offers'[o].source = offers[o].source,
         offers[o].source \in T!Sources =>
           (sources[offers[o].source].role # "absent" =>
              sources'[offers[o].source].role # "absent"),
         offers[o].kind = "selection" =>
           \A sel \in T!Selections : offers[o].source = selection[sel] =>
             \E other \in T!Selections : selection'[other] = selection[sel],
         offers[o].kind = "drag" /\ o \in drag.offers =>
           /\ drag'.on = drag.on /\ drag'.source = drag.source
           /\ o \in drag'.offers /\ drag'.focus = drag.focus,
         offers[o].kind = "dropped" /\ offers[o].source \in dropped =>
           offers[o].source \in dropped'
  PROVE  Current(o)'
BY DEF Current

\* Steps that give offers of the selections, and change nothing else of theirs.
LEMMA GivingIsCurrent ==
  ASSUME TransferAssumption, OfferInv, SourceInv', NEW ds,
         Adds(offers, offers', "selection", Held, ds),
         UNCHANGED <<sources, selection, drag, dropped>>
  PROVE  OfferInv'
<1>1. selection \in [T!Selections -> T!Sources \cup {NoSource}] /\ NoSource \notin T!Sources
      /\ drag.offers \subseteq T!Offers
  BY DEF OfferInv, SourceInv, T!TypeOK, T!Drag, TransferAssumption, T!NamesAssumption
<1>2. "clipboard" \in T!Selections /\ "primary" \in T!Selections
  BY DEF T!Selections
<1>3. ASSUME NEW o \in T!Offers
      PROVE  Current(o)'
  <2>1. CASE offers'[o] = offers[o]
    <3>1. Current(o)
      BY DEF OfferInv
    <3>2. QED BY <2>1, <3>1 DEF Current
  <2>2. CASE offers'[o] # offers[o]
    <3>1. PICK s \in Held \ {NoSource} : offers'[o] = T!NewOffer("selection", s)
      BY <2>2 DEF Adds
    <3>2. PICK sel \in T!Selections : s = selection[sel] /\ selection[sel] # NoSource
      BY <1>2, <3>1 DEF Held
    <3>3. s \in T!Sources /\ sources[s].role # "absent"
      BY <1>1, <3>2 DEF OfferInv, SourceInv, SelectionsAreHeld, T!Live
    <3>4. offers'[o].kind = "selection" /\ offers'[o].source = s
      BY <3>1, <3>3, NewOfferIs
    <3>5. QED BY <3>2, <3>3, <3>4 DEF Current
  <2>3. QED BY <2>1, <2>2
<1>4. DragOffersAreDrags'
  BY <1>1 DEF OfferInv, DragOffersAreDrags, Adds
<1>5. QED BY <1>3, <1>4 DEF OfferInv

LEMMA SelectionIsCurrent ==
  ASSUME TransferAssumption, OfferInv, NEW d \in T!Devices, NEW sel \in T!Selections,
         NEW s \in T!Sources \cup {NoSource}, T!SetSelection(d, sel, s)
  PROVE  OfferInv'
<1>1. SourceInv'
  BY SelectionKeepsFate DEF OfferInv
<1>2. PICK cut : cut = T!Cut(offers, T!From(offers, T!Replaced(sel, s)))
  OBVIOUS
<1>3. Adds(cut, offers', "selection", {s}, T!Audience(focus, sel))
  BY <1>2, SetSelectionOffers DEF OfferInv, SourceInv
<1>4. /\ offers \in [T!Offers -> T!Offer] /\ sources \in [T!Sources -> T!Source]
      /\ selection \in [T!Selections -> T!Sources \cup {NoSource}]
      /\ selection' = [selection EXCEPT ![sel] = s]
      /\ drag' = drag /\ dropped' = dropped /\ NoSource \notin T!Sources
      /\ drag.offers \subseteq T!Offers
  BY DEF OfferInv, SourceInv, T!TypeOK, T!Drag, T!SetSelection, TransferAssumption,
         T!NamesAssumption
<1>5. /\ \A o \in T!Offers :
           cut[o] = IF o \in T!From(offers, T!Replaced(sel, s)) THEN T!NoOffer ELSE offers[o]
      /\ T!NoOffer.kind = "absent"
  BY <1>2, <1>4, CutIs
<1>6. \A r \in T!Sources : sources[r].role # "absent" => sources'[r].role # "absent"
  <2>1. PICK srcs : srcs = T!Claimed(s)
    OBVIOUS
  <2>2. /\ srcs \in [T!Sources -> T!Source]
        /\ \A r \in T!Sources : srcs[r].role \in {"selection", sources[r].role}
    BY <1>4, <2>1, ClaimedIs
  <2>3. sources' = T!Cancelled(srcs, T!Replaced(sel, s))
    BY <2>1 DEF T!SetSelection
  <2>4. \A r \in T!Sources : sources'[r].role = srcs[r].role
    BY <2>2, <2>3, CancelledIs
  <2>5. QED BY <2>2, <2>4
<1>7. ASSUME NEW o \in T!Offers, offers'[o].kind # "absent"
      PROVE  \/ /\ offers'[o] = offers[o]
                /\ offers[o].source # NoSource => offers[o].source \notin T!Replaced(sel, s)
             \/ s # NoSource /\ offers'[o] = T!NewOffer("selection", s)
  <2>1. CASE offers'[o] = cut[o]
    <3>1. o \notin T!From(offers, T!Replaced(sel, s)) /\ offers'[o] = offers[o]
      BY <1>5, <1>7, <2>1
    <3>2. QED BY <3>1 DEF T!From
  <2>2. CASE offers'[o] # cut[o]
    BY <1>3, <2>2 DEF Adds
  <2>3. QED BY <2>1, <2>2
<1>8. ASSUME NEW o \in T!Offers
      PROVE  Current(o)'
  <2>1. CASE offers'[o].kind = "absent"
    BY <2>1 DEF Current
  <2>2. CASE /\ offers'[o] = offers[o] /\ offers'[o].kind # "absent"
             /\ offers[o].source # NoSource => offers[o].source \notin T!Replaced(sel, s)
    <3>1. Current(o)
      BY DEF OfferInv
    <3>2. offers[o].source \in T!Sources /\ offers[o].source # NoSource
      BY <1>4, <2>2, <3>1 DEF Current
    <3>3. ASSUME NEW x \in T!Selections, offers[o].source = selection[x]
          PROVE  selection'[x] = selection[x]
      BY <1>4, <2>2, <3>2, <3>3 DEF T!Replaced
    <3>4. QED BY <1>4, <1>6, <2>2, <3>1, <3>3, SameIsCurrent
  <2>3. CASE s # NoSource /\ offers'[o] = T!NewOffer("selection", s)
    <3>1. s \in T!Sources /\ sources[s].role # "absent" /\ selection'[sel] = s
      BY <1>4, <2>3 DEF T!SetSelection, T!MaySet, T!Live
    <3>2. offers'[o].kind = "selection" /\ offers'[o].source = s
      BY <2>3, <3>1, NewOfferIs
    <3>3. QED BY <1>6, <3>1, <3>2 DEF Current
  <2>4. QED BY <1>7, <2>1, <2>2, <2>3
<1>9. DragOffersAreDrags'
  <2>1. ASSUME NEW o \in drag.offers
        PROVE  offers'[o].kind = "drag"
    <3>1. o \in T!Offers /\ offers[o].kind = "drag" /\ Current(o)
      BY <1>4 DEF OfferInv, DragOffersAreDrags
    <3>2. offers[o].source = drag.source /\ drag.source \in T!Sources
      BY <3>1 DEF Current
    <3>3. sources[drag.source].role = "drag" /\ drag.source \in DataSources
      BY <1>4, <3>2 DEF OfferInv, SourceInv, DragIsItsSources
    <3>4. drag.source # selection[sel]
      BY <1>4, <3>2, <3>3 DEF OfferInv, SourceInv, SelectionsAreHeld, TransferAssumption,
                              T!KindsAssumption
    <3>5. cut[o] = offers[o]
      BY <1>5, <3>1, <3>2, <3>4 DEF T!From, T!Replaced
    <3>6. QED BY <1>3, <3>1, <3>5 DEF Adds
  <2>2. QED BY <1>4, <2>1 DEF DragOffersAreDrags
<1>10. QED BY <1>1, <1>8, <1>9 DEF OfferInv

\* Offers that say what they said, while nothing they say it of changes.
LEMMA StillCurrent ==
  ASSUME OfferInv, SourceInv', drag.offers \subseteq T!Offers,
         \A o \in T!Offers : offers'[o].kind = offers[o].kind
                             /\ offers'[o].source = offers[o].source,
         \A s \in T!Sources : sources[s].role # "absent" => sources'[s].role # "absent",
         selection' = selection, dropped \subseteq dropped',
         drag' = drag \/ ~ drag.on, drag'.offers = drag.offers
  PROVE  OfferInv'
<1>1. ASSUME NEW o \in T!Offers
      PROVE  Current(o)'
  <2>1. Current(o)
    BY DEF OfferInv
  <2>2. QED BY <2>1 DEF Current
<1>2. DragOffersAreDrags'
  BY DEF OfferInv, DragOffersAreDrags
<1>3. QED BY <1>1, <1>2 DEF OfferInv

LEMMA AnsweredIsCurrent ==
  ASSUME TransferAssumption, OfferInv, SourceInv', NEW o \in T!Offers, NEW offer \in T!Offer,
         offer.kind = offers[o].kind, offer.source = offers[o].source, T!Answered(o, offer)
  PROVE  OfferInv'
<1>1. offers \in [T!Offers -> T!Offer] /\ drag.offers \subseteq T!Offers
  BY DEF OfferInv, SourceInv, T!TypeOK, T!Drag
<1>2. PICK changed \in [T!Offers -> T!Offer] : changed = [offers EXCEPT ![o] = offer]
  BY <1>1
<1>3. PICK these : /\ offers' = T!Resolved(changed, sources, these)
                   /\ UNCHANGED <<sources, selection, drag, dropped>>
  BY <1>2 DEF T!Answered
<1>4. \A x \in T!Offers : /\ offers'[x] \in T!Offer
                          /\ Unsettled(offers'[x]) = Unsettled(changed[x])
  <2>1. PICK new : new = T!Resolved(changed, sources, these)
    OBVIOUS
  <2>2. /\ new \in [T!Offers -> T!Offer]
        /\ \A x \in T!Offers : Unsettled(new[x]) = Unsettled(changed[x])
    BY <2>1, ResolvedIs
  <2>3. QED BY <1>3, <2>1, <2>2
<1>5. ASSUME NEW x \in T!Offers
      PROVE  offers'[x].kind = offers[x].kind /\ offers'[x].source = offers[x].source
  <2>1. offers'[x].kind = changed[x].kind /\ offers'[x].source = changed[x].source
    BY <1>2, <1>4, UnsettledSame
  <2>2. QED BY <1>1, <1>2, <2>1
<1>6. QED BY <1>1, <1>3, <1>5, StillCurrent

LEMMA OfferRequestIsCurrent ==
  ASSUME TransferAssumption, OfferInv, NEW o \in T!Offers, T!OfferRequest(o)
  PROVE  OfferInv'
<1>1. SourceInv'
  BY OfferRequestKeepsFate DEF OfferInv
<1>2. /\ offers \in [T!Offers -> T!Offer] /\ drag \in T!Drag /\ drag.offers \subseteq T!Offers
  BY DEF OfferInv, SourceInv, T!TypeOK, T!Drag
<1>3. CASE \E yes \in BOOLEAN : T!Accept(o, yes)
  <2>1. PICK yes \in BOOLEAN : T!Answered(o, [offers[o] EXCEPT !.accepted = yes])
    BY <1>3 DEF T!Accept
  <2>2. offers[o] \in T!Offer
    BY <1>2
  <2>3. /\ [offers[o] EXCEPT !.accepted = yes] \in T!Offer
        /\ [offers[o] EXCEPT !.accepted = yes].kind = offers[o].kind
        /\ [offers[o] EXCEPT !.accepted = yes].source = offers[o].source
    BY <2>2 DEF T!Offer
  <2>4. QED BY <1>1, <2>1, <2>3, AnsweredIsCurrent
<1>4. CASE \E mask \in SUBSET Actions, p \in Actions \cup {T!NoAction} :
             T!SetOfferActions(o, mask, p)
  <2>1. PICK mask \in SUBSET Actions, p \in Actions \cup {T!NoAction} :
          T!Answered(o, [offers[o] EXCEPT !.actions = mask, !.preferred = p])
    BY <1>4 DEF T!SetOfferActions
  <2>2. offers[o] \in T!Offer
    BY <1>2
  <2>3. /\ [offers[o] EXCEPT !.actions = mask, !.preferred = p] \in T!Offer
        /\ [offers[o] EXCEPT !.actions = mask, !.preferred = p].kind = offers[o].kind
        /\ [offers[o] EXCEPT !.actions = mask, !.preferred = p].source = offers[o].source
    BY <2>2 DEF T!Offer
  <2>4. QED BY <1>1, <2>1, <2>3, AnsweredIsCurrent
<1>5. CASE T!Finish(o) \/ T!DestroyOffer(o)
  <2>1. /\ offers' = [offers EXCEPT ![o] = T!NoOffer]
        /\ UNCHANGED <<sources, selection, dropped>>
        /\ drag'.on = drag.on /\ drag'.source = drag.source /\ drag'.focus = drag.focus
        /\ \/ drag'.offers = drag.offers /\ offers[o].kind = "dropped"
           \/ drag'.offers = drag.offers \ {o}
    BY <1>2, <1>5 DEF T!Finish, T!DestroyOffer, T!Drag
  <2>2. ASSUME NEW x \in T!Offers
        PROVE  Current(x)'
    <3>1. CASE x = o
      <4>1. offers'[x].kind = "absent"
        BY <1>2, <2>1, <3>1, NewOfferIs, CutIs
      <4>2. QED BY <4>1 DEF Current
    <3>2. CASE x # o
      <4>1. offers'[x] = offers[x] /\ Current(x)
        BY <1>2, <2>1, <3>2 DEF OfferInv
      <4>2. QED BY <2>1, <3>2, <4>1 DEF Current
    <3>3. QED BY <3>1, <3>2
  <2>3. o \notin drag'.offers
    BY <2>1 DEF OfferInv, DragOffersAreDrags
  <2>4. DragOffersAreDrags'
    BY <1>2, <2>1, <2>3 DEF OfferInv, DragOffersAreDrags
  <2>5. QED BY <1>1, <2>2, <2>4 DEF OfferInv
<1>6. QED BY <1>3, <1>4, <1>5 DEF T!OfferRequest

LEMMA SourceActionsAreCurrent ==
  ASSUME TransferAssumption, OfferInv, SourceInv', NEW s \in T!Sources,
         NEW mask \in SUBSET Actions, T!SetSourceActions(s, mask)
  PROVE  OfferInv'
<1>1. offers \in [T!Offers -> T!Offer] /\ drag.offers \subseteq T!Offers
      /\ sources \in [T!Sources -> T!Source]
  BY DEF OfferInv, SourceInv, T!TypeOK, T!Drag
<1>2. offers' = T!Resolved(offers, sources', T!Offers)
      /\ UNCHANGED <<selection, drag, dropped>>
  BY DEF T!SetSourceActions
<1>3. \A o \in T!Offers : /\ offers'[o] \in T!Offer
                          /\ Unsettled(offers'[o]) = Unsettled(offers[o])
  BY <1>1, <1>2, ResolvedIs
<1>4. \A o \in T!Offers : offers'[o].kind = offers[o].kind
                          /\ offers'[o].source = offers[o].source
  BY <1>1, <1>3, UnsettledSame
<1>5. \A r \in T!Sources : sources'[r].role = sources[r].role
  BY <1>1 DEF T!SetSourceActions, T!Source
<1>6. QED BY <1>1, <1>2, <1>4, <1>5, StillCurrent

\* A drag lets go of its offers: cut, or dropped on.
LEMMA LetGoIsCurrent ==
  ASSUME TransferAssumption, OfferInv, SourceInv', selection' = selection,
         drag'.offers = {},
         \A o \in T!Offers \ drag.offers : offers'[o] = offers[o],
         \A s \in T!Sources : sources'[s].role = sources[s].role,
         \/ dropped' = dropped /\ \A o \in drag.offers : offers'[o] = T!NoOffer
         \/ /\ dropped' = dropped \cup {drag.source}
            /\ \A o \in drag.offers : offers'[o].kind = "dropped"
                                      /\ offers'[o].source = offers[o].source
  PROVE  OfferInv'
<1>1. drag.offers \subseteq T!Offers /\ T!NoOffer.kind = "absent"
  BY CutIs DEF OfferInv, SourceInv, T!TypeOK, T!Drag
<1>2. ASSUME NEW o \in T!Offers
      PROVE  Current(o)'
  <2>1. Current(o)
    BY DEF OfferInv
  <2>2. CASE o \notin drag.offers
    <3>1. offers'[o] = offers[o] /\ dropped \subseteq dropped'
      BY <2>2
    <3>2. offers[o].kind # "drag"
      BY <2>1, <2>2 DEF Current
    <3>3. QED BY <2>1, <3>1, <3>2 DEF Current
  <2>3. CASE o \in drag.offers
    <3>1. CASE offers'[o] = T!NoOffer
      BY <1>1, <3>1 DEF Current
    <3>2. CASE /\ dropped' = dropped \cup {drag.source}
               /\ offers'[o].kind = "dropped" /\ offers'[o].source = offers[o].source
      <4>1. offers[o].kind = "drag"
        BY <2>3 DEF OfferInv, DragOffersAreDrags
      <4>2. QED BY <2>1, <3>2, <4>1 DEF Current
    <3>3. QED BY <2>3, <3>1, <3>2
  <2>4. QED BY <2>2, <2>3
<1>3. QED BY <1>2 DEF OfferInv, DragOffersAreDrags

LEMMA CancelDragIsCurrent ==
  ASSUME TransferAssumption, OfferInv, SourceInv', UNCHANGED <<selection, dropped>>,
         T!CancelDrag
  PROVE  OfferInv'
<1>1. drag'.offers = {} /\ drag.offers \subseteq T!Offers
  BY DEF T!CancelDrag, T!NoDrag, OfferInv, SourceInv, T!TypeOK, T!Drag
<1>2. QED BY <1>1, CancelDragIs, LetGoIsCurrent DEF OfferInv, SourceInv

LEMMA ButtonUpIsCurrent ==
  ASSUME TransferAssumption, OfferInv, T!ButtonUp
  PROVE  OfferInv'
<1>1. SourceInv' /\ selection' = selection /\ drag'.offers = {}
      /\ offers \in [T!Offers -> T!Offer] /\ sources \in [T!Sources -> T!Source]
      /\ drag.offers \subseteq T!Offers
  BY ButtonUpKeepsFate DEF OfferInv, SourceInv, T!TypeOK, T!Drag, T!ButtonUp, T!NoDrag
<1>2. CASE T!Dropped /\ dropped' = dropped \cup {drag.source} /\ UNCHANGED sources
           /\ offers' = [o \in T!Offers |-> IF o \in drag.offers
                                            THEN [offers[o] EXCEPT !.kind = "dropped"]
                                            ELSE offers[o]]
  <2>1. \A o \in drag.offers : offers'[o].kind = "dropped"
                               /\ offers'[o].source = offers[o].source
    <3>1. SUFFICES ASSUME NEW o \in drag.offers
                   PROVE  offers'[o].kind = "dropped" /\ offers'[o].source = offers[o].source
      OBVIOUS
    <3>2. offers'[o] = [offers[o] EXCEPT !.kind = "dropped"] /\ offers[o] \in T!Offer
      BY <1>1, <1>2
    <3>3. QED BY <3>2 DEF T!Offer
  <2>2. \A o \in T!Offers \ drag.offers : offers'[o] = offers[o]
    BY <1>2
  <2>3. QED BY <1>1, <1>2, <2>1, <2>2, LetGoIsCurrent
<1>3. CASE /\ offers' = T!Cut(offers, drag.offers) /\ sources' = T!Cancelled(sources, T!Ended)
           /\ UNCHANGED dropped
  <2>1. \A o \in T!Offers : offers'[o] = IF o \in drag.offers THEN T!NoOffer ELSE offers[o]
    BY <1>1, <1>3, CutIs
  <2>2. \A s \in T!Sources : sources'[s].role = sources[s].role
    BY <1>1, <1>3, CancelledIs
  <2>3. QED BY <1>1, <1>3, <2>1, <2>2, LetGoIsCurrent
<1>4. CASE ~ drag.on /\ UNCHANGED <<offers, sources, dropped>>
  <2>1. drag.offers = {}
    BY <1>4 DEF OfferInv, SourceInv, DragIsItsSources, T!NoDrag
  <2>2. QED BY <1>1, <1>4, <2>1, LetGoIsCurrent
<1>5. QED BY <1>2, <1>3, <1>4 DEF T!ButtonUp

\* What the drag was over loses its offers, what it is over is given new ones.
LEMMA MoveDragIsCurrent ==
  ASSUME TransferAssumption, OfferInv, SourceInv', NEW t \in Clients \cup {NoClient},
         T!MoveDrag(t)
  PROVE  OfferInv'
<1>1. /\ offers' \in [T!Offers -> T!Offer]
      /\ drag' = [drag EXCEPT !.focus = t, !.offers = Dragged(t)]
      /\ Dragged(t) \subseteq T!Offers
      /\ \A o \in T!Offers :
           IF o \in Dragged(t)
           THEN Unsettled(offers'[o]) = T!NewOffer("drag", drag.source)
           ELSE offers'[o] = T!Cut(offers, drag.offers)[o]
  BY MoveDragOffers DEF OfferInv, SourceInv
<1>2. /\ offers \in [T!Offers -> T!Offer] /\ drag \in T!Drag
      /\ drag.on /\ UNCHANGED <<sources, selection, dropped>> /\ NoSource \notin T!Sources
  BY DEF OfferInv, SourceInv, T!TypeOK, T!MoveDrag, TransferAssumption, T!NamesAssumption
<1>3. /\ drag'.on = drag.on /\ drag'.source = drag.source
      /\ drag'.focus = t /\ drag'.offers = Dragged(t)
      /\ drag.source \in T!Sources \cup {NoSource}
  BY <1>1, <1>2 DEF T!Drag
<1>4. ASSUME NEW o \in Dragged(t)
      PROVE  /\ drag.source # NoSource /\ OwnerOf[o[1]] = t
             /\ offers'[o].kind = "drag" /\ offers'[o].source = drag.source
  <2>1. drag.source # NoSource /\ OwnerOf[o[1]] = t
    BY DEF Dragged, T!DataDevicesOf, T!DevicesOf
  <2>2. PICK new \in T!Offer : /\ new = T!NewOffer("drag", drag.source)
                               /\ new.kind = "drag" /\ new.source = drag.source
    BY <1>3, NewOfferIs
  <2>3. Unsettled(offers'[o]) = Unsettled(new)
    <3>1. new.resolved = T!NoAction
      BY <2>2 DEF T!NewOffer
    <3>2. QED BY <1>1, <2>2, <3>1, SettledOnNothing
  <2>4. offers'[o] \in T!Offer
    BY <1>1
  <2>5. QED BY <2>1, <2>2, <2>3, <2>4, UnsettledSame
<1>5. ASSUME NEW o \in T!Offers \ Dragged(t)
      PROVE  offers'[o] = IF o \in drag.offers THEN T!NoOffer ELSE offers[o]
  BY <1>1, <1>2, CutIs
<1>6. T!NoOffer.kind = "absent"
  BY <1>2, CutIs
<1>7. ASSUME NEW o \in T!Offers
      PROVE  Current(o)'
  <2>1. CASE o \in Dragged(t)
    <3>1. drag.source \in T!Sources /\ sources[drag.source].role = "drag"
      BY <1>3, <1>4, <2>1 DEF OfferInv, SourceInv, DragIsItsSources
    <3>2. QED BY <1>2, <1>3, <1>4, <2>1, <3>1 DEF Current
  <2>2. CASE o \notin Dragged(t) /\ o \in drag.offers
    BY <1>5, <1>6, <2>2 DEF Current
  <2>3. CASE o \notin Dragged(t) /\ o \notin drag.offers
    <3>1. Current(o) /\ offers'[o] = offers[o]
      BY <1>5, <2>3 DEF OfferInv
    <3>2. offers[o].kind # "absent" => offers[o].kind # "drag"
      BY <2>3, <3>1 DEF Current
    <3>3. QED BY <1>2, <3>1, <3>2 DEF Current
  <2>4. QED BY <2>1, <2>2, <2>3
<1>8. DragOffersAreDrags'
  BY <1>3, <1>4 DEF DragOffersAreDrags
<1>9. QED BY <1>7, <1>8 DEF OfferInv

LEMMA DestroySourceIsCurrent ==
  ASSUME TransferAssumption, OfferInv, NEW s \in T!Sources, T!DestroySource(s)
  PROVE  OfferInv'
<1>1. SourceInv'
  BY DestroySourceKeepsFate DEF OfferInv
<1>2. /\ offers \in [T!Offers -> T!Offer] /\ sources \in [T!Sources -> T!Source]
      /\ drag.offers \subseteq T!Offers /\ NoSource \notin T!Sources
      /\ selection \in [T!Selections -> T!Sources \cup {NoSource}]
  BY DEF OfferInv, SourceInv, T!TypeOK, T!Drag, TransferAssumption, T!NamesAssumption
<1>3. PICK these : /\ these = (IF drag.on /\ drag.source = s THEN drag.offers ELSE {})
                                \cup T!From(offers, {s})
                   /\ offers' = T!Cut(offers, these)
  BY DEF T!DestroySource
<1>4. /\ sources' = [sources EXCEPT ![s] = T!Absent] /\ selection' = T!Cleared({s})
      /\ dropped' = dropped
      /\ drag' = IF drag.on /\ drag.source = s THEN T!NoDrag ELSE drag
  BY DEF T!DestroySource
<1>5. \A sel \in T!Selections : selection[sel] # s => selection'[sel] = selection[sel]
  BY <1>4 DEF T!Cleared
<1>6. /\ \A o \in T!Offers : offers'[o] = IF o \in these THEN T!NoOffer ELSE offers[o]
      /\ T!NoOffer.kind = "absent"
  <2>1. offers' = T!Cut(offers, these)
    BY <1>3
  <2>2. offers \in [T!Offers -> T!Offer]
    BY <1>2
  <2>3. QED BY <2>1, <2>2, CutIs
<1>7. \A o \in T!Offers \ these : offers[o].source # s
                                  /\ (drag.on /\ drag.source = s => o \notin drag.offers)
  BY <1>3 DEF T!From
<1>8. ASSUME NEW o \in T!Offers
      PROVE  Current(o)'
  <2>1. CASE o \in these
    BY <1>6, <2>1 DEF Current
  <2>2. CASE o \notin these
    <3>1. Current(o) /\ offers'[o] = offers[o] /\ offers[o].source # s
      BY <1>6, <1>7, <2>2 DEF OfferInv
    <3>2. QED BY <1>2, <1>4, <1>5, <3>1 DEF Current
  <2>3. QED BY <2>1, <2>2
<1>9. DragOffersAreDrags'
  <2>1. ASSUME NEW o \in drag'.offers
        PROVE  offers'[o].kind = "drag"
    <3>1. ~(drag.on /\ drag.source = s) /\ o \in drag.offers /\ o \in T!Offers
      BY <1>2, <1>4, <2>1 DEF T!NoDrag
    <3>2. offers[o].kind = "drag" /\ Current(o)
      BY <3>1 DEF OfferInv, DragOffersAreDrags
    <3>3. o \notin these
      BY <1>3, <3>1, <3>2 DEF Current, T!From
    <3>4. QED BY <1>6, <3>1, <3>2, <3>3
  <2>2. QED BY <2>1 DEF DragOffersAreDrags
<1>10. QED BY <1>1, <1>8, <1>9 DEF OfferInv

LEMMA DestroySurfaceIsCurrent ==
  ASSUME TransferAssumption, OfferInv, NEW c \in Clients, T!DestroySurface(c)
  PROVE  OfferInv'
<1>1. SourceInv' /\ selection' = selection /\ dropped' = dropped
      /\ offers \in [T!Offers -> T!Offer] /\ drag \in T!Drag /\ drag.offers \subseteq T!Offers
  BY DestroySurfaceKeepsFate DEF OfferInv, SourceInv, T!DestroySurface, T!TypeOK, T!Drag
<1>2. CASE T!CancelDrag
  BY <1>1, <1>2, CancelDragIsCurrent
<1>3. CASE /\ sources' = sources /\ offers' = T!Cut(offers, drag.offers)
           /\ drag' = [drag EXCEPT !.focus = NoClient, !.offers = {}]
  <2>1. \A o \in T!Offers : offers'[o] = IF o \in drag.offers THEN T!NoOffer ELSE offers[o]
    BY <1>1, <1>3, CutIs
  <2>2. drag'.offers = {}
    BY <1>1, <1>3 DEF T!Drag
  <2>3. QED BY <1>1, <1>3, <2>1, <2>2, LetGoIsCurrent
<1>4. CASE UNCHANGED <<sources, offers, drag>>
  BY <1>1, <1>4, StillCurrent
<1>5. QED BY <1>2, <1>3, <1>4 DEF T!DestroySurface

LEMMA DisconnectIsCurrent ==
  ASSUME TransferAssumption, OfferInv, NEW c \in Clients, T!Disconnect(c)
  PROVE  OfferInv'
<1>1. SourceInv'
  BY DisconnectKeepsFate DEF OfferInv
<1>2. /\ sources' = [s \in T!Sources |-> IF OwnerOf[s] = c THEN T!Absent ELSE sources[s]]
      /\ selection' = T!Cleared(T!SourcesOf(c)) /\ dropped' = dropped
      /\ drag' = CASE drag.on /\ drag.origin = c -> T!NoDrag
                   [] drag.on /\ drag.focus = c /\ ~ (drag.on /\ drag.origin = c) ->
                        [drag EXCEPT !.focus = NoClient, !.offers = {}]
                   [] OTHER -> drag
  BY DisconnectIs DEF Cleared
<1>3. /\ offers' \in [T!Offers -> T!Offer]
      /\ \A o \in T!Offers :
           \/ offers'[o] = T!NoOffer
           \/ offers'[o] = offers[o] /\ Spared(c, o)
           \/ \E sel \in T!Selections :
                /\ selection'[sel] # NoSource
                /\ offers'[o] = T!NewOffer("selection", selection'[sel])
      /\ \A o \in T!Offers : offers[o].kind # "absent" /\ Spared(c, o) => offers'[o] = offers[o]
  BY DisconnectOffers DEF OfferInv, SourceInv
<1>4. /\ drag \in T!Drag /\ drag.offers \subseteq T!Offers
      /\ selection' \in [T!Selections -> T!Sources \cup {NoSource}]
      /\ NoSource \notin T!Sources /\ T!NoOffer.kind = "absent"
  BY <1>1, NewOfferIs DEF OfferInv, SourceInv, T!TypeOK, T!Drag, TransferAssumption,
     T!NamesAssumption, T!NoOffer
<1>5. \A sel \in T!Selections :
        selection[sel] \notin T!SourcesOf(c) => selection'[sel] = selection[sel]
  BY <1>2 DEF T!Cleared
<1>6. ASSUME NEW o \in T!Offers, Current(o), Spared(c, o), offers[o].kind # "absent"
      PROVE  /\ sources'[offers[o].source] = sources[offers[o].source]
             /\ offers[o].kind = "drag" => drag' = drag
  <2>1. offers[o].source \in T!Sources /\ offers[o].source \notin T!SourcesOf(c)
    BY <1>6 DEF Current, Spared
  <2>2. sources'[offers[o].source] = sources[offers[o].source]
    BY <1>2, <2>1 DEF T!SourcesOf
  <2>3. ASSUME offers[o].kind = "drag"
        PROVE  drag.focus # c /\ drag.origin # c
    BY <1>6, <2>3 DEF Current, Spared
  <2>4. QED BY <1>2, <2>2, <2>3
<1>7. ASSUME NEW o \in T!Offers
      PROVE  Current(o)'
  <2>1. CASE offers'[o] = T!NoOffer
    BY <1>4, <2>1 DEF Current
  <2>2. CASE offers'[o] = offers[o] /\ Spared(c, o)
    <3>1. Current(o)
      BY DEF OfferInv
    <3>2. offers[o].source \notin T!SourcesOf(c)
      BY <2>2 DEF Spared
    <3>3. QED BY <1>2, <1>5, <1>6, <2>2, <3>1, <3>2 DEF Current
  <2>3. ASSUME NEW sel \in T!Selections, selection'[sel] # NoSource,
               offers'[o] = T!NewOffer("selection", selection'[sel])
        PROVE  Current(o)'
    <3>1. PICK s \in T!Sources : s = selection'[sel]
      BY <1>4, <2>3
    <3>2. sources'[s].role # "absent"
      BY <1>1, <2>3, <3>1 DEF SourceInv, SelectionsAreHeld, T!Live
    <3>3. offers'[o].kind = "selection" /\ offers'[o].source = s
      BY <2>3, <3>1, NewOfferIs
    <3>4. QED BY <3>1, <3>2, <3>3 DEF Current
  <2>4. QED BY <1>3, <2>1, <2>2, <2>3
<1>8. DragOffersAreDrags'
  <2>1. ASSUME NEW o \in drag'.offers
        PROVE  offers'[o].kind = "drag"
    <3>1. drag.on => drag.origin # c /\ drag.focus # c
      BY <1>2, <1>4, <2>1 DEF T!NoDrag, T!Drag
    <3>2. drag.on /\ o \in drag.offers /\ o \in T!Offers
      BY <1>2, <1>4, <2>1, <3>1 DEF OfferInv, SourceInv, DragIsItsSources, T!NoDrag
    <3>3. offers[o].kind = "drag" /\ Current(o)
      BY <3>2 DEF OfferInv, DragOffersAreDrags
    <3>4. OwnerOf[o[1]] # c /\ offers[o].source = drag.source /\ drag.source # NoSource
      BY <1>4, <3>1, <3>2, <3>3 DEF Current
    <3>5. offers[o].source \notin T!SourcesOf(c)
      BY <3>1, <3>2, <3>4 DEF OfferInv, SourceInv, DragIsItsSources, T!SourcesOf
    <3>6. Spared(c, o)
      BY <3>1, <3>2, <3>4, <3>5 DEF Spared
    <3>7. QED BY <1>3, <3>2, <3>3, <3>6
  <2>2. QED BY <2>1 DEF DragOffersAreDrags
<1>9. QED BY <1>1, <1>7, <1>8 DEF OfferInv

LEMMA StepIsCurrent ==
  ASSUME TransferAssumption, OfferInv, [T!Next]_T!vars
  PROVE  OfferInv'
<1>1. SourceInv' /\ T!TypeOK /\ drag.offers \subseteq T!Offers
      /\ offers \in [T!Offers -> T!Offer] /\ sources \in [T!Sources -> T!Source]
  BY SourceStepKeeps DEF OfferInv, SourceInv, T!TypeOK, T!Drag
<1>2. ASSUME UNCHANGED <<sources, offers, selection, drag, dropped>>
      PROVE  OfferInv'
  BY <1>1, <1>2, StillCurrent
<1>3. ASSUME NEW s \in T!Sources, T!SourceRequest(s)
      PROVE  OfferInv'
  <2>1. CASE T!CreateSource(s)
    <3>1. /\ offers' = offers /\ selection' = selection /\ drag' = drag
          /\ dropped' = dropped \ {s} /\ sources[s].role = "absent"
          /\ sources' = [sources EXCEPT ![s] = T!NewSource]
      BY <2>1 DEF T!CreateSource, T!Live
    <3>2. ASSUME NEW o \in T!Offers
          PROVE  Current(o)'
      <4>1. Current(o)
        BY DEF OfferInv
      <4>2. offers[o].kind # "absent" =>
              offers[o].source # s /\ sources'[offers[o].source] = sources[offers[o].source]
        BY <1>1, <3>1, <4>1 DEF Current
      <4>3. QED BY <3>1, <4>1, <4>2 DEF Current
    <3>3. DragOffersAreDrags'
      BY <3>1 DEF OfferInv, DragOffersAreDrags
    <3>4. QED BY <1>1, <3>2, <3>3 DEF OfferInv
  <2>2. QED BY <1>1, <1>3, <2>1, DestroySourceIsCurrent, SourceActionsAreCurrent
            DEF T!SourceRequest
<1>4. ASSUME NEW d \in T!Devices, T!DeviceRequest(d)
      PROVE  OfferInv'
  <2>1. CASE T!GetDevice(d)
    <3>1. PICK ds : Adds(offers, offers', "selection", Held, ds)
      BY <1>1, <2>1, GetDeviceOffers
    <3>2. UNCHANGED <<sources, selection, drag, dropped>>
      BY <2>1 DEF T!GetDevice
    <3>3. QED BY <1>1, <3>1, <3>2, GivingIsCurrent
  <2>2. CASE T!ReleaseDevice(d)
    BY <1>2, <2>2 DEF T!ReleaseDevice
  <2>3. ASSUME NEW s \in T!Sources \cup {NoSource}, T!StartDrag(d, s)
        PROVE  OfferInv'
    <3>1. /\ ~ drag.on /\ drag'.offers = {} /\ UNCHANGED <<offers, selection, dropped>>
      BY <2>3 DEF T!StartDrag, T!NoDrag
    <3>2. drag.offers = {}
      BY <3>1 DEF OfferInv, SourceInv, DragIsItsSources, T!NoDrag
    <3>3. \A r \in T!Sources : sources[r].role # "absent" => sources'[r].role # "absent"
      BY <1>1, <2>3 DEF T!StartDrag, T!Source
    <3>4. QED BY <1>1, <3>1, <3>2, <3>3, StillCurrent
  <2>4. QED BY <1>4, <2>1, <2>2, <2>3, SelectionIsCurrent DEF T!DeviceRequest
<1>5. ASSUME NEW c \in Clients, T!CreateSurface(c)
      PROVE  OfferInv'
  BY <1>2, <1>5 DEF T!CreateSurface
<1>6. ASSUME NEW c \in Clients, T!Focus(c)
      PROVE  OfferInv'
  <2>1. PICK ds : Adds(offers, offers', "selection", Held, ds)
    BY <1>1, <1>6, FocusOffers
  <2>2. UNCHANGED <<sources, selection, drag, dropped>>
    BY <1>6 DEF T!Focus
  <2>3. QED BY <1>1, <2>1, <2>2, GivingIsCurrent
<1>7. CASE T!Request
  BY <1>3, <1>4, <1>5, <1>7, OfferRequestIsCurrent, DestroySurfaceIsCurrent, DisconnectIsCurrent
     DEF T!Request
<1>8. CASE T!Unfocus \/ T!ButtonDown
  BY <1>2, <1>8 DEF T!Unfocus, T!ButtonDown
<1>9. CASE T!Escape
  BY <1>1, <1>9, CancelDragIsCurrent DEF T!Escape
<1>10. CASE T!User
  BY <1>1, <1>6, <1>8, <1>9, <1>10, MoveDragIsCurrent, ButtonUpIsCurrent DEF T!User
<1>11. CASE UNCHANGED T!vars
  BY <1>2, <1>11 DEF T!vars
<1>12. QED BY <1>7, <1>10, <1>11 DEF T!Next

LEMMA InitOffers == ASSUME TransferAssumption PROVE T!Init => OfferInv
<1>1. SUFFICES ASSUME T!Init PROVE OfferInv
  OBVIOUS
<1>2. SourceInv
  BY <1>1, InitSources
<1>3. T!NoOffer.kind = "absent"
  BY NewOfferIs DEF T!NoOffer
<1>4. drag.offers = {} /\ \A o \in T!Offers : offers[o].kind = "absent"
  BY <1>1, <1>3 DEF T!Init, T!NoDrag
<1>5. QED BY <1>2, <1>4 DEF OfferInv, Current, DragOffersAreDrags

\* A client that reads an offer reads what it was offered as, or nothing: the
\* selection, the drag that is over it, or what was dropped on it, of a client
\* that is still there (invalidate_offer, invalidate_offers_from, update_drag).
THEOREM OffersReadWhatTheySay ==
  ASSUME TransferAssumption
  PROVE  T!Spec => []T!OffersAreCurrent
<1>1. OfferInv /\ [T!Next]_(T!vars) => OfferInv'
  BY StepIsCurrent
<1>2. OfferInv => T!OffersAreCurrent
  BY CurrentKindByKind DEF OfferInv, SourceInv
<1>3. QED BY <1>1, <1>2, InitOffers, PTL DEF T!Spec

-----------------------------------------------------------------------------
(* Whoever is entitled to a selection is told.                             *)

\* What a device with a right to a selection was told it is.
Knows(d, sel) ==
  d \in devices \cap T!Hearing(sel) /\ (d \in ControlDevices \/ OwnerOf[d] = focus) =>
    told[d][sel] = selection[sel]

KnowInv == T!TypeOK /\ \A sel \in T!Selections : \A d \in T!Devices : Knows(d, sel)

LEMMA KnowsIsEntitled == KnowInv => T!EntitledKnow
BY DEF KnowInv, Knows, T!EntitledKnow, T!TypeOK

LEMMA AudienceIs ==
  ASSUME T!TypeOK, NEW f, NEW sel, NEW d
  PROVE  d \in T!Audience(f, sel) <=>
           d \in devices \cap T!Hearing(sel) /\ (d \in ControlDevices \/ OwnerOf[d] = f)
BY DEF T!Audience, T!Following, T!DevicesOf, T!TypeOK

LEMMA SelectionIsTold ==
  ASSUME TransferAssumption, KnowInv, NEW d \in T!Devices, NEW sel \in T!Selections,
         NEW s \in T!Sources \cup {NoSource}, T!SetSelection(d, sel, s)
  PROVE  KnowInv'
<1>1. T!TypeOK'
  BY SelectionTyped DEF KnowInv
<1>2. /\ devices' = devices /\ focus' = focus /\ selection' = [selection EXCEPT ![sel] = s]
      /\ selection \in [T!Selections -> T!Sources \cup {NoSource}]
      /\ told' = T!Hears(told, T!Audience(focus, sel), sel, s) /\ told \in Hearsay
  BY DEF T!SetSelection, T!owners, KnowInv, T!TypeOK, Hearsay, Heardof
<1>3. \A e \in T!Devices, other \in T!Selections :
        told'[e][other] = IF e \in T!Audience(focus, sel) /\ other = sel THEN s
                                                                       ELSE told[e][other]
  BY <1>2, HearsIs
<1>4. ASSUME NEW other \in T!Selections, NEW e \in T!Devices
      PROVE  Knows(e, other)'
  <2>1. Knows(e, other)
    BY DEF KnowInv
  <2>2. T!Hearing(other)' = T!Hearing(other)
    BY DEF T!Hearing
  <2>3. QED BY <1>2, <1>3, <2>1, <2>2, AudienceIs DEF Knows, KnowInv
<1>5. QED BY <1>1, <1>4 DEF KnowInv

\* A focus that comes to a client, or a device that is new, is told of both.
LEMMA BothAreTold ==
  ASSUME TransferAssumption, KnowInv, T!TypeOK', NEW ds, NEW es,
         selection' = selection, told' = T!ToldBoth(told, selection, ds, es),
         \A d \in T!Devices, sel \in T!Selections :
           d \in devices' \cap T!Hearing(sel) /\ (d \in ControlDevices \/ OwnerOf[d] = focus') =>
             \/ d \in devices /\ (d \in ControlDevices \/ OwnerOf[d] = focus)
             \/ d \in (IF sel = "clipboard" THEN ds ELSE es)
  PROVE  KnowInv'
<1>1. told \in Hearsay /\ selection \in [T!Selections -> T!Sources \cup {NoSource}]
  BY DEF KnowInv, T!TypeOK, Hearsay, Heardof
<1>2. \A d \in T!Devices, sel \in T!Selections :
        told'[d][sel] = IF \/ sel = "clipboard" /\ d \in ds
                           \/ sel = "primary" /\ d \in es
                        THEN selection[sel] ELSE told[d][sel]
  BY <1>1, ToldBothIs
<1>3. ASSUME NEW sel \in T!Selections, NEW d \in T!Devices
      PROVE  Knows(d, sel)'
  <2>1. Knows(d, sel) /\ (sel = "clipboard" \/ sel = "primary")
    BY DEF KnowInv, T!Selections
  <2>2. T!Hearing(sel)' = T!Hearing(sel)
    BY DEF T!Hearing
  <2>3. QED BY <1>2, <2>1, <2>2 DEF Knows
<1>4. QED BY <1>3 DEF KnowInv

LEMMA FocusIsTold ==
  ASSUME TransferAssumption, KnowInv, NEW c \in Clients, T!Focus(c)
  PROVE  KnowInv'
<1>1. T!TypeOK' /\ T!TypeOK
  BY FocusTyped DEF KnowInv
<1>2. /\ told' = T!ToldBoth(told, selection, T!Following(c, "clipboard"),
                            T!Following(c, "primary"))
      /\ selection' = selection /\ devices' = devices /\ focus' = c
  BY DEF T!Focus, T!owners
<1>3. ASSUME NEW d \in T!Devices, NEW sel \in T!Selections,
             d \in devices' \cap T!Hearing(sel), d \in ControlDevices \/ OwnerOf[d] = focus'
      PROVE  \/ d \in devices /\ (d \in ControlDevices \/ OwnerOf[d] = focus)
             \/ d \in (IF sel = "clipboard" THEN T!Following(c, "clipboard")
                                            ELSE T!Following(c, "primary"))
  <2>1. sel = "clipboard" \/ sel = "primary"
    BY DEF T!Selections
  <2>2. QED BY <1>2, <1>3, <2>1 DEF T!Following, T!DevicesOf
<1>4. QED BY <1>1, <1>2, <1>3, BothAreTold

LEMMA NewDeviceIsTold ==
  ASSUME TransferAssumption, KnowInv, NEW d \in T!Devices, T!GetDevice(d)
  PROVE  KnowInv'
<1>1. T!TypeOK' /\ T!TypeOK
  BY GetDeviceTyped DEF KnowInv
<1>2. /\ told' = T!ToldBoth(told, selection, T!AtOnce(d, "clipboard"), T!AtOnce(d, "primary"))
      /\ selection' = selection /\ devices' = devices \cup {d} /\ focus' = focus
  BY DEF T!GetDevice
<1>3. ASSUME NEW e \in T!Devices, NEW sel \in T!Selections,
             e \in devices' \cap T!Hearing(sel), e \in ControlDevices \/ OwnerOf[e] = focus'
      PROVE  \/ e \in devices /\ (e \in ControlDevices \/ OwnerOf[e] = focus)
             \/ e \in (IF sel = "clipboard" THEN T!AtOnce(d, "clipboard")
                                            ELSE T!AtOnce(d, "primary"))
  <2>1. sel = "clipboard" \/ sel = "primary"
    BY DEF T!Selections
  <2>2. QED BY <1>2, <1>3, <2>1 DEF T!AtOnce
<1>4. QED BY <1>1, <1>2, <1>3, BothAreTold

\* A selection that a source held is nothing, to those who are entitled to it.
LEMMA GoneSourceIsTold ==
  ASSUME TransferAssumption, KnowInv, NEW s \in T!Sources, T!DestroySource(s)
  PROVE  KnowInv'
<1>1. T!TypeOK' /\ T!TypeOK
  BY DestroySourceTyped DEF KnowInv
<1>2. /\ selection' = T!Cleared({s}) /\ told' = T!ToldCleared(told, focus, {s})
      /\ devices' = devices /\ focus' = focus /\ told \in Hearsay
  BY <1>1 DEF T!DestroySource, T!owners, T!TypeOK, Hearsay, Heardof
<1>3. PICK ss : ss = {s}
  OBVIOUS
<1>4. \A d \in T!Devices, sel \in T!Selections :
        told'[d][sel] = IF selection[sel] \in ss /\ d \in T!Audience(focus, sel)
                        THEN NoSource ELSE told[d][sel]
  <2>1. told' = T!ToldCleared(told, focus, ss)
    BY <1>2, <1>3
  <2>2. told \in Hearsay
    BY <1>2
  <2>3. QED BY <2>1, <2>2, ToldClearedIs
<1>5. \A sel \in T!Selections :
        selection'[sel] = IF selection[sel] \in ss THEN NoSource ELSE selection[sel]
  <2>1. selection' = T!Cleared(ss)
    BY <1>2, <1>3
  <2>2. QED BY <1>1, <2>1, ClearedIs
<1>6. ASSUME NEW sel \in T!Selections, NEW d \in T!Devices
      PROVE  Knows(d, sel)'
  <2>1. Knows(d, sel)
    BY DEF KnowInv
  <2>2. T!Hearing(sel)' = T!Hearing(sel)
    BY DEF T!Hearing
  <2>3. QED BY <1>1, <1>2, <1>4, <1>5, <2>1, <2>2, AudienceIs DEF Knows
<1>7. QED BY <1>1, <1>6 DEF KnowInv

\* A client that goes takes its devices and selections with it; the others hear
\* of that, and the one that has the focus then, of both selections.
LEMMA DisconnectIsTold ==
  ASSUME TransferAssumption, KnowInv, NEW c \in Clients, T!Disconnect(c)
  PROVE  KnowInv'
<1>1. T!TypeOK' /\ T!TypeOK
  BY DisconnectTyped DEF KnowInv
<1>2. PICK hooked \in Hooked(c), refocused \in Refocused(c) :
        /\ devices' = devices \ T!DevicesOf(c) /\ selection' = Cleared(c)
        /\ focus' = After(c, hooked, refocused)
        /\ told' = T!ToldBoth(SweptTold(c, hooked), Cleared(c),
                     Newly(After(c, hooked, refocused), Between(c, hooked), "clipboard"),
                     Newly(After(c, hooked, refocused), Between(c, hooked), "primary"))
  BY DisconnectIs
<1>3. PICK swept : swept = SweptTold(c, hooked)
  OBVIOUS
<1>4. PICK hook : hook = ToldOfHook(hooked)
  OBVIOUS
<1>5. /\ swept \in Hearsay
      /\ \A d \in T!Devices, sel \in T!Selections :
           /\ hook[d][sel] =
                IF d \in Newly(hooked, focus, sel) THEN selection[sel] ELSE told[d][sel]
           /\ swept[d][sel] =
                IF OwnerOf[d] = c THEN Never
                ELSE IF selection[sel] \in T!SourcesOf(c) /\ d \in T!Audience(hooked, sel)
                THEN NoSource ELSE hook[d][sel]
  BY <1>1, <1>3, <1>4, SweptToldIs
<1>6. /\ selection' \in [T!Selections -> T!Sources \cup {NoSource}]
      /\ \A sel \in T!Selections :
           selection'[sel] = IF selection[sel] \in T!SourcesOf(c) THEN NoSource
                                                                  ELSE selection[sel]
  BY <1>1, <1>2, ClearedIs DEF Cleared
<1>7. \A d \in T!Devices, sel \in T!Selections :
        told'[d][sel] =
          IF d \in Newly(After(c, hooked, refocused), Between(c, hooked), sel)
          THEN selection'[sel] ELSE swept[d][sel]
  <2>1. PICK fs, gs : /\ fs = Newly(After(c, hooked, refocused), Between(c, hooked), "clipboard")
                      /\ gs = Newly(After(c, hooked, refocused), Between(c, hooked), "primary")
    OBVIOUS
  <2>2. told' = T!ToldBoth(swept, selection', fs, gs)
    BY <1>2, <1>3, <2>1
  <2>3. \A d \in T!Devices, sel \in T!Selections :
          told'[d][sel] = IF \/ sel = "clipboard" /\ d \in fs
                             \/ sel = "primary" /\ d \in gs
                          THEN selection'[sel] ELSE swept[d][sel]
    BY <1>5, <1>6, <2>2, ToldBothIs
  <2>4. \A sel \in T!Selections : sel = "clipboard" \/ sel = "primary"
    BY DEF T!Selections
  <2>5. QED BY <2>1, <2>3, <2>4
<1>8. focus' # c \/ focus' = NoClient
  BY <1>2 DEF After, Between, Refocused
<1>9. NoClient \notin Clients /\ \A d \in T!Devices : OwnerOf[d] \in Clients
  BY PartsAreTyped DEF TransferAssumption, T!NamesAssumption
<1>10. ASSUME NEW sel \in T!Selections, NEW d \in T!Devices,
              d \in devices', d \in T!Hearing(sel), d \in ControlDevices \/ OwnerOf[d] = focus'
       PROVE  told'[d][sel] = selection'[sel]
  <2>1. d \in devices /\ OwnerOf[d] # c
    BY <1>2, <1>10 DEF T!DevicesOf
  <2>2. ASSUME d \in ControlDevices \/ OwnerOf[d] = hooked
        PROVE  swept[d][sel] = selection'[sel]
    <3>1. hook[d][sel] = selection[sel]
      <4>1. CASE d \in ControlDevices \/ hooked = focus
        <5>1. told[d][sel] = selection[sel]
          BY <1>10, <2>1, <2>2, <4>1 DEF KnowInv, Knows
        <5>2. QED BY <1>5, <5>1
      <4>2. CASE d \notin ControlDevices /\ hooked # focus
        <5>1. hooked # NoClient
          BY <1>9, <2>2, <4>2
        <5>2. d \in Newly(hooked, focus, sel)
          BY <1>10, <2>1, <2>2, <4>2, <5>1 DEF Newly, T!Following, T!DevicesOf
        <5>3. QED BY <1>5, <5>2
      <4>3. QED BY <4>1, <4>2
    <3>2. d \in T!Audience(hooked, sel)
      BY <1>1, <1>10, <2>1, <2>2, AudienceIs
    <3>3. QED BY <1>5, <1>6, <2>1, <3>1, <3>2
  <2>3. CASE d \in ControlDevices \/ OwnerOf[d] = hooked
    BY <1>7, <2>2, <2>3
  <2>4. CASE d \notin ControlDevices /\ OwnerOf[d] # hooked
    <3>1. OwnerOf[d] = After(c, hooked, refocused)
      BY <1>2, <1>10, <2>4
    <3>2. After(c, hooked, refocused) \notin {Between(c, hooked), NoClient}
      BY <1>9, <2>4, <3>1 DEF Between
    <3>3. d \in Newly(After(c, hooked, refocused), Between(c, hooked), sel)
      BY <1>10, <2>1, <2>4, <3>1, <3>2 DEF Newly, T!Following, T!DevicesOf
    <3>4. QED BY <1>7, <3>3
  <2>5. QED BY <2>3, <2>4
<1>11. ASSUME NEW sel \in T!Selections, NEW d \in T!Devices
       PROVE  Knows(d, sel)'
  <2>1. T!Hearing(sel)' = T!Hearing(sel)
    BY DEF T!Hearing
  <2>2. QED BY <1>10, <2>1 DEF Knows
<1>12. QED BY <1>1, <1>11 DEF KnowInv

LEMMA StepIsTold ==
  ASSUME TransferAssumption, KnowInv, [T!Next]_T!vars
  PROVE  KnowInv'
<1>1. T!TypeOK' /\ T!TypeOK
  BY NextTransferTyped DEF KnowInv
<1>2. NoClient \notin Clients /\ \A d \in T!Devices : OwnerOf[d] \in Clients
  BY PartsAreTyped DEF TransferAssumption, T!NamesAssumption
<1>3. ASSUME UNCHANGED selection, devices' \subseteq devices, focus' \in {focus, NoClient},
             \A d \in devices' : told'[d] = told[d]
      PROVE  KnowInv'
  <2>1. ASSUME NEW sel \in T!Selections, NEW d \in T!Devices
        PROVE  Knows(d, sel)'
    <3>1. Knows(d, sel) /\ T!Hearing(sel)' = T!Hearing(sel)
      BY DEF KnowInv, T!Hearing
    <3>2. QED BY <1>2, <1>3, <3>1 DEF Knows
  <2>2. QED BY <1>1, <2>1 DEF KnowInv
<1>4. CASE \E s \in T!Sources : T!SourceRequest(s)
  <2>1. ASSUME NEW s \in T!Sources, T!CreateSource(s) \/
               \E mask \in SUBSET Actions : T!SetSourceActions(s, mask)
        PROVE  KnowInv'
    BY <1>3, <2>1 DEF T!CreateSource, T!SetSourceActions, T!owners
  <2>2. QED BY <1>4, <2>1, GoneSourceIsTold DEF T!SourceRequest
<1>5. ASSUME NEW d \in T!Devices, T!DeviceRequest(d)
      PROVE  KnowInv'
  <2>1. CASE T!ReleaseDevice(d)
    <3>1. /\ UNCHANGED <<selection, focus>> /\ devices' = devices \ {d}
          /\ told' = [told EXCEPT ![d] = [sel \in T!Selections |-> Never]]
      BY <2>1 DEF T!ReleaseDevice
    <3>2. \A e \in devices' : told'[e] = told[e]
      BY <1>1, <3>1 DEF T!TypeOK
    <3>3. QED BY <1>3, <3>1, <3>2
  <2>2. ASSUME NEW s \in T!Sources \cup {NoSource}, T!StartDrag(d, s)
        PROVE  KnowInv'
    BY <1>3, <2>2 DEF T!StartDrag, T!owners
  <2>3. QED BY <1>5, <2>1, <2>2, NewDeviceIsTold, SelectionIsTold DEF T!DeviceRequest
<1>6. ASSUME NEW o \in T!Offers, T!OfferRequest(o)
      PROVE  KnowInv'
  BY <1>3, <1>6 DEF T!OfferRequest, T!Accept, T!SetOfferActions, T!Answered, T!Finish,
                    T!DestroyOffer, T!owners
<1>7. ASSUME NEW c \in Clients, T!CreateSurface(c) \/ T!DestroySurface(c)
      PROVE  KnowInv'
  BY <1>3, <1>7 DEF T!CreateSurface, T!DestroySurface
<1>8. CASE T!Request
  BY <1>4, <1>5, <1>6, <1>7, <1>8, DisconnectIsTold DEF T!Request
<1>9. CASE T!Unfocus \/ T!ButtonDown \/ T!ButtonUp \/ T!Escape
  BY <1>3, <1>9 DEF T!Unfocus, T!ButtonDown, T!ButtonUp, T!Escape, T!owners
<1>10. ASSUME NEW t \in Clients \cup {NoClient}, T!MoveDrag(t)
       PROVE  KnowInv'
  BY <1>3, <1>10 DEF T!MoveDrag, T!owners
<1>11. CASE T!User
  BY <1>9, <1>10, <1>11, FocusIsTold DEF T!User
<1>12. CASE UNCHANGED T!vars
  BY <1>3, <1>12 DEF T!vars, T!owners
<1>13. QED BY <1>8, <1>11, <1>12 DEF T!Next

LEMMA InitKnow == ASSUME TransferAssumption PROVE T!Init => KnowInv
BY InitTransferTyped DEF T!Init, KnowInv, Knows

\* The client that has the focus, and every manager of selections, know what the
\* selections are, whichever of the focus, the selection and the device came last
\* and whoever went (announce_selection, switch_focus, get_data_device,
\* clear_selection, remove_client_resources).
THEOREM EntitledAreTold ==
  ASSUME TransferAssumption
  PROVE  T!Spec => []T!EntitledKnow
<1>1. KnowInv /\ [T!Next]_(T!vars) => KnowInv'
  BY StepIsTold
<1>2. QED BY <1>1, InitKnow, KnowsIsEntitled, PTL DEF T!Spec

-----------------------------------------------------------------------------
(* Nobody is left believing in a drag.                                     *)

EnteredInv == T!TypeOK /\ T!NobodyLeftEntered

\* All who were told of an enter are told of the end.
LEMMA AllLeave == EnteredInv => entered \ T!Left = {}
BY DEF EnteredInv, T!TypeOK, T!NobodyLeftEntered, T!Left, T!DataDevicesOf, T!DevicesOf

LEMMA StepLeavesNobody ==
  ASSUME TransferAssumption, EnteredInv, [T!Next]_T!vars
  PROVE  EnteredInv'
<1>1. T!TypeOK' /\ drag \in T!Drag
  BY NextTransferTyped DEF EnteredInv, T!TypeOK
<1>2. ASSUME entered' \subseteq entered, drag'.on = drag.on, drag'.focus = drag.focus
      PROVE  EnteredInv'
  BY <1>1, <1>2 DEF EnteredInv, T!NobodyLeftEntered
<1>3. ASSUME entered' = {}
      PROVE  EnteredInv'
  BY <1>1, <1>3 DEF EnteredInv, T!NobodyLeftEntered
<1>4. ASSUME NEW s \in T!Sources, T!SourceRequest(s)
      PROVE  EnteredInv'
  <2>1. CASE T!DestroySource(s)
    BY <1>2, <1>3, <2>1, AllLeave DEF T!DestroySource
  <2>2. QED BY <1>2, <1>4, <2>1 DEF T!SourceRequest, T!CreateSource, T!SetSourceActions
<1>5. ASSUME NEW d \in T!Devices, T!DeviceRequest(d)
      PROVE  EnteredInv'
  <2>1. ASSUME NEW s \in T!Sources \cup {NoSource}, T!StartDrag(d, s)
        PROVE  EnteredInv'
    <3>1. ~ drag.on /\ entered' = entered
      BY <2>1 DEF T!StartDrag
    <3>2. entered' = {}
      BY <3>1 DEF EnteredInv, T!NobodyLeftEntered
    <3>3. QED BY <1>3, <3>2
  <2>2. QED BY <1>2, <1>5, <2>1 DEF T!DeviceRequest, T!GetDevice, T!ReleaseDevice, T!SetSelection
<1>6. ASSUME NEW o \in T!Offers, T!OfferRequest(o)
      PROVE  EnteredInv'
  <2>1. /\ entered' = entered
        /\ drag' = drag \/ drag' = [drag EXCEPT !.offers = @ \ {o}]
    BY <1>6 DEF T!OfferRequest, T!Accept, T!SetOfferActions, T!Answered, T!Finish, T!DestroyOffer
  <2>2. drag'.on = drag.on /\ drag'.focus = drag.focus
    BY <1>1, <2>1 DEF T!Drag
  <2>3. QED BY <1>2, <2>1, <2>2
<1>7. ASSUME NEW c \in Clients, T!CreateSurface(c)
      PROVE  EnteredInv'
  BY <1>2, <1>7 DEF T!CreateSurface
<1>8. ASSUME NEW c \in Clients, T!DestroySurface(c)
      PROVE  EnteredInv'
  <2>1. \/ entered' = entered \ T!Left
        \/ entered' = entered /\ drag' = drag
    BY <1>8 DEF T!DestroySurface, T!CancelDrag
  <2>2. QED BY <1>2, <1>3, <2>1, AllLeave
<1>9. ASSUME NEW c \in Clients, T!Disconnect(c)
      PROVE  EnteredInv'
  <2>1. /\ entered' = entered \ (T!DevicesOf(c) \cup
                                 IF drag.on /\ drag.origin = c THEN T!Left ELSE {})
        /\ drag' = CASE drag.on /\ drag.origin = c -> T!NoDrag
                     [] drag.on /\ drag.focus = c /\ ~ (drag.on /\ drag.origin = c) ->
                          [drag EXCEPT !.focus = NoClient, !.offers = {}]
                     [] OTHER -> drag
    BY <1>9, DisconnectIs
  <2>2. CASE drag.on /\ drag.origin = c
    <3>1. entered' = {}
      BY <2>1, <2>2, AllLeave
    <3>2. QED BY <1>3, <3>1
  <2>3. CASE drag.on /\ drag.focus = c /\ drag.origin # c
    <3>1. entered \subseteq T!DevicesOf(c)
      BY <2>3 DEF EnteredInv, T!TypeOK, T!NobodyLeftEntered, T!DevicesOf
    <3>2. entered' = {}
      BY <2>1, <3>1
    <3>3. QED BY <1>3, <3>2
  <2>4. CASE ~ (drag.on /\ drag.origin = c) /\ ~ (drag.on /\ drag.focus = c)
    <3>1. drag' = drag /\ entered' \subseteq entered
      BY <2>1, <2>4
    <3>2. QED BY <1>2, <3>1
  <2>5. QED BY <2>2, <2>3, <2>4
<1>10. CASE T!Request
  BY <1>4, <1>5, <1>6, <1>7, <1>8, <1>9, <1>10 DEF T!Request
<1>11. ASSUME NEW c \in Clients, T!Focus(c)
       PROVE  EnteredInv'
  BY <1>2, <1>11 DEF T!Focus
<1>12. ASSUME NEW t \in Clients \cup {NoClient}, T!MoveDrag(t)
       PROVE  EnteredInv'
  <2>1. /\ drag' = [drag EXCEPT !.focus = t, !.offers = Dragged(t)]
        /\ entered' = (entered \ T!Left) \cup T!DataDevicesOf(t) /\ drag.on
    BY <1>12, MoveDragOffers DEF EnteredInv, T!MoveDrag
  <2>2. drag'.on /\ drag'.focus = t
    BY <1>1, <2>1 DEF T!Drag
  <2>3. \A d \in entered' : OwnerOf[d] = t
    BY <2>1, AllLeave DEF T!DataDevicesOf, T!DevicesOf
  <2>4. QED BY <1>1, <2>2, <2>3 DEF EnteredInv, T!NobodyLeftEntered
<1>13. CASE T!Unfocus \/ T!ButtonDown
  BY <1>2, <1>13 DEF T!Unfocus, T!ButtonDown
<1>14. CASE T!ButtonUp \/ T!Escape
  BY <1>3, <1>14, AllLeave DEF T!ButtonUp, T!Escape, T!CancelDrag
<1>15. CASE T!User
  BY <1>11, <1>12, <1>13, <1>14, <1>15 DEF T!User
<1>16. CASE UNCHANGED T!vars
  BY <1>2, <1>16 DEF T!vars
<1>17. QED BY <1>10, <1>15, <1>16 DEF T!Next

\* However a drag ends, by a drop, a cancel, the surface it is over, its source
\* or either client going, every device that was told it is over its client was
\* told that it is not (update_drag, finish_drag, cancel_drag).
THEOREM NobodyIsLeftEntered ==
  ASSUME TransferAssumption
  PROVE  T!Spec => []T!NobodyLeftEntered
<1>1. T!Init => EnteredInv
  BY InitTransferTyped DEF EnteredInv, T!NobodyLeftEntered, T!Init
<1>2. EnteredInv /\ [T!Next]_(T!vars) => EnteredInv'
  BY StepLeavesNobody
<1>3. EnteredInv => T!NobodyLeftEntered
  BY DEF EnteredInv
<1>4. QED BY <1>1, <1>2, <1>3, PTL DEF T!Spec

-----------------------------------------------------------------------------
(* Both sides of a drag say the same.                                      *)

\* The action of an offer, for the source and for what the target said of it.
Settles(o) ==
  T!OfDrag(offers[o]) =>
    offers[o].resolved = T!Settled(sources[offers[o].source].actions, offers[o].source,
                                   offers[o], OwnerOf[o[1]])

OffersHaveSettled == \A o \in T!Offers : Settles(o)

SettleInv == OfferInv /\ \A o \in T!Offers : Settles(o)

\* A source was told of the action of an offer that reads from it.
IsTold(o) ==
  T!OfDrag(offers[o]) =>
    (offers[o].resolved # T!NoAction /\ T!Version(OwnerOf[offers[o].source]) >= 3 =>
       agreed[offers[o].source] = offers[o].resolved)

\* A source that is dragged has one offer at a time to hear of.
OneEach ==
  \A o \in T!Offers, p \in T!Offers :
    T!OfDrag(offers[o]) /\ T!OfDrag(offers[p]) /\ offers[o].source = offers[p].source => o = p

AgreeInv == SettleInv /\ OneEach /\ \A o \in T!Offers : IsTold(o)

\* What a client has one of, as toolkits do: the drag is over one device.
OneDataDevice == \A d \in DataDevices, e \in DataDevices : OwnerOf[d] = OwnerOf[e] => d = e

LEMMA SettledSame ==
  ASSUME NEW mask, NEW s, NEW c, NEW a, NEW b, a.actions = b.actions, a.preferred = b.preferred
  PROVE  T!Settled(mask, s, a, c) = T!Settled(mask, s, b, c)
BY DEF T!Settled

\* An offer that a step leaves to its drag leaves it as it is.
Unmoved(o) ==
  T!OfDrag(offers'[o]) =>
    /\ T!OfDrag(offers[o])
    /\ offers'[o].source = offers[o].source /\ offers'[o].actions = offers[o].actions
    /\ offers'[o].preferred = offers[o].preferred /\ offers'[o].resolved = offers[o].resolved
    /\ sources'[offers[o].source].actions = sources[offers[o].source].actions
    /\ agreed'[offers[o].source] = agreed[offers[o].source]

LEMMA UnmovedSettles ==
  ASSUME NEW o \in T!Offers, Settles(o), Unmoved(o)
  PROVE  Settles(o)'
<1>1. SUFFICES ASSUME T!OfDrag(offers'[o])
               PROVE  offers'[o].resolved =
                        T!Settled(sources'[offers'[o].source].actions, offers'[o].source,
                                  offers'[o], OwnerOf[o[1]])
  BY DEF Settles, T!OfDrag
<1>2. offers[o].resolved = T!Settled(sources[offers[o].source].actions, offers[o].source,
                                     offers[o], OwnerOf[o[1]])
  BY <1>1 DEF Settles, Unmoved
<1>3. T!Settled(sources[offers[o].source].actions, offers[o].source, offers[o], OwnerOf[o[1]]) =
        T!Settled(sources[offers[o].source].actions, offers[o].source, offers'[o], OwnerOf[o[1]])
  BY <1>1, SettledSame DEF Unmoved
<1>4. QED BY <1>1, <1>2, <1>3 DEF Unmoved

LEMMA UnmovedAgree ==
  ASSUME OneEach, \A o \in T!Offers : IsTold(o), \A o \in T!Offers : Unmoved(o)
  PROVE  OneEach' /\ \A o \in T!Offers : IsTold(o)'
<1>1. OneEach'
  BY DEF OneEach, Unmoved, T!OfDrag
<1>2. ASSUME NEW o \in T!Offers
      PROVE  IsTold(o)'
  BY DEF IsTold, Unmoved, T!OfDrag, T!Version
<1>3. QED BY <1>1, <1>2

\* Steps that give offers of the selections.
LEMMA GivingLeavesDrags ==
  ASSUME TransferAssumption, T!TypeOK, NEW ds, NEW ss \in SUBSET (T!Sources \cup {NoSource}),
         NEW before,
         Adds(before, offers', "selection", ss, ds),
         \A o \in T!Offers : before[o] = offers[o] \/ before[o].kind = "absent",
         agreed' = agreed,
         \A o \in T!Offers : T!OfDrag(offers[o]) =>
           sources'[offers[o].source].actions = sources[offers[o].source].actions
  PROVE  \A o \in T!Offers : Unmoved(o)
<1>1. SUFFICES ASSUME NEW o \in T!Offers, T!OfDrag(offers'[o])
               PROVE  offers'[o] = offers[o]
  BY DEF Unmoved
<1>2. offers'[o] = before[o]
  <2>1. ASSUME NEW s \in ss \ {NoSource}, offers'[o] = T!NewOffer("selection", s)
        PROVE  FALSE
    <3>1. offers'[o].kind = "selection"
      BY <2>1, NewOfferIs
    <3>2. QED BY <1>1, <3>1 DEF T!OfDrag
  <2>2. QED BY <2>1 DEF Adds
<1>3. QED BY <1>1, <1>2 DEF T!OfDrag

\* The steps that settle nothing.
Settling ==
  \/ \E s \in T!Sources, mask \in SUBSET Actions : T!SetSourceActions(s, mask)
  \/ \E o \in T!Offers : \/ \E yes \in BOOLEAN : T!Accept(o, yes)
                         \/ \E mask \in SUBSET Actions, p \in Actions \cup {T!NoAction} :
                              T!SetOfferActions(o, mask, p)
  \/ \E t \in Clients \cup {NoClient} : T!MoveDrag(t)

LEMMA QuietRequestsOfSources ==
  ASSUME TransferAssumption, OfferInv, NEW s \in T!Sources, T!CreateSource(s) \/ T!DestroySource(s)
  PROVE  \A o \in T!Offers : Unmoved(o)
<1>1. /\ T!TypeOK /\ offers \in [T!Offers -> T!Offer] /\ sources \in [T!Sources -> T!Source]
      /\ agreed \in [T!Sources -> Actions \cup {T!NoAction}]
  BY DEF OfferInv, SourceInv, T!TypeOK
<1>2. ASSUME NEW o \in T!Offers, offers'[o] = offers[o], T!OfDrag(offers[o]),
             offers[o].source # s
      PROVE  Unmoved(o)
  <2>1. offers[o].source \in T!Sources
    BY <1>2 DEF OfferInv, Current, T!OfDrag
  <2>2. /\ sources'[offers[o].source] = sources[offers[o].source]
        /\ agreed'[offers[o].source] = agreed[offers[o].source]
    BY <1>1, <1>2, <2>1 DEF T!CreateSource, T!DestroySource
  <2>3. QED BY <1>2, <2>2 DEF Unmoved
<1>3. CASE T!CreateSource(s)
  <2>1. SUFFICES ASSUME NEW o \in T!Offers, T!OfDrag(offers'[o])
                 PROVE  Unmoved(o)
    BY DEF Unmoved
  <2>2. offers' = offers /\ sources[s].role = "absent"
    BY <1>3 DEF T!CreateSource, T!Live
  <2>3. offers[o].source # s
    BY <2>1, <2>2 DEF OfferInv, Current, T!OfDrag
  <2>4. QED BY <1>2, <2>1, <2>2, <2>3
<1>4. CASE T!DestroySource(s)
  <2>1. PICK these : /\ T!From(offers, {s}) \subseteq these
                     /\ offers' = T!Cut(offers, these)
    BY <1>4 DEF T!DestroySource
  <2>2. offers' = T!Cut(offers, these)
    BY <2>1
  <2>3. /\ \A o \in T!Offers : offers'[o] = IF o \in these THEN T!NoOffer ELSE offers[o]
        /\ T!NoOffer.kind = "absent"
    BY <1>1, <2>2, CutIs
  <2>4. SUFFICES ASSUME NEW o \in T!Offers, T!OfDrag(offers'[o])
                 PROVE  Unmoved(o)
    BY DEF Unmoved
  <2>5. o \notin these /\ offers'[o] = offers[o]
    BY <2>3, <2>4 DEF T!OfDrag
  <2>6. offers[o].source # s
    BY <2>1, <2>5 DEF T!From
  <2>7. QED BY <1>2, <2>4, <2>5, <2>6
<1>5. QED BY <1>3, <1>4

LEMMA QuietRequestsOfDevices ==
  ASSUME TransferAssumption, OfferInv, NEW d \in T!Devices, T!DeviceRequest(d)
  PROVE  \A o \in T!Offers : Unmoved(o)
<1>1. /\ T!TypeOK /\ offers \in [T!Offers -> T!Offer] /\ sources \in [T!Sources -> T!Source]
      /\ selection \in [T!Selections -> T!Sources \cup {NoSource}]
      /\ \A o \in T!Offers : T!OfDrag(offers[o]) => offers[o].source \in T!Sources
  BY DEF OfferInv, SourceInv, T!TypeOK, Current, T!OfDrag
<1>2. CASE T!GetDevice(d)
  <2>1. PICK ds : Adds(offers, offers', "selection", Held, ds)
    BY <1>1, <1>2, GetDeviceOffers
  <2>2. Held \in SUBSET (T!Sources \cup {NoSource})
    BY <1>1 DEF Held, T!Selections
  <2>3. UNCHANGED <<sources, agreed>>
    BY <1>2 DEF T!GetDevice
  <2>4. QED BY <1>1, <2>1, <2>2, <2>3, GivingLeavesDrags
<1>3. CASE T!ReleaseDevice(d)
  BY <1>3 DEF T!ReleaseDevice, Unmoved
<1>4. ASSUME NEW s \in T!Sources \cup {NoSource}, T!StartDrag(d, s)
      PROVE  \A o \in T!Offers : Unmoved(o)
  <2>1. \A r \in T!Sources : sources'[r].actions = sources[r].actions
    BY <1>1, <1>4 DEF T!StartDrag, T!Source
  <2>2. QED BY <1>1, <1>4, <2>1 DEF T!StartDrag, Unmoved
<1>5. ASSUME NEW s \in T!Sources \cup {NoSource}, NEW sel \in T!Selections,
             T!SetSelection(d, sel, s)
      PROVE  \A o \in T!Offers : Unmoved(o)
  <2>1. PICK cut : cut = T!Cut(offers, T!From(offers, T!Replaced(sel, s)))
    OBVIOUS
  <2>2. PICK ss \in SUBSET (T!Sources \cup {NoSource}) : ss = {s}
    OBVIOUS
  <2>3. Adds(cut, offers', "selection", ss, T!Audience(focus, sel))
    BY <1>1, <1>5, <2>1, <2>2, SetSelectionOffers
  <2>4. \A o \in T!Offers : cut[o] = offers[o] \/ cut[o].kind = "absent"
    BY <1>1, <2>1, CutIs
  <2>5. \A r \in T!Sources : sources'[r].actions = sources[r].actions
    <3>1. PICK srcs : srcs = T!Claimed(s)
      OBVIOUS
    <3>2. /\ srcs \in [T!Sources -> T!Source]
          /\ \A r \in T!Sources : srcs[r].actions = sources[r].actions
      BY <1>1, <3>1, ClaimedIs
    <3>3. sources' = T!Cancelled(srcs, T!Replaced(sel, s))
      BY <1>5, <3>1 DEF T!SetSelection
    <3>4. \A r \in T!Sources : sources'[r].actions = srcs[r].actions
      BY <3>2, <3>3, CancelledIs
    <3>5. QED BY <3>2, <3>4
  <2>6. agreed' = agreed
    BY <1>5 DEF T!SetSelection
  <2>7. QED BY <1>1, <2>3, <2>4, <2>5, <2>6, GivingLeavesDrags
<1>6. QED BY <1>2, <1>3, <1>4, <1>5 DEF T!DeviceRequest

LEMMA QuietRequestsOfOffers ==
  ASSUME TransferAssumption, OfferInv, NEW p \in T!Offers, T!Finish(p) \/ T!DestroyOffer(p)
  PROVE  \A o \in T!Offers : Unmoved(o)
<1>1. /\ offers \in [T!Offers -> T!Offer] /\ T!NoOffer.kind = "absent"
  BY NewOfferIs DEF OfferInv, SourceInv, T!TypeOK, T!NoOffer, TransferAssumption
<1>2. /\ offers' = [offers EXCEPT ![p] = T!NoOffer] /\ UNCHANGED <<sources, agreed>>
  BY DEF T!Finish, T!DestroyOffer
<1>3. QED BY <1>1, <1>2 DEF Unmoved, T!OfDrag

LEMMA QuietSurfaces ==
  ASSUME TransferAssumption, OfferInv, NEW c \in Clients,
         T!CreateSurface(c) \/ T!DestroySurface(c) \/ T!Disconnect(c) \/ T!Focus(c)
  PROVE  \A o \in T!Offers : Unmoved(o)
<1>1. /\ T!TypeOK /\ offers \in [T!Offers -> T!Offer] /\ sources \in [T!Sources -> T!Source]
      /\ selection \in [T!Selections -> T!Sources \cup {NoSource}]
      /\ T!NoOffer.kind = "absent"
      /\ \A o \in T!Offers : T!OfDrag(offers[o]) => offers[o].source \in T!Sources
  BY NewOfferIs DEF OfferInv, SourceInv, T!TypeOK, Current, T!OfDrag, T!NoOffer
<1>2. CASE T!CreateSurface(c)
  BY <1>2 DEF T!CreateSurface, Unmoved
<1>3. CASE T!DestroySurface(c)
  <2>1. /\ offers' = offers \/ offers' = T!Cut(offers, drag.offers)
        /\ sources' = sources \/ sources' = T!Cancelled(sources, {drag.source})
        /\ agreed' = agreed
    BY <1>3 DEF T!DestroySurface, T!CancelDrag
  <2>2. \A o \in T!Offers : offers'[o] = offers[o] \/ offers'[o].kind = "absent"
    BY <1>1, <2>1, CutIs
  <2>3. PICK ss : ss = {drag.source}
    OBVIOUS
  <2>4. sources' = sources \/ sources' = T!Cancelled(sources, ss)
    BY <2>1, <2>3
  <2>5. \A r \in T!Sources : sources'[r].actions = sources[r].actions
    BY <1>1, <2>4, CancelledIs
  <2>6. QED BY <1>1, <2>1, <2>2, <2>5 DEF Unmoved, T!OfDrag
<1>4. CASE T!Disconnect(c)
  <2>1. SUFFICES ASSUME NEW o \in T!Offers, T!OfDrag(offers'[o])
                 PROVE  Unmoved(o)
    BY DEF Unmoved
  <2>2. /\ \/ offers'[o] = T!NoOffer
           \/ offers'[o] = offers[o] /\ Spared(c, o)
           \/ \E sel \in T!Selections :
                /\ selection'[sel] # NoSource
                /\ offers'[o] = T!NewOffer("selection", selection'[sel])
    BY <1>1, <1>4, DisconnectOffers
  <2>3. selection' \in [T!Selections -> T!Sources \cup {NoSource}]
    BY <1>1, <1>4, DisconnectTyped DEF T!TypeOK
  <2>4. ASSUME NEW sel \in T!Selections, offers'[o] = T!NewOffer("selection", selection'[sel])
        PROVE  FALSE
    <3>1. PICK s \in T!Sources \cup {NoSource} : s = selection'[sel]
      BY <2>3
    <3>2. offers'[o].kind = "selection"
      BY <2>4, <3>1, NewOfferIs
    <3>3. QED BY <2>1, <3>2 DEF T!OfDrag
  <2>5. offers'[o] = offers[o] /\ Spared(c, o)
    BY <1>1, <2>1, <2>2, <2>4 DEF T!OfDrag
  <2>6. offers[o].source \in T!Sources /\ OwnerOf[offers[o].source] # c
    BY <1>1, <2>1, <2>5 DEF Spared, T!SourcesOf
  <2>7. /\ sources' = [s \in T!Sources |-> IF OwnerOf[s] = c THEN T!Absent ELSE sources[s]]
        /\ agreed' = agreed
    BY <1>4, DisconnectIs
  <2>8. QED BY <2>1, <2>5, <2>6, <2>7 DEF Unmoved
<1>5. CASE T!Focus(c)
  <2>1. PICK ds : Adds(offers, offers', "selection", Held, ds)
    BY <1>1, <1>5, FocusOffers
  <2>2. Held \in SUBSET (T!Sources \cup {NoSource})
    BY <1>1 DEF Held, T!Selections
  <2>3. UNCHANGED <<sources, agreed>>
    BY <1>5 DEF T!Focus
  <2>4. QED BY <1>1, <2>1, <2>2, <2>3, GivingLeavesDrags
<1>6. QED BY <1>2, <1>3, <1>4, <1>5

LEMMA QuietUser ==
  ASSUME TransferAssumption, OfferInv, T!ButtonUp \/ T!Escape \/ T!Unfocus \/ T!ButtonDown
  PROVE  \A o \in T!Offers : Unmoved(o)
<1>1. /\ T!TypeOK /\ offers \in [T!Offers -> T!Offer] /\ sources \in [T!Sources -> T!Source]
      /\ \A o \in T!Offers : T!OfDrag(offers[o]) => offers[o].source \in T!Sources
  BY DEF OfferInv, SourceInv, T!TypeOK, Current, T!OfDrag
<1>2. agreed' = agreed
  BY DEF T!ButtonUp, T!Escape, T!Unfocus, T!ButtonDown
<1>3. PICK ss : ss = {drag.source}
  OBVIOUS
<1>4. sources' = sources \/ sources' = T!Cancelled(sources, ss)
  BY <1>3 DEF T!ButtonUp, T!Escape, T!Unfocus, T!ButtonDown, T!CancelDrag, T!Ended
<1>5. \A r \in T!Sources : sources'[r].actions = sources[r].actions
  BY <1>1, <1>4, CancelledIs
<1>6. CASE offers' = [o \in T!Offers |-> IF o \in drag.offers
                                         THEN [offers[o] EXCEPT !.kind = "dropped"]
                                         ELSE offers[o]]
  <2>1. ASSUME NEW o \in T!Offers
        PROVE  Unmoved(o)
    <3>1. CASE o \in drag.offers
      <4>1. T!OfDrag(offers[o])
        BY <3>1 DEF OfferInv, DragOffersAreDrags, T!OfDrag
      <4>2. offers'[o] = [offers[o] EXCEPT !.kind = "dropped"] /\ offers[o] \in T!Offer
        BY <1>1, <1>6, <3>1
      <4>3. /\ offers'[o].source = offers[o].source /\ offers'[o].actions = offers[o].actions
            /\ offers'[o].preferred = offers[o].preferred
            /\ offers'[o].resolved = offers[o].resolved
        BY <4>2 DEF T!Offer
      <4>4. QED BY <1>1, <1>2, <1>5, <4>1, <4>3 DEF Unmoved
    <3>2. CASE o \notin drag.offers
      BY <1>1, <1>2, <1>5, <1>6, <3>2 DEF Unmoved
    <3>3. QED BY <3>1, <3>2
  <2>2. QED BY <2>1
<1>7. CASE offers' = offers \/ offers' = T!Cut(offers, drag.offers)
  <2>1. \A o \in T!Offers : offers'[o] = offers[o] \/ offers'[o].kind = "absent"
    BY <1>1, <1>7, CutIs
  <2>2. QED BY <1>1, <1>2, <1>5, <2>1 DEF Unmoved, T!OfDrag
<1>8. QED BY <1>6, <1>7 DEF T!ButtonUp, T!Escape, T!Unfocus, T!ButtonDown, T!CancelDrag

LEMMA QuietSteps ==
  ASSUME TransferAssumption, OfferInv, [T!Next]_T!vars
  PROVE  Settling \/ \A o \in T!Offers : Unmoved(o)
<1>1. CASE UNCHANGED T!vars
  BY <1>1 DEF T!vars, Unmoved
<1>2. CASE T!User
  BY <1>2, QuietSurfaces, QuietUser DEF T!User, Settling
<1>3. CASE T!Request
  <2>1. CASE \E s \in T!Sources : T!SourceRequest(s)
    BY <2>1, QuietRequestsOfSources DEF T!SourceRequest, Settling
  <2>2. CASE \E d \in T!Devices : T!DeviceRequest(d)
    BY <2>2, QuietRequestsOfDevices
  <2>3. CASE \E o \in T!Offers : T!OfferRequest(o)
    BY <2>3, QuietRequestsOfOffers DEF T!OfferRequest, Settling
  <2>4. QED BY <1>3, <2>1, <2>2, <2>3, QuietSurfaces DEF T!Request
<1>4. QED BY <1>1, <1>2, <1>3 DEF T!Next

\* What a step that settles does.
LEMMA MaskSettles ==
  ASSUME TransferAssumption, OfferInv, NEW s \in T!Sources, NEW mask \in SUBSET Actions,
         T!SetSourceActions(s, mask)
  PROVE  \A o \in T!Offers :
           /\ T!OfDrag(offers'[o]) <=> T!OfDrag(offers[o])
           /\ offers'[o].source = offers[o].source
           /\ offers'[o].resolved # offers[o].resolved => T!OfDrag(offers[o])
           /\ Settles(o)'
<1>1. /\ offers \in [T!Offers -> T!Offer]
      /\ offers' = T!Resolved(offers, sources', T!Offers)
  BY DEF OfferInv, SourceInv, T!TypeOK, T!SetSourceActions
<1>2. \A o \in T!Offers :
        /\ offers'[o] \in T!Offer /\ Unsettled(offers'[o]) = Unsettled(offers[o])
        /\ offers'[o].resolved =
             IF o \in T!Offers /\ T!OfDrag(offers[o])
             THEN T!Settled(sources'[offers[o].source].actions, offers[o].source, offers[o],
                            OwnerOf[o[1]])
             ELSE offers[o].resolved
  BY <1>1, ResolvedIs
<1>3. \A o \in T!Offers :
        /\ offers'[o].kind = offers[o].kind /\ offers'[o].source = offers[o].source
        /\ offers'[o].actions = offers[o].actions /\ offers'[o].preferred = offers[o].preferred
  BY <1>1, <1>2, UnsettledSame
<1>4. ASSUME NEW o \in T!Offers
      PROVE  Settles(o)'
  <2>1. T!Settled(sources'[offers[o].source].actions, offers[o].source, offers[o], OwnerOf[o[1]]) =
        T!Settled(sources'[offers[o].source].actions, offers[o].source, offers'[o], OwnerOf[o[1]])
    BY <1>3, SettledSame
  <2>2. T!OfDrag(offers'[o]) =>
          offers'[o].resolved = T!Settled(sources'[offers'[o].source].actions,
                                          offers'[o].source, offers'[o], OwnerOf[o[1]])
    BY <1>2, <1>3, <2>1 DEF T!OfDrag
  <2>3. QED BY <2>2 DEF Settles, T!OfDrag
<1>5. QED BY <1>2, <1>3, <1>4 DEF T!OfDrag

LEMMA AnswerSettles ==
  ASSUME TransferAssumption, SettleInv, NEW p \in T!Offers, NEW offer \in T!Offer,
         offer.kind = offers[p].kind, offer.source = offers[p].source,
         offer.resolved = offers[p].resolved, T!Answered(p, offer)
  PROVE  /\ \A o \in T!Offers : /\ T!OfDrag(offers'[o]) <=> T!OfDrag(offers[o])
                                /\ offers'[o].source = offers[o].source
                                /\ o # p => offers'[o] = offers[o]
                                /\ Settles(o)'
         /\ T!OfDrag(offers[p])
         /\ T!Heard([offers EXCEPT ![p] = offer], offers', {p})
         /\ [offers EXCEPT ![p] = offer][p].resolved = offers[p].resolved
<1>1. offers \in [T!Offers -> T!Offer] /\ OfferInv /\ \A o \in T!Offers : Settles(o)
  BY DEF SettleInv, OfferInv, SourceInv, T!TypeOK
<1>2. PICK changed \in [T!Offers -> T!Offer] : changed = [offers EXCEPT ![p] = offer]
  BY <1>1
<1>3. /\ T!OfDrag(offers[p]) /\ T!Heard([offers EXCEPT ![p] = offer], offers', {p})
      /\ offers' = T!Resolved([offers EXCEPT ![p] = offer], sources, {p}) /\ sources' = sources
  BY DEF T!Answered
<1>4. PICK these : these = {p}
  OBVIOUS
<1>5. offers' = T!Resolved(changed, sources, these)
  BY <1>2, <1>3, <1>4
<1>6. \A o \in T!Offers :
        /\ offers'[o] \in T!Offer /\ Unsettled(offers'[o]) = Unsettled(changed[o])
        /\ offers'[o].resolved =
             IF o \in these /\ T!OfDrag(changed[o])
             THEN T!Settled(sources[changed[o].source].actions, changed[o].source, changed[o],
                            OwnerOf[o[1]])
             ELSE changed[o].resolved
  BY <1>5, ResolvedIs
<1>7. \A o \in T!Offers :
        /\ offers'[o].kind = changed[o].kind /\ offers'[o].source = changed[o].source
        /\ offers'[o].actions = changed[o].actions /\ offers'[o].preferred = changed[o].preferred
  BY <1>2, <1>6, UnsettledSame
<1>8. /\ changed[p] = offer
      /\ \A o \in T!Offers : o # p => changed[o] = offers[o]
  BY <1>1, <1>2
<1>9. ASSUME NEW o \in T!Offers, o # p
      PROVE  offers'[o] = offers[o]
  BY <1>1, <1>4, <1>6, <1>8, <1>9, SameOffer
<1>10. Settles(p)'
  <2>1. T!Settled(sources[changed[p].source].actions, changed[p].source, changed[p],
                  OwnerOf[p[1]]) =
        T!Settled(sources[changed[p].source].actions, changed[p].source, offers'[p],
                  OwnerOf[p[1]])
    BY <1>7, SettledSame
  <2>2. T!OfDrag(changed[p])
    BY <1>3, <1>8 DEF T!OfDrag
  <2>3. offers'[p].resolved =
          T!Settled(sources'[offers'[p].source].actions, offers'[p].source, offers'[p],
                    OwnerOf[p[1]])
    BY <1>3, <1>4, <1>6, <1>7, <2>1, <2>2
  <2>4. QED BY <2>3 DEF Settles
<1>11. ASSUME NEW o \in T!Offers
       PROVE  Settles(o)'
  <2>1. CASE o = p
    BY <1>10, <2>1
  <2>2. CASE o # p
    <3>1. Settles(o) /\ offers'[o] = offers[o]
      BY <1>1, <1>9, <2>2
    <3>2. QED BY <1>3, <3>1 DEF Settles, T!OfDrag
  <2>3. QED BY <2>1, <2>2
<1>12. ASSUME NEW o \in T!Offers
       PROVE  /\ T!OfDrag(offers'[o]) <=> T!OfDrag(offers[o])
              /\ offers'[o].source = offers[o].source
  BY <1>7, <1>8 DEF T!OfDrag
<1>13. [offers EXCEPT ![p] = offer][p].resolved = offers[p].resolved
  BY <1>1
<1>14. QED BY <1>3, <1>9, <1>11, <1>12, <1>13

LEMMA MoveSettles ==
  ASSUME TransferAssumption, SettleInv, NEW t \in Clients \cup {NoClient}, T!MoveDrag(t)
  PROVE  \A o \in T!Offers :
           /\ Settles(o)'
           /\ o \in Dragged(t) => T!OfDrag(offers'[o]) /\ offers'[o].source = drag.source
           /\ o \notin Dragged(t) /\ T!OfDrag(offers'[o]) =>
                offers'[o] = offers[o] /\ offers[o].kind = "dropped"
<1>1. /\ OfferInv /\ T!TypeOK /\ offers \in [T!Offers -> T!Offer] /\ sources' = sources
      /\ drag.source \in T!Sources \cup {NoSource}
      /\ \A o \in T!Offers : Settles(o) /\ Current(o)
  BY DEF SettleInv, OfferInv, SourceInv, T!TypeOK, T!Drag, T!MoveDrag
<1>2. /\ offers' \in [T!Offers -> T!Offer]
      /\ \A o \in T!Offers :
           IF o \in Dragged(t)
           THEN /\ Unsettled(offers'[o]) = T!NewOffer("drag", drag.source)
                /\ offers'[o].resolved =
                     T!Settled(sources[drag.source].actions, drag.source,
                               T!NewOffer("drag", drag.source), OwnerOf[o[1]])
           ELSE offers'[o] = T!Cut(offers, drag.offers)[o]
  BY <1>1, MoveDragOffers
<1>3. PICK new \in T!Offer : /\ new = T!NewOffer("drag", drag.source) /\ new.kind = "drag"
                             /\ new.source = drag.source /\ new.resolved = T!NoAction
  BY <1>1, NewOfferIs
<1>4. ASSUME NEW o \in T!Offers, o \in Dragged(t)
      PROVE  /\ Settles(o)'
             /\ T!OfDrag(offers'[o]) /\ offers'[o].source = drag.source
  <2>1. Unsettled(offers'[o]) = Unsettled(new) /\ offers'[o] \in T!Offer
    BY <1>2, <1>3, <1>4, SettledOnNothing
  <2>2. /\ offers'[o].kind = new.kind /\ offers'[o].source = new.source
        /\ offers'[o].actions = new.actions /\ offers'[o].preferred = new.preferred
    BY <2>1, UnsettledSame
  <2>3. T!Settled(sources[drag.source].actions, drag.source, new, OwnerOf[o[1]]) =
        T!Settled(sources[drag.source].actions, drag.source, offers'[o], OwnerOf[o[1]])
    BY <2>2, SettledSame
  <2>4. offers'[o].resolved = T!Settled(sources'[offers'[o].source].actions, offers'[o].source,
                                        offers'[o], OwnerOf[o[1]])
    BY <1>1, <1>2, <1>3, <1>4, <2>2, <2>3
  <2>5. QED BY <1>3, <2>2, <2>4 DEF Settles, T!OfDrag
<1>5. ASSUME NEW o \in T!Offers, o \notin Dragged(t), T!OfDrag(offers'[o])
      PROVE  offers'[o] = offers[o] /\ offers[o].kind = "dropped" /\ Settles(o)'
  <2>1. /\ T!Cut(offers, drag.offers)[o] = IF o \in drag.offers THEN T!NoOffer ELSE offers[o]
        /\ T!NoOffer.kind = "absent"
    BY <1>1, CutIs
  <2>2. offers'[o] = offers[o] /\ o \notin drag.offers
    BY <1>2, <1>5, <2>1 DEF T!OfDrag
  <2>3. offers[o].kind = "dropped"
    BY <1>1, <1>5, <2>2 DEF T!OfDrag, Current
  <2>4. Settles(o)
    BY <1>1
  <2>5. QED BY <1>1, <2>2, <2>3, <2>4 DEF Settles, T!OfDrag
<1>6. ASSUME NEW o \in T!Offers, ~ T!OfDrag(offers'[o])
      PROVE  Settles(o)'
  BY <1>6 DEF Settles, T!OfDrag
<1>7. QED BY <1>4, <1>5, <1>6

LEMMA StepSettles ==
  ASSUME TransferAssumption, SettleInv, [T!Next]_T!vars
  PROVE  SettleInv'
<1>1. OfferInv' /\ OfferInv /\ \A o \in T!Offers : Settles(o)
  BY StepIsCurrent DEF SettleInv
<1>2. offers \in [T!Offers -> T!Offer]
  BY <1>1 DEF OfferInv, SourceInv, T!TypeOK
<1>3. CASE \A o \in T!Offers : Unmoved(o)
  BY <1>1, <1>3, UnmovedSettles DEF SettleInv
<1>4. CASE \E s \in T!Sources, mask \in SUBSET Actions : T!SetSourceActions(s, mask)
  BY <1>1, <1>4, MaskSettles DEF SettleInv
<1>5. ASSUME NEW o \in T!Offers, NEW yes \in BOOLEAN, T!Accept(o, yes)
      PROVE  SettleInv'
  <2>1. offers[o] \in T!Offer
    BY <1>2
  <2>2. PICK offer : offer = [offers[o] EXCEPT !.accepted = yes]
    OBVIOUS
  <2>3. /\ offer \in T!Offer /\ offer.kind = offers[o].kind /\ offer.source = offers[o].source
        /\ offer.resolved = offers[o].resolved /\ T!Answered(o, offer)
    BY <1>5, <2>1, <2>2 DEF T!Offer, T!Accept
  <2>4. QED BY <1>1, <2>3, AnswerSettles DEF SettleInv
<1>6. ASSUME NEW o \in T!Offers, NEW mask \in SUBSET Actions, NEW p \in Actions \cup {T!NoAction},
             T!SetOfferActions(o, mask, p)
      PROVE  SettleInv'
  <2>1. offers[o] \in T!Offer
    BY <1>2
  <2>2. PICK offer : offer = [offers[o] EXCEPT !.actions = mask, !.preferred = p]
    OBVIOUS
  <2>3. /\ offer \in T!Offer /\ offer.kind = offers[o].kind /\ offer.source = offers[o].source
        /\ offer.resolved = offers[o].resolved /\ T!Answered(o, offer)
    BY <1>6, <2>1, <2>2 DEF T!Offer, T!SetOfferActions
  <2>4. QED BY <1>1, <2>3, AnswerSettles DEF SettleInv
<1>7. CASE \E t \in Clients \cup {NoClient} : T!MoveDrag(t)
  BY <1>1, <1>7, MoveSettles DEF SettleInv
<1>8. QED BY <1>1, <1>3, <1>4, <1>5, <1>6, <1>7, QuietSteps DEF Settling

\* A source hears of the one offer that changed, or of none.
LEMMA HeardOne ==
  ASSUME NEW before, NEW after, NEW these, T!Heard(before, after, these),
         NEW s \in T!Sources, T!Version(OwnerOf[s]) >= 3,
         NEW o \in these, after[o].source = s, after[o].resolved # before[o].resolved,
         \A x \in these : after[x].source = s /\ after[x].resolved # before[x].resolved => x = o
  PROVE  agreed'[s] = after[o].resolved
<1> DEFINE changed == {x \in these : after[x].resolved # before[x].resolved}
           news(r) == {after[x].resolved : x \in {y \in changed : /\ after[y].source = r
                                                              /\ T!Version(OwnerOf[r]) >= 3}}
<1>1. \A r \in T!Sources : agreed'[r] \in (IF news(r) = {} THEN {agreed[r]} ELSE news(r))
  BY DEF T!Heard
<1>2. news(s) = {after[o].resolved}
  OBVIOUS
<1> HIDE DEF news
<1>3. QED BY <1>1, <1>2

LEMMA HeardNothing ==
  ASSUME NEW before, NEW after, NEW these, T!Heard(before, after, these), NEW s \in T!Sources,
         \A x \in these : after[x].source = s => after[x].resolved = before[x].resolved
  PROVE  agreed'[s] = agreed[s]
<1> DEFINE changed == {x \in these : after[x].resolved # before[x].resolved}
           news(r) == {after[x].resolved : x \in {y \in changed : /\ after[y].source = r
                                                              /\ T!Version(OwnerOf[r]) >= 3}}
<1>1. \A r \in T!Sources : agreed'[r] \in (IF news(r) = {} THEN {agreed[r]} ELSE news(r))
  BY DEF T!Heard
<1>2. news(s) = {}
  OBVIOUS
<1> HIDE DEF news
<1>3. QED BY <1>1, <1>2

\* The offers of each source before a step that settles are its offers after.
LEMMA SettledIsHeard ==
  ASSUME TransferAssumption, AgreeInv, NEW before, NEW these \in SUBSET T!Offers,
         T!Heard(before, offers', these),
         \A o \in T!Offers :
           /\ T!OfDrag(offers'[o]) <=> T!OfDrag(offers[o])
           /\ offers'[o].source = offers[o].source
           /\ o \notin these => offers'[o].resolved = offers[o].resolved,
         \A o \in these : /\ before[o].resolved = offers[o].resolved
                          /\ offers'[o].resolved # offers[o].resolved => T!OfDrag(offers[o])
  PROVE  OneEach' /\ \A o \in T!Offers : IsTold(o)'
<1>1. OneEach'
  BY DEF AgreeInv, OneEach, T!OfDrag
<1>2. ASSUME NEW o \in T!Offers, T!OfDrag(offers'[o]), offers'[o].resolved # T!NoAction,
             T!Version(OwnerOf[offers'[o].source]) >= 3
      PROVE  agreed'[offers'[o].source] = offers'[o].resolved
  <2>1. PICK s \in T!Sources : s = offers[o].source /\ s = offers'[o].source
    BY <1>2 DEF AgreeInv, SettleInv, OfferInv, Current, T!OfDrag
  <2>2. ASSUME NEW x \in these, offers'[x].source = s,
               offers'[x].resolved # before[x].resolved
        PROVE  x = o
    <3>1. T!OfDrag(offers[x]) /\ T!OfDrag(offers[o]) /\ offers[x].source = offers[o].source
      BY <1>2, <2>1, <2>2
    <3>2. QED BY <3>1 DEF AgreeInv, OneEach
  <2>3. CASE offers'[o].resolved # offers[o].resolved
    <3>1. o \in these /\ offers'[o].resolved # before[o].resolved
      BY <2>3
    <3>2. \A x \in these : offers'[x].source = s /\ offers'[x].resolved # before[x].resolved
                             => x = o
      BY <2>2
    <3>3. T!Version(OwnerOf[s]) >= 3 /\ offers'[o].source = s
      BY <1>2, <2>1
    <3>4. agreed'[s] = offers'[o].resolved
      BY <3>1, <3>2, <3>3, HeardOne
    <3>5. QED BY <2>1, <3>4
  <2>4. CASE offers'[o].resolved = offers[o].resolved
    <3>1. \A x \in these : offers'[x].source = s => offers'[x].resolved = before[x].resolved
      BY <2>2, <2>4
    <3>2. agreed'[s] = agreed[s]
      BY <3>1, HeardNothing
    <3>3. IsTold(o)
      BY DEF AgreeInv
    <3>4. QED BY <1>2, <2>1, <2>4, <3>2, <3>3 DEF IsTold
  <2>5. QED BY <2>3, <2>4
<1>3. ASSUME NEW o \in T!Offers
      PROVE  IsTold(o)'
  BY <1>2 DEF IsTold, T!OfDrag, T!Version, T!NoAction
<1>4. QED BY <1>1, <1>3

LEMMA AnswerIsHeard ==
  ASSUME TransferAssumption, AgreeInv, NEW p \in T!Offers, NEW offer \in T!Offer,
         offer.kind = offers[p].kind, offer.source = offers[p].source,
         offer.resolved = offers[p].resolved, T!Answered(p, offer)
  PROVE  OneEach' /\ \A o \in T!Offers : IsTold(o)'
<1>1. PICK before : before = [offers EXCEPT ![p] = offer]
  OBVIOUS
<1>2. PICK these \in SUBSET T!Offers : these = {p}
  OBVIOUS
<1>3. /\ \A o \in T!Offers : /\ T!OfDrag(offers'[o]) <=> T!OfDrag(offers[o])
                             /\ offers'[o].source = offers[o].source
                             /\ o # p => offers'[o] = offers[o]
      /\ T!OfDrag(offers[p]) /\ T!Heard(before, offers', these)
      /\ before[p].resolved = offers[p].resolved
  BY <1>1, <1>2, AnswerSettles DEF AgreeInv
<1>4. QED BY <1>2, <1>3, SettledIsHeard

\* What is dragged is over one device, and reads from what was never dropped.
LEMMA MoveIsHeard ==
  ASSUME TransferAssumption, OneDataDevice, AgreeInv, NEW t \in Clients \cup {NoClient},
         T!MoveDrag(t)
  PROVE  OneEach' /\ \A o \in T!Offers : IsTold(o)'
<1>1. /\ OfferInv /\ SettleInv /\ SourceInv /\ T!TypeOK
      /\ offers \in [T!Offers -> T!Offer] /\ drag.on
      /\ \A o \in T!Offers : Current(o)
      /\ drag.source \in T!Sources \cup {NoSource}
  BY DEF AgreeInv, SettleInv, OfferInv, SourceInv, T!TypeOK, T!MoveDrag, T!Drag
<1>2. \A o \in T!Offers :
        /\ o \in Dragged(t) => T!OfDrag(offers'[o]) /\ offers'[o].source = drag.source
        /\ o \notin Dragged(t) /\ T!OfDrag(offers'[o]) =>
             offers'[o] = offers[o] /\ offers[o].kind = "dropped"
  BY <1>1, MoveSettles
<1>3. Dragged(t) \in SUBSET T!Offers
  BY <1>1, MoveDragOffers
<1>4. ASSUME NEW o \in Dragged(t)
      PROVE  drag.source \in T!Sources /\ drag.source \notin dropped
  <2>1. drag.source \in T!Sources /\ drag.source \in UsedOnce
    BY <1>1 DEF Dragged, SourceInv, DragIsItsSources, UsedOnce
  <2>2. FateOf(drag.source)
    BY <1>1, <2>1 DEF SourceInv, Fates
  <2>3. QED BY <1>1, <2>1, <2>2
            DEF FateOf, BeingDragged, SourceInv, DragIsItsSources, Dragged
<1>5. ASSUME NEW o \in T!Offers, o \notin Dragged(t), T!OfDrag(offers'[o])
      PROVE  offers[o].source \in dropped /\ offers[o].source \in T!Sources
  BY <1>1, <1>2, <1>5 DEF Current
<1>6. ASSUME NEW o \in Dragged(t), NEW p \in Dragged(t)
      PROVE  o = p
  <2>1. PICK d \in T!DataDevicesOf(t) : o = <<d, T!Slot(T!Cut(offers, drag.offers), d)>>
    BY DEF Dragged
  <2>2. PICK e \in T!DataDevicesOf(t) : p = <<e, T!Slot(T!Cut(offers, drag.offers), e)>>
    BY DEF Dragged
  <2>3. d = e
    BY DEF T!DataDevicesOf, T!DevicesOf, OneDataDevice
  <2>4. QED BY <2>1, <2>2, <2>3
<1>7. OneEach'
  <2>1. ASSUME NEW o \in T!Offers, NEW p \in T!Offers,
               T!OfDrag(offers'[o]), T!OfDrag(offers'[p]), offers'[o].source = offers'[p].source
        PROVE  o = p
    <3>1. CASE o \in Dragged(t) /\ p \in Dragged(t)
      BY <1>6, <3>1
    <3>2. CASE o \notin Dragged(t) /\ p \notin Dragged(t)
      <4>1. /\ offers'[o] = offers[o] /\ offers'[p] = offers[p]
            /\ T!OfDrag(offers[o]) /\ T!OfDrag(offers[p])
        BY <1>2, <2>1, <3>2
      <4>2. QED BY <2>1, <4>1 DEF AgreeInv, OneEach
    <3>3. CASE o \in Dragged(t) /\ p \notin Dragged(t)
      BY <1>2, <1>4, <1>5, <2>1, <3>3
    <3>4. CASE o \notin Dragged(t) /\ p \in Dragged(t)
      BY <1>2, <1>4, <1>5, <2>1, <3>4
    <3>5. QED BY <3>1, <3>2, <3>3, <3>4
  <2>2. QED BY <2>1 DEF OneEach, T!OfDrag
<1>8. PICK given : given = T!Given(T!Cut(offers, drag.offers), T!DataDevicesOf(t), "drag",
                                   drag.source)
  OBVIOUS
<1>9. T!Heard(given, offers', Dragged(t))
  BY <1>8 DEF T!MoveDrag, Dragged
<1>10. ASSUME NEW o \in Dragged(t)
       PROVE  given[o].resolved = T!NoAction
  <2>1. PICK d \in T!DataDevicesOf(t) : o = <<d, T!Slot(T!Cut(offers, drag.offers), d)>>
    BY DEF Dragged
  <2>2. o \in T!Offers /\ drag.source # NoSource
    BY <1>3 DEF Dragged
  <2>3. given[o] = T!NewOffer("drag", drag.source)
    BY <1>8, <2>1, <2>2 DEF T!Given
  <2>4. QED BY <1>1, <2>3, NewOfferIs
<1>11. ASSUME NEW o \in T!Offers, T!OfDrag(offers'[o]), offers'[o].resolved # T!NoAction,
              T!Version(OwnerOf[offers'[o].source]) >= 3
       PROVE  agreed'[offers'[o].source] = offers'[o].resolved
  <2>1. CASE o \in Dragged(t)
    <3>1. PICK s \in T!Sources : s = drag.source /\ s = offers'[o].source
      BY <1>2, <1>4, <2>1
    <3>2. offers'[o].resolved # given[o].resolved
      BY <1>10, <1>11, <2>1
    <3>3. \A x \in Dragged(t) : x = o
      BY <1>6, <2>1
    <3>4. T!Version(OwnerOf[s]) >= 3
      BY <1>11, <3>1
    <3>5. agreed'[s] = offers'[o].resolved
      BY <1>9, <2>1, <3>1, <3>2, <3>3, <3>4, HeardOne
    <3>6. QED BY <3>1, <3>5
  <2>2. CASE o \notin Dragged(t)
    <3>1. /\ offers'[o] = offers[o] /\ T!OfDrag(offers[o])
      BY <1>2, <1>11, <2>2
    <3>2. PICK s \in T!Sources : s = offers[o].source /\ s \in dropped
      BY <1>5, <1>11, <2>2
    <3>3. \A x \in Dragged(t) : offers'[x].source # s
      BY <1>2, <1>3, <1>4, <3>2
    <3>4. \A x \in Dragged(t) : offers'[x].source = s => offers'[x].resolved = given[x].resolved
      BY <3>3
    <3>5. agreed'[s] = agreed[s]
      BY <1>9, <3>4, HeardNothing
    <3>6. IsTold(o)
      BY DEF AgreeInv
    <3>7. QED BY <1>11, <3>1, <3>2, <3>5, <3>6 DEF IsTold
  <2>3. QED BY <2>1, <2>2
<1>12. ASSUME NEW o \in T!Offers
       PROVE  IsTold(o)'
  BY <1>11 DEF IsTold, T!OfDrag, T!Version, T!NoAction
<1>13. QED BY <1>7, <1>12

LEMMA StepAgrees ==
  ASSUME TransferAssumption, OneDataDevice, AgreeInv, [T!Next]_T!vars
  PROVE  AgreeInv'
<1>1. SettleInv' /\ SettleInv /\ OfferInv
  BY StepSettles DEF AgreeInv, SettleInv
<1>2. offers \in [T!Offers -> T!Offer]
  BY <1>1 DEF OfferInv, SourceInv, T!TypeOK
<1>3. CASE \A o \in T!Offers : Unmoved(o)
  BY <1>1, <1>3, UnmovedAgree DEF AgreeInv
<1>4. ASSUME NEW s \in T!Sources, NEW mask \in SUBSET Actions, T!SetSourceActions(s, mask)
      PROVE  AgreeInv'
  <2>1. T!Heard(offers, offers', T!Offers)
    BY <1>4 DEF T!SetSourceActions
  <2>2. \A o \in T!Offers :
          /\ T!OfDrag(offers'[o]) <=> T!OfDrag(offers[o])
          /\ offers'[o].source = offers[o].source
          /\ offers'[o].resolved # offers[o].resolved => T!OfDrag(offers[o])
    BY <1>1, <1>4, MaskSettles
  <2>3. QED BY <1>1, <2>1, <2>2, SettledIsHeard DEF AgreeInv
<1>5. ASSUME NEW o \in T!Offers, NEW yes \in BOOLEAN, T!Accept(o, yes)
      PROVE  AgreeInv'
  <2>1. offers[o] \in T!Offer
    BY <1>2
  <2>2. PICK offer : offer = [offers[o] EXCEPT !.accepted = yes]
    OBVIOUS
  <2>3. /\ offer \in T!Offer /\ offer.kind = offers[o].kind /\ offer.source = offers[o].source
        /\ offer.resolved = offers[o].resolved /\ T!Answered(o, offer)
    BY <1>5, <2>1, <2>2 DEF T!Offer, T!Accept
  <2>4. QED BY <1>1, <2>3, AnswerIsHeard DEF AgreeInv
<1>6. ASSUME NEW o \in T!Offers, NEW mask \in SUBSET Actions, NEW p \in Actions \cup {T!NoAction},
             T!SetOfferActions(o, mask, p)
      PROVE  AgreeInv'
  <2>1. offers[o] \in T!Offer
    BY <1>2
  <2>2. PICK offer : offer = [offers[o] EXCEPT !.actions = mask, !.preferred = p]
    OBVIOUS
  <2>3. /\ offer \in T!Offer /\ offer.kind = offers[o].kind /\ offer.source = offers[o].source
        /\ offer.resolved = offers[o].resolved /\ T!Answered(o, offer)
    BY <1>6, <2>1, <2>2 DEF T!Offer, T!SetOfferActions
  <2>4. QED BY <1>1, <2>3, AnswerIsHeard DEF AgreeInv
<1>7. CASE \E t \in Clients \cup {NoClient} : T!MoveDrag(t)
  BY <1>1, <1>7, MoveIsHeard DEF AgreeInv
<1>8. QED BY <1>1, <1>3, <1>4, <1>5, <1>6, <1>7, QuietSteps DEF Settling

LEMMA InitAgree == ASSUME TransferAssumption PROVE T!Init => AgreeInv
<1>1. SUFFICES ASSUME T!Init PROVE AgreeInv
  OBVIOUS
<1>2. OfferInv
  BY <1>1, InitOffers
<1>3. T!NoOffer.kind = "absent"
  BY NewOfferIs DEF T!NoOffer
<1>4. \A o \in T!Offers : ~ T!OfDrag(offers[o])
  BY <1>1, <1>3 DEF T!Init, T!OfDrag
<1>5. QED BY <1>2, <1>4 DEF AgreeInv, SettleInv, Settles, OneEach, IsTold

\* What both sides of a drag allow and what the target prefers of it is what
\* every offer of the drag has settled on, through every change of mind on either
\* side, before the drop and after it; whatever devices the target has
\* (resolve_offer_action, src/state/compositor_state.rs).
THEOREM OffersSettle ==
  ASSUME TransferAssumption
  PROVE  T!Spec => []OffersHaveSettled
<1>1. T!Init => SettleInv
  BY InitAgree DEF AgreeInv
<1>2. SettleInv /\ [T!Next]_(T!vars) => SettleInv'
  BY StepSettles
<1>3. SettleInv => OffersHaveSettled
  BY DEF SettleInv, OffersHaveSettled
<1>4. QED BY <1>1, <1>2, <1>3, PTL DEF T!Spec

\* With one data device for each client, a source has heard of the action the
\* offer of it has settled on.  With several, its client has as many offers that
\* may settle differently, and the source hears them all and keeps the last.
THEOREM SidesSettle ==
  ASSUME TransferAssumption, OneDataDevice
  PROVE  T!Spec => []T!SidesAgree
<1>1. AgreeInv /\ [T!Next]_(T!vars) => AgreeInv'
  BY StepAgrees
<1>2. AgreeInv => T!SidesAgree
  BY DEF AgreeInv, SettleInv, Settles, IsTold, T!SidesAgree
<1>3. QED BY <1>1, <1>2, InitAgree, PTL DEF T!Spec
=============================================================================
