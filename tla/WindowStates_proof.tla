------------------------- MODULE WindowStates_proof -------------------------
(***************************************************************************)
(* Proofs about WindowStates, for any toplevels, outputs, edges, buttons,  *)
(* size hints and bounds.                                                  *)
(*                                                                         *)
(* ToldIsTrue is proved window by window (ToldRight): a step tells a       *)
(* window of every state it changes, or changes none of its states.  It    *)
(* holds for a client that asks for one grab in one press: a second one    *)
(* takes the place of a resize and the window is not told (GrabsAgain).    *)
(* AnchoredEdgeHolds needs no such client, and only the types beside it:   *)
(* each step that moves the anchor, the grab or the edge moves them        *)
(* together.                                                               *)
(*                                                                         *)
(* The configure handshake of the same windows is an instance of           *)
(* Configures: what a surface waits for is all it was sent, as long as     *)
(* its queue kept it (WaitsForItsFirst).                                   *)
(*                                                                         *)
(* Dialogs are an instance of ToplevelFamilies.  The bounds the code puts  *)
(* on its walks are shown to be enough: a walk up falls with every step    *)
(* (WalksEnd), and the rounds of a family have nothing in common, so that  *)
(* there are no more of them than windows (RoundsAreFew).  What a raise    *)
(* lifts is then all that is below the root (IsClosed), and a parent comes *)
(* a round before its dialogs (ARoundLater).                               *)
(***************************************************************************)
EXTENDS WindowStates, Sequences, FiniteSetTheorems, SequenceTheorems, WellFoundedInduction,
        NaturalsInduction, TLAPS

-----------------------------------------------------------------------------
(* Type correctness.                                                       *)

LEMMA ConfigureTypes ==
  ASSUME told \in [Toplevels -> SUBSET STATES], NEW ws, Configure(ws)
  PROVE  told' \in [Toplevels -> SUBSET STATES]
<1>1. \A w \in Toplevels : current_states(w) \in SUBSET STATES
  BY DEF current_states
<1>2. QED BY <1>1 DEF Configure

LEMMA FocusTypes ==
  ASSUME TypeOK
  PROVE  \A w : FocusChange(w) \subseteq Toplevels \cup {w}
BY DEF FocusChange, TypeOK

\* The types of what windows and clients have.
WinsOK ==
  /\ live \subseteq Toplevels /\ homed \subseteq live
  /\ maximized \subseteq Toplevels /\ fullscreen \subseteq Toplevels
  /\ x \in [Toplevels -> Int] /\ width \in [Toplevels -> 0 .. MaxWidth]
  /\ restore \in [Toplevels -> Geometry \cup {None}]
  /\ limits \in [Toplevels -> [min : Nat, max : Nat]]

\* The types of what the pointer has.
HandOK ==
  /\ pointer \in PointerPositions /\ pressed \subseteq Buttons
  /\ entitled \in BOOLEAN
  /\ grab \in Grabs \cup {None}
  /\ anchor \in [window : Toplevels, right : Int] \cup {None}
  /\ grabs \in 0 .. MaxGrabs

TellOK == focused \in Toplevels \cup {None} /\ told \in [Toplevels -> SUBSET STATES]

LEMMA TypesSplit == WinsOK' /\ HandOK' /\ TellOK' => TypeOK'
BY DEF TypeOK, WinsOK, HandOK, TellOK

LEMMA SetStateTypes ==
  ASSUME WindowsAssumption, TypeOK, NEW w \in Toplevels, NEW m \in BOOLEAN, NEW f \in BOOLEAN,
         SetState(w, m, f)
  PROVE  TypeOK'
<1>1. TellOK'
  <2>1. focused' = focused /\ Configure({w})
    BY DEF SetState
  <2>2. QED BY <2>1, ConfigureTypes DEF TypeOK, TellOK
<1>2. HandOK'
  <2>1. grab' \in {grab, None}
    BY DEF SetState, AnswerUnchanged, AnswerHomeless, Fill, GoBack, DropGrabOf
  <2>2. UNCHANGED <<pointer, pressed, entitled, anchor, grabs>>
    BY DEF SetState
  <2>3. QED BY <2>1, <2>2 DEF TypeOK, HandOK, PointerPositions
<1>3. WinsOK'
  <2>1. UNCHANGED <<live, homed, width, limits>>
    BY DEF SetState
  <2>2. Output.x \in Int /\ Usable.x \in Int
    BY DEF WindowsAssumption, Geometry
  <2>3. CASE AnswerUnchanged(w, m, f) \/ AnswerHomeless(w, m, f)
    BY <2>1, <2>3 DEF AnswerUnchanged, AnswerHomeless, TypeOK, WinsOK
  <2>4. CASE Fill(w, m, f)
    <3>1. [x |-> x[w], width |-> width[w]] \in Geometry
      BY DEF TypeOK, Geometry, WindowsAssumption
    <3>2. restore' \in [Toplevels -> Geometry \cup {None}]
      BY <2>4, <3>1 DEF Fill, TypeOK
    <3>3. x' \in [Toplevels -> Int]
      BY <2>2, <2>4 DEF Fill, TypeOK
    <3>4. maximized' \subseteq Toplevels /\ fullscreen' \subseteq Toplevels
      BY <2>4 DEF Fill, TypeOK, WithOut
    <3>5. live' \subseteq Toplevels /\ homed' \subseteq live'
          /\ width' \in [Toplevels -> 0 .. MaxWidth]
          /\ limits' \in [Toplevels -> [min : Nat, max : Nat]]
      BY <2>1 DEF TypeOK
    <3>6. QED BY <3>2, <3>3, <3>4, <3>5 DEF WinsOK, Geometry
  <2>5. CASE GoBack(w, m, f)
    <3>1. restore[w] # None => restore[w].x \in Int
      BY DEF TypeOK, Geometry
    <3>2. x' \in [Toplevels -> Int]
      BY <2>5, <3>1 DEF GoBack, TypeOK
    <3>3. QED BY <2>1, <2>5, <3>2 DEF GoBack, TypeOK, WinsOK
  <2>6. QED BY <2>3, <2>4, <2>5 DEF SetState
<1>4. QED BY <1>1, <1>2, <1>3, TypesSplit

LEMMA ClampedType ==
  ASSUME WindowsAssumption, TypeOK, NEW w \in Toplevels, NEW n \in Int
  PROVE  Clamped(w, n) \in Nat
<1>1. limits[w].min \in Nat /\ limits[w].max \in Nat /\ MIN_WINDOW_WIDTH \in Nat
  BY DEF TypeOK, WindowsAssumption
<1>2. QED BY <1>1 DEF Clamped, Larger, Smaller

LEMMA GrabTypes ==
  ASSUME grab \in Grabs
  PROVE  /\ grab.window \in Toplevels
         /\ grab.kind = "move" => grab.offset \in Int
         /\ grab.kind = "resize" =>
              /\ grab.from \in Int /\ grab.start \in Nat /\ grab.edge \in Edges
              /\ \A n \in Nat : /\ [grab EXCEPT !.sent = n] \in Grabs
                                /\ [grab EXCEPT !.sent = n].window = grab.window
                                /\ [grab EXCEPT !.sent = n].kind = grab.kind
BY DEF Grabs

LEMMA MovePointerTypes ==
  ASSUME WindowsAssumption, TypeOK, NEW p \in PointerPositions, MovePointer(p)
  PROVE  TypeOK'
<1>1. p \in Int
  BY DEF PointerPositions, WindowsAssumption, Geometry
<1>2. UNCHANGED <<live, homed, width, maximized, fullscreen, restore, limits,
                  pressed, entitled, anchor, grabs>> /\ pointer' = p
  BY DEF MovePointer
<1>3. CASE DragMove(p)
  <2>1. grab \in Grabs /\ grab.kind = "move"
    BY <1>3 DEF DragMove, TypeOK
  <2>2. p + grab.offset \in Int
    BY <1>1, <2>1, GrabTypes
  <2>3. x' \in [Toplevels -> Int] /\ UNCHANGED <<grab, focused, told>>
    BY <1>3, <2>2 DEF DragMove, TypeOK
  <2>4. WinsOK' /\ HandOK' /\ TellOK'
    BY <1>2, <2>3 DEF TypeOK, WinsOK, HandOK, TellOK, PointerPositions
  <2>5. QED BY <2>4, TypesSplit
<1>4. CASE DragResize(p)
  <2>1. grab \in Grabs /\ grab.kind = "resize"
    BY <1>4 DEF DragResize, TypeOK
  <2>2. Wanted(p) \in Nat
    BY <1>1, <2>1, GrabTypes, ClampedType DEF Wanted
  <2>3. PICK n \in Nat : /\ grab' = [grab EXCEPT !.sent = n] /\ UNCHANGED <<x, focused>>
                         /\ \E ws : Configure(ws)
    <3>1. /\ grab' = [grab EXCEPT !.sent = Wanted(p)] /\ UNCHANGED <<x, focused>>
          /\ Configure(IF Wanted(p) = grab.sent THEN {} ELSE {grab.window} \cap live)
      BY <1>4 DEF DragResize
    <3>2. QED BY <2>2, <3>1
  <2>4. grab' \in Grabs
    BY <2>1, <2>3, GrabTypes
  <2>5. TellOK'
    BY <2>3, ConfigureTypes DEF TypeOK, TellOK
  <2>6. WinsOK' /\ HandOK'
    BY <1>2, <2>3, <2>4 DEF TypeOK, WinsOK, HandOK, PointerPositions
  <2>7. QED BY <2>5, <2>6, TypesSplit
<1>5. CASE Hover(p)
  <2>1. TellOK'
    <3>1. CASE UNCHANGED <<focused, told>>
      BY <3>1 DEF TypeOK, TellOK
    <3>2. CASE \E w \in homed : Focus(w) /\ Configure({w})
      BY <3>2, ConfigureTypes DEF TypeOK, TellOK, Focus
    <3>3. QED BY <1>5, <3>1, <3>2 DEF Hover
  <2>2. WinsOK' /\ HandOK'
    BY <1>2, <1>5 DEF Hover, TypeOK, WinsOK, HandOK, PointerPositions
  <2>3. QED BY <2>1, <2>2, TypesSplit
<1>6. QED BY <1>3, <1>4, <1>5 DEF MovePointer

LEMMA GrabbingTypes ==
  ASSUME WindowsAssumption, TypeOK, NEW w \in Toplevels,
         Move(w) \/ \E e \in Edges : Resize(w, e)
  PROVE  TypeOK'
<1>1. UNCHANGED <<wins, pointer, pressed, entitled, focused, told>>
      /\ grabs < MaxGrabs /\ grabs' = grabs + 1
  BY DEF Move, Resize, MayGrab
<1>2. grabs' \in 0 .. MaxGrabs
  BY <1>1 DEF TypeOK, WindowsAssumption
<1>3. x[w] \in Int /\ width[w] \in Nat /\ pointer \in Int /\ x[w] - pointer \in Int
      /\ x[w] + width[w] \in Int
  BY DEF TypeOK, WindowsAssumption, PointerPositions, Geometry
<1>4. grab' \in Grabs /\ anchor' \in [window : Toplevels, right : Int] \cup {None}
  <2>1. CASE Move(w)
    BY <1>3, <2>1 DEF Move, Grabs
  <2>2. ASSUME NEW e \in Edges, Resize(w, e)
        PROVE  grab' \in Grabs /\ anchor' \in [window : Toplevels, right : Int] \cup {None}
    BY <1>3, <2>2 DEF Resize, Grabs
  <2>3. QED BY <2>1, <2>2
<1>5. WinsOK'
  BY <1>1 DEF TypeOK, WinsOK, wins
<1>6. HandOK'
  BY <1>1, <1>2, <1>4 DEF TypeOK, HandOK, PointerPositions
<1>7. QED BY <1>1, <1>5, <1>6, TypesSplit DEF TypeOK, TellOK

LEMMA CommitTypes ==
  ASSUME WindowsAssumption, TypeOK, NEW w \in Toplevels, NEW n \in 0 .. MaxWidth, Commit(w, n)
  PROVE  TypeOK'
<1>1. n \in Nat /\ UNCHANGED <<live, homed, maximized, fullscreen, restore, limits, pointer,
                               pressed, entitled, grab, grabs, focused, told>>
  BY DEF Commit
<1>2. width' \in [Toplevels -> 0 .. MaxWidth]
  BY DEF Commit, TypeOK
<1>3. anchor # None => anchor.right - n \in Int
  BY <1>1 DEF TypeOK
<1>4. x' \in [Toplevels -> Int] /\ anchor' \in {anchor, None}
  BY <1>3 DEF Commit, TypeOK
<1>5. WinsOK'
  BY <1>1, <1>2, <1>4 DEF TypeOK, WinsOK
<1>6. HandOK'
  BY <1>1, <1>4 DEF TypeOK, HandOK, PointerPositions
<1>7. QED BY <1>1, <1>5, <1>6, TypesSplit DEF TypeOK, TellOK

LEMMA GetToplevelTypes ==
  ASSUME TypeOK, NEW w \in Toplevels, GetToplevel(w)
  PROVE  TypeOK'
<1>1. WinsOK'
  <2>1. [min |-> 0, max |-> 0] \in [min : Nat, max : Nat]
    OBVIOUS
  <2>2. /\ live' = live \cup {w} /\ homed' \in {homed \ {w}, homed \cup {w}}
        /\ maximized' = maximized \ {w} /\ fullscreen' = fullscreen \ {w}
        /\ restore' = [restore EXCEPT ![w] = None]
        /\ limits' = [limits EXCEPT ![w] = [min |-> 0, max |-> 0]]
        /\ UNCHANGED <<x, width>>
    BY DEF GetToplevel
  <2>3. restore' \in [Toplevels -> Geometry \cup {None}]
        /\ limits' \in [Toplevels -> [min : Nat, max : Nat]]
    BY <2>1, <2>2 DEF TypeOK
  <2>4. QED BY <2>2, <2>3 DEF TypeOK, WinsOK
<1>2. HandOK'
  BY DEF GetToplevel, hand, TypeOK, HandOK, PointerPositions
<1>3. TellOK'
  <2>1. focused' = w /\ Configure({w} \cup FocusChange(w))
    BY DEF GetToplevel, Focus
  <2>2. QED BY <2>1, ConfigureTypes DEF TypeOK, TellOK
<1>4. QED BY <1>1, <1>2, <1>3, TypesSplit

LEMMA ButtonTypes ==
  ASSUME TypeOK, NEW b \in Buttons, Press(b) \/ Release(b)
  PROVE  TypeOK'
<1>1. WinsOK'
  BY DEF Press, Release, TypeOK, WinsOK, wins
<1>2. HandOK'
  BY DEF Press, Release, TypeOK, HandOK, PointerPositions
<1>3. TellOK'
  <2>1. CASE Press(b)
    <3>1. CASE UNCHANGED <<focused, told>>
      BY <3>1 DEF TypeOK, TellOK
    <3>2. CASE \E w \in homed : \E f \in {focused, w} : Focus(f) /\ Configure(FocusChange(f))
      <4>1. PICK w \in homed : \E f \in {focused, w} : Focus(f) /\ Configure(FocusChange(f))
        BY <3>2
      <4>2. PICK f \in {focused, w} : Focus(f) /\ Configure(FocusChange(f))
        BY <4>1
      <4>3. f \in Toplevels \cup {None}
        BY <4>2 DEF TypeOK
      <4>4. QED BY <4>2, <4>3, ConfigureTypes DEF TypeOK, TellOK, Focus
    <3>3. QED BY <2>1, <3>1, <3>2 DEF Press
  <2>2. CASE Release(b)
    BY <2>2, ConfigureTypes DEF Release, TypeOK, TellOK
  <2>3. QED BY <2>1, <2>2
<1>4. QED BY <1>1, <1>2, <1>3, TypesSplit

LEMMA OtherTypes ==
  ASSUME WindowsAssumption, TypeOK,
         \/ \E w \in Toplevels : DestroyToplevel(w) \/ Rehome(w) \/ \E l \in Limits : SetSizeHint(w, l)
         \/ clear_focus
         \/ UNCHANGED vars
  PROVE  TypeOK'
<1>1. ASSUME NEW w \in Toplevels, DestroyToplevel(w) PROVE TypeOK'
  BY <1>1 DEF DestroyToplevel, TypeOK, PointerPositions
<1>2. ASSUME NEW w \in Toplevels, Rehome(w) PROVE TypeOK'
  BY <1>2 DEF Rehome, TypeOK, PointerPositions, hand
<1>3. ASSUME NEW w \in Toplevels, NEW l \in Limits, SetSizeHint(w, l) PROVE TypeOK'
  <2>1. limits' \in [Toplevels -> [min : Nat, max : Nat]]
    BY <1>3 DEF SetSizeHint, TypeOK, WindowsAssumption
  <2>2. QED BY <1>3, <2>1 DEF SetSizeHint, TypeOK, PointerPositions, hand
<1>4. CASE clear_focus
  <2>1. focused' = None /\ Configure(FocusChange(None)) /\ UNCHANGED <<wins, hand>>
    BY <1>4 DEF clear_focus, Focus
  <2>2. told' \in [Toplevels -> SUBSET STATES]
    BY <2>1, ConfigureTypes DEF TypeOK
  <2>3. QED BY <2>1, <2>2 DEF TypeOK, wins, hand, PointerPositions
<1>5. CASE UNCHANGED vars
  BY <1>5 DEF vars, wins, hand, TypeOK, PointerPositions
<1>6. QED BY <1>1, <1>2, <1>3, <1>4, <1>5

LEMMA InitTypes == WindowsAssumption /\ Init => TypeOK
<1> SUFFICES ASSUME WindowsAssumption, Init PROVE TypeOK
  OBVIOUS
<1>1. /\ Output.x \in Int /\ Output.width \in Nat /\ Output.width > 0
      /\ MaxWidth \in Nat /\ MaxGrabs \in Nat
  BY DEF WindowsAssumption, Geometry
<1>2. Output.x \in PointerPositions /\ 0 \in 0 .. MaxWidth /\ 0 \in 0 .. MaxGrabs
  BY <1>1 DEF PointerPositions
<1>3. [w \in Toplevels |-> [min |-> 0, max |-> 0]] \in [Toplevels -> [min : Nat, max : Nat]]
  OBVIOUS
<1>4. WinsOK
  BY <1>2, <1>3 DEF Init, WinsOK
<1>5. HandOK /\ TellOK
  BY <1>2 DEF Init, HandOK, TellOK
<1>6. QED BY <1>4, <1>5 DEF TypeOK, WinsOK, HandOK, TellOK

LEMMA StepTypes == WindowsAssumption /\ TypeOK /\ [Next]_vars => TypeOK'
<1> SUFFICES ASSUME WindowsAssumption, TypeOK, [Next]_vars PROVE TypeOK'
  OBVIOUS
<1>1. ASSUME NEW w \in Toplevels, NEW m \in BOOLEAN, NEW f \in BOOLEAN, SetState(w, m, f)
      PROVE  TypeOK'
  BY <1>1, SetStateTypes
<1>2. ASSUME NEW w \in Toplevels,
             \/ GetToplevel(w) \/ Move(w)
             \/ \E e \in Edges : Resize(w, e)
             \/ \E n \in 0 .. MaxWidth : Commit(w, n)
      PROVE  TypeOK'
  BY <1>2, GrabbingTypes, CommitTypes, GetToplevelTypes
<1>3. ASSUME NEW b \in Buttons, Press(b) \/ Release(b)
      PROVE  TypeOK'
  BY <1>3, ButtonTypes
<1>4. ASSUME NEW p \in PointerPositions, MovePointer(p)
      PROVE  TypeOK'
  BY <1>4, MovePointerTypes
<1>5. QED BY <1>1, <1>2, <1>3, <1>4, OtherTypes DEF Next

\* Every variable keeps its type.
THEOREM TypeCorrect ==
  ASSUME WindowsAssumption
  PROVE  Spec => []TypeOK
BY InitTypes, StepTypes, PTL DEF Spec

-----------------------------------------------------------------------------
(* What windows are told.                                                  *)

NamedStates(w) ==
  {s \in STATES : \/ s = "maximized" /\ w \in maximized
                  \/ s = "fullscreen" /\ w \in fullscreen
                  \/ s = "activated" /\ focused = w}

ToldRight(w) ==
  /\ told[w] \ {"resizing"} = NamedStates(w)
  /\ "resizing" \in told[w] => Resizing(w, grab)

LEMMA ToldRightIsTold == ToldIsTrue <=> \A w \in live : ToldRight(w)
BY DEF ToldIsTrue, ToldRight, NamedStates

LEMMA ToldRightIsToldNext == ToldIsTrue' <=> \A w \in live' : ToldRight(w)'
BY DEF ToldIsTrue, ToldRight, NamedStates

\* A configure tells what will be so after the step that sends it.
LEMMA ConfigureTells ==
  ASSUME NEW ws, Configure(ws), NEW w \in Toplevels, w \in ws
  PROVE  ToldRight(w)'
<1>1. told'[w] = current_states(w)
  BY DEF Configure
<1>2. \A s : s \in told'[w] <=>
        /\ s \in STATES
        /\ \/ s = "maximized" /\ w \in maximized'
           \/ s = "fullscreen" /\ w \in fullscreen'
           \/ s = "resizing" /\ Resizing(w, grab')
           \/ s = "activated" /\ focused' = w
  BY <1>1 DEF current_states
<1>3. told'[w] \ {"resizing"} = NamedStates(w)'
  BY <1>2 DEF NamedStates
<1>4. "resizing" \in told'[w] => Resizing(w, grab')
  BY <1>2
<1>5. Resizing(w, grab') <=> Resizing(w, grab)'
  BY DEF Resizing
<1>6. QED BY <1>3, <1>4, <1>5 DEF ToldRight

\* And nothing has to be told to a window for which nothing changes.
LEMMA StaysTold ==
  ASSUME NEW w, ToldRight(w), told'[w] = told[w],
         w \in maximized' <=> w \in maximized, w \in fullscreen' <=> w \in fullscreen,
         focused' = w <=> focused = w,
         Resizing(w, grab) => Resizing(w, grab)'
  PROVE  ToldRight(w)'
<1>1. NamedStates(w)' = NamedStates(w)
  BY DEF NamedStates
<1>2. QED BY <1>1 DEF ToldRight

LEMMA SettingTells ==
  ASSUME TypeOK, ToldIsTrue, NEW w \in Toplevels, NEW m \in BOOLEAN, NEW f \in BOOLEAN,
         SetState(w, m, f)
  PROVE  ToldIsTrue'
<1> SUFFICES ASSUME NEW v \in live' PROVE ToldRight(v)'
  BY ToldRightIsToldNext
<1>1. v \in live /\ v \in Toplevels /\ focused' = focused /\ Configure({w})
  BY DEF SetState, TypeOK
<1>2. CASE v = w
  BY <1>1, <1>2, ConfigureTells
<1>3. CASE v # w
  <2>1. told'[v] = told[v]
    BY <1>1, <1>3 DEF Configure
  <2>2. v \in maximized' <=> v \in maximized
    BY <1>3 DEF SetState, AnswerUnchanged, AnswerHomeless, Fill, GoBack, WithOut
  <2>3. v \in fullscreen' <=> v \in fullscreen
    BY <1>3 DEF SetState, AnswerUnchanged, AnswerHomeless, Fill, GoBack, WithOut
  <2>4. grab' = grab \/ Dragged(w)
    BY DEF SetState, AnswerUnchanged, AnswerHomeless, Fill, GoBack, DropGrabOf
  <2>5. Resizing(v, grab) => Resizing(v, grab)'
    BY <1>3, <2>4 DEF Resizing, Dragged
  <2>6. QED BY <1>1, <2>1, <2>2, <2>3, <2>5, StaysTold, ToldRightIsTold
<1>4. QED BY <1>2, <1>3

LEMMA FocusTells ==
  ASSUME TypeOK, ToldIsTrue, NEW f, focused' = f, NEW ws, FocusChange(f) \subseteq ws,
         Configure(ws), None \notin Toplevels,
         UNCHANGED grab,
         NEW v \in live', v \in Toplevels, v \notin live => v \in ws,
         v \notin ws => (v \in maximized' <=> v \in maximized),
         v \notin ws => (v \in fullscreen' <=> v \in fullscreen)
  PROVE  ToldRight(v)'
<1>1. CASE v \in ws
  BY <1>1, ConfigureTells
<1>2. CASE v \notin ws
  <2>1. told'[v] = told[v]
    BY <1>2 DEF Configure
  <2>2. focused' = v <=> focused = v
    BY <1>2 DEF FocusChange
  <2>3. Resizing(v, grab) => Resizing(v, grab)'
    BY DEF Resizing
  <2>4. QED BY <1>2, <2>1, <2>2, <2>3, StaysTold, ToldRightIsTold
<1>3. QED BY <1>1, <1>2

LEMMA PointingTells ==
  ASSUME WindowsAssumption, TypeOK, ToldIsTrue, NEW p \in PointerPositions, MovePointer(p)
  PROVE  ToldIsTrue'
<1> SUFFICES ASSUME NEW v \in live' PROVE ToldRight(v)'
  BY ToldRightIsToldNext
<1>1. /\ v \in live /\ v \in Toplevels /\ ToldRight(v)
      /\ maximized' = maximized /\ fullscreen' = fullscreen
  BY ToldRightIsTold DEF MovePointer, TypeOK
<1>2. CASE DragMove(p)
  <2>1. UNCHANGED <<grab, focused, told>>
    BY <1>2 DEF DragMove
  <2>2. Resizing(v, grab) => Resizing(v, grab)'
    BY <2>1 DEF Resizing
  <2>3. QED BY <1>1, <2>1, <2>2, StaysTold
<1>3. CASE DragResize(p)
  <2>1. grab \in Grabs /\ grab.kind = "resize" /\ Wanted(p) \in Nat
    <3>1. grab \in Grabs /\ grab.kind = "resize" /\ p \in Int
      BY <1>3 DEF DragResize, TypeOK, PointerPositions, WindowsAssumption, Geometry
    <3>2. QED BY <3>1, GrabTypes, ClampedType DEF Wanted
  <2>2. PICK n \in Nat, ws \in SUBSET Toplevels :
          grab' = [grab EXCEPT !.sent = n] /\ focused' = focused /\ Configure(ws)
    <3>1. /\ grab' = [grab EXCEPT !.sent = Wanted(p)] /\ focused' = focused
          /\ Configure(IF Wanted(p) = grab.sent THEN {} ELSE {grab.window} \cap live)
      BY <1>3 DEF DragResize
    <3>2. (IF Wanted(p) = grab.sent THEN {} ELSE {grab.window} \cap live) \in SUBSET Toplevels
      BY DEF TypeOK
    <3>3. QED BY <2>1, <3>1, <3>2
  <2>3. grab' \in Grabs /\ grab'.window = grab.window /\ grab'.kind = grab.kind
    BY <2>1, <2>2, GrabTypes
  <2>4. Resizing(v, grab) => Resizing(v, grab)'
    BY <2>3 DEF Resizing, WindowsAssumption
  <2>5. CASE v \in ws
    BY <1>1, <2>2, <2>5, ConfigureTells
  <2>6. CASE v \notin ws
    <3>1. told'[v] = told[v]
      BY <1>1, <2>2, <2>6 DEF Configure
    <3>2. QED BY <1>1, <2>2, <2>4, <3>1, StaysTold
  <2>7. QED BY <2>5, <2>6
<1>4. CASE Hover(p)
  <2>1. grab' = grab
    BY <1>4 DEF Hover
  <2>2. Resizing(v, grab) => Resizing(v, grab)'
    BY <2>1 DEF Resizing
  <2>3. CASE UNCHANGED <<focused, told>>
    BY <1>1, <2>2, <2>3, StaysTold
  <2>4. ASSUME NEW w \in homed, focused = None, Focus(w), Configure({w})
        PROVE  ToldRight(v)'
    <3>1. FocusChange(w) \subseteq {w} /\ focused' = w
      BY <2>4 DEF FocusChange, Focus
    <3>2. QED BY <1>1, <2>1, <2>4, <3>1, FocusTells DEF WindowsAssumption
  <2>5. QED BY <1>4, <2>3, <2>4 DEF Hover
<1>5. QED BY <1>2, <1>3, <1>4 DEF MovePointer

LEMMA ButtonsTell ==
  ASSUME WindowsAssumption, TypeOK, ToldIsTrue, NEW b \in Buttons, Press(b) \/ Release(b)
  PROVE  ToldIsTrue'
<1> SUFFICES ASSUME NEW v \in live' PROVE ToldRight(v)'
  BY ToldRightIsToldNext
<1>1. /\ v \in live /\ v \in Toplevels /\ ToldRight(v)
      /\ maximized' = maximized /\ fullscreen' = fullscreen
  BY ToldRightIsTold DEF Press, Release, wins, TypeOK
<1>2. CASE Press(b)
  <2>1. grab' = grab
    BY <1>2 DEF Press
  <2>2. CASE UNCHANGED <<focused, told>>
    <3>1. Resizing(v, grab) => Resizing(v, grab)'
      BY <2>1 DEF Resizing
    <3>2. QED BY <1>1, <2>2, <3>1, StaysTold
  <2>3. ASSUME NEW f, Focus(f), Configure(FocusChange(f))
        PROVE  ToldRight(v)'
    BY <1>1, <2>1, <2>3, FocusTells DEF Focus, WindowsAssumption
  <2>4. QED BY <1>2, <2>2, <2>3 DEF Press
<1>3. CASE Release(b)
  <2>1. focused' = focused /\ Configure({w \in live : Resizing(w, grab)})
    BY <1>3 DEF Release
  <2>2. CASE Resizing(v, grab)
    BY <1>1, <2>1, <2>2, ConfigureTells
  <2>3. CASE ~ Resizing(v, grab)
    <3>1. told'[v] = told[v]
      BY <1>1, <2>1, <2>3 DEF Configure
    <3>2. QED BY <1>1, <2>1, <2>3, <3>1, StaysTold
  <2>4. QED BY <2>2, <2>3
<1>4. QED BY <1>2, <1>3

LEMMA WindowsTell ==
  ASSUME WindowsAssumption, TypeOK, ToldIsTrue, NEW w \in Toplevels,
         GetToplevel(w) \/ DestroyToplevel(w)
  PROVE  ToldIsTrue'
<1> SUFFICES ASSUME NEW v \in live' PROVE ToldRight(v)'
  BY ToldRightIsToldNext
<1>1. CASE GetToplevel(w)
  <2> DEFINE ws == {w} \cup FocusChange(w)
  <2>1. /\ focused' = w /\ Configure(ws) /\ FocusChange(w) \subseteq ws
        /\ UNCHANGED grab /\ v \in Toplevels
        /\ v \notin live => v \in ws
        /\ v \notin ws => v # w
        /\ maximized' = maximized \ {w} /\ fullscreen' = fullscreen \ {w}
    BY <1>1 DEF GetToplevel, Focus, hand, TypeOK
  <2> HIDE DEF ws
  <2>2. /\ v \notin ws => (v \in maximized' <=> v \in maximized)
        /\ v \notin ws => (v \in fullscreen' <=> v \in fullscreen)
    BY <2>1
  <2>3. QED BY <2>1, <2>2, FocusTells DEF WindowsAssumption
<1>2. CASE DestroyToplevel(w)
  <2>1. /\ v \in live /\ v # w /\ v \in Toplevels
        /\ UNCHANGED <<maximized, fullscreen, told, grab>>
        /\ focused' = IF focused = w THEN None ELSE focused
    BY <1>2 DEF DestroyToplevel, TypeOK
  <2>2. focused' = v <=> focused = v
    BY <2>1 DEF WindowsAssumption
  <2>3. Resizing(v, grab) => Resizing(v, grab)'
    BY <2>1 DEF Resizing
  <2>4. ToldRight(v)
    BY <2>1, ToldRightIsTold
  <2>5. QED BY <2>1, <2>2, <2>3, <2>4, StaysTold
<1>3. QED BY <1>1, <1>2

LEMMA GrabbingTells ==
  ASSUME ~ GrabsAgain, TypeOK, ToldIsTrue, NEW w \in Toplevels,
         Move(w) \/ \E e \in Edges : Resize(w, e)
  PROVE  ToldIsTrue'
<1> SUFFICES ASSUME NEW v \in live' PROVE ToldRight(v)'
  BY ToldRightIsToldNext
<1>1. /\ v \in live /\ grab = None
      /\ maximized' = maximized /\ fullscreen' = fullscreen
      /\ focused' = focused /\ told' = told
  BY DEF Move, Resize, MayGrab, wins
<1>2. ToldRight(v) /\ ~ Resizing(v, grab)
  BY <1>1, ToldRightIsTold DEF Resizing
<1>3. QED BY <1>1, <1>2, StaysTold

LEMMA OthersTell ==
  ASSUME WindowsAssumption, TypeOK, ToldIsTrue,
         \/ \E w \in Toplevels : \/ Rehome(w) \/ \E l \in Limits : SetSizeHint(w, l)
                                 \/ \E n \in 0 .. MaxWidth : Commit(w, n)
         \/ clear_focus
         \/ UNCHANGED vars
  PROVE  ToldIsTrue'
<1> SUFFICES ASSUME NEW v \in live' PROVE ToldRight(v)'
  BY ToldRightIsToldNext
<1>1. CASE clear_focus
  <2>1. /\ v \in live /\ v \in Toplevels /\ UNCHANGED <<maximized, fullscreen, grab>>
        /\ focused' = None /\ Configure(FocusChange(None))
    BY <1>1 DEF clear_focus, Focus, wins, hand, TypeOK
  <2>2. QED BY <2>1, FocusTells DEF WindowsAssumption
<1>2. CASE UNCHANGED <<live, maximized, fullscreen, grab, focused, told>>
  <2>1. ToldRight(v)
    BY <1>2, ToldRightIsTold
  <2>2. Resizing(v, grab) => Resizing(v, grab)'
    BY <1>2 DEF Resizing
  <2>3. QED BY <1>2, <2>1, <2>2, StaysTold
<1>3. QED BY <1>1, <1>2 DEF Rehome, SetSizeHint, Commit, vars, wins, hand

LEMMA StepTells ==
  ASSUME WindowsAssumption, ~ GrabsAgain
  PROVE  TypeOK /\ ToldIsTrue /\ [Next]_vars => ToldIsTrue'
<1> SUFFICES ASSUME TypeOK, ToldIsTrue, [Next]_vars PROVE ToldIsTrue'
  OBVIOUS
<1>1. ASSUME NEW w \in Toplevels, NEW m \in BOOLEAN, NEW f \in BOOLEAN, SetState(w, m, f)
      PROVE  ToldIsTrue'
  BY <1>1, SettingTells
<1>2. ASSUME NEW w \in Toplevels,
             \/ GetToplevel(w) \/ DestroyToplevel(w) \/ Move(w)
             \/ \E e \in Edges : Resize(w, e)
      PROVE  ToldIsTrue'
  BY <1>2, WindowsTell, GrabbingTells
<1>3. ASSUME NEW b \in Buttons, Press(b) \/ Release(b)
      PROVE  ToldIsTrue'
  BY <1>3, ButtonsTell
<1>4. ASSUME NEW p \in PointerPositions, MovePointer(p)
      PROVE  ToldIsTrue'
  BY <1>4, PointingTells
<1>5. ASSUME \/ \E w \in Toplevels : \/ Rehome(w) \/ \E l \in Limits : SetSizeHint(w, l)
                                     \/ \E n \in 0 .. MaxWidth : Commit(w, n)
             \/ clear_focus
             \/ UNCHANGED vars
      PROVE  ToldIsTrue'
  BY <1>5, OthersTell
<1>6. QED BY <1>1, <1>2, <1>3, <1>4, <1>5 DEF Next

\* A window's last configure says the states it is in, the focus among them,
\* and calls it "resizing" only while it is resized, whatever order clients,
\* the pointer and the shell act in.
THEOREM WindowsAreTold ==
  ASSUME WindowsAssumption, ~ GrabsAgain
  PROVE  Spec => []ToldIsTrue
<1>1. Init => ToldIsTrue
  BY DEF Init, ToldIsTrue
<1>2. QED BY <1>1, StepTells, TypeCorrect, PTL DEF Spec

-----------------------------------------------------------------------------
(* The edge that is not dragged.                                           *)

LEMMA SettingHolds ==
  ASSUME TypeOK, AnchoredEdgeHolds, NEW w \in Toplevels, NEW m \in BOOLEAN, NEW f \in BOOLEAN,
         SetState(w, m, f)
  PROVE  AnchoredEdgeHolds'
<1>1. UNCHANGED <<live, width, anchor>>
  BY DEF SetState
<1>2. CASE AnswerUnchanged(w, m, f)
  BY <1>1, <1>2 DEF AnswerUnchanged, AnchoredEdgeHolds, Resizing, is_window_state_locked
<1>3. CASE grab' = None
  BY <1>3 DEF AnchoredEdgeHolds
<1>4. CASE grab' = grab /\ grab # None /\ grab.window # w
  <2>1. \A v \in Toplevels : v # w => /\ x'[v] = x[v]
                                      /\ v \in maximized' <=> v \in maximized
                                      /\ v \in fullscreen' <=> v \in fullscreen
    BY DEF SetState, AnswerUnchanged, AnswerHomeless, Fill, GoBack, WithOut, TypeOK
  <2>2. grab.window \in Toplevels
    BY <1>4, GrabTypes DEF TypeOK
  <2>3. anchor # None => anchor.window = grab.window
    BY <1>4 DEF AnchoredEdgeHolds, Resizing
  <2>4. QED BY <1>1, <1>4, <2>1, <2>2, <2>3
            DEF AnchoredEdgeHolds, Resizing, is_window_state_locked
<1>5. QED BY <1>2, <1>3, <1>4
          DEF SetState, AnswerHomeless, Fill, GoBack, DropGrabOf, Dragged

LEMMA PointingHolds ==
  ASSUME WindowsAssumption, TypeOK, AnchoredEdgeHolds, NEW p \in PointerPositions, MovePointer(p)
  PROVE  AnchoredEdgeHolds'
<1>1. UNCHANGED <<live, width, maximized, fullscreen, anchor>>
  BY DEF MovePointer
<1>2. CASE DragMove(p)
  <2>1. grab' = grab /\ grab # None /\ grab.kind = "move"
    BY <1>2 DEF DragMove
  <2>2. anchor = None
    BY <2>1 DEF AnchoredEdgeHolds, Resizing
  <2>3. QED BY <1>1, <2>1, <2>2 DEF AnchoredEdgeHolds, is_window_state_locked
<1>3. CASE DragResize(p)
  <2>1. /\ x' = x /\ grab # None /\ grab' = [grab EXCEPT !.sent = Wanted(p)]
        /\ grab \in Grabs /\ grab.kind = "resize"
    BY <1>3 DEF DragResize, TypeOK
  <2>2. grab'.window = grab.window /\ grab'.kind = grab.kind /\ grab' # None
    <3>1. p \in Int
      BY DEF PointerPositions, WindowsAssumption, Geometry
    <3>2. Wanted(p) \in Nat
      BY <2>1, <3>1, GrabTypes, ClampedType DEF Wanted
    <3>3. QED BY <2>1, <3>2, GrabTypes DEF WindowsAssumption
  <2>3. QED BY <1>1, <2>1, <2>2 DEF AnchoredEdgeHolds, Resizing, is_window_state_locked
<1>4. CASE Hover(p)
  BY <1>4 DEF Hover, AnchoredEdgeHolds
<1>5. QED BY <1>2, <1>3, <1>4 DEF MovePointer

LEMMA GrabbingHolds ==
  ASSUME TypeOK, AnchoredEdgeHolds, NEW w \in Toplevels,
         Move(w) \/ \E e \in Edges : Resize(w, e)
  PROVE  AnchoredEdgeHolds'
<1>1. ~ is_window_state_locked(w) /\ UNCHANGED <<live, maximized, fullscreen, x, width>>
  BY DEF Move, Resize, MayGrab, wins
<1>2. ~ is_window_state_locked(w)'
  BY <1>1 DEF is_window_state_locked
<1>3. CASE Move(w)
  BY <1>2, <1>3 DEF Move, AnchoredEdgeHolds
<1>4. ASSUME NEW e \in Edges, Resize(w, e)
      PROVE  AnchoredEdgeHolds'
  <2>1. /\ grab'.window = w /\ grab'.kind = "resize"
        /\ anchor' = None \/ (anchor'.window = w /\ anchor'.right = x[w] + width[w])
    BY <1>4 DEF Resize
  <2>2. QED BY <1>1, <1>2, <2>1 DEF AnchoredEdgeHolds, Resizing
<1>5. QED BY <1>3, <1>4

LEMMA CommitHolds ==
  ASSUME TypeOK, AnchoredEdgeHolds, NEW w \in Toplevels, NEW n \in 0 .. MaxWidth, Commit(w, n)
  PROVE  AnchoredEdgeHolds'
<1>1. /\ UNCHANGED <<live, maximized, fullscreen, grab>>
      /\ width' = [width EXCEPT ![w] = n]
  BY DEF Commit
<1>2. SUFFICES ASSUME grab # None, anchor' # None
               PROVE  /\ Resizing(anchor'.window, grab)
                      /\ width'[anchor'.window] > 0 =>
                           x'[anchor'.window] + width'[anchor'.window] = anchor'.right
  BY <1>1 DEF AnchoredEdgeHolds, Resizing, is_window_state_locked
<1>3. /\ anchor' = anchor /\ Resizing(anchor.window, grab)
      /\ width[anchor.window] > 0 => x[anchor.window] + width[anchor.window] = anchor.right
  BY <1>2 DEF Commit, AnchoredEdgeHolds
<1>4. anchor.window \in Toplevels /\ anchor.right \in Int /\ n \in Nat
  BY <1>2, <1>3 DEF TypeOK
<1>5. CASE anchor.window = w /\ n > 0
  <2>1. x'[w] = anchor.right - n /\ width'[w] = n
    BY <1>1, <1>2, <1>3, <1>5 DEF Commit, TypeOK
  <2>2. QED BY <1>3, <1>4, <1>5, <2>1
<1>6. CASE anchor.window = w /\ ~ (n > 0)
  BY <1>1, <1>3, <1>4, <1>6 DEF TypeOK
<1>7. CASE anchor.window # w
  <2>1. x' = x /\ width'[anchor.window] = width[anchor.window]
    BY <1>1, <1>4, <1>7 DEF Commit, TypeOK
  <2>2. QED BY <1>3, <2>1
<1>8. QED BY <1>5, <1>6, <1>7

LEMMA OthersHold ==
  ASSUME TypeOK, AnchoredEdgeHolds,
         \/ \E w \in Toplevels : \/ GetToplevel(w) \/ DestroyToplevel(w) \/ Rehome(w)
                                 \/ \E l \in Limits : SetSizeHint(w, l)
         \/ \E b \in Buttons : Press(b) \/ Release(b)
         \/ clear_focus
         \/ UNCHANGED vars
  PROVE  AnchoredEdgeHolds'
<1>1. ASSUME UNCHANGED <<x, width, grab>>, anchor' \in {anchor, None},
             \A w \in live' : (w \in maximized' \cup fullscreen') =>
                                w \in live /\ w \in maximized \cup fullscreen
      PROVE  AnchoredEdgeHolds'
  BY <1>1 DEF AnchoredEdgeHolds, Resizing, is_window_state_locked
<1>2. ASSUME NEW w \in Toplevels, GetToplevel(w) \/ DestroyToplevel(w)
      PROVE  AnchoredEdgeHolds'
  <2>1. UNCHANGED <<x, width, grab>> /\ anchor' \in {anchor, None}
    BY <1>2 DEF GetToplevel, DestroyToplevel, hand
  <2>2. \A v \in live' : (v \in maximized' \cup fullscreen') =>
                           v \in live /\ v \in maximized \cup fullscreen
    BY <1>2 DEF GetToplevel, DestroyToplevel
  <2>3. QED BY <1>1, <2>1, <2>2
<1>3. ASSUME NEW w \in Toplevels, Rehome(w) \/ \E l \in Limits : SetSizeHint(w, l)
      PROVE  AnchoredEdgeHolds'
  BY <1>1, <1>3 DEF Rehome, SetSizeHint, hand
<1>4. ASSUME NEW b \in Buttons, Press(b)
      PROVE  AnchoredEdgeHolds'
  BY <1>1, <1>4 DEF Press, wins
<1>5. ASSUME NEW b \in Buttons, Release(b)
      PROVE  AnchoredEdgeHolds'
  BY <1>5 DEF Release, AnchoredEdgeHolds
<1>6. CASE clear_focus
  BY <1>1, <1>6 DEF clear_focus, wins, hand
<1>7. CASE UNCHANGED vars
  BY <1>1, <1>7 DEF vars, wins, hand
<1>8. QED BY <1>2, <1>3, <1>4, <1>5, <1>6, <1>7

\* While a left or top edge is dragged the opposite edge stays where it was,
\* whatever sizes the client commits and whenever, and no window that fills its
\* output is dragged: also when clients ask for a second grab in one press.
THEOREM EdgesHold ==
  ASSUME WindowsAssumption
  PROVE  Spec => []AnchoredEdgeHolds
<1>1. Init => AnchoredEdgeHolds
  BY DEF Init, AnchoredEdgeHolds
<1>2. TypeOK /\ AnchoredEdgeHolds /\ [Next]_vars => AnchoredEdgeHolds'
  <2> SUFFICES ASSUME TypeOK, AnchoredEdgeHolds, [Next]_vars PROVE AnchoredEdgeHolds'
    OBVIOUS
  <2>1. ASSUME NEW w \in Toplevels, NEW m \in BOOLEAN, NEW f \in BOOLEAN, SetState(w, m, f)
        PROVE  AnchoredEdgeHolds'
    BY <2>1, SettingHolds
  <2>2. ASSUME NEW w \in Toplevels, Move(w) \/ \E e \in Edges : Resize(w, e)
        PROVE  AnchoredEdgeHolds'
    BY <2>2, GrabbingHolds
  <2>3. ASSUME NEW w \in Toplevels, NEW n \in 0 .. MaxWidth, Commit(w, n)
        PROVE  AnchoredEdgeHolds'
    BY <2>3, CommitHolds
  <2>4. ASSUME NEW p \in PointerPositions, MovePointer(p)
        PROVE  AnchoredEdgeHolds'
    BY <2>4, PointingHolds
  <2>5. QED BY <2>1, <2>2, <2>3, <2>4, OthersHold DEF Next
<1>3. QED BY <1>1, <1>2, TypeCorrect, PTL DEF Spec

-----------------------------------------------------------------------------
(* The configure handshake (module Configures), for any surfaces and        *)
(* bounds.                                                                 *)

CONSTANTS XdgSurfaces, MAX_PENDING_CONFIGURES, MaxSerial
VARIABLES wrapped, role, configured, pending, highest, next, parented, content, fatal, sent,
          answered, astray

C == INSTANCE Configures

Members(s) == {s[i] : i \in DOMAIN s}

\* A queue that holds every serial of a set, each once.
Holds(q, t) == Members(q) = t /\ Len(q) = Cardinality(t)

\* No surface was sent more than its newest serial says.
SentIsBelow ==
  \A s \in XdgSurfaces : sent[s] \subseteq 1 .. highest[s] /\ highest[s] < next

\* A surface that is not configured has not answered, and until the queue was
\* full everything it was sent is in it.
WaitsForItsFirst ==
  \A s \in wrapped \ configured :
    Cardinality(sent[s]) <= MAX_PENDING_CONFIGURES =>
      answered[s] = 0 /\ Holds(pending[s], sent[s])

ConfiguresInv ==
  /\ C!TypeOK
  /\ SentIsBelow
  /\ WaitsForItsFirst

LEMMA ConfiguresInit ==
  ASSUME C!ConfiguresAssumption, C!Init
  PROVE  ConfiguresInv
<1>1. << >> \in Seq(1 .. MaxSerial) /\ Len(<< >>) = 0
  OBVIOUS
<1>2. \A s \in XdgSurfaces : sent[s] = {} /\ highest[s] = 0 /\ pending[s] = << >>
  <2>1. /\ sent = [s \in XdgSurfaces |-> {}] /\ highest = [s \in XdgSurfaces |-> 0]
        /\ pending = [s \in XdgSurfaces |-> << >>]
    BY Zenon DEF C!Init
  <2>2. QED BY ONLY <2>1
<1>3. C!TypeOK
  <2>1. pending \in [XdgSurfaces -> Seq(1 .. MaxSerial)]
    BY <1>1, Zenon DEF C!Init
  <2>2. \A s \in XdgSurfaces : Len(pending[s]) <= MAX_PENDING_CONFIGURES
    BY <1>1, <1>2 DEF C!ConfiguresAssumption
  <2>3. /\ wrapped \subseteq XdgSurfaces /\ configured \subseteq XdgSurfaces
        /\ parented \subseteq XdgSurfaces /\ content \subseteq XdgSurfaces
        /\ role \in [XdgSurfaces -> {"none", "toplevel", "popup"}]
        /\ sent \in [XdgSurfaces -> SUBSET (1 .. MaxSerial)]
        /\ fatal \in BOOLEAN /\ astray \in BOOLEAN
    BY Zenon DEF C!Init
  <2>4. 0 \in 0 .. MaxSerial /\ 1 \in 1 .. MaxSerial + 1
    BY DEF C!ConfiguresAssumption
  <2>5. /\ next \in 1 .. MaxSerial + 1
        /\ highest \in [XdgSurfaces -> 0 .. MaxSerial]
        /\ answered \in [XdgSurfaces -> 0 .. MaxSerial]
    BY <2>4, Zenon DEF C!Init
  <2>6. QED BY <2>1, <2>2, <2>3, <2>5, Zenon DEF C!TypeOK
<1>4. wrapped = {} /\ next = 1
  BY DEF C!Init
<1>5. SentIsBelow /\ WaitsForItsFirst
  BY <1>2, <1>4 DEF SentIsBelow, WaitsForItsFirst
<1>6. QED BY <1>3, <1>5 DEF ConfiguresInv

-----------------------------------------------------------------------------
(* Sending configures.                                                     *)

\* The newest serials of a queue: no more than it holds, all while they fit.
LEMMA NewestKeeps ==
  ASSUME C!ConfiguresAssumption, NEW S, NEW s \in Seq(S)
  PROVE  /\ C!Newest(s) \in Seq(S)
         /\ Len(C!Newest(s)) <= MAX_PENDING_CONFIGURES
         /\ Len(s) <= MAX_PENDING_CONFIGURES => C!Newest(s) = s
<1>1. Len(s) \in Nat /\ MAX_PENDING_CONFIGURES \in Nat
  BY LenProperties DEF C!ConfiguresAssumption
<1>2. CASE Len(s) > MAX_PENDING_CONFIGURES
  <2> PICK from : from = 1 + (Len(s) - MAX_PENDING_CONFIGURES)
    OBVIOUS
  <2>1. C!Newest(s) = SubSeq(s, from, Len(s))
    BY <1>2, Zenon DEF C!Newest
  <2>2. from \in Int /\ Len(s) \in Int /\ from >= 1
    BY <1>1, <1>2
  <2>3. \A i \in from .. Len(s) : s[i] \in S
    BY <2>2, <1>1, ElementOfSeq
  <2>4. /\ SubSeq(s, from, Len(s)) \in Seq(S)
        /\ Len(SubSeq(s, from, Len(s))) = IF from <= Len(s) THEN Len(s) - from + 1 ELSE 0
    BY <2>2, <2>3, SubSeqProperties
  <2>5. Len(SubSeq(s, from, Len(s))) <= MAX_PENDING_CONFIGURES
    BY <1>1, <1>2, <2>4
  <2>6. QED BY <1>1, <1>2, <2>1, <2>4, <2>5
<1>3. CASE ~(Len(s) > MAX_PENDING_CONFIGURES)
  <2>1. C!Newest(s) = SubSeq(s, 1 + 0, Len(s))
    BY <1>3, Zenon DEF C!Newest
  <2>2. C!Newest(s) = SubSeq(s, 1, Len(s))
    BY <2>1
  <2>3. SubSeq(s, 1, Len(s)) = s
    BY SubSeqFull
  <2>4. QED BY <1>1, <1>3, <2>2, <2>3
<1>4. QED BY <1>2, <1>3

\* What is sent at once to one surface: one serial or two, of the next ones.
NewSerials(many, s) ==
  \/ s = << >>
  \/ \E n \in next .. next + many - 1 : s = << n >>
  \/ \E m, n \in next .. next + many - 1 : m < n /\ s = << m, n >>

LEMMA HoldsOneMore ==
  ASSUME NEW q \in Seq(1 .. MaxSerial), NEW t \in SUBSET (1 .. MaxSerial), MaxSerial \in Nat,
         NEW m \in 1 .. MaxSerial, m \notin t
  PROVE  /\ Append(q, m) \in Seq(1 .. MaxSerial)
         /\ Cardinality(t) \in Nat
         /\ Cardinality(t \cup {m}) = Cardinality(t) + 1
         /\ Holds(q, t) => Holds(Append(q, m), t \cup {m})
<1>1. IsFiniteSet(t)
  <2>1. IsFiniteSet(1 .. MaxSerial)
    BY FS_Interval
  <2>2. QED BY <2>1, FS_Subset
<1>2. Cardinality(t) \in Nat /\ Cardinality(t \cup {m}) = Cardinality(t) + 1
  BY <1>1, FS_AddElement, FS_CardinalityType
<1>3. /\ Append(q, m) \in Seq(1 .. MaxSerial) /\ Len(Append(q, m)) = Len(q) + 1
      /\ \A i \in 1 .. Len(q) : Append(q, m)[i] = q[i]
      /\ Append(q, m)[Len(q) + 1] = m
  BY AppendProperties
<1>4. Len(q) \in Nat /\ DOMAIN q = 1 .. Len(q) /\ DOMAIN Append(q, m) = 1 .. Len(q) + 1
  BY <1>3, LenProperties
<1>5. Members(Append(q, m)) = Members(q) \cup {m}
  <2>1. \A i \in DOMAIN Append(q, m) : Append(q, m)[i] \in Members(q) \cup {m}
    BY <1>3, <1>4 DEF Members
  <2>2. \A i \in DOMAIN q : q[i] \in Members(Append(q, m))
    <3>1. \A i \in DOMAIN q : i \in DOMAIN Append(q, m) /\ Append(q, m)[i] = q[i]
      BY <1>3, <1>4
    <3>2. QED BY <3>1, Zenon DEF Members
  <2>3. m \in Members(Append(q, m))
    <3>1. Len(q) + 1 \in DOMAIN Append(q, m)
      BY <1>4
    <3>2. QED BY <1>3, <3>1, Zenon DEF Members
  <2>4. QED BY <2>1, <2>2, <2>3 DEF Members
<1>6. QED BY <1>2, <1>3, <1>5 DEF Holds

LEMMA AppendTwo ==
  ASSUME NEW S, NEW q \in Seq(S), NEW m \in S, NEW n \in S
  PROVE  /\ q \o << m >> = Append(q, m)
         /\ q \o << m, n >> = Append(Append(q, m), n)
<1>1. q \o << m >> = Append(q, m) /\ Append(q, m) \in Seq(S)
  BY AppendIsConcat, AppendProperties
<1>2. Append(Append(q, m), n) = (q \o << m >>) \o << n >>
  BY <1>1, AppendIsConcat
<1>3. << m >> \in Seq(S) /\ << n >> \in Seq(S)
  OBVIOUS
<1>4. (q \o << m >>) \o << n >> = q \o (<< m >> \o << n >>)
  BY <1>3, ConcatAssociative
<1>5. << m >> \o << n >> = << m, n >>
  <2>1. /\ << m, n >> \in Seq(S) /\ Len(<< m, n >>) = 2
        /\ << m, n >>[1] = m /\ << m, n >>[2] = n
    OBVIOUS
  <2>2. /\ Len(<< m >>) = 1 /\ << m >>[1] = m /\ Len(<< n >>) = 1 /\ << n >>[1] = n
    OBVIOUS
  <2>3. LET s == << m >> \o << n >>
        IN  s \in Seq(S) /\ Len(s) = 2 /\ s[1] = m /\ s[2] = n
    BY <1>3, <2>2, ConcatProperties
  <2>4. \A i \in 1 .. 2 : (<< m >> \o << n >>)[i] = << m, n >>[i]
    BY <2>1, <2>3
  <2>5. QED BY <2>1, <2>3, <2>4, SeqEqual
<1>6. QED BY <1>1, <1>2, <1>4, <1>5

LEMMA NewsRange ==
  ASSUME NEW m, NEW n
  PROVE  /\ C!Range(<< m >>) = {m} /\ C!Last(<< m >>) = m
         /\ C!Range(<< m, n >>) = {m, n} /\ C!Last(<< m, n >>) = n
<1>1. DOMAIN << m >> = {1} /\ DOMAIN << m, n >> = {1, 2}
  OBVIOUS
<1>2. Len(<< m >>) = 1 /\ Len(<< m, n >>) = 2
  OBVIOUS
<1>3. << m >>[1] = m /\ << m, n >>[1] = m /\ << m, n >>[2] = n
  OBVIOUS
<1>4. QED BY <1>1, <1>2, <1>3 DEF C!Range, C!Last

\* What a queue holds when fresh serials were added to it, which the set of all
\* serials that were sent learns of too.
LEMMA QueuedHolds ==
  ASSUME C!ConfiguresAssumption,
         NEW q \in Seq(1 .. MaxSerial), NEW t \in SUBSET (1 .. MaxSerial),
         NEW h \in 0 .. MaxSerial, t \subseteq 1 .. h,
         next \in Nat, h < next,
         NEW many \in Nat, next + many <= MaxSerial + 1,
         NEW s, NewSerials(many, s), s # << >>
  PROVE  /\ C!Queued(q, s) \in Seq(1 .. MaxSerial)
         /\ Len(C!Queued(q, s)) <= MAX_PENDING_CONFIGURES
         /\ t \cup C!Range(s) \subseteq 1 .. C!Last(s)
         /\ C!Last(s) \in 0 .. MaxSerial /\ C!Last(s) < next + many
         /\ Cardinality(t \cup C!Range(s)) <= MAX_PENDING_CONFIGURES =>
              /\ Cardinality(t) <= MAX_PENDING_CONFIGURES
              /\ Holds(q, t) => Holds(C!Queued(q, s), t \cup C!Range(s))
<1>1. /\ MaxSerial \in Nat /\ MAX_PENDING_CONFIGURES \in Nat
      /\ h \in Nat /\ h <= MaxSerial
      /\ \A k \in next .. next + many - 1 : k \in 1 .. MaxSerial /\ k > h
  BY DEF C!ConfiguresAssumption
<1>2. CASE \E n \in next .. next + many - 1 : s = << n >>
  <2>1. PICK n \in next .. next + many - 1 : s = << n >>
    BY <1>2
  <2>2. n \in 1 .. MaxSerial /\ n > h /\ n \notin t /\ n < next + many
    BY <1>1, <2>1
  <2>3. C!Range(s) = {n} /\ C!Last(s) = n
    BY <2>1, NewsRange
  <2>4. C!Queued(q, s) = C!Newest(Append(q, n))
    BY <2>1, <2>2, AppendTwo DEF C!Queued
  <2>5. /\ Append(q, n) \in Seq(1 .. MaxSerial)
        /\ Cardinality(t) \in Nat
        /\ Cardinality(t \cup {n}) = Cardinality(t) + 1
        /\ Holds(q, t) => Holds(Append(q, n), t \cup {n})
    BY <1>1, <2>2, HoldsOneMore
  <2>6. /\ C!Newest(Append(q, n)) \in Seq(1 .. MaxSerial)
        /\ Len(C!Newest(Append(q, n))) <= MAX_PENDING_CONFIGURES
        /\ Len(Append(q, n)) <= MAX_PENDING_CONFIGURES => C!Newest(Append(q, n)) = Append(q, n)
    BY <2>5, NewestKeeps
  <2>7. t \cup {n} \subseteq 1 .. n /\ n \in 0 .. MaxSerial
    BY <1>1, <2>2
  <2>8. ASSUME Cardinality(t \cup {n}) <= MAX_PENDING_CONFIGURES
        PROVE  /\ Cardinality(t) <= MAX_PENDING_CONFIGURES
               /\ Holds(q, t) => Holds(C!Newest(Append(q, n)), t \cup {n})
    <3>1. Cardinality(t) <= MAX_PENDING_CONFIGURES
      BY <1>1, <2>5, <2>8
    <3>2. Holds(q, t) => Len(Append(q, n)) = Cardinality(t \cup {n})
      BY <2>5 DEF Holds
    <3>3. QED BY <2>5, <2>6, <2>8, <3>1, <3>2
  <2>9. QED BY <2>2, <2>3, <2>4, <2>6, <2>7, <2>8
<1>3. CASE \E m, n \in next .. next + many - 1 : m < n /\ s = << m, n >>
  <2>1. PICK m \in next .. next + many - 1, n \in next .. next + many - 1 :
          m < n /\ s = << m, n >>
    BY <1>3
  <2>2. /\ m \in 1 .. MaxSerial /\ n \in 1 .. MaxSerial
        /\ m > h /\ n > h /\ m < n /\ n < next + many
    BY <1>1, <2>1
  <2> DEFINE u == t \cup {m}
  <2>3. m \notin t /\ n \notin u /\ u \in SUBSET (1 .. MaxSerial)
    BY <1>1, <2>2
  <2>4. C!Range(s) = {m, n} /\ C!Last(s) = n /\ u \cup {n} = t \cup C!Range(s)
    <3>1. C!Range(s) = {m, n} /\ C!Last(s) = n
      BY <2>1, NewsRange
    <3>2. QED BY <3>1
  <2>5. C!Queued(q, s) = C!Newest(Append(Append(q, m), n))
    <3>1. q \o << m, n >> = Append(Append(q, m), n)
      BY <2>2, AppendTwo
    <3>2. q \o s = Append(Append(q, m), n)
      BY <2>1, <3>1
    <3>3. QED BY <3>2, Zenon DEF C!Queued
  <2>6. /\ Append(q, m) \in Seq(1 .. MaxSerial)
        /\ Cardinality(t) \in Nat
        /\ Cardinality(u) = Cardinality(t) + 1
        /\ Holds(q, t) => Holds(Append(q, m), u)
    BY <1>1, <2>2, <2>3, HoldsOneMore
  <2> HIDE DEF u
  <2>7. PICK r : r = Append(Append(q, m), n)
    OBVIOUS
  <2>8. /\ r \in Seq(1 .. MaxSerial)
        /\ Cardinality(u) \in Nat
        /\ Cardinality(u \cup {n}) = Cardinality(u) + 1
        /\ Holds(Append(q, m), u) => Holds(r, u \cup {n})
    BY <1>1, <2>2, <2>3, <2>6, <2>7, HoldsOneMore
  <2>9. /\ C!Newest(r) \in Seq(1 .. MaxSerial)
        /\ Len(C!Newest(r)) <= MAX_PENDING_CONFIGURES
        /\ Len(r) <= MAX_PENDING_CONFIGURES => C!Newest(r) = r
    BY <2>8, NewestKeeps
  <2>10. u \cup {n} \subseteq 1 .. n /\ n \in 0 .. MaxSerial
    BY <1>1, <2>2 DEF u
  <2>11. ASSUME Cardinality(u \cup {n}) <= MAX_PENDING_CONFIGURES
         PROVE  /\ Cardinality(t) <= MAX_PENDING_CONFIGURES
                /\ Holds(q, t) => Holds(C!Newest(r), u \cup {n})
    <3>1. Cardinality(t) <= MAX_PENDING_CONFIGURES
      BY <1>1, <2>6, <2>8, <2>11
    <3>2. Holds(q, t) => Holds(r, u \cup {n}) /\ Len(r) = Cardinality(u \cup {n})
      BY <2>6, <2>8 DEF Holds
    <3>3. QED BY <2>9, <2>11, <3>1, <3>2
  <2>12. QED BY <2>2, <2>4, <2>5, <2>7, <2>9, <2>10, <2>11
<1>4. QED BY <1>2, <1>3 DEF NewSerials

LEMMA SendsKeep ==
  ASSUME C!ConfiguresAssumption, ConfiguresInv,
         NEW many \in Nat, NEW news,
         \A s \in XdgSurfaces : NewSerials(many, news[s]),
         C!SendConfigures(many, news),
         wrapped' = wrapped, configured' = configured, answered' = answered,
         content' = content, fatal' = fatal, astray' = astray,
         parented' \subseteq XdgSurfaces,
         role' \in [XdgSurfaces -> {"none", "toplevel", "popup"}]
  PROVE  ConfiguresInv'
<1> DEFINE To(s) == s \in wrapped /\ news[s] # << >>
<1>1. C!TypeOK /\ SentIsBelow /\ WaitsForItsFirst
  BY DEF ConfiguresInv
<1>2. /\ next \in Nat /\ next >= 1 /\ next + many <= MaxSerial + 1 /\ next' = next + many
      /\ pending' = [s \in XdgSurfaces |->
           IF To(s) THEN C!Queued(pending[s], news[s]) ELSE pending[s]]
      /\ highest' = [s \in XdgSurfaces |-> IF To(s) THEN C!Last(news[s]) ELSE highest[s]]
      /\ sent' = [s \in XdgSurfaces |->
           IF To(s) THEN sent[s] \cup C!Range(news[s]) ELSE sent[s]]
  BY <1>1 DEF C!SendConfigures, C!TypeOK
<1>3. \A s \in XdgSurfaces :
        /\ pending[s] \in Seq(1 .. MaxSerial) /\ Len(pending[s]) <= MAX_PENDING_CONFIGURES
        /\ sent[s] \in SUBSET (1 .. MaxSerial) /\ highest[s] \in 0 .. MaxSerial
        /\ sent[s] \subseteq 1 .. highest[s] /\ highest[s] < next
  BY <1>1 DEF C!TypeOK, SentIsBelow
<1>4. ASSUME NEW s \in XdgSurfaces
      PROVE  /\ pending'[s] \in Seq(1 .. MaxSerial)
             /\ Len(pending'[s]) <= MAX_PENDING_CONFIGURES
             /\ sent'[s] \in SUBSET (1 .. MaxSerial) /\ highest'[s] \in 0 .. MaxSerial
             /\ sent'[s] \subseteq 1 .. highest'[s] /\ highest'[s] < next'
             /\ Cardinality(sent'[s]) <= MAX_PENDING_CONFIGURES =>
                  /\ Cardinality(sent[s]) <= MAX_PENDING_CONFIGURES
                  /\ Holds(pending[s], sent[s]) => Holds(pending'[s], sent'[s])
  <2>1. CASE ~To(s)
    <3>1. pending'[s] = pending[s] /\ highest'[s] = highest[s] /\ sent'[s] = sent[s]
      BY <1>2, <2>1
    <3>2. highest[s] < next'
      BY <1>2, <1>3
    <3>3. QED BY <1>3, <3>1, <3>2
  <2>2. CASE To(s)
    <3>1. /\ pending'[s] = C!Queued(pending[s], news[s]) /\ highest'[s] = C!Last(news[s])
          /\ sent'[s] = sent[s] \cup C!Range(news[s])
      BY <1>2, <2>2
    <3>2. /\ C!Queued(pending[s], news[s]) \in Seq(1 .. MaxSerial)
          /\ Len(C!Queued(pending[s], news[s])) <= MAX_PENDING_CONFIGURES
          /\ sent[s] \cup C!Range(news[s]) \subseteq 1 .. C!Last(news[s])
          /\ C!Last(news[s]) \in 0 .. MaxSerial /\ C!Last(news[s]) < next + many
          /\ Cardinality(sent[s] \cup C!Range(news[s])) <= MAX_PENDING_CONFIGURES =>
               /\ Cardinality(sent[s]) <= MAX_PENDING_CONFIGURES
               /\ Holds(pending[s], sent[s]) =>
                    Holds(C!Queued(pending[s], news[s]), sent[s] \cup C!Range(news[s]))
      BY <1>2, <1>3, <2>2, QueuedHolds
    <3>3. sent'[s] \in SUBSET (1 .. MaxSerial)
      <4>1. MaxSerial \in Nat
        BY DEF C!ConfiguresAssumption
      <4>2. QED BY <3>1, <3>2, <4>1
    <3>4. QED BY <1>2, <3>1, <3>2, <3>3
  <2>3. QED BY <2>1, <2>2
<1>5. WaitsForItsFirst'
  BY <1>1, <1>4 DEF WaitsForItsFirst, C!TypeOK
<1>6. SentIsBelow'
  BY <1>4 DEF SentIsBelow
<1>7. C!TypeOK'
  <2>1. next' \in 1 .. MaxSerial + 1
    BY <1>2 DEF C!ConfiguresAssumption
  <2>2. /\ pending' \in [XdgSurfaces -> Seq(1 .. MaxSerial)]
        /\ highest' \in [XdgSurfaces -> 0 .. MaxSerial]
        /\ sent' \in [XdgSurfaces -> SUBSET (1 .. MaxSerial)]
        /\ \A s \in XdgSurfaces : Len(pending'[s]) <= MAX_PENDING_CONFIGURES
    <3>1. /\ DOMAIN pending' = XdgSurfaces /\ pending' = [s \in XdgSurfaces |-> pending'[s]]
          /\ highest' = [s \in XdgSurfaces |-> highest'[s]]
          /\ sent' = [s \in XdgSurfaces |-> sent'[s]]
      BY <1>2, Zenon
    <3>2. QED BY <1>4, <3>1, Zenon
  <2>3. QED BY <1>1, <2>1, <2>2, Zenon DEF C!TypeOK
<1>8. QED BY <1>5, <1>6, <1>7 DEF ConfiguresInv

-----------------------------------------------------------------------------
(* Each step of the handshake.                                             *)

LEMMA OneSentKeeps ==
  ASSUME C!ConfiguresAssumption, ConfiguresInv, NEW w \in XdgSurfaces,
         C!SendConfigure(w),
         wrapped' = wrapped, configured' = configured, answered' = answered,
         content' = content, fatal' = fatal, astray' = astray,
         parented' \subseteq XdgSurfaces,
         role' \in [XdgSurfaces -> {"none", "toplevel", "popup"}]
  PROVE  ConfiguresInv'
<1>1. PICK news : news = [s \in XdgSurfaces |-> IF s = w THEN << next >> ELSE << >>]
  OBVIOUS
<1>2. next \in Nat
  BY DEF ConfiguresInv, C!TypeOK
<1>3. C!SendConfigures(1, news)
  BY <1>1 DEF C!SendConfigure
<1>4. \A s \in XdgSurfaces : NewSerials(1, news[s])
  <2>1. next \in next .. next + 1 - 1
    BY <1>2
  <2>2. \A s \in XdgSurfaces : news[s] = << >> \/ news[s] = << next >>
    BY <1>1
  <2>3. QED BY <2>1, <2>2 DEF NewSerials
<1>5. QED BY <1>3, <1>4, SendsKeep

LEMMA GetToplevelKeeps ==
  ASSUME C!ConfiguresAssumption, ConfiguresInv,
         NEW w \in XdgSurfaces, NEW v \in XdgSurfaces, C!GetToplevel(w, v)
  PROVE  ConfiguresInv'
<1>1. PICK before : before = (IF v = w THEN << >> ELSE << next + 1 >>)
  OBVIOUS
<1>2. PICK many : many = 2 + Len(before)
  OBVIOUS
<1>3. PICK news : news = [s \in XdgSurfaces |-> IF s = w THEN << next, next + many - 1 >>
                                                ELSE IF s = v THEN before ELSE << >>]
  OBVIOUS
<1>4. next \in Nat
  BY DEF ConfiguresInv, C!TypeOK
<1>5. /\ many \in Nat
      /\ (v = w /\ before = << >> /\ many = 2) \/ (v # w /\ before = << next + 1 >> /\ many = 3)
  <2>1. Len(<< >>) = 0 /\ Len(<< next + 1 >>) = 1
    OBVIOUS
  <2>2. QED BY <1>1, <1>2, <2>1
<1>6. C!SendConfigures(many, news)
  BY <1>1, <1>2, <1>3 DEF C!GetToplevel
<1>7. ASSUME NEW s \in XdgSurfaces
      PROVE  NewSerials(many, news[s])
  <2>1. CASE s = w
    <3>1. news[s] = << next, next + many - 1 >>
      BY <1>3, <2>1
    <3>2. /\ next \in next .. next + many - 1 /\ next + many - 1 \in next .. next + many - 1
          /\ next < next + many - 1
      BY <1>4, <1>5
    <3>3. QED BY <3>1, <3>2 DEF NewSerials
  <2>2. CASE s # w /\ s = v
    <3>1. news[s] = << next + 1 >>
      BY <1>3, <1>5, <2>2
    <3>2. next + 1 \in next .. next + many - 1
      BY <1>4, <1>5, <2>2
    <3>3. QED BY <3>1, <3>2 DEF NewSerials
  <2>3. CASE s # w /\ s # v
    BY <1>3, <2>3 DEF NewSerials
  <2>4. QED BY <2>1, <2>2, <2>3
<1>8. /\ wrapped' = wrapped /\ configured' = configured /\ answered' = answered
      /\ content' = content /\ fatal' = fatal /\ astray' = astray
      /\ parented' \subseteq XdgSurfaces
      /\ role' \in [XdgSurfaces -> {"none", "toplevel", "popup"}]
  BY DEF C!GetToplevel, ConfiguresInv, C!TypeOK
<1>9. QED BY <1>5, <1>6, <1>7, <1>8, SendsKeep

LEMMA GetPopupKeeps ==
  ASSUME C!ConfiguresAssumption, ConfiguresInv,
         NEW w \in XdgSurfaces, NEW parent \in BOOLEAN, C!GetPopup(w, parent)
  PROVE  ConfiguresInv'
<1>1. /\ wrapped' = wrapped /\ configured' = configured /\ answered' = answered
      /\ content' = content /\ fatal' = fatal /\ astray' = astray
      /\ parented' \subseteq XdgSurfaces
      /\ role' \in [XdgSurfaces -> {"none", "toplevel", "popup"}]
  BY DEF C!GetPopup, ConfiguresInv, C!TypeOK
<1>2. CASE parent
  <2>1. C!SendConfigure(w)
    BY <1>2 DEF C!GetPopup
  <2>2. QED BY <1>1, <2>1, OneSentKeeps
<1>3. CASE ~parent
  <2>1. next' = next /\ pending' = pending /\ highest' = highest /\ sent' = sent
    BY <1>3 DEF C!GetPopup
  <2>2. C!TypeOK /\ SentIsBelow /\ WaitsForItsFirst
    BY DEF ConfiguresInv
  <2>3. C!TypeOK'
    BY <1>1, <2>1, <2>2 DEF C!TypeOK
  <2>4. SentIsBelow'
    BY <2>1, <2>2 DEF SentIsBelow
  <2>5. WaitsForItsFirst'
    BY <1>1, <2>1, <2>2, Zenon DEF WaitsForItsFirst
  <2>6. QED BY <2>3, <2>4, <2>5 DEF ConfiguresInv
<1>4. QED BY <1>2, <1>3

LEMMA DrainedTypes ==
  ASSUME C!TypeOK, NEW w \in XdgSurfaces, NEW serial, C!Contains(pending[w], serial),
         MAX_PENDING_CONFIGURES \in Nat
  PROVE  /\ C!Drained(w, serial) \in Seq(1 .. MaxSerial)
         /\ Len(C!Drained(w, serial)) <= MAX_PENDING_CONFIGURES
<1>1. /\ pending[w] \in Seq(1 .. MaxSerial) /\ Len(pending[w]) <= MAX_PENDING_CONFIGURES
      /\ Len(pending[w]) \in Nat /\ DOMAIN pending[w] = 1 .. Len(pending[w])
  BY LenProperties DEF C!TypeOK
<1>2. PICK at \in 1 .. Len(pending[w]) :
        C!Drained(w, serial) = SubSeq(pending[w], at + 1, Len(pending[w]))
  <2>1. \E i \in DOMAIN pending[w] : pending[w][i] = serial
    BY <1>1, Zenon DEF C!Contains
  <2>2. (CHOOSE i \in DOMAIN pending[w] : pending[w][i] = serial) \in DOMAIN pending[w]
    BY <2>1, Zenon
  <2>3. QED BY <1>1, <2>2, Zenon DEF C!Drained
<1>3. at + 1 \in Int /\ at + 1 >= 1 /\ Len(pending[w]) \in Int
  BY <1>1
<1>4. \A i \in at + 1 .. Len(pending[w]) : pending[w][i] \in 1 .. MaxSerial
  <2>1. \A i \in at + 1 .. Len(pending[w]) : i \in 1 .. Len(pending[w])
    BY <1>1, <1>3
  <2>2. \A i \in 1 .. Len(pending[w]) : pending[w][i] \in 1 .. MaxSerial
    BY <1>1, ElementOfSeq
  <2>3. QED BY <2>1, <2>2
<1>5. PICK t : t = SubSeq(pending[w], at + 1, Len(pending[w]))
  OBVIOUS
<1>6. /\ t \in Seq(1 .. MaxSerial)
      /\ Len(t) = IF at + 1 <= Len(pending[w]) THEN Len(pending[w]) - (at + 1) + 1 ELSE 0
  BY <1>3, <1>4, <1>5, SubSeqProperties
<1>7. QED BY <1>1, <1>2, <1>3, <1>5, <1>6

LEMMA AckConfigureKeeps ==
  ASSUME C!ConfiguresAssumption, ConfiguresInv,
         NEW w \in XdgSurfaces, NEW serial \in 1 .. MaxSerial, C!AckConfigure(w, serial)
  PROVE  ConfiguresInv'
<1>1. C!TypeOK /\ SentIsBelow /\ WaitsForItsFirst
  BY DEF ConfiguresInv
<1>2. /\ w \in wrapped /\ wrapped' = wrapped /\ role' = role /\ parented' = parented
      /\ highest' = highest /\ next' = next /\ content' = content /\ sent' = sent
      /\ astray' = (astray \/ serial \notin sent[w])
      /\ answered' = [answered EXCEPT ![w] =
           IF serial \in sent[w] /\ serial > answered[w] THEN serial ELSE answered[w]]
  BY DEF C!AckConfigure, C!record
<1>3. \/ /\ ~C!Invented(w, serial) /\ C!Contains(pending[w], serial)
         /\ pending' = [pending EXCEPT ![w] = C!Drained(w, serial)]
         /\ configured' = configured \cup {w} /\ fatal' = fatal
      \/ /\ C!Invented(w, serial) \/ ~C!Contains(pending[w], serial)
         /\ pending' = pending /\ configured' = configured
         /\ fatal' = fatal \/ fatal' = TRUE
  BY DEF C!AckConfigure
<1>4. answered' \in [XdgSurfaces -> 0 .. MaxSerial]
  <2>1. serial \in 0 .. MaxSerial
    OBVIOUS
  <2>2. QED BY <1>1, <1>2, <2>1 DEF C!TypeOK
<1>5. /\ pending' \in [XdgSurfaces -> Seq(1 .. MaxSerial)]
      /\ \A s \in XdgSurfaces : Len(pending'[s]) <= MAX_PENDING_CONFIGURES
  <2>1. CASE C!Contains(pending[w], serial)
    <3>1. /\ C!Drained(w, serial) \in Seq(1 .. MaxSerial)
          /\ Len(C!Drained(w, serial)) <= MAX_PENDING_CONFIGURES
      BY <1>1, <2>1, DrainedTypes DEF C!ConfiguresAssumption
    <3>2. QED BY <1>1, <1>3, <3>1 DEF C!TypeOK
  <2>2. CASE ~C!Contains(pending[w], serial)
    BY <1>1, <1>3, <2>2 DEF C!TypeOK
  <2>3. QED BY <2>1, <2>2
<1>6. C!TypeOK'
  BY <1>1, <1>2, <1>3, <1>4, <1>5 DEF C!TypeOK
<1>7. SentIsBelow'
  BY <1>1, <1>2 DEF SentIsBelow
<1>8. ASSUME NEW s \in wrapped \ configured', Cardinality(sent[s]) <= MAX_PENDING_CONFIGURES
      PROVE  answered'[s] = 0 /\ Holds(pending'[s], sent[s])
  <2>1. /\ s \in wrapped \ configured /\ s \in XdgSurfaces
        /\ answered[s] = 0 /\ Holds(pending[s], sent[s])
    BY <1>1, <1>3, <1>8 DEF C!TypeOK, WaitsForItsFirst
  <2>2. CASE s # w
    BY <1>1, <1>2, <1>3, <2>1, <2>2 DEF C!TypeOK
  <2>3. CASE s = w
    <3>1. /\ C!Invented(w, serial) \/ ~C!Contains(pending[w], serial)
          /\ pending' = pending
      BY <1>3, <1>8, <2>3
    <3>2. serial \notin sent[w]
      <4>1. CASE C!Invented(w, serial)
        <5>1. sent[w] \subseteq 1 .. highest[w] /\ highest[w] \in Nat /\ serial > highest[w]
          BY <1>1, <4>1 DEF C!Invented, SentIsBelow, C!TypeOK
        <5>2. QED BY <5>1
      <4>2. CASE ~C!Contains(pending[w], serial)
        <5>1. DOMAIN pending[w] = 1 .. Len(pending[w])
          BY <1>1, LenProperties DEF C!TypeOK
        <5>2. serial \notin Members(pending[w])
          BY <4>2, <5>1, Zenon DEF C!Contains, Members
        <5>3. QED BY <2>1, <2>3, <5>2 DEF Holds
      <4>3. QED BY <3>1, <4>1, <4>2
    <3>3. QED BY <1>1, <1>2, <2>1, <2>3, <3>1, <3>2 DEF C!TypeOK
  <2>4. QED BY <2>2, <2>3
<1>9. WaitsForItsFirst'
  BY <1>2, <1>8 DEF WaitsForItsFirst
<1>10. QED BY <1>6, <1>7, <1>9 DEF ConfiguresInv

LEMMA GetXdgSurfaceKeeps ==
  ASSUME C!ConfiguresAssumption, ConfiguresInv, NEW w \in XdgSurfaces, C!GetXdgSurface(w)
  PROVE  ConfiguresInv'
<1>1. C!TypeOK /\ SentIsBelow /\ WaitsForItsFirst
  BY DEF ConfiguresInv
<1>2. << >> \in Seq(1 .. MaxSerial) /\ Len(<< >>) = 0 /\ DOMAIN << >> = {}
  OBVIOUS
<1>3. C!TypeOK'
  <2>1. 0 \in 0 .. MaxSerial /\ 0 <= MAX_PENDING_CONFIGURES
    BY DEF C!ConfiguresAssumption
  <2>2. QED BY <1>1, <1>2, <2>1 DEF C!GetXdgSurface, C!TypeOK
<1>4. SentIsBelow'
  BY <1>1 DEF C!GetXdgSurface, C!TypeOK, SentIsBelow
<1>5. WaitsForItsFirst'
  <2>1. Holds(<< >>, {})
    BY <1>2, FS_EmptySet DEF Holds, Members
  <2>2. answered'[w] = 0 /\ pending'[w] = << >> /\ sent'[w] = {}
    BY <1>1 DEF C!GetXdgSurface, C!TypeOK
  <2>3. \A s \in XdgSurfaces \ {w} :
          /\ answered'[s] = answered[s] /\ pending'[s] = pending[s] /\ sent'[s] = sent[s]
          /\ s \in wrapped' \ configured' => s \in wrapped \ configured
    BY <1>1 DEF C!GetXdgSurface, C!TypeOK
  <2>4. QED BY <1>1, <1>3, <2>1, <2>2, <2>3 DEF WaitsForItsFirst, C!TypeOK
<1>6. QED BY <1>3, <1>4, <1>5 DEF ConfiguresInv

LEMMA ConfiguresStep ==
  ASSUME C!ConfiguresAssumption, ConfiguresInv, [C!Next]_C!vars
  PROVE  ConfiguresInv'
<1>1. ASSUME NEW w \in XdgSurfaces, C!GetXdgSurface(w)
      PROVE  ConfiguresInv'
  BY <1>1, GetXdgSurfaceKeeps
<1>2. ASSUME NEW w \in XdgSurfaces, C!DestroyXdgSurface(w)
      PROVE  ConfiguresInv'
  BY <1>2 DEF C!DestroyXdgSurface, ConfiguresInv, C!TypeOK, SentIsBelow, WaitsForItsFirst
<1>3. ASSUME NEW w \in XdgSurfaces, C!Adopt(w)
      PROVE  ConfiguresInv'
  <2>1. parented' \subseteq XdgSurfaces /\ role' \in [XdgSurfaces -> {"none", "toplevel", "popup"}]
    BY <1>3 DEF C!Adopt, ConfiguresInv, C!TypeOK
  <2>2. QED BY <1>3, <2>1, OneSentKeeps DEF C!Adopt
<1>4. ASSUME NEW w \in XdgSurfaces, C!Tell(w)
      PROVE  ConfiguresInv'
  <2>1. parented' \subseteq XdgSurfaces /\ role' \in [XdgSurfaces -> {"none", "toplevel", "popup"}]
    BY <1>4 DEF C!Tell, C!record, ConfiguresInv, C!TypeOK
  <2>2. QED BY <1>4, <2>1, OneSentKeeps DEF C!Tell, C!record
<1>5. CASE C!SerialElsewhere
  BY <1>5 DEF C!SerialElsewhere, C!ConfiguresAssumption, C!record, ConfiguresInv, C!TypeOK,
             SentIsBelow, WaitsForItsFirst
<1>6. ASSUME NEW w \in XdgSurfaces, C!CommitBuffer(w) \/ C!CommitNull(w)
      PROVE  ConfiguresInv'
  BY <1>6 DEF C!CommitBuffer, C!CommitNull, C!record, ConfiguresInv, C!TypeOK, SentIsBelow,
             WaitsForItsFirst
<1>7. CASE UNCHANGED C!vars
  BY <1>7 DEF C!vars, C!record, ConfiguresInv, C!TypeOK, SentIsBelow, WaitsForItsFirst
<1>8. QED BY <1>1, <1>2, <1>3, <1>4, <1>5, <1>6, <1>7, GetToplevelKeeps, GetPopupKeeps,
             AckConfigureKeeps DEF C!Next

-----------------------------------------------------------------------------
(* What the handshake promises.                                            *)

\* Every variable of the configure handshake has its type.
THEOREM ConfiguresTyped == ASSUME C!ConfiguresAssumption PROVE C!Spec => []C!TypeOK
<1>1. C!Init => ConfiguresInv
  BY ConfiguresInit
<1>2. ConfiguresInv /\ [C!Next]_C!vars => ConfiguresInv'
  BY ConfiguresStep
<1>3. ConfiguresInv => C!TypeOK
  BY DEF ConfiguresInv
<1>4. QED BY <1>1, <1>2, <1>3, PTL DEF C!Spec

\* A client that answers only what it was asked and shows nothing before its
\* first answer is never disconnected, unless the compositor had sent it more
\* configures than it keeps (ack_configure, check_configured_before_buffer).
THEOREM HonestIsSafe == ASSUME C!ConfiguresAssumption PROVE C!Spec => C!HonestIsSafe
<1>1. ASSUME ConfiguresInv, C!Next, ~fatal, fatal'
      PROVE  astray' \/ C!Flooded
  <2>1. C!TypeOK /\ SentIsBelow /\ WaitsForItsFirst
    BY <1>1 DEF ConfiguresInv
  <2>2. \/ \E w \in XdgSurfaces, serial \in 1 .. MaxSerial : C!AckConfigure(w, serial)
        \/ \E w \in XdgSurfaces : C!CommitBuffer(w)
    BY <1>1 DEF C!Next, C!GetXdgSurface, C!DestroyXdgSurface, C!Adopt, C!Tell, C!GetToplevel,
                C!GetPopup, C!CommitNull, C!SerialElsewhere
  <2>3. ASSUME NEW w \in XdgSurfaces, NEW serial \in 1 .. MaxSerial, C!AckConfigure(w, serial)
        PROVE  astray'
    <3>1. serial > highest[w]
      BY <1>1, <2>3 DEF C!AckConfigure, C!Invented
    <3>2. serial \notin sent[w]
      BY <2>1, <3>1 DEF SentIsBelow, C!TypeOK
    <3>3. QED BY <2>3, <3>2 DEF C!AckConfigure
  <2>4. ASSUME NEW w \in XdgSurfaces, C!CommitBuffer(w)
        PROVE  astray' \/ C!Flooded
    <3>1. w \in wrapped \ configured
      BY <1>1, <2>4 DEF C!CommitBuffer
    <3>2. CASE Cardinality(sent[w]) <= MAX_PENDING_CONFIGURES
      <4>1. answered[w] = 0
        BY <2>1, <3>1, <3>2 DEF WaitsForItsFirst
      <4>2. QED BY <2>4, <3>1, <4>1 DEF C!CommitBuffer, C!HasAgreed
    <3>3. CASE ~(Cardinality(sent[w]) <= MAX_PENDING_CONFIGURES)
      <4>1. IsFiniteSet(sent[w])
        <5>1. sent[w] \in SUBSET (1 .. MaxSerial) /\ IsFiniteSet(1 .. MaxSerial)
          BY <2>1, FS_Interval DEF C!TypeOK, C!ConfiguresAssumption
        <5>2. QED BY <5>1, FS_Subset
      <4>2. Cardinality(sent[w]) > MAX_PENDING_CONFIGURES
        BY <3>3, <4>1, FS_CardinalityType DEF C!ConfiguresAssumption
      <4>3. C!Cardinality(sent[w]) = Cardinality(sent[w])
        BY DEF C!Cardinality, Cardinality
      <4>4. QED BY <3>1, <4>2, <4>3 DEF C!Flooded
    <3>4. QED BY <3>2, <3>3
  <2>5. QED BY <2>2, <2>3, <2>4
<1>2. ConfiguresInv /\ [C!Next]_C!vars => [~fatal /\ fatal' => astray' \/ C!Flooded]_C!vars
  BY <1>1
<1>3. C!Init => ConfiguresInv
  BY ConfiguresInit
<1>4. ConfiguresInv /\ [C!Next]_C!vars => ConfiguresInv'
  BY ConfiguresStep
<1>5. QED BY <1>2, <1>3, <1>4, PTL DEF C!Spec, C!HonestIsSafe

-----------------------------------------------------------------------------
(* Dialogs and the stack (module ToplevelFamilies), for any windows.       *)

CONSTANT ReusesIds
VARIABLES stack, parent

F == INSTANCE ToplevelFamilies

Tops == F!xdg_toplevels

\* Induction over numbers, of a set.
LEMMA Induction ==
  ASSUME NEW S, 0 \in S, \A n \in Nat : n \in S => n + 1 \in S
  PROVE  Nat \subseteq S
<1>1. IsWellFoundedOn(OpToRel(<, Nat), Nat)
  BY NatLessThanWellFounded
<1> SUFFICES ASSUME Nat \ S # {} PROVE FALSE
  OBVIOUS
<1>2. \E n \in Nat \ S : \A m \in Nat \ S : ~ (<<m, n>> \in OpToRel(<, Nat))
  BY <1>1, WFMin, Zenon
<1>3. PICK n \in Nat \ S : \A m \in Nat \ S : ~ (<<m, n>> \in OpToRel(<, Nat))
  BY <1>2
<1>4. n # 0 /\ n - 1 \in Nat
  OBVIOUS
<1>5. n - 1 \notin S
  <2>1. (n - 1) + 1 = n
    OBVIOUS
  <2>2. QED BY <1>4, <2>1
<1>6. <<n - 1, n>> \in OpToRel(<, Nat)
  <2>1. PICK m \in Nat : m = n - 1
    BY <1>4
  <2>2. <<m, n>> \in Nat \X Nat
    OBVIOUS
  <2>3. <<m, n>>[1] < <<m, n>>[2]
    BY <2>1
  <2>4. <<m, n>> \in OpToRel(<, Nat)
    BY <2>2, <2>3, Zenon DEF OpToRel
  <2>5. QED BY <2>1, <2>4
<1>7. QED BY <1>3, <1>4, <1>5, <1>6

\* The places of the stack name its windows.
LEMMA PlacesName ==
  ASSUME F!TypeOK
  PROVE  /\ stack \in Seq(Toplevels) /\ Len(stack) \in Nat /\ DOMAIN stack = 1 .. Len(stack)
         /\ Tops \subseteq Toplevels
         /\ \A t \in Tops : F!Place(t) \in 1 .. Len(stack) /\ stack[F!Place(t)] = t
         /\ \A i \in 1 .. Len(stack) : stack[i] \in Tops /\ F!Place(stack[i]) = i
<1>1. /\ stack \in Seq(Toplevels) /\ Len(stack) \in Nat /\ DOMAIN stack = 1 .. Len(stack)
      /\ \A i \in 1 .. Len(stack) : stack[i] \in Toplevels
  BY DEF F!TypeOK
<1>2. Tops = {stack[i] : i \in 1 .. Len(stack)}
  BY <1>1 DEF Tops, F!xdg_toplevels, F!Range
<1>3. ASSUME NEW t \in Tops
      PROVE  F!Place(t) \in 1 .. Len(stack) /\ stack[F!Place(t)] = t
  <2>1. \E i \in DOMAIN stack : stack[i] = t
    BY <1>1, <1>2
  <2>2. QED BY <1>1, <2>1 DEF F!Place
<1>4. \A i, j \in 1 .. Len(stack) : stack[i] = stack[j] => i = j
  BY <1>1 DEF F!TypeOK, F!IsInjective
<1>5. ASSUME NEW i \in 1 .. Len(stack)
      PROVE  stack[i] \in Tops /\ F!Place(stack[i]) = i
  <2>1. stack[i] \in Tops
    BY <1>2
  <2>2. QED BY <1>3, <1>4, <2>1
<1>6. QED BY <1>1, <1>2, <1>3, <1>5

LEMMA CountingTo ==
  ASSUME NEW n \in Nat
  PROVE  IsFiniteSet(1 .. n) /\ Cardinality(1 .. n) = n
<1>1. 1 \in Int /\ n \in Int
  OBVIOUS
<1>2. IsFiniteSet(1 .. n) /\ Cardinality(1 .. n) = IF 1 > n THEN 0 ELSE n - 1 + 1
  BY <1>1, FS_Interval, Zenon
<1>3. QED BY <1>2

LEMMA AsManyPlaces ==
  ASSUME F!TypeOK
  PROVE  IsFiniteSet(Tops) /\ Cardinality(Tops) = Len(stack)
<1>1. stack \in [1 .. Len(stack) -> Tops]
  <2>1. stack = [i \in 1 .. Len(stack) |-> stack[i]]
    BY PlacesName
  <2>2. QED BY <2>1, PlacesName
<1>2. stack \in Bijection(1 .. Len(stack), Tops)
  <2>1. \A t \in Tops : \E i \in 1 .. Len(stack) : stack[i] = t
    BY PlacesName
  <2>2. \A i, j \in 1 .. Len(stack) : stack[i] = stack[j] => i = j
    BY PlacesName DEF F!TypeOK, F!IsInjective
  <2>3. stack \in Injection(1 .. Len(stack), Tops)
    BY <1>1, <2>2 DEF Injection, IsInjective
  <2>4. stack \in Surjection(1 .. Len(stack), Tops)
    BY <1>1, <2>1 DEF Surjection
  <2>5. QED BY <2>3, <2>4 DEF Bijection
<1>3. IsFiniteSet(1 .. Len(stack)) /\ Cardinality(1 .. Len(stack)) = Len(stack)
  BY PlacesName, CountingTo
<1>4. QED BY <1>2, <1>3, FS_Bijection DEF ExistsBijection

-----------------------------------------------------------------------------
(* Sequences of values, each made from the one before.                     *)

IsIterate(f, a, g, n) == \A i \in 0 .. n : f[i] = IF i = 0 THEN a ELSE g[f[i - 1]]

LEMMA IterateExists ==
  ASSUME NEW V, NEW a \in V, NEW g \in [V -> V], NEW n \in Nat
  PROVE  \E f \in [0 .. n -> V] : IsIterate(f, a, g, n)
<1> DEFINE S == {k \in Nat : \E f \in [0 .. k -> V] : IsIterate(f, a, g, k)}
<1>1. 0 \in S
  <2>1. [i \in 0 .. 0 |-> a] \in [0 .. 0 -> V] /\ IsIterate([i \in 0 .. 0 |-> a], a, g, 0)
    BY DEF IsIterate
  <2>2. QED BY <2>1
<1>2. ASSUME NEW k \in Nat, k \in S
      PROVE  k + 1 \in S
  <2>1. PICK f \in [0 .. k -> V] : IsIterate(f, a, g, k)
    BY <1>2
  <2> DEFINE h == [i \in 0 .. (k + 1) |-> IF i = k + 1 THEN g[f[k]] ELSE f[i]]
  <2>2. f[k] \in V /\ g[f[k]] \in V
    OBVIOUS
  <2>3. h \in [0 .. (k + 1) -> V]
    BY <2>2
  <2>4. \A i \in 0 .. k : h[i] = f[i]
    OBVIOUS
  <2>5. h[k + 1] = g[f[k]]
    OBVIOUS
  <2> HIDE DEF h
  <2>6. ASSUME NEW i \in 0 .. (k + 1)
        PROVE  h[i] = IF i = 0 THEN a ELSE g[h[i - 1]]
    <3>1. CASE i = k + 1
      <4>1. i # 0 /\ i - 1 = k /\ h[i - 1] = f[k]
        BY <2>4, <3>1
      <4>2. QED BY <2>5, <3>1, <4>1
    <3>2. CASE i \in 0 .. k
      <4>1. i # 0 => i - 1 \in 0 .. k
        BY <3>2
      <4>2. QED BY <2>1, <2>4, <3>2, <4>1 DEF IsIterate
    <3>3. QED BY <3>1, <3>2
  <2>7. IsIterate(h, a, g, k + 1)
    BY <2>6 DEF IsIterate
  <2>8. QED BY <2>3, <2>7
<1> HIDE DEF S
<1>3. Nat \subseteq S
  BY <1>1, <1>2, Induction
<1>4. QED BY <1>3 DEF S

LEMMA IterateOnly ==
  ASSUME NEW a, NEW g, NEW m \in Nat, NEW n \in Nat, m <= n,
         NEW e, NEW f, IsIterate(e, a, g, m), IsIterate(f, a, g, n)
  PROVE  \A i \in 0 .. m : e[i] = f[i]
<1> DEFINE S == {i \in Nat : i <= m => e[i] = f[i]}
<1>1. 0 \in S
  BY DEF IsIterate
<1>2. ASSUME NEW i \in Nat, i \in S
      PROVE  i + 1 \in S
  <2>1. CASE i + 1 <= m
    <3>1. e[i + 1] = g[e[i]]
      <4>1. i + 1 \in 0 .. m /\ i + 1 # 0 /\ (i + 1) - 1 = i
        BY <2>1
      <4>2. QED BY <4>1 DEF IsIterate
    <3>2. f[i + 1] = g[f[i]]
      <4>1. i + 1 \in 0 .. n /\ i + 1 # 0 /\ (i + 1) - 1 = i
        BY <2>1
      <4>2. QED BY <4>1 DEF IsIterate
    <3>3. e[i] = f[i]
      BY <1>2, <2>1
    <3>4. QED BY <3>1, <3>2, <3>3
  <2>2. CASE ~ (i + 1 <= m)
    BY <2>2
  <2>3. QED BY <2>1, <2>2
<1> HIDE DEF S
<1>3. Nat \subseteq S
  BY <1>1, <1>2, Induction
<1>4. QED BY <1>3 DEF S

-----------------------------------------------------------------------------
(* Walking up.                                                             *)

OneUp(p) == [v \in Toplevels |-> IF p[v] \in Tops THEN p[v] ELSE v]

Links == [Toplevels -> Toplevels \cup {None}]

LEMMA OneUpIs ==
  ASSUME F!TypeOK, NEW p \in Links
  PROVE  OneUp(p) \in [Toplevels -> Toplevels]
BY PlacesName DEF OneUp

LEMMA UpIs ==
  ASSUME F!TypeOK, NEW p \in Links, NEW t \in Toplevels, NEW n \in Nat
  PROVE  \E w \in [0 .. n -> Toplevels] : IsIterate(w, t, OneUp(p), n) /\ F!Up(p, t, n) = w[n]
<1> DEFINE Is(w) == w = [i \in 0 .. n |->
                           IF i = 0 THEN t
                           ELSE IF p[w[i - 1]] \in F!xdg_toplevels THEN p[w[i - 1]] ELSE w[i - 1]]
<1>1. PICK f \in [0 .. n -> Toplevels] : IsIterate(f, t, OneUp(p), n)
  BY IterateExists, OneUpIs
<1>2. Is(f)
  <2>1. ASSUME NEW i \in 0 .. n
        PROVE  f[i] = IF i = 0 THEN t
                      ELSE IF p[f[i - 1]] \in F!xdg_toplevels THEN p[f[i - 1]] ELSE f[i - 1]
    <3>1. CASE i = 0
      BY <1>1, <3>1 DEF IsIterate
    <3>2. CASE i # 0
      <4>1. i - 1 \in 0 .. n
        BY <3>2
      <4>2. f[i] = OneUp(p)[f[i - 1]] /\ f[i - 1] \in Toplevels
        BY <1>1, <3>2, <4>1 DEF IsIterate
      <4>3. QED BY <3>2, <4>2 DEF OneUp, Tops
    <3>3. QED BY <3>1, <3>2
  <2>2. f = [i \in 0 .. n |-> f[i]]
    OBVIOUS
  <2>3. QED BY <2>1, <2>2
<1> DEFINE up == CHOOSE w : Is(w)
<1>3. Is(up)
  BY <1>2
<1>4. F!Up(p, t, n) = up[n]
  BY DEF F!Up
<1> HIDE DEF up
<1>5. \A i \in 0 .. n : up[i] = IF i = 0 THEN t
                      ELSE IF p[up[i - 1]] \in F!xdg_toplevels THEN p[up[i - 1]] ELSE up[i - 1]
  BY <1>3
<1>6. \A i \in 0 .. n : up[i] = f[i]
  <2> DEFINE S == {i \in Nat : i <= n => up[i] = f[i]}
  <2>1. 0 \in S
    BY <1>1, <1>5 DEF IsIterate
  <2>2. ASSUME NEW i \in Nat, i \in S
        PROVE  i + 1 \in S
    <3>1. CASE i + 1 <= n
      <4>1. i + 1 \in 0 .. n /\ i + 1 # 0 /\ (i + 1) - 1 = i /\ i \in 0 .. n
        BY <3>1
      <4>2. up[i + 1] = IF p[up[i]] \in F!xdg_toplevels THEN p[up[i]] ELSE up[i]
        BY <1>5, <4>1
      <4>3. f[i + 1] = OneUp(p)[f[i]] /\ f[i] \in Toplevels
        BY <1>1, <4>1 DEF IsIterate
      <4>4. up[i] = f[i]
        BY <2>2, <3>1
      <4>5. QED BY <4>2, <4>3, <4>4 DEF OneUp, Tops
    <3>2. CASE ~ (i + 1 <= n)
      BY <3>2
    <3>3. QED BY <3>1, <3>2
  <2> HIDE DEF S
  <2>3. Nat \subseteq S
    BY <2>1, <2>2, Induction
  <2>4. QED BY <2>3 DEF S
<1>7. QED BY <1>1, <1>4, <1>6

\* A walk of no step stays, and one more step is one more.
LEMMA UpSteps ==
  ASSUME F!TypeOK, NEW p \in Links, NEW t \in Toplevels, NEW n \in Nat
  PROVE  /\ F!Up(p, t, 0) = t
         /\ F!Up(p, t, n) \in Toplevels
         /\ F!Up(p, t, n + 1) = IF p[F!Up(p, t, n)] \in Tops THEN p[F!Up(p, t, n)] ELSE F!Up(p, t, n)
<1>1. PICK z \in [0 .. 0 -> Toplevels] : IsIterate(z, t, OneUp(p), 0) /\ F!Up(p, t, 0) = z[0]
  <2>1. 0 \in Nat
    OBVIOUS
  <2>2. QED BY <2>1, UpIs, Zenon
<1>2. PICK v \in [0 .. n -> Toplevels] : IsIterate(v, t, OneUp(p), n) /\ F!Up(p, t, n) = v[n]
  BY UpIs
<1>3. PICK w \in [0 .. (n + 1) -> Toplevels] :
        IsIterate(w, t, OneUp(p), n + 1) /\ F!Up(p, t, n + 1) = w[n + 1]
  <2>1. n + 1 \in Nat
    OBVIOUS
  <2>2. QED BY <2>1, UpIs, Zenon
<1>4. F!Up(p, t, 0) = t
  BY <1>1 DEF IsIterate
<1>5. v[n] = w[n]
  <2>1. n <= n + 1 /\ n + 1 \in Nat /\ n \in 0 .. n
    OBVIOUS
  <2>2. QED BY <1>2, <1>3, <2>1, IterateOnly
<1>6. w[n + 1] = OneUp(p)[w[n]]
  <2>1. n + 1 \in 0 .. (n + 1) /\ n + 1 # 0 /\ (n + 1) - 1 = n
    OBVIOUS
  <2>2. QED BY <1>3, <2>1 DEF IsIterate
<1>7. v[n] \in Toplevels
  OBVIOUS
<1>8. QED BY <1>2, <1>3, <1>4, <1>5, <1>6, <1>7 DEF OneUp

\* A walk, step by step.
IsWalkUp(p, t) ==
  \A n \in Nat : LET w == F!Up(p, t, n)
                IN  /\ F!Up(p, t, 0) = t /\ w \in Toplevels
                    /\ F!Up(p, t, n + 1) = IF p[w] \in Tops THEN p[w] ELSE w

LEMMA WalksUp ==
  ASSUME F!TypeOK, NEW p \in Links, NEW t \in Toplevels
  PROVE  IsWalkUp(p, t)
BY UpSteps DEF IsWalkUp

\* A walk on which a number falls with every step ends where nothing is above.
Falls(p, t, rank, last) ==
  \A n \in 0 .. last : LET w == F!Up(p, t, n) IN p[w] \in Tops => rank[p[w]] < rank[w]

LEMMA WalksEnd ==
  ASSUME F!TypeOK, NEW p \in Links, NEW t \in Toplevels, NEW last \in Nat,
         NEW rank \in [Toplevels -> Nat \ {0}], rank[t] <= last + 1,
         Falls(p, t, rank, last)
  PROVE  p[F!Up(p, t, last)] \notin Tops
<1> DEFINE at(n) == F!Up(p, t, n)
<1>1. ASSUME NEW n \in Nat
      PROVE  /\ at(0) = t /\ at(n) \in Toplevels
             /\ at(n + 1) = IF p[at(n)] \in Tops THEN p[at(n)] ELSE at(n)
  <2>1. IsWalkUp(p, t)
    BY WalksUp, Zenon
  <2>2. QED BY <2>1, Zenon DEF IsWalkUp
<1>2. ASSUME NEW n \in Nat, n <= last, p[at(n)] \in Tops
      PROVE  rank[p[at(n)]] < rank[at(n)]
  <2>1. n \in 0 .. last
    BY <1>2
  <2>2. QED BY <1>2, <2>1 DEF Falls
<1> HIDE DEF at
<1> DEFINE S == {n \in Nat : n <= last /\ p[at(n)] \in Tops => rank[at(n)] + n <= last + 1}
<1>3. 0 \in S
  <2>1. at(0) = t
    BY <1>1
  <2>2. QED BY <2>1
<1>4. ASSUME NEW n \in Nat, n \in S
      PROVE  n + 1 \in S
  <2>1. CASE n + 1 <= last /\ p[at(n)] \in Tops
    <3>1. at(n + 1) = p[at(n)] /\ rank[p[at(n)]] < rank[at(n)] /\ at(n) \in Toplevels
      BY <1>1, <1>2, <2>1
    <3>2. rank[at(n)] + n <= last + 1
      BY <1>4, <2>1
    <3>3. at(n + 1) \in Toplevels
      BY <1>1
    <3>4. rank[at(n)] \in Nat /\ rank[at(n + 1)] \in Nat
      BY <3>1, <3>3
    <3>5. rank[at(n + 1)] + (n + 1) <= last + 1
      BY <3>1, <3>2, <3>4
    <3>6. QED BY <3>5
  <2>2. CASE ~ (n + 1 <= last /\ p[at(n)] \in Tops)
    BY <1>1, <2>2
  <2>3. QED BY <2>1, <2>2
<1> HIDE DEF S
<1>5. Nat \subseteq S
  BY <1>3, <1>4, Induction
<1>6. ASSUME p[at(last)] \in Tops
      PROVE  FALSE
  <2>1. rank[at(last)] + last <= last + 1
    BY <1>5, <1>6 DEF S
  <2>2. rank[p[at(last)]] < rank[at(last)] /\ at(last) \in Toplevels /\ p[at(last)] \in Toplevels
    <3>1. last <= last /\ last \in Nat
      OBVIOUS
    <3>2. rank[p[at(last)]] < rank[at(last)] /\ at(last) \in Toplevels
      BY <1>1, <1>6, <1>2, <3>1
    <3>3. QED BY <1>6, <3>2, PlacesName
  <2>3. rank[at(last)] \in Nat \ {0} /\ rank[p[at(last)]] \in Nat \ {0}
    BY <2>2
  <2>4. QED BY <2>1, <2>2, <2>3
<1>7. QED BY <1>6 DEF at

-----------------------------------------------------------------------------
(* A family, round by round.                                               *)

Rounds == Seq(SUBSET Tops) \ {<< >>}

\* The windows of a family that is found so far, and those next to it.
So(s) == UNION {s[i] : i \in 1 .. Len(s)}
After(p, s) == {u \in Tops \ So(s) : p[u] \in s[Len(s)]}

OneRound(p) == [s \in Rounds |-> IF After(p, s) = {} THEN s ELSE Append(s, After(p, s))]

LEMMA OneRoundIs ==
  ASSUME NEW p
  PROVE  OneRound(p) \in [Rounds -> Rounds]
<1>1. ASSUME NEW s \in Rounds
      PROVE  Append(s, After(p, s)) \in Rounds
  <2>1. After(p, s) \in SUBSET Tops
    BY DEF After
  <2>2. QED BY <2>1, AppendProperties DEF Rounds
<1>2. QED BY <1>1 DEF OneRound

\* The rounds of a family: each has those whose parents are in the one before.
AreRounds(s, p, r) ==
  /\ s \in Rounds
  /\ s[1] = {r}
  /\ \A i \in 2 .. Len(s) : s[i] # {} /\ \A u \in s[i] : p[u] \in s[i - 1]
  /\ \A i, j \in 1 .. Len(s) : \A u : u \in s[i] /\ u \in s[j] => i = j

\* Every window with a parent in the family is in it.
IsClosed(s, p) == \A u \in Tops : p[u] \in So(s) => u \in So(s)

ClosedBelow(s, p) == \A i \in 1 .. Len(s) - 1 : \A u \in Tops : p[u] \in s[i] => u \in So(s)

LEMMA RoundKeeps ==
  ASSUME NEW p, NEW r \in Tops, NEW s, AreRounds(s, p, r), ClosedBelow(s, p)
  PROVE  LET n == OneRound(p)[s]
         IN  /\ AreRounds(n, p, r) /\ ClosedBelow(n, p)
             /\ IsClosed(s, p) => n = s
             /\ IsClosed(s, p) \/ Len(n) = Len(s) + 1
<1> DEFINE n == OneRound(p)[s]
           k == Len(s)
<1>1. s \in Rounds /\ k \in Nat /\ k # 0 /\ \A i \in 1 .. k : s[i] \in SUBSET Tops
  BY DEF AreRounds, Rounds
<1>2. n = IF After(p, s) = {} THEN s ELSE Append(s, After(p, s))
  BY <1>1 DEF OneRound
<1>3. CASE After(p, s) = {}
  <2>1. ASSUME NEW u \in Tops, p[u] \in So(s)
        PROVE  u \in So(s)
    <3>1. PICK i \in 1 .. k : p[u] \in s[i]
      BY <2>1 DEF So
    <3>2. CASE i = k
      BY <1>3, <3>1, <3>2 DEF After
    <3>3. CASE i # k
      BY <1>1, <3>1, <3>3 DEF ClosedBelow
    <3>4. QED BY <3>2, <3>3
  <2>2. IsClosed(s, p)
    BY <2>1 DEF IsClosed
  <2>3. QED BY <1>2, <1>3, <2>2
<1>4. CASE After(p, s) # {}
  <2>1. n = Append(s, After(p, s)) /\ After(p, s) \in SUBSET Tops
    BY <1>2, <1>4 DEF After
  <2>2. /\ n \in Rounds /\ Len(n) = k + 1
        /\ \A i \in 1 .. k : n[i] = s[i]
        /\ n[k + 1] = After(p, s)
    BY <1>1, <2>1, AppendProperties DEF Rounds
  <2> HIDE DEF n
  <2>3. n[1] = {r}
    BY <1>1, <2>2 DEF AreRounds
  <2>4. ASSUME NEW i \in 2 .. Len(n)
        PROVE  n[i] # {} /\ \A u \in n[i] : p[u] \in n[i - 1]
    <3>1. CASE i = k + 1
      <4>1. n[i - 1] = s[k]
        BY <1>1, <2>2, <3>1
      <4>2. QED BY <1>4, <2>2, <3>1, <4>1 DEF After
    <3>2. CASE i # k + 1
      <4>1. i \in 2 .. k /\ i - 1 \in 1 .. k /\ i \in 1 .. k
        BY <1>1, <2>2, <3>2
      <4>2. n[i] = s[i] /\ n[i - 1] = s[i - 1]
        BY <2>2, <4>1
      <4>3. QED BY <4>1, <4>2 DEF AreRounds
    <3>3. QED BY <3>1, <3>2
  <2>5. ASSUME NEW i \in 1 .. Len(n), NEW j \in 1 .. Len(n), NEW u, u \in n[i], u \in n[j]
        PROVE  i = j
    <3>1. \A m \in 1 .. k : u \in s[m] => u \notin n[k + 1]
      BY <2>2 DEF After, So
    <3>2. CASE i = k + 1 /\ j # k + 1
      BY <1>1, <2>2, <2>5, <3>1, <3>2
    <3>3. CASE j = k + 1 /\ i # k + 1
      BY <1>1, <2>2, <2>5, <3>1, <3>3
    <3>4. CASE i # k + 1 /\ j # k + 1
      <4>1. i \in 1 .. k /\ j \in 1 .. k
        BY <1>1, <2>2, <3>4
      <4>2. QED BY <2>2, <2>5, <4>1 DEF AreRounds
    <3>5. QED BY <3>2, <3>3, <3>4
  <2>6. AreRounds(n, p, r)
    BY <2>2, <2>3, <2>4, <2>5 DEF AreRounds
  <2>7. So(s) \subseteq So(n) /\ After(p, s) \subseteq So(n)
    <3>1. \A i \in 1 .. k : n[i] = s[i] /\ i \in 1 .. Len(n)
      BY <1>1, <2>2
    <3>2. k + 1 \in 1 .. Len(n)
      BY <1>1, <2>2
    <3>3. QED BY <2>2, <3>1, <3>2 DEF So
  <2>8. ASSUME NEW i \in 1 .. Len(n) - 1, NEW u \in Tops, p[u] \in n[i]
        PROVE  u \in So(n)
    <3>1. i \in 1 .. k /\ p[u] \in s[i]
      BY <1>1, <2>2, <2>8
    <3>2. CASE i = k
      BY <2>7, <3>1, <3>2 DEF After
    <3>3. CASE i # k
      <4>1. i \in 1 .. Len(s) - 1
        BY <1>1, <3>1, <3>3
      <4>2. QED BY <2>7, <3>1, <4>1 DEF ClosedBelow
    <3>4. QED BY <3>2, <3>3
  <2>9. ClosedBelow(n, p)
    BY <2>8 DEF ClosedBelow
  <2>10. ~ IsClosed(s, p)
    <3>1. PICK u \in After(p, s) : TRUE
      BY <1>4
    <3>2. k \in 1 .. k
      BY <1>1
    <3>3. u \in Tops /\ u \notin So(s) /\ p[u] \in So(s)
      BY <3>2 DEF After, So
    <3>4. QED BY <3>3 DEF IsClosed
  <2>11. QED BY <2>2, <2>6, <2>9, <2>10 DEF n
<1>5. QED BY <1>3, <1>4

\* Rounds that are not empty and have nothing in common are no more than windows.
LEMMA RoundsAreFew ==
  ASSUME F!TypeOK, NEW p, NEW r \in Tops, NEW s, AreRounds(s, p, r)
  PROVE  Len(s) <= Len(stack)
<1>1. Len(s) \in Nat /\ Len(stack) \in Nat /\ \A i \in 1 .. Len(s) : s[i] \in SUBSET Tops /\ s[i] # {}
  <2>1. s \in Seq(SUBSET Tops) /\ s # << >> /\ s[1] = {r}
    BY DEF AreRounds, Rounds
  <2>2. \A i \in 2 .. Len(s) : s[i] # {}
    BY DEF AreRounds
  <2>3. ASSUME NEW i \in 1 .. Len(s)
        PROVE  s[i] \in SUBSET Tops /\ s[i] # {}
    <3>1. CASE i = 1
      BY <2>1, <3>1
    <3>2. CASE i # 1
      BY <2>1, <2>2, <3>2
    <3>3. QED BY <3>1, <3>2
  <2>4. Len(s) \in Nat
    BY <2>1
  <2>5. QED BY <2>3, <2>4, PlacesName
<1> DEFINE one == [i \in 1 .. Len(s) |-> CHOOSE u \in s[i] : TRUE]
<1>2. \A i \in 1 .. Len(s) : one[i] \in s[i]
  BY <1>1
<1>3. one \in [1 .. Len(s) -> Tops]
  BY <1>1, <1>2
<1> HIDE DEF one
<1>4. \A i, j \in 1 .. Len(s) : one[i] = one[j] => i = j
  BY <1>2 DEF AreRounds
<1>5. IsFiniteSet(1 .. Len(s)) /\ Cardinality(1 .. Len(s)) = Len(s)
  BY <1>1, CountingTo
<1>6. CASE Len(stack) < Len(s)
  <2>1. \E i, j \in 1 .. Len(s) : i # j /\ one[i] = one[j]
    BY <1>3, <1>5, <1>6, AsManyPlaces, FS_PigeonHole
  <2>2. QED BY <1>4, <2>1
<1>7. QED BY <1>1, <1>6

\* Rounds are the code's: as many as there are windows is enough of them.
LEMMA RoundsAre ==
  ASSUME F!TypeOK, NEW p \in Links, NEW t \in Toplevels, NEW r \in Tops,
         r = F!Up(p, t, Len(stack))
  PROVE  AreRounds(F!toplevel_family(p, t), p, r) /\ IsClosed(F!toplevel_family(p, t), p)
<1> DEFINE last == Len(stack)
           Is(f) == f = [n \in 0 .. last |->
             IF n = 0 THEN << {r} >>
             ELSE LET so_far == UNION F!Range(f[n - 1])
                      round  == {u \in F!xdg_toplevels \ so_far : p[u] \in F!Last(f[n - 1])}
                  IN  IF round = {} THEN f[n - 1] ELSE Append(f[n - 1], round)]
<1>1. last \in Nat
  BY PlacesName
<1>2. << {r} >> \in Rounds
  BY DEF Rounds
<1>3. PICK f \in [0 .. last -> Rounds] : IsIterate(f, << {r} >>, OneRound(p), last)
  BY <1>1, <1>2, IterateExists, OneRoundIs
<1>4. ASSUME NEW s \in Rounds
      PROVE  LET so_far == UNION F!Range(s)
                 round  == {u \in F!xdg_toplevels \ so_far : p[u] \in F!Last(s)}
             IN  (IF round = {} THEN s ELSE Append(s, round)) = OneRound(p)[s]
  <2>1. So(s) = UNION F!Range(s) /\ s[Len(s)] = F!Last(s)
    BY DEF So, F!Range, F!Last, Rounds
  <2>2. QED BY <2>1 DEF OneRound, After, Tops
<1>5. Is(f)
  <2>1. ASSUME NEW n \in 0 .. last
        PROVE  f[n] = IF n = 0 THEN << {r} >>
             ELSE LET so_far == UNION F!Range(f[n - 1])
                      round  == {u \in F!xdg_toplevels \ so_far : p[u] \in F!Last(f[n - 1])}
                  IN  IF round = {} THEN f[n - 1] ELSE Append(f[n - 1], round)
    <3>1. CASE n = 0
      BY <1>3, <3>1 DEF IsIterate
    <3>2. CASE n # 0
      <4>1. n - 1 \in 0 .. last
        BY <1>1, <3>2
      <4>2. f[n] = OneRound(p)[f[n - 1]] /\ f[n - 1] \in Rounds
        BY <1>3, <3>2, <4>1 DEF IsIterate
      <4>3. QED BY <1>4, <3>2, <4>2
    <3>3. QED BY <3>1, <3>2
  <2>2. f = [n \in 0 .. last |-> f[n]]
    OBVIOUS
  <2>3. QED BY <2>1, <2>2
<1> DEFINE found == CHOOSE g : Is(g)
<1>6. Is(found)
  BY <1>5
<1>7. F!descendants_of(p, r) = Tail(found[last])
  BY DEF F!descendants_of
<1> HIDE DEF found
<1>8. found[0] = << {r} >>
  <2>1. 0 \in 0 .. last
    BY <1>1
  <2>2. QED BY <1>6, <2>1
<1>9. ASSUME NEW n \in Nat, n + 1 <= last, found[n] \in Rounds
      PROVE  found[n + 1] = OneRound(p)[found[n]]
  <2>1. n + 1 \in 0 .. last /\ n + 1 # 0 /\ (n + 1) - 1 = n
    BY <1>1, <1>9
  <2>2. found[n + 1] = (LET so_far == UNION F!Range(found[n])
                            round  == {u \in F!xdg_toplevels \ so_far : p[u] \in F!Last(found[n])}
                        IN  IF round = {} THEN found[n] ELSE Append(found[n], round))
    BY <1>6, <2>1
  <2>3. QED BY <1>4, <1>9, <2>2
<1> HIDE DEF last
<1> DEFINE Good(s) == AreRounds(s, p, r) /\ ClosedBelow(s, p)
           S == {n \in Nat : n <= last => /\ Good(found[n])
                                          /\ IsClosed(found[n], p) \/ Len(found[n]) = n + 1}
<1>10. 0 \in S
  <2>1. Len(<< {r} >>) = 1 /\ << {r} >>[1] = {r}
    OBVIOUS
  <2>2. AreRounds(<< {r} >>, p, r)
    BY <1>2, <2>1 DEF AreRounds
  <2>3. ClosedBelow(<< {r} >>, p)
    BY <2>1 DEF ClosedBelow
  <2>4. Good(found[0])
    BY <1>8, <2>2, <2>3
  <2>5. Len(found[0]) = 0 + 1
    BY <1>8, <2>1
  <2> HIDE DEF Good
  <2>6. QED BY <2>4, <2>5
<1>11. ASSUME NEW n \in Nat, n \in S
       PROVE  n + 1 \in S
  <2>1. CASE n + 1 <= last
    <3>1. Good(found[n]) /\ (IsClosed(found[n], p) \/ Len(found[n]) = n + 1)
      BY <1>1, <1>11, <2>1
    <3>2. found[n + 1] = OneRound(p)[found[n]]
      BY <1>9, <2>1, <3>1 DEF AreRounds
    <3>3. Good(found[n + 1])
      BY <3>1, <3>2, RoundKeeps, Zenon
    <3>4. CASE IsClosed(found[n], p)
      <4>1. found[n + 1] = found[n]
        BY <3>1, <3>2, <3>4, RoundKeeps, Zenon
      <4>2. QED BY <3>3, <3>4, <4>1
    <3>5. CASE ~ IsClosed(found[n], p)
      <4>1. Len(found[n + 1]) = Len(found[n]) + 1
        BY <3>1, <3>2, <3>5, RoundKeeps, Zenon
      <4>2. QED BY <3>1, <3>3, <3>5, <4>1
    <3>6. QED BY <3>4, <3>5
  <2>2. CASE ~ (n + 1 <= last)
    BY <2>2
  <2>3. QED BY <2>1, <2>2
<1> HIDE DEF S
<1>12. Nat \subseteq S
  BY <1>10, <1>11, Induction
<1>13. Good(found[last]) /\ (IsClosed(found[last], p) \/ Len(found[last]) = last + 1)
  BY <1>1, <1>12 DEF S
<1>14. IsClosed(found[last], p)
  <2>1. Len(found[last]) <= last
    BY <1>13, RoundsAreFew DEF last
  <2>2. QED BY <1>1, <1>13, <2>1
<1>15. F!toplevel_family(p, t) = found[last]
  <2>1. F!toplevel_family(p, t) = << {r} >> \o Tail(found[last])
    BY <1>7 DEF F!toplevel_family, last
  <2>2. found[last] \in Seq(SUBSET Tops) /\ found[last] # << >> /\ found[last][1] = {r}
    BY <1>13 DEF AreRounds, Rounds
  <2>3. PICK s \in Seq(SUBSET Tops) : s = found[last]
    BY <2>2
  <2>4. s = << Head(s) >> \o Tail(s)
    BY <2>2, <2>3
  <2>5. Head(s) = {r}
    BY <2>2, <2>3
  <2>6. QED BY <2>1, <2>3, <2>4, <2>5
<1>16. QED BY <1>13, <1>14, <1>15

\* What is asked of a window's family is in it.
LEMMA OwnFamily ==
  ASSUME F!TypeOK, NEW p \in Links, NEW t \in Tops,
         NEW s, So(s) \subseteq Tops, IsClosed(s, p), F!Up(p, t, Len(stack)) \in So(s)
  PROVE  t \in So(s)
<1> DEFINE last == Len(stack)
           at(n) == F!Up(p, t, n)
           S == {n \in Nat : n <= last => at(last - n) \in So(s)}
<1>1. last \in Nat /\ t \in Toplevels /\ Tops \subseteq Toplevels
  BY PlacesName
<1>2. ASSUME NEW n \in Nat
      PROVE  at(0) = t /\ at(n) \in Toplevels
             /\ at(n + 1) = IF p[at(n)] \in Tops THEN p[at(n)] ELSE at(n)
  BY <1>1, UpSteps
<1> HIDE DEF at, last
<1> DEFINE R == {n \in Nat : at(n) \in Tops}
<1>3. 0 \in R /\ \A n \in Nat : n \in R => n + 1 \in R
  <2>1. 0 \in R
    BY <1>2
  <2>2. ASSUME NEW n \in Nat, n \in R PROVE n + 1 \in R
    <3>1. at(n) \in Tops /\ at(n + 1) = IF p[at(n)] \in Tops THEN p[at(n)] ELSE at(n)
      BY <1>2, <2>2
    <3>2. at(n + 1) \in Tops
      BY <3>1
    <3>3. QED BY <3>2
  <2>3. QED BY <2>1, <2>2
<1> HIDE DEF R
<1>4. Nat \subseteq R
  BY <1>3, Induction
<1>5. 0 \in S
  <2>1. last - 0 = last
    BY <1>1
  <2>2. QED BY <1>1, <2>1 DEF at, last
<1>6. ASSUME NEW n \in Nat, n \in S
      PROVE  n + 1 \in S
  <2>1. CASE n + 1 <= last
    <3>1. PICK m \in Nat : m = last - (n + 1)
      BY <1>1, <2>1
    <3>2. m + 1 = last - n /\ n <= last
      BY <1>1, <3>1
    <3>3. at(m + 1) \in So(s)
      BY <1>6, <3>2
    <3>4. at(m) \in Tops
      BY <1>4 DEF R
    <3>5. at(m) \in So(s)
      BY <1>2, <3>3, <3>4 DEF IsClosed
    <3>6. QED BY <3>1, <3>5
  <2>2. CASE ~ (n + 1 <= last)
    BY <2>2
  <2>3. QED BY <2>1, <2>2
<1> HIDE DEF S
<1>7. Nat \subseteq S
  BY <1>5, <1>6, Induction
<1>8. at(last - last) \in So(s)
  BY <1>1, <1>7 DEF S
<1>9. QED
  <2>1. last - last = 0
    BY <1>1
  <2>2. 0 \in Nat
    OBVIOUS
  <2>3. at(0) = t
    BY <1>2, <2>2
  <2>4. QED BY <1>8, <2>1, <2>3

\* A window of a family comes a round after its parent.
LEMMA ARoundLater ==
  ASSUME NEW s, NEW p, NEW r, AreRounds(s, p, r), p[r] \notin Tops,
         NEW u \in So(s), p[u] \in Tops
  PROVE  LET Round(w) == CHOOSE i \in DOMAIN s : w \in s[i]
         IN  Round(u) \in Nat /\ Round(p[u]) = Round(u) - 1
<1> DEFINE Round(w) == CHOOSE i \in DOMAIN s : w \in s[i]
<1>1. DOMAIN s = 1 .. Len(s) /\ Len(s) \in Nat
  BY DEF AreRounds, Rounds
<1>2. PICK i \in 1 .. Len(s) : u \in s[i]
  BY DEF So
<1>3. ASSUME NEW w, NEW k \in 1 .. Len(s), w \in s[k]
      PROVE  Round(w) = k
  <2>1. Round(w) \in DOMAIN s /\ w \in s[Round(w)]
    BY <1>1, <1>3
  <2> HIDE DEF Round
  <2>2. QED BY <1>1, <1>3, <2>1 DEF AreRounds
<1>4. i # 1
  BY <1>2 DEF AreRounds
<1>5. i \in 2 .. Len(s) /\ i - 1 \in 1 .. Len(s)
  BY <1>1, <1>4
<1>6. p[u] \in s[i - 1]
  BY <1>2, <1>5 DEF AreRounds
<1>7. Round(u) = i
  BY <1>2, <1>3
<1>8. Round(p[u]) = i - 1
  BY <1>3, <1>5, <1>6
<1> HIDE DEF Round
<1>9. i \in Nat
  BY <1>1
<1>10. Round(u) \in Nat /\ Round(p[u]) = Round(u) - 1
  BY <1>7, <1>8, <1>9
<1>11. QED BY <1>10 DEF Round

-----------------------------------------------------------------------------
(* What a step makes of the stack.                                         *)

At(s, t) == CHOOSE i \in DOMAIN s : s[i] = t

\* A stack, by what it holds.
StackedAs(s, W) ==
  /\ s \in Seq(Toplevels)
  /\ \A i, j \in 1 .. Len(s) : s[i] = s[j] => i = j
  /\ W = {s[i] : i \in 1 .. Len(s)}

LEMMA StackedAt ==
  ASSUME NEW s, NEW W, StackedAs(s, W)
  PROVE  /\ Len(s) \in Nat /\ W \subseteq Toplevels
         /\ \A t \in W : At(s, t) \in 1 .. Len(s) /\ s[At(s, t)] = t
         /\ \A i \in 1 .. Len(s) : s[i] \in W /\ At(s, s[i]) = i
<1>1. /\ s \in Seq(Toplevels) /\ Len(s) \in Nat /\ DOMAIN s = 1 .. Len(s)
      /\ \A i \in 1 .. Len(s) : s[i] \in Toplevels
  BY DEF StackedAs
<1>2. ASSUME NEW t \in W
      PROVE  At(s, t) \in 1 .. Len(s) /\ s[At(s, t)] = t
  <2>1. \E i \in DOMAIN s : s[i] = t
    BY <1>1 DEF StackedAs
  <2>2. QED BY <1>1, <2>1 DEF At
<1>3. ASSUME NEW i \in 1 .. Len(s)
      PROVE  s[i] \in W /\ At(s, s[i]) = i
  <2>1. s[i] \in W
    BY DEF StackedAs
  <2>2. At(s, s[i]) \in 1 .. Len(s) /\ s[At(s, s[i])] = s[i]
    BY <1>2, <2>1
  <2>3. QED BY <2>1, <2>2 DEF StackedAs
<1>4. QED BY <1>1, <1>2, <1>3 DEF StackedAs

FamilyInv == F!TypeOK /\ F!DialogsOnTop

LEMMA StackTypes ==
  ASSUME NEW s, NEW W, NEW p \in Links, stack' = s, parent' = p, StackedAs(s, W)
  PROVE  F!TypeOK'
<1>1. s \in Seq(Toplevels) /\ DOMAIN s = 1 .. Len(s)
  BY DEF StackedAs
<1>2. QED BY <1>1 DEF F!TypeOK, F!IsInjective, StackedAs, Links

\* What is left to say of a step.
LEMMA StacksAgree ==
  ASSUME NEW s, NEW W, NEW p \in Links, stack' = s, parent' = p, StackedAs(s, W),
         \A u \in W : p[u] \in W => At(s, p[u]) < At(s, u)
  PROVE  FamilyInv'
<1>1. s \in Seq(Toplevels) /\ DOMAIN s = 1 .. Len(s)
  BY DEF StackedAs
<1>2. F!TypeOK'
  BY StackTypes
<1>3. F!xdg_toplevels' = W
  BY <1>1 DEF F!xdg_toplevels, F!Range, StackedAs
<1>4. F!DialogsOnTop'
  BY <1>3 DEF F!DialogsOnTop, F!Place, At
<1>5. QED BY <1>2, <1>4 DEF FamilyInv

\* The windows in another order.
LEMMA ReorderedStack ==
  ASSUME F!TypeOK, NEW s \in F!SetToSeqs(Tops)
  PROVE  StackedAs(s, Tops)
<1>1. s \in [1 .. Len(stack) -> Tops] /\ \A i, j \in 1 .. Len(stack) : i # j => s[i] # s[j]
  BY AsManyPlaces DEF F!SetToSeqs, F!Cardinality, Cardinality
<1>2. s \in Injection(1 .. Len(stack), Tops)
  BY <1>1 DEF Injection, IsInjective
<1>3. Cardinality(1 .. Len(stack)) = Len(stack)
  BY PlacesName, CountingTo
<1>4. s \in Surjection(1 .. Len(stack), Tops)
  BY <1>2, <1>3, AsManyPlaces, FS_Injection
<1>5. s \in Seq(Toplevels) /\ Len(s) = Len(stack)
  BY <1>1, PlacesName
<1>6. Tops = {s[i] : i \in 1 .. Len(stack)}
  BY <1>1, <1>4 DEF Surjection
<1>7. QED BY <1>1, <1>5, <1>6 DEF StackedAs

LEMMA RaisedKeeps ==
  ASSUME F!TypeOK, NEW p \in Links, NEW t \in Tops,
         p[F!Up(p, t, Len(stack))] \notin Tops,
         \A u \in Tops : (u # t \/ p = parent) /\ p[u] \in Tops => F!Place(p[u]) < F!Place(u),
         stack' \in F!Raised(p, t), parent' = p
  PROVE  FamilyInv'
<1> DEFINE r == F!Up(p, t, Len(stack))
           rounds == F!toplevel_family(p, t)
           Round(u) == CHOOSE i \in DOMAIN rounds : u \in rounds[i]
<1>1. t \in Toplevels /\ Len(stack) \in Nat /\ Tops \subseteq Toplevels
  BY PlacesName
<1>2. r \in Tops
  <2> DEFINE R == {n \in Nat : F!Up(p, t, n) \in Tops}
  <2>1. 0 \in R
    <3>1. F!Up(p, t, 0) = t
      BY <1>1, UpSteps
    <3>2. QED BY <3>1
  <2>4. ASSUME NEW n \in Nat, n \in R PROVE n + 1 \in R
    <3>1. F!Up(p, t, n + 1) = IF p[F!Up(p, t, n)] \in Tops THEN p[F!Up(p, t, n)]
                                                           ELSE F!Up(p, t, n)
      BY <1>1, UpSteps
    <3>2. QED BY <2>4, <3>1
  <2> HIDE DEF R
  <2>2. Nat \subseteq R
    BY <2>1, <2>4, Induction
  <2>3. QED BY <1>1, <2>2 DEF R
<1>3. AreRounds(rounds, p, r) /\ IsClosed(rounds, p)
  BY <1>1, <1>2, RoundsAre
<1>4. So(rounds) = UNION F!Range(rounds)
  BY <1>3 DEF So, F!Range, AreRounds, Rounds
<1>5. t \in So(rounds)
  <2>1. So(rounds) \subseteq Tops
    BY <1>3 DEF So, AreRounds, Rounds
  <2>2. r \in So(rounds)
    BY <1>3 DEF So, AreRounds, Rounds
  <2>3. QED BY <1>3, <2>1, <2>2, OwnFamily
<1>6. PICK s : s = stack'
  OBVIOUS
<1>7. /\ s \in F!SetToSeqs(Tops)
      /\ \A i, j \in DOMAIN s : i < j =>
           IF s[i] \in So(rounds) THEN s[j] \in So(rounds) /\ Round(s[i]) <= Round(s[j])
           ELSE s[j] \in So(rounds) \/ F!Place(s[i]) < F!Place(s[j])
  <2> DEFINE family == UNION F!Range(rounds)
             Ok(v) == \A i, j \in DOMAIN v : i < j =>
                        IF v[i] \in family THEN v[j] \in family /\ Round(v[i]) <= Round(v[j])
                        ELSE v[j] \in family \/ F!Place(v[i]) < F!Place(v[j])
  <2>1. F!Raised(p, t) = {v \in F!SetToSeqs(Tops) : Ok(v)}
    BY DEF F!Raised, Tops
  <2>2. s \in {v \in F!SetToSeqs(Tops) : Ok(v)}
    BY <1>6, <2>1
  <2> HIDE DEF Round, rounds
  <2>3. s \in F!SetToSeqs(Tops) /\ Ok(s)
    BY <2>2
  <2>4. QED BY <1>4, <2>3 DEF Round
<1>8. StackedAs(s, Tops)
  BY <1>7, ReorderedStack
<1> HIDE DEF rounds
<1>9. ASSUME NEW u \in Tops, p[u] \in Tops
      PROVE  At(s, p[u]) < At(s, u)
  <2>1. PICK i \in 1 .. Len(s) : i = At(s, p[u])
    BY <1>8, <1>9, StackedAt
  <2>2. PICK j \in 1 .. Len(s) : j = At(s, u)
    BY <1>8, StackedAt
  <2>3. s[i] = p[u] /\ s[j] = u /\ DOMAIN s = 1 .. Len(s) /\ Len(s) \in Nat
    <3>1. s[At(s, p[u])] = p[u] /\ s[At(s, u)] = u /\ Len(s) \in Nat
      BY <1>8, <1>9, StackedAt
    <3>2. s \in Seq(Toplevels)
      BY <1>8 DEF StackedAs
    <3>3. QED BY <2>1, <2>2, <3>1, <3>2
  <2>4. CASE u \in So(rounds)
    <3>1. Round(u) \in Nat /\ Round(p[u]) = Round(u) - 1
      BY <1>3, <1>9, <2>4, ARoundLater
    <3> HIDE DEF Round
    <3>2. ~ (Round(u) <= Round(p[u])) /\ p[u] # u
      BY <3>1
    <3>3. i # j
      BY <2>3, <3>2
    <3>4. ~ (j < i)
      BY <1>7, <2>3, <2>4, <3>2
    <3>5. QED BY <2>1, <2>2, <3>3, <3>4
  <2>5. CASE u \notin So(rounds)
    <3>1. p[u] \notin So(rounds)
      BY <1>3, <2>5 DEF IsClosed
    <3>2. F!Place(p[u]) < F!Place(u)
      BY <1>5, <1>9, <2>5
    <3>3. F!Place(u) \in Nat /\ F!Place(p[u]) \in Nat
      BY <1>9, PlacesName
    <3>4. ~ (F!Place(u) < F!Place(p[u])) /\ p[u] # u
      BY <3>2, <3>3
    <3>5. i # j
      BY <2>3, <3>4
    <3>6. ~ (j < i)
      BY <1>7, <2>3, <2>5, <3>1, <3>4
    <3>7. QED BY <2>1, <2>2, <3>5, <3>6
  <2>6. QED BY <2>4, <2>5
<1>10. QED BY <1>6, <1>8, <1>9, StacksAgree

\* One step up from a window, when its parent is there.
LEMMA RaiseKeeps ==
  ASSUME F!FamiliesAssumption, FamilyInv, NEW t \in Toplevels, F!Raise(t)
  PROVE  FamilyInv'
<1>1. t \in Tops /\ parent \in Links /\ parent' = parent /\ stack' \in F!Raised(parent, t)
      /\ F!TypeOK
  BY DEF F!Raise, FamilyInv, F!TypeOK, Links, Tops
<1>2. \A u \in Tops : parent[u] \in Tops => F!Place(parent[u]) < F!Place(u)
  BY DEF FamilyInv, F!DialogsOnTop, Tops
<1>3. parent[F!Up(parent, t, Len(stack))] \notin Tops
  <2> DEFINE rank == [u \in Toplevels |-> IF u \in Tops THEN F!Place(u) ELSE 1]
             last == Len(stack)
  <2>1. last \in Nat /\ rank \in [Toplevels -> Nat \ {0}] /\ rank[t] <= last + 1
    BY <1>1, PlacesName
  <2>2. ASSUME NEW n \in 0 .. last
        PROVE  LET w == F!Up(parent, t, n)
               IN  parent[w] \in Tops => rank[parent[w]] < rank[w]
    <3> DEFINE R == {m \in Nat : F!Up(parent, t, m) \in Tops}
    <3>1. 0 \in R
      <4>1. F!Up(parent, t, 0) = t
        BY <1>1, UpSteps
      <4>2. QED BY <1>1, <4>1
    <3>2. ASSUME NEW m \in Nat, m \in R PROVE m + 1 \in R
      <4>1. t \in Toplevels /\ F!Up(parent, t, m) \in Tops
        BY <3>2
      <4>2. F!Up(parent, t, m + 1) \in Tops
        BY <1>1, <4>1, UpSteps
      <4>3. QED BY <4>2
    <3> HIDE DEF R
    <3>3. Nat \subseteq R
      BY <3>1, <3>2, Induction
    <3>4. F!Up(parent, t, n) \in Tops
      BY <3>3 DEF R
    <3>5. QED BY <1>1, <1>2, <3>4, PlacesName
  <2> HIDE DEF rank
  <2>3. Falls(parent, t, rank, last)
    BY <2>2 DEF Falls
  <2>4. QED BY <1>1, <2>1, <2>3, WalksEnd
<1>4. QED BY <1>1, <1>2, <1>3, RaisedKeeps

\* The walk up from a child that has just got its parent goes on from there, as
\* the walk that found no cycle did.
LEMMA SetParentKeeps ==
  ASSUME F!FamiliesAssumption, FamilyInv, NEW t \in Toplevels, NEW q \in Toplevels \cup {None},
         F!SetParent(t, q)
  PROVE  FamilyInv'
<1> DEFINE p == [parent EXCEPT ![t] = q]
           last == Len(stack)
<1>1. /\ t \in Tops /\ parent \in Links /\ parent' = p /\ stack' \in F!Raised(p, t)
      /\ F!TypeOK /\ p \in Links /\ last \in Nat
      /\ q = None \/ (q \in Tops /\ \A n \in 0 .. last : F!Up(parent, q, n) # t)
  <2>1. F!TypeOK /\ t \in Tops /\ parent \in Links /\ last \in Nat
    BY PlacesName DEF F!SetParent, FamilyInv, F!TypeOK, Links, Tops
  <2>2. p \in Links
    BY <2>1 DEF Links
  <2>3. parent' = p /\ stack' \in F!Raised(p, t)
    <3>1. parent' = p /\ stack' \in F!Raised(parent', t)
      BY DEF F!SetParent
    <3> HIDE DEF p
    <3>2. QED BY <3>1
  <2>4. q = None \/ (q \in Tops /\ \A n \in 0 .. last : F!Up(parent, q, n) # t)
    BY DEF F!SetParent, F!would_cycle, Tops
  <2>5. QED BY <2>1, <2>2, <2>3, <2>4
<1>2. \A u \in Tops : parent[u] \in Tops => F!Place(parent[u]) < F!Place(u)
  BY DEF FamilyInv, F!DialogsOnTop, Tops
<1>3. p[t] = q /\ \A u \in Toplevels \ {t} : p[u] = parent[u]
  BY <1>1 DEF Links
<1> HIDE DEF p, last
<1>4. \A u \in Tops : (u # t \/ p = parent) /\ p[u] \in Tops => F!Place(p[u]) < F!Place(u)
  BY <1>2, <1>3, PlacesName, <1>1
<1>5. p[F!Up(p, t, last)] \notin Tops
  <2>1. CASE q = None
    <3> DEFINE R == {m \in Nat : F!Up(p, t, m) = t}
    <3>1. p[t] \notin Tops
      BY <1>1, <1>3, <2>1, PlacesName DEF F!FamiliesAssumption
    <3>2. 0 \in R
      BY <1>1, UpSteps
    <3>3. ASSUME NEW m \in Nat, m \in R PROVE m + 1 \in R
      <4>1. F!Up(p, t, m) = t
        BY <3>3
      <4>2. F!Up(p, t, m + 1) = t
        BY <1>1, <3>1, <4>1, UpSteps
      <4>3. QED BY <4>2
    <3> HIDE DEF R
    <3>4. Nat \subseteq R
      BY <3>2, <3>3, Induction
    <3>5. F!Up(p, t, last) = t
      BY <1>1, <3>4 DEF R
    <3>6. QED BY <3>1, <3>5
  <2>2. CASE q # None
    <3>1. q \in Tops /\ q \in Toplevels /\ t \in Toplevels /\ \A n \in 0 .. last : F!Up(parent, q, n) # t
      BY <1>1, <2>2, PlacesName
    <3> DEFINE at(n) == F!Up(p, t, n)
               w(n) == F!Up(parent, q, n)
    <3>2. ASSUME NEW n \in Nat
          PROVE  /\ at(0) = t /\ w(0) = q /\ at(n) \in Toplevels /\ w(n) \in Toplevels
                 /\ at(n + 1) = IF p[at(n)] \in Tops THEN p[at(n)] ELSE at(n)
                 /\ w(n + 1) = IF parent[w(n)] \in Tops THEN parent[w(n)] ELSE w(n)
      <4>1. IsWalkUp(p, t) /\ IsWalkUp(parent, q)
        BY <1>1, <3>1, WalksUp, Zenon
      <4>2. QED BY <4>1, Zenon DEF IsWalkUp
    <3>3. \A n \in 0 .. last : w(n) # t
      BY <3>1
    <3> HIDE DEF at, w
    <3> DEFINE R == {n \in Nat : n <= last => at(n + 1) = w(n) /\ w(n) \in Tops}
    <3>4. 0 \in R
      <4>1. 0 \in Nat
        OBVIOUS
      <4>2. at(0) = t /\ w(0) = q /\ at(0 + 1) = IF p[at(0)] \in Tops THEN p[at(0)] ELSE at(0)
        BY <3>2, <4>1
      <4>3. QED BY <1>3, <3>1, <4>1, <4>2
    <3>5. ASSUME NEW n \in Nat, n \in R PROVE n + 1 \in R
      <4>1. CASE n + 1 <= last
        <5>1. at(n + 1) = w(n) /\ w(n) \in Tops /\ w(n) # t /\ w(n) \in Toplevels
          BY <1>1, <3>2, <3>3, <3>5, <4>1
        <5>2. p[w(n)] = parent[w(n)]
          BY <1>3, <5>1
        <5>3. at((n + 1) + 1) = IF p[at(n + 1)] \in Tops THEN p[at(n + 1)] ELSE at(n + 1)
          BY <3>2
        <5>4. w(n + 1) = IF parent[w(n)] \in Tops THEN parent[w(n)] ELSE w(n)
          BY <3>2
        <5>5. at((n + 1) + 1) = w(n + 1) /\ w(n + 1) \in Tops
          BY <5>1, <5>2, <5>3, <5>4
        <5>6. QED BY <5>5
      <4>2. CASE ~ (n + 1 <= last)
        BY <4>2
      <4>3. QED BY <4>1, <4>2
    <3> HIDE DEF R
    <3>6. Nat \subseteq R
      BY <3>4, <3>5, Induction
    <3> DEFINE rank == [u \in Toplevels |-> IF u = t THEN last + 1
                                            ELSE IF u \in Tops THEN F!Place(u) ELSE 1]
    <3>7. rank \in [Toplevels -> Nat \ {0}] /\ rank[t] <= last + 1
      BY <1>1, <3>1, PlacesName DEF last
    <3>8. \A u \in Tops \ {t} : rank[u] = F!Place(u) /\ F!Place(u) <= last
      BY <1>1, PlacesName DEF last
    <3>9. ASSUME NEW n \in 0 .. last, p[at(n)] \in Tops
          PROVE  rank[p[at(n)]] < rank[at(n)]
      <4>1. CASE n = 0
        <5>1. at(0) = t /\ w(0) = q /\ q # t
          BY <1>1, <3>2, <3>3
        <5>2. rank[q] = F!Place(q) /\ F!Place(q) <= last /\ F!Place(q) \in Nat
          <6> HIDE DEF rank
          <6>1. rank[q] = F!Place(q) /\ F!Place(q) <= last
            BY <3>1, <3>8, <5>1
          <6>2. F!Place(q) \in Nat
            BY <1>1, <3>1, PlacesName
          <6>3. QED BY <6>1, <6>2
        <5>3. rank[t] = last + 1
          BY <3>1
        <5> HIDE DEF rank
        <5>4. QED BY <1>1, <1>3, <4>1, <5>1, <5>2, <5>3
      <4>2. CASE n # 0
        <5>1. PICK m \in Nat : n = m + 1
          <6>1. n - 1 \in Nat /\ n = (n - 1) + 1
            BY <1>1, <4>2
          <6>2. QED BY <6>1
        <5>2. m <= last /\ m + 1 <= last /\ m \in 0 .. last /\ m + 1 \in 0 .. last
          BY <1>1, <5>1
        <5>3. at(n) = w(m) /\ w(m) \in Tops /\ w(m) # t
          BY <3>3, <3>6, <5>1, <5>2 DEF R
        <5>4. p[w(m)] = parent[w(m)] /\ parent[w(m)] \in Tops
          BY <1>1, <1>3, <3>9, <5>3, PlacesName
        <5>5. w(m + 1) = parent[w(m)]
          BY <3>2, <5>4
        <5>6. parent[w(m)] # t
          BY <3>3, <5>2, <5>5
        <5>7. F!Place(parent[w(m)]) < F!Place(w(m))
          BY <1>2, <5>3, <5>4
        <5> HIDE DEF rank
        <5>8. QED BY <3>8, <5>3, <5>4, <5>6, <5>7
      <4>3. QED BY <4>1, <4>2
    <3> HIDE DEF rank
    <3>10. Falls(p, t, rank, last)
      BY <3>9 DEF Falls, at
    <3>11. p[at(last)] \notin Tops
      BY <1>1, <3>1, <3>7, <3>10, WalksEnd DEF at
    <3>12. QED BY <3>11 DEF at
  <2>3. QED BY <2>1, <2>2
<1>6. QED BY <1>1, <1>4, <1>5, RaisedKeeps DEF last

\* A new window on top.
LEMMA CreateStacks ==
  ASSUME F!FamiliesAssumption, F!TypeOK, NEW t \in Toplevels, F!Create(t)
  PROVE  /\ StackedAs(stack', Tops \cup {t}) /\ parent' \in Links
         /\ \A u \in Tops : At(stack', u) = F!Place(u) /\ At(stack', u) < At(stack', t)
<1>1. /\ stack' = Append(stack, t) /\ t \notin Tops /\ parent' = [parent EXCEPT ![t] = None]
      /\ parent \in Links
  BY DEF F!Create, F!TypeOK, Links, Tops
<1>2. stack \in Seq(Toplevels) /\ Len(stack) \in Nat
  BY PlacesName
<1>3. PICK s : s = stack'
  OBVIOUS
<1>4. /\ s \in Seq(Toplevels) /\ Len(s) = Len(stack) + 1
      /\ \A i \in 1 .. Len(stack) : s[i] = stack[i]
      /\ s[Len(stack) + 1] = t
  BY <1>1, <1>2, <1>3, AppendProperties
<1>5. ASSUME NEW i \in 1 .. Len(s), NEW j \in 1 .. Len(s), s[i] = s[j]
      PROVE  i = j
  <2>1. \A k \in 1 .. Len(stack) : s[k] # t
    BY <1>1, <1>4, PlacesName
  <2>2. CASE i = Len(stack) + 1 /\ j # Len(stack) + 1
    BY <1>2, <1>4, <1>5, <2>1, <2>2
  <2>3. CASE i # Len(stack) + 1 /\ j = Len(stack) + 1
    BY <1>2, <1>4, <1>5, <2>1, <2>3
  <2>4. CASE i # Len(stack) + 1 /\ j # Len(stack) + 1
    <3>1. i \in 1 .. Len(stack) /\ j \in 1 .. Len(stack)
      BY <1>2, <1>4, <2>4
    <3>2. QED BY <1>4, <1>5, <3>1, PlacesName
  <2>5. QED BY <2>2, <2>3, <2>4
<1>6. Tops \cup {t} = {s[i] : i \in 1 .. Len(s)}
  <2>1. \A u \in Tops : F!Place(u) \in 1 .. Len(s) /\ s[F!Place(u)] = u
    BY <1>2, <1>4, PlacesName
  <2>2. Len(stack) + 1 \in 1 .. Len(s)
    BY <1>2, <1>4
  <2>3. ASSUME NEW i \in 1 .. Len(s)
        PROVE  s[i] \in Tops \cup {t}
    <3>1. CASE i = Len(stack) + 1
      BY <1>4, <3>1
    <3>2. CASE i # Len(stack) + 1
      <4>1. i \in 1 .. Len(stack)
        BY <1>2, <1>4, <3>2
      <4>2. QED BY <1>4, <4>1, PlacesName
    <3>3. QED BY <3>1, <3>2
  <2>4. QED BY <1>4, <2>1, <2>2, <2>3
<1>7. PICK W : W = Tops \cup {t}
  OBVIOUS
<1>8. StackedAs(s, W)
  BY <1>4, <1>5, <1>6, <1>7 DEF StackedAs
<1>9. At(s, t) = Len(stack) + 1
  <2>1. Len(stack) + 1 \in 1 .. Len(s)
    BY <1>2, <1>4
  <2>2. QED BY <1>4, <1>8, <2>1, StackedAt
<1>10. ASSUME NEW u \in Tops
       PROVE  At(s, u) = F!Place(u) /\ At(s, u) < At(s, t)
  <2>1. F!Place(u) \in 1 .. Len(stack) /\ stack[F!Place(u)] = u
    BY PlacesName
  <2>2. F!Place(u) \in 1 .. Len(s) /\ s[F!Place(u)] = u
    BY <1>2, <1>4, <2>1
  <2>3. At(s, u) = F!Place(u)
    BY <1>8, <2>2, StackedAt
  <2>4. QED BY <1>2, <1>9, <2>1, <2>3
<1>11. parent' \in Links
  BY <1>1 DEF Links
<1>12. QED BY <1>3, <1>7, <1>8, <1>10, <1>11

LEMMA CreateKeeps ==
  ASSUME F!FamiliesAssumption, ~ ReusesIds, FamilyInv, NEW t \in Toplevels, F!Create(t)
  PROVE  FamilyInv'
<1>1. /\ t \notin Tops /\ parent' = [parent EXCEPT ![t] = None] /\ parent \in Links
      /\ F!TypeOK /\ \A u \in Tops : parent[u] # t
  BY DEF F!Create, FamilyInv, F!TypeOK, Links, Tops
<1>2. \A u \in Tops : parent[u] \in Tops => F!Place(parent[u]) < F!Place(u)
  BY DEF FamilyInv, F!DialogsOnTop, Tops
<1>3. PICK W : W = Tops \cup {t}
  OBVIOUS
<1>4. PICK s : s = stack'
  OBVIOUS
<1>5. PICK p : p = parent'
  OBVIOUS
<1>6. /\ StackedAs(s, W) /\ p \in Links
      /\ \A u \in Tops : At(s, u) = F!Place(u) /\ At(s, u) < At(s, t)
  BY <1>1, <1>3, <1>4, <1>5, CreateStacks
<1>7. p[t] = None /\ None \notin W /\ \A u \in Tops : p[u] = parent[u]
  BY <1>1, <1>3, <1>5, PlacesName DEF Links, F!FamiliesAssumption
<1>8. ASSUME NEW u \in W, p[u] \in W
      PROVE  At(s, p[u]) < At(s, u)
  <2>1. u \in Tops /\ p[u] = parent[u]
    BY <1>3, <1>7, <1>8
  <2>2. p[u] \in Tops
    BY <1>1, <1>3, <1>8, <2>1
  <2>3. F!Place(parent[u]) < F!Place(u)
    BY <1>2, <2>1, <2>2
  <2>4. QED BY <1>6, <2>1, <2>2, <2>3
<1>9. QED BY <1>4, <1>5, <1>6, <1>8, StacksAgree

\* One window out of the stack.
LEMMA DestroyStacks ==
  ASSUME F!TypeOK, NEW t \in Toplevels, F!Destroy(t)
  PROVE  /\ StackedAs(stack', Tops \ {t}) /\ parent' = parent
         /\ \A u, v \in Tops \ {t} :
              F!Place(u) < F!Place(v) => At(stack', u) < At(stack', v)
<1> DEFINE k == F!Place(t)
<1>1. /\ stack' = SubSeq(stack, 1, k - 1) \o SubSeq(stack, k + 1, Len(stack)) /\ t \in Tops
      /\ parent' = parent
  BY DEF F!Destroy, F!RemoveAt, Tops
<1>2. stack \in Seq(Toplevels) /\ Len(stack) \in Nat /\ k \in 1 .. Len(stack) /\ stack[k] = t
  BY <1>1, PlacesName
<1> HIDE DEF k
<1>3. PICK s : s = stack'
  OBVIOUS
<1>4. /\ s \in Seq(Toplevels) /\ Len(s) = Len(stack) - 1
      /\ \A i \in 1 .. Len(s) : s[i] = IF i < k THEN stack[i] ELSE stack[i + 1]
  <2> DEFINE a == SubSeq(stack, 1, k - 1)
             b == SubSeq(stack, k + 1, Len(stack))
  <2>1. /\ a \in Seq(Toplevels) /\ Len(a) = k - 1
        /\ \A i \in 1 .. k - 1 : a[i] = stack[i]
    BY <1>2
  <2>2. /\ b \in Seq(Toplevels) /\ Len(b) = Len(stack) - k
        /\ \A i \in 1 .. Len(stack) - k : b[i] = stack[k + i]
    BY <1>2
  <2>3. s = a \o b
    BY <1>1, <1>3
  <2> HIDE DEF a, b
  <2>4. /\ s \in Seq(Toplevels) /\ Len(s) = Len(a) + Len(b)
        /\ \A i \in 1 .. Len(s) : s[i] = IF i <= Len(a) THEN a[i] ELSE b[i - Len(a)]
    <3>1. /\ a \o b \in Seq(Toplevels) /\ Len(a \o b) = Len(a) + Len(b)
          /\ \A i \in 1 .. Len(a) + Len(b) :
               (a \o b)[i] = IF i <= Len(a) THEN a[i] ELSE b[i - Len(a)]
      BY <2>1, <2>2, ConcatProperties
    <3>2. QED BY <2>3, <3>1
  <2>5. Len(s) = Len(stack) - 1
    BY <1>2, <2>1, <2>2, <2>4
  <2>6. ASSUME NEW i \in 1 .. Len(s)
        PROVE  s[i] = IF i < k THEN stack[i] ELSE stack[i + 1]
    <3>1. CASE i < k
      BY <1>2, <2>1, <2>4, <2>5, <3>1
    <3>2. CASE ~ (i < k)
      <4>1. i - Len(a) \in 1 .. Len(stack) - k /\ k + (i - Len(a)) = i + 1 /\ ~ (i <= Len(a))
        BY <1>2, <2>1, <2>5, <3>2
      <4>2. b[i - Len(a)] = stack[i + 1]
        BY <2>2, <4>1
      <4>3. QED BY <2>4, <3>2, <4>1, <4>2
    <3>3. QED BY <3>1, <3>2
  <2>7. QED BY <2>4, <2>5, <2>6
<1> DEFINE old(i) == IF i < k THEN i ELSE i + 1
           new(i) == IF i < k THEN i ELSE i - 1
<1>5. ASSUME NEW i \in 1 .. Len(s)
      PROVE  old(i) \in 1 .. Len(stack) /\ old(i) # k /\ s[i] = stack[old(i)]
  BY <1>2, <1>4
<1>6. ASSUME NEW i \in 1 .. Len(stack), i # k
      PROVE  new(i) \in 1 .. Len(s) /\ old(new(i)) = i
  BY <1>2, <1>4, <1>6
<1>7. ASSUME NEW i \in 1 .. Len(s), NEW j \in 1 .. Len(s), s[i] = s[j]
      PROVE  i = j
  <2>1. old(i) = old(j)
    BY <1>5, <1>7, PlacesName
  <2>2. QED BY <1>2, <2>1
<1>8. ASSUME NEW u \in Tops \ {t}
      PROVE  /\ F!Place(u) \in 1 .. Len(stack) /\ F!Place(u) # k
             /\ new(F!Place(u)) \in 1 .. Len(s) /\ s[new(F!Place(u))] = u
  <2>1. F!Place(u) \in 1 .. Len(stack) /\ stack[F!Place(u)] = u
    BY PlacesName
  <2>2. F!Place(u) # k
    BY <1>2, <2>1
  <2>3. new(F!Place(u)) \in 1 .. Len(s) /\ old(new(F!Place(u))) = F!Place(u)
    BY <1>6, <2>1, <2>2
  <2>4. s[new(F!Place(u))] = stack[old(new(F!Place(u)))]
    BY <1>5, <2>3
  <2>5. QED BY <2>1, <2>2, <2>3, <2>4
<1>9. ASSUME NEW i \in 1 .. Len(s)
      PROVE  s[i] \in Tops \ {t}
  <2>1. stack[old(i)] \in Tops /\ F!Place(stack[old(i)]) = old(i)
    BY <1>5, PlacesName
  <2>2. stack[old(i)] # t
    BY <1>2, <1>5, <2>1, PlacesName DEF k
  <2>3. QED BY <1>5, <2>1, <2>2
<1>10. PICK W : W = Tops \ {t}
  OBVIOUS
<1>11. W = {s[i] : i \in 1 .. Len(s)}
  BY <1>8, <1>9, <1>10
<1>12. StackedAs(s, W)
  BY <1>4, <1>7, <1>11 DEF StackedAs
<1>13. ASSUME NEW u \in Tops \ {t}, NEW v \in Tops \ {t}, F!Place(u) < F!Place(v)
       PROVE  At(s, u) < At(s, v)
  <2>1. At(s, u) = new(F!Place(u)) /\ At(s, v) = new(F!Place(v))
    BY <1>8, <1>12, StackedAt
  <2>2. /\ F!Place(u) \in 1 .. Len(stack) /\ F!Place(u) # k
        /\ F!Place(v) \in 1 .. Len(stack) /\ F!Place(v) # k
    BY <1>8
  <2>3. new(F!Place(u)) < new(F!Place(v))
    BY <1>2, <1>13, <2>2
  <2>4. QED BY <2>1, <2>3
<1>14. QED BY <1>1, <1>3, <1>10, <1>12, <1>13

LEMMA DestroyKeeps ==
  ASSUME FamilyInv, NEW t \in Toplevels, F!Destroy(t)
  PROVE  FamilyInv'
<1>1. PICK W : W = Tops \ {t}
  OBVIOUS
<1>2. PICK s : s = stack'
  OBVIOUS
<1>3. F!TypeOK /\ parent \in Links
  BY DEF FamilyInv, F!TypeOK, Links
<1>4. /\ StackedAs(s, W) /\ parent' = parent
      /\ \A u, v \in W : F!Place(u) < F!Place(v) => At(s, u) < At(s, v)
  BY <1>1, <1>2, <1>3, DestroyStacks
<1>5. \A u \in Tops : parent[u] \in Tops => F!Place(parent[u]) < F!Place(u)
  BY DEF FamilyInv, F!DialogsOnTop, Tops
<1>6. \A u \in W : parent[u] \in W => At(s, parent[u]) < At(s, u)
  BY <1>1, <1>4, <1>5
<1>7. QED BY <1>2, <1>3, <1>4, <1>6, StacksAgree

LEMMA FamilyStepTypes ==
  ASSUME F!FamiliesAssumption, F!TypeOK, [F!Next]_F!vars
  PROVE  F!TypeOK'
<1> DEFINE Keeps == \E s, W, p : stack' = s /\ parent' = p /\ p \in Links /\ StackedAs(s, W)
<1>1. ASSUME Keeps PROVE F!TypeOK'
  BY <1>1, StackTypes
<1>2. ASSUME NEW p \in Links, NEW t, stack' \in F!Raised(p, t), parent' = p
      PROVE  Keeps
  <2>1. stack' \in F!SetToSeqs(Tops)
    BY <1>2 DEF F!Raised, Tops
  <2>2. PICK s : s = stack'
    OBVIOUS
  <2>3. StackedAs(s, Tops)
    BY <2>1, <2>2, ReorderedStack
  <2>4. QED BY <1>2, <2>2, <2>3
<1>3. parent \in Links
  BY DEF F!TypeOK, Links
<1>4. ASSUME NEW t \in Toplevels, F!Create(t) PROVE Keeps
  BY <1>4, CreateStacks
<1>5. ASSUME NEW t \in Toplevels, F!Destroy(t) PROVE Keeps
  BY <1>3, <1>5, DestroyStacks
<1>6. ASSUME NEW t \in Toplevels, F!Raise(t) PROVE Keeps
  BY <1>2, <1>3, <1>6 DEF F!Raise
<1>7. ASSUME NEW t \in Toplevels, NEW q \in Toplevels \cup {None}, F!SetParent(t, q) PROVE Keeps
  <2>1. parent' = [parent EXCEPT ![t] = q] /\ stack' \in F!Raised(parent', t)
    BY <1>7 DEF F!SetParent
  <2>2. PICK p : p = parent'
    OBVIOUS
  <2>3. p \in Links
    BY <1>3, <2>1, <2>2 DEF Links
  <2>4. stack' \in F!Raised(p, t)
    BY <2>1, <2>2
  <2>5. QED BY <1>2, <2>2, <2>3, <2>4
<1> HIDE DEF Keeps
<1>8. CASE UNCHANGED F!vars
  BY <1>8 DEF F!vars, F!TypeOK
<1>9. CASE F!Next
  BY <1>1, <1>4, <1>5, <1>6, <1>7, <1>9 DEF F!Next
<1>10. QED BY <1>8, <1>9

\* The stack has each window once, whatever clients do.
THEOREM FamiliesTyped ==
  ASSUME F!FamiliesAssumption
  PROVE  F!Spec => []F!TypeOK
<1>1. F!Init => F!TypeOK
  BY DEF F!Init, F!TypeOK, F!IsInjective
<1>2. F!TypeOK /\ [F!Next]_(F!vars) => F!TypeOK'
  BY FamilyStepTypes
<1>3. QED BY <1>1, <1>2, PTL DEF F!Spec

LEMMA FamilyStepKeeps ==
  ASSUME F!FamiliesAssumption, ~ ReusesIds, FamilyInv, [F!Next]_F!vars
  PROVE  FamilyInv'
<1>1. CASE UNCHANGED F!vars
  BY <1>1 DEF F!vars, FamilyInv, F!TypeOK, F!DialogsOnTop, F!xdg_toplevels, F!Place
<1>2. CASE F!Next
  BY <1>2, CreateKeeps, DestroyKeeps, RaiseKeeps, SetParentKeeps DEF F!Next
<1>3. QED BY <1>1, <1>2

\* A dialog stays above the window it belongs to, in families of any depth, and
\* however they are linked, raised and taken apart; for clients that give no new
\* window the id of one a dialog still names (raise_with_children,
\* toplevel_family, descendants_of in src/state/compositor_state.rs).
THEOREM DialogsStayOnTop ==
  ASSUME F!FamiliesAssumption, ~ ReusesIds
  PROVE  F!Spec => []F!DialogsOnTop
<1>1. F!Init => FamilyInv
  BY DEF F!Init, F!TypeOK, F!IsInjective, FamilyInv, F!DialogsOnTop, F!xdg_toplevels, F!Range
<1>2. FamilyInv /\ [F!Next]_(F!vars) => FamilyInv'
  BY FamilyStepKeeps
<1>3. FamilyInv => F!DialogsOnTop
  BY DEF FamilyInv
<1>4. QED BY <1>1, <1>2, <1>3, PTL DEF F!Spec
=============================================================================
