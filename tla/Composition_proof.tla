-------------------------- MODULE Composition_proof --------------------------
(***************************************************************************)
(* Proofs about Contents and Desktop, for every value of their constants:  *)
(* what ClientMemory_proof, Popups_proof, WindowStates_proof and           *)
(* InputDelivery_proof show of each part holds of the parts side by side.  *)
(*                                                                         *)
(* No part writes what another reads, so a run of the whole is a run of    *)
(* each part (the lemmas ...Run): a step of that part is a step of it, and *)
(* a step of any other leaves what it looks at alone.  The inductive       *)
(* invariants are those of the proofs named; nothing is strengthened here. *)
(*                                                                         *)
(* A part is here twice, as Contents or Desktop has it and as the proof    *)
(* about it has it.  Both are the same module with the same constants and  *)
(* variables, which the provers see once every definition below a step or  *)
(* a property is expanded; that is all that ...Init, ...Next and the       *)
(* lemmas named for a property say.  Where there is too much to expand at  *)
(* once, the operators on the way are matched first.                       *)
(***************************************************************************)
EXTENDS Contents, Desktop, TLAPS

-----------------------------------------------------------------------------
(* The pixels of windows (DamageUpload). *)

Mem == INSTANCE ClientMemory_proof
  WITH client <- impClient, params <- impParams, named <- impNamed,
       buffers <- impBuffers, nextSerial <- impNextSerial, nextToken <- impNextToken,
       pending <- impPending, requests <- impRequests, answers <- impAnswers,
       nextServer <- impNextServer, asked <- impAsked, told <- impTold,
       verdict <- impVerdict, abandoned <- impAbandoned,
       pools <- shmPools, poolBuffers <- shmBuffers, guards <- shmGuards,
       damaged <- shmDamaged, file <- shmFile, open <- shmOpen, made <- shmMade,
       twice <- shmTwice, connected <- shmConnected,
       NoBuffer <- None, NoImage <- None,
       live <- pixLive, memory <- pixMemory, serial <- pixSerial, damage <- pixDamage,
       known <- pixKnown, nextContent <- pixNextSerial, attached <- pixAttached,
       picture <- pixPicture, commits <- pixCommits, created <- pixMade,
       stale <- pixStale, cache <- pixCache, published <- pixPublished,
       drawn <- pixDrawn, texture <- pixTexture

LEMMA PixelsInit == ASSUME Pixels!Init PROVE Mem!D!Init
BY DEF Pixels!Init, Pixels!Blank, Mem!D!Init, Mem!D!Blank

LEMMA PixelsNext == ASSUME Pixels!Next PROVE Mem!D!Next
BY DEF Pixels!Next, Pixels!Create, Pixels!Destroy, Pixels!Commit, Pixels!Publish,
       Pixels!Collect, Pixels!Draw, Pixels!Blank, Pixels!window, Pixels!backend,
       Pixels!Read, Pixels!Accumulated, Pixels!Image, Pixels!Kept, Pixels!Sent,
       Pixels!buffer, Pixels!Uploaded, Pixels!NoTexture, Pixels!Patched, Mem!D!Next,
       Mem!D!Create, Mem!D!Destroy, Mem!D!Commit, Mem!D!Publish, Mem!D!Collect, Mem!D!Draw,
       Mem!D!Blank, Mem!D!window, Mem!D!backend, Mem!D!Read, Mem!D!Accumulated,
       Mem!D!Image, Mem!D!Kept, Mem!D!Sent, Mem!D!buffer, Mem!D!Uploaded, Mem!D!NoTexture,
       Mem!D!Patched

LEMMA PixelsTypeOK == ASSUME Mem!D!TypeOK PROVE Pixels!TypeOK
BY DEF Pixels!TypeOK, Pixels!Contents, Pixels!Serials, Pixels!Images, Pixels!buffer,
       Mem!D!TypeOK, Mem!D!Contents, Mem!D!Serials, Mem!D!Images, Mem!D!buffer

LEMMA PixelsTextureIsTheBuffer ==
  ASSUME Mem!D!TextureIsTheBuffer PROVE Pixels!TextureIsTheBuffer
BY DEF Pixels!TextureIsTheBuffer, Mem!D!TextureIsTheBuffer

\* What PixelsStep does is a run of DamageUpload, and the other steps leave it alone.
LEMMA PixelsRun == ContentsSpec => Mem!D!Spec
<1>1. InitContents => Mem!D!Init
  BY PixelsInit DEF InitContents
<1>2. [NextContents]_contents => [Mem!D!Next]_(Mem!D!vars)
  <2>1. CASE PixelsStep
    BY <2>1, PixelsNext DEF PixelsStep
  <2>2. CASE UNCHANGED ofPixels
    <3>1. UNCHANGED Mem!D!vars
      BY <2>2
      DEF ofPixels, Mem!D!vars, Mem!D!buffer, Mem!D!window, Mem!D!backend
    <3> QED
      BY <3>1
  <2> QED
    BY <2>1, <2>2
    DEF NextContents, ImportsStep, PoolsStep, ConfiguresStep, PopupsStep, PanelsStep,
        contents
<1> QED
  BY <1>1, <1>2, PTL DEF ContentsSpec, Mem!D!Spec

\* What is asked of the constants is the same of both.
LEMMA PixelsAssumed == Mem!D!NamesAssumption /\ Mem!D!BoundsAssumption
BY ContentsAssumption
   DEF Pixels!NamesAssumption, Pixels!BoundsAssumption, Mem!D!NamesAssumption,
       Mem!D!BoundsAssumption

\* Pixels is well typed.
LEMMA PixelsTyped == ContentsSpec => []Pixels!TypeOK
<1>1. Mem!D!Spec => []Mem!D!TypeOK
  BY PixelsAssumed, Mem!DamageTyped
<1>2. Mem!D!TypeOK => Pixels!TypeOK
  BY PixelsTypeOK
<1> QED
  BY <1>1, <1>2, PixelsRun, PTL

\* TextureIsTheBuffer: with a window on every output, what an output draws of a
\* buffer is what the client wrote into it, for any buffers, cells and outputs:
\* the damage a commit describes reaches the texture through frames that are skipped
\* and outputs that are idle (SceneBuilder::upload, src/scene.rs).
THEOREM TexturesAreTheBuffers == ContentsSpec => []TextureIsTheBuffer
<1>1. Mem!D!Spec => []Mem!D!TextureIsTheBuffer
  BY PixelsAssumed, Mem!TexturesAreRight
<1>2. Mem!D!TextureIsTheBuffer => TextureIsTheBuffer
  BY PixelsTextureIsTheBuffer DEF TextureIsTheBuffer
<1> QED
  BY <1>1, <1>2, PixelsRun, PTL

-----------------------------------------------------------------------------
(* Dma-buf import (BufferImports). *)

LEMMA ImportsInit == ASSUME Imports!Init PROVE Mem!Init
BY DEF Imports!Init, Imports!NothingOn, Imports!Tokens, Mem!Init, Mem!NothingOn, Mem!Tokens

LEMMA ImportsNext == ASSUME Imports!Next PROVE Mem!Next
BY DEF Imports!Next, Imports!CreateParams, Imports!Destroy, Imports!Add, Imports!Create,
       Imports!Answer, Imports!Verdict, Imports!DestroyBuffer, Imports!CreateShm,
       Imports!Gone, Imports!Cardinality, Imports!Live, Imports!Fatal, Imports!channel,
       Imports!Without, Imports!PendingOf, Imports!Tokens, Imports!Complete,
       Imports!Refuse, Imports!With, Imports!Dmabuf, Imports!Undelivered, Imports!Resolve,
       Imports!NothingOn, Imports!Restrict, Imports!FailedBuffer, Imports!StillIts,
       Imports!SendFailed, Imports!Refused, Mem!Next, Mem!CreateParams, Mem!Destroy,
       Mem!Add, Mem!Create, Mem!Answer, Mem!Verdict, Mem!DestroyBuffer, Mem!CreateShm,
       Mem!Gone, Mem!Cardinality, Mem!Live, Mem!Fatal, Mem!channel, Mem!Without,
       Mem!PendingOf, Mem!Tokens, Mem!Complete, Mem!Refuse, Mem!With, Mem!Dmabuf,
       Mem!Undelivered, Mem!Resolve, Mem!NothingOn, Mem!Restrict, Mem!FailedBuffer,
       Mem!StillIts, Mem!SendFailed, Mem!Refused

LEMMA ImportsTypeOK == ASSUME Mem!TypeOK PROVE Imports!TypeOK
BY DEF Imports!TypeOK, Imports!Range, Imports!Serials, Imports!Tokens, Imports!Refused,
       Imports!Live, Mem!TypeOK, Mem!Range, Mem!Serials, Mem!Tokens, Mem!Refused, Mem!Live

LEMMA ImportsAnsweredOnce == ASSUME Mem!AnsweredOnce PROVE Imports!AnsweredOnce
BY DEF Imports!AnsweredOnce, Imports!UnderWay, Imports!Live, Imports!Cardinality,
       Imports!PendingOf, Imports!Range, Mem!AnsweredOnce, Mem!UnderWay, Mem!Live,
       Mem!Cardinality, Mem!PendingOf, Mem!Range

LEMMA ImportsVerdictsFindTheirBuffer ==
  ASSUME Mem!VerdictsFindTheirBuffer PROVE Imports!VerdictsFindTheirBuffer
BY DEF Imports!VerdictsFindTheirBuffer, Imports!Refused, Imports!Tokens,
       Mem!VerdictsFindTheirBuffer, Mem!Refused, Mem!Tokens

\* What ImportsStep does is a run of BufferImports, and the other steps leave it alone.
LEMMA ImportsRun == ContentsSpec => Mem!Spec
<1>1. InitContents => Mem!Init
  BY ImportsInit DEF InitContents
<1>2. [NextContents]_contents => [Mem!Next]_(Mem!vars)
  <2>1. CASE ImportsStep
    BY <2>1, ImportsNext DEF ImportsStep
  <2>2. CASE UNCHANGED ofImports
    <3>1. UNCHANGED Mem!vars
      BY <2>2
      DEF ofImports, Mem!vars, Mem!channel
    <3> QED
      BY <3>1
  <2> QED
    BY <2>1, <2>2
    DEF NextContents, PixelsStep, PoolsStep, ConfiguresStep, PopupsStep, PanelsStep,
        contents
<1> QED
  BY <1>1, <1>2, PTL DEF ContentsSpec, Mem!Spec

\* What is asked of the constants is the same of both.
LEMMA ImportsAssumed == Mem!ImportsAssumption
BY ContentsAssumption
   DEF Imports!ImportsAssumption, Mem!ImportsAssumption

\* Imports is well typed.
LEMMA ImportsTyped == ContentsSpec => []Imports!TypeOK
<1>1. Mem!Spec => []Mem!TypeOK
  BY ImportsAssumed, Mem!TypeCorrect
<1>2. Mem!TypeOK => Imports!TypeOK
  BY ImportsTypeOK
<1> QED
  BY <1>1, <1>2, ImportsRun, PTL

\* AnsweredOnce: a params object that asked for a buffer is told once what became of
\* it, through a full queue to the backend, refusals and clients that leave, for any
\* ids and bounds (zwp_linux_buffer_params_v1, src/protocol).
THEOREM ParamsAreAnsweredOnce == ContentsSpec => []AnsweredOnce
<1>1. Mem!Spec => []Mem!AnsweredOnce
  BY ImportsAssumed, Mem!EveryoneIsAnswered
<1>2. Mem!AnsweredOnce => AnsweredOnce
  BY ImportsAnsweredOnce DEF AnsweredOnce
<1> QED
  BY <1>1, <1>2, ImportsRun, PTL

\* VerdictsFindTheirBuffer: what the backend says of an import is taken for the
\* buffer it was asked about or for none, though ids are used again before it comes.
THEOREM VerdictsAreOfTheirBuffer == ContentsSpec => []VerdictsFindTheirBuffer
<1>1. Mem!Spec => []Mem!VerdictsFindTheirBuffer
  BY ImportsAssumed, Mem!VerdictsFindTheirs
<1>2. Mem!VerdictsFindTheirBuffer => VerdictsFindTheirBuffer
  BY ImportsVerdictsFindTheirBuffer DEF VerdictsFindTheirBuffer
<1> QED
  BY <1>1, <1>2, ImportsRun, PTL

-----------------------------------------------------------------------------
(* Shared memory (ShmPools). *)

LEMMA PoolsInit == ASSUME Pools!Init PROVE Mem!S!Init
BY DEF Pools!Init, Pools!NothingOn, Pools!Fds, Mem!S!Init, Mem!S!NothingOn, Mem!S!Fds

LEMMA PoolsNext == ASSUME Pools!Next PROVE Mem!S!Next
BY DEF Pools!Next, Pools!Sizes, Pools!CreatePool, Pools!DestroyPool, Pools!Resize,
       Pools!CreateBuffer, Pools!DestroyBuffer, Pools!Publish, Pools!Gone, Pools!IsLive,
       Pools!With, Pools!Mapping, Pools!Replaced, Pools!CleanUp, Pools!Without,
       Pools!ItsPool, Pools!NothingOn, Pools!Unneeded, Pools!Close, Pools!Restrict,
       Mem!S!Next, Mem!S!Sizes, Mem!S!CreatePool, Mem!S!DestroyPool, Mem!S!Resize,
       Mem!S!CreateBuffer, Mem!S!DestroyBuffer, Mem!S!Publish, Mem!S!Gone, Mem!S!IsLive,
       Mem!S!With, Mem!S!Mapping, Mem!S!Replaced, Mem!S!CleanUp, Mem!S!Without,
       Mem!S!ItsPool, Mem!S!NothingOn, Mem!S!Unneeded, Mem!S!Close, Mem!S!Restrict

LEMMA PoolsTypeOK == ASSUME Mem!S!TypeOK PROVE Pools!TypeOK
BY DEF Pools!TypeOK, Pools!Range, Pools!Fds, Pools!Sizes, Pools!Mappings, Mem!S!TypeOK,
       Mem!S!Range, Mem!S!Fds, Mem!S!Sizes, Mem!S!Mappings

LEMMA PoolsReadsItsOwnMemory == ASSUME Mem!S!ReadsItsOwnMemory PROVE Pools!ReadsItsOwnMemory
BY DEF Pools!ReadsItsOwnMemory, Pools!ImageOf, Pools!MappingOf, Mem!S!ReadsItsOwnMemory,
       Mem!S!ImageOf, Mem!S!MappingOf

LEMMA PoolsNoneLeaksNoneTwice ==
  ASSUME Mem!S!NoneLeaksNoneTwice PROVE Pools!NoneLeaksNoneTwice
BY DEF Pools!NoneLeaksNoneTwice, Pools!Unneeded, Pools!NothingOn, Mem!S!NoneLeaksNoneTwice,
       Mem!S!Unneeded, Mem!S!NothingOn

\* What PoolsStep does is a run of ShmPools, and the other steps leave it alone.
LEMMA PoolsRun == ContentsSpec => Mem!S!Spec
<1>1. InitContents => Mem!S!Init
  BY PoolsInit DEF InitContents
<1>2. [NextContents]_contents => [Mem!S!Next]_(Mem!S!vars)
  <2>1. CASE PoolsStep
    BY <2>1, PoolsNext DEF PoolsStep
  <2>2. CASE UNCHANGED ofPools
    <3>1. UNCHANGED Mem!S!vars
      BY <2>2
      DEF ofPools, Mem!S!vars
    <3> QED
      BY <3>1
  <2> QED
    BY <2>1, <2>2
    DEF NextContents, PixelsStep, ImportsStep, ConfiguresStep, PopupsStep, PanelsStep,
        contents
<1> QED
  BY <1>1, <1>2, PTL DEF ContentsSpec, Mem!S!Spec

\* What is asked of the constants is the same of both.
LEMMA PoolsAssumed == Mem!S!PoolsAssumption
BY ContentsAssumption
   DEF Pools!PoolsAssumption, Mem!S!PoolsAssumption

\* Pools is well typed.
LEMMA PoolsTyped == ContentsSpec => []Pools!TypeOK
<1>1. Mem!S!Spec => []Mem!S!TypeOK
  BY PoolsAssumed, Mem!PoolsTyped
<1>2. Mem!S!TypeOK => Pools!TypeOK
  BY PoolsTypeOK
<1> QED
  BY <1>1, <1>2, PoolsRun, PTL

\* ReadsItsOwnMemory: a buffer is drawn from the memory it was made of as long as it
\* lives, whatever becomes of its pool, of the pool's id and of the descriptor's
\* number (wl_shm_pool, src/protocol).
THEOREM BuffersReadTheirOwnMemory == ContentsSpec => []ReadsItsOwnMemory
<1>1. Mem!S!Spec => []Mem!S!ReadsItsOwnMemory
  BY Mem!OwnMemory
<1>2. Mem!S!ReadsItsOwnMemory => ReadsItsOwnMemory
  BY PoolsReadsItsOwnMemory DEF ReadsItsOwnMemory
<1> QED
  BY <1>1, <1>2, PoolsRun, PTL

\* NoneLeaksNoneTwice: a pool's descriptor is closed once, when nothing maps it any
\* longer, in any order of destructions, resizes and disconnections.
THEOREM DescriptorsAreClosedOnce == ContentsSpec => []NoneLeaksNoneTwice
<1>1. Mem!S!Spec => []Mem!S!NoneLeaksNoneTwice
  BY Mem!NothingLeaks
<1>2. Mem!S!NoneLeaksNoneTwice => NoneLeaksNoneTwice
  BY PoolsNoneLeaksNoneTwice DEF NoneLeaksNoneTwice
<1> QED
  BY <1>1, <1>2, PoolsRun, PTL

-----------------------------------------------------------------------------
(* Popups. *)

Pop == INSTANCE Popups_proof
  WITH Popups <- Menus, popups <- popPopups, parent <- popParent, named <- popNamed,
       positioner <- popPositioner, told <- popTold, given <- popGiven,
       width <- popWidth, windowX <- popWindowX, grabbed <- popGrabbed, done <- popDone,
       Panels <- PanelIds, Outputs <- PanelOutputs, outputs <- layOutputs,
       output <- layOutput, pending <- layPending, current <- layCurrent,
       position <- layPosition, sizeTold <- layTold, unanswered <- layUnanswered,
       configured <- layConfigured, unsettled <- layUnsettled

LEMMA PopupsInit == ASSUME ThePopups!Init PROVE Pop!Init
BY DEF ThePopups!Init, Pop!Init

LEMMA PopupsFlip == \A pos, r : ThePopups!AfterFlip(pos, r) = Pop!AfterFlip(pos, r)
BY DEF ThePopups!AfterFlip, ThePopups!fits, ThePopups!first_choice, ThePopups!flipped,
       ThePopups!unconstrained, ThePopups!anchor_point, Pop!AfterFlip, Pop!fits,
       Pop!first_choice, Pop!flipped, Pop!unconstrained, Pop!anchor_point

LEMMA PopupsSlide == \A pos, r : ThePopups!AfterSlide(pos, r) = Pop!AfterSlide(pos, r)
BY PopupsFlip
   DEF ThePopups!AfterSlide, ThePopups!fits, ThePopups!slide, Pop!AfterSlide, Pop!fits,
       Pop!slide

LEMMA PopupsPlace == \A pos, r : ThePopups!place(pos, r) = Pop!place(pos, r)
BY PopupsSlide
   DEF ThePopups!place, ThePopups!fits, ThePopups!shrink, Pop!place, Pop!fits, Pop!shrink

LEMMA PopupsAreSet == \A p, par : ThePopups!place_popup(p, par) => Pop!place_popup(p, par)
BY PopupsPlace
   DEF ThePopups!place_popup, ThePopups!Available, ThePopups!Shown,
       ThePopups!first_choice, ThePopups!Upwards, ThePopups!GlobalX,
       ThePopups!unconstrained, ThePopups!anchor_point, Pop!place_popup, Pop!Available,
       Pop!Shown, Pop!first_choice, Pop!Upwards, Pop!GlobalX, Pop!unconstrained,
       Pop!anchor_point

LEMMA PopupsGetPopup ==
  ASSUME NEW p, NEW par, ThePopups!GetPopup(p, par) PROVE Pop!GetPopup(p, par)
BY PopupsAreSet
   DEF ThePopups!GetPopup, ThePopups!Upwards, Pop!GetPopup, Pop!Upwards

LEMMA PopupsAdopt == ASSUME NEW p, ThePopups!Adopt(p) PROVE Pop!Adopt(p)
BY PopupsAreSet
   DEF ThePopups!Adopt, Pop!Adopt

LEMMA PopupsReposition == ASSUME NEW p, ThePopups!Reposition(p) PROVE Pop!Reposition(p)
BY PopupsAreSet
   DEF ThePopups!Reposition, Pop!Reposition

LEMMA PopupsNext == ASSUME ThePopups!Next PROVE Pop!Next
BY PopupsGetPopup, PopupsAdopt, PopupsReposition
   DEF ThePopups!Next, ThePopups!SetPositioner, ThePopups!DestroyPopup, ThePopups!Grab,
       ThePopups!Commit, ThePopups!Press, ThePopups!MoveWindow, ThePopups!Left,
       ThePopups!Range, ThePopups!Last, ThePopups!Staying, ThePopups!Cardinality,
       ThePopups!Under, ThePopups!GlobalX, Pop!Next, Pop!SetPositioner, Pop!DestroyPopup,
       Pop!Grab, Pop!Commit, Pop!Press, Pop!MoveWindow, Pop!Left, Pop!Range, Pop!Last,
       Pop!Staying, Pop!Cardinality, Pop!Under, Pop!GlobalX

LEMMA PopupsTypeOK == ASSUME Pop!TypeOK PROVE ThePopups!TypeOK
BY DEF ThePopups!TypeOK, ThePopups!Positioner, ThePopups!Place, ThePopups!Given,
       ThePopups!Ends, ThePopups!Adjustments, Pop!TypeOK, Pop!Positioner, Pop!Place,
       Pop!Given, Pop!Ends, Pop!Adjustments

LEMMA PopupsPlacedAsAllowed == ASSUME Pop!PlacedAsAllowed PROVE ThePopups!PlacedAsAllowed
BY DEF ThePopups!PlacedAsAllowed, ThePopups!Kept, ThePopups!fits, ThePopups!first_choice,
       ThePopups!flipped, ThePopups!unconstrained, ThePopups!anchor_point,
       Pop!PlacedAsAllowed, Pop!Kept, Pop!fits, Pop!first_choice, Pop!flipped,
       Pop!unconstrained, Pop!anchor_point

LEMMA PopupsClosedFromTheTop == ASSUME Pop!ClosedFromTheTop PROVE ThePopups!ClosedFromTheTop
BY DEF ThePopups!ClosedFromTheTop, ThePopups!Range, ThePopups!Upwards,
       Pop!ClosedFromTheTop, Pop!Range, Pop!Upwards

\* What PopupsStep does is a run of Popups, and the other steps leave it alone.
LEMMA PopupsRun == ContentsSpec => Pop!Spec
<1>1. InitContents => Pop!Init
  BY PopupsInit DEF InitContents
<1>2. [NextContents]_contents => [Pop!Next]_(Pop!vars)
  <2>1. CASE PopupsStep
    BY <2>1, PopupsNext DEF PopupsStep
  <2>2. CASE UNCHANGED ofPopups
    <3>1. UNCHANGED Pop!vars
      BY <2>2
      DEF ofPopups, Pop!vars
    <3> QED
      BY <3>1
  <2> QED
    BY <2>1, <2>2
    DEF NextContents, PixelsStep, ImportsStep, PoolsStep, ConfiguresStep, PanelsStep,
        contents
<1> QED
  BY <1>1, <1>2, PTL DEF ContentsSpec, Pop!Spec

\* What is asked of the constants is the same of both.
LEMMA PopupsAssumed == Pop!PopupsAssumption
BY ContentsAssumption
   DEF ThePopups!PopupsAssumption, ThePopups!Positioner, ThePopups!Ends,
       ThePopups!Adjustments, Pop!PopupsAssumption, Pop!Positioner, Pop!Ends,
       Pop!Adjustments

\* Popups is well typed.
LEMMA PopupsTyped == ContentsSpec => []ThePopups!TypeOK
<1>1. Pop!Spec => []Pop!TypeOK
  BY PopupsAssumed, Pop!TypeCorrect
<1>2. Pop!TypeOK => ThePopups!TypeOK
  BY PopupsTypeOK
<1> QED
  BY <1>1, <1>2, PopupsRun, PTL

\* PlacedAsAllowed: every popup went where its positioner allows, inside the size its
\* parent was to have if its client named one, else on screen, wherever its window
\* and the popups below it were, for any positioners, output and chain of popups
\* (xdg_positioner::place, place_popup).
THEOREM PopupsArePlaced == ContentsSpec => []PlacedAsAllowed
<1>1. Pop!Spec => []Pop!PlacedAsAllowed
  BY PopupsAssumed, Pop!PlacedRight
<1>2. Pop!PlacedAsAllowed => PlacedAsAllowed
  BY PopupsPlacedAsAllowed DEF PlacedAsAllowed
<1> QED
  BY <1>1, <1>2, PopupsRun, PTL

\* ClosedFromTheTop: no menu is dismissed or gone while a submenu of it has the
\* grab, for menus of any depth (dismiss_popups_outside_click, xdg_popup.destroy).
THEOREM MenusCloseInOrder == ContentsSpec => []ClosedFromTheTop
<1>1. Pop!Spec => []Pop!ClosedFromTheTop
  BY PopupsAssumed, Pop!MenusCloseFromTheTop
<1>2. Pop!ClosedFromTheTop => ClosedFromTheTop
  BY PopupsClosedFromTheTop DEF ClosedFromTheTop
<1> QED
  BY <1>1, <1>2, PopupsRun, PTL

-----------------------------------------------------------------------------
(* Panels (LayerPanels). *)

LEMMA PanelsInit == ASSUME ThePanels!Init PROVE Pop!L!Init
BY DEF ThePanels!Init, Pop!L!Init

LEMMA PanelsShrink == \A x, y, z : ThePanels!shrink(x, y, z) = Pop!L!shrink(x, y, z)
BY DEF ThePanels!shrink, ThePanels!NotBelowZero, Pop!L!shrink, Pop!L!NotBelowZero

LEMMA PanelsAlong ==
  \A x, r, n, f, g, s : ThePanels!along(x, r, n, f, g, s) = Pop!L!along(x, r, n, f, g, s)
BY DEF ThePanels!along, ThePanels!NotBelowZero, ThePanels!Half, Pop!L!along,
       Pop!L!NotBelowZero, Pop!L!Half

LEMMA PanelsPlace == \A x, r : ThePanels!place(x, r) = Pop!L!place(x, r)
BY PanelsAlong
   DEF ThePanels!place, Pop!L!place

LEMMA PanelsUsable ==
  \A cur, x, ps : ThePanels!usable(cur, x, ps) = Pop!L!usable(cur, x, ps)
BY DEF ThePanels!usable, ThePanels!MapThenFoldSet, ThePanels!shrink, ThePanels!last,
       ThePanels!NotBelowZero, ThePanels!Before, Pop!L!usable, Pop!L!MapThenFoldSet,
       Pop!L!shrink, Pop!L!last, Pop!L!NotBelowZero, Pop!L!Before

LEMMA PanelsWithin == \A cur, p : ThePanels!within(cur, p) = Pop!L!within(cur, p)
BY PanelsUsable
   DEF ThePanels!within, ThePanels!full, ThePanels!earlier, ThePanels!Before, Pop!L!within,
       Pop!L!full, Pop!L!earlier, Pop!L!Before

LEMMA PanelsGeometry == \A cur, p : ThePanels!geometry(cur, p) = Pop!L!geometry(cur, p)
BY PanelsPlace, PanelsWithin
   DEF ThePanels!geometry, Pop!L!geometry

LEMMA PanelsConfigure ==
  \A cur, ps : ThePanels!configure(cur, ps) => Pop!L!configure(cur, ps)
BY PanelsGeometry
   DEF ThePanels!configure, ThePanels!Size, Pop!L!configure, Pop!L!Size

LEMMA PanelsCommit == ASSUME NEW p, ThePanels!Commit(p) PROVE Pop!L!Commit(p)
BY PanelsConfigure
   DEF ThePanels!Commit, ThePanels!reconfigured, Pop!L!Commit, Pop!L!reconfigured

LEMMA PanelsNext == ASSUME ThePanels!Next PROVE Pop!L!Next
BY PanelsCommit
   DEF ThePanels!Next, ThePanels!GetLayerSurface, ThePanels!Ask, ThePanels!DestroySurface,
       ThePanels!Destroy, ThePanels!AckConfigure, ThePanels!SetOutput, ThePanels!Default,
       Pop!L!Next, Pop!L!GetLayerSurface, Pop!L!Ask, Pop!L!DestroySurface, Pop!L!Destroy,
       Pop!L!AckConfigure, Pop!L!SetOutput, Pop!L!Default

LEMMA PanelsPanelsKnowTheirPlace ==
  ASSUME Pop!L!PanelsKnowTheirPlace PROVE ThePanels!PanelsKnowTheirPlace
BY PanelsGeometry
   DEF ThePanels!PanelsKnowTheirPlace, ThePanels!Arranged, ThePanels!Size,
       Pop!L!PanelsKnowTheirPlace, Pop!L!Arranged, Pop!L!Size

LEMMA PanelsReservedIsClear == ASSUME Pop!L!ReservedIsClear PROVE ThePanels!ReservedIsClear
BY PanelsGeometry, PanelsUsable, PanelsWithin
   DEF ThePanels!ReservedIsClear, ThePanels!Arranged, ThePanels!FitsItsZone,
       ThePanels!Overlap, ThePanels!full, ThePanels!earlier, ThePanels!Fits,
       ThePanels!Before, Pop!L!ReservedIsClear, Pop!L!Arranged, Pop!L!FitsItsZone,
       Pop!L!Overlap, Pop!L!full, Pop!L!earlier, Pop!L!Fits, Pop!L!Before

LEMMA PanelsTypeOK == ASSUME Pop!L!TypeOK PROVE ThePanels!TypeOK
BY DEF ThePanels!TypeOK, ThePanels!LayerSurfaceStatePending, ThePanels!LayerKind,
       Pop!L!TypeOK, Pop!L!LayerSurfaceStatePending, Pop!L!LayerKind

\* What PanelsStep does is a run of LayerPanels, and the other steps leave it alone.
LEMMA PanelsRun == ContentsSpec => Pop!L!Spec
<1>1. InitContents => Pop!L!Init
  BY PanelsInit DEF InitContents
<1>2. [NextContents]_contents => [Pop!L!Next]_(Pop!L!vars)
  <2>1. CASE PanelsStep
    BY <2>1, PanelsNext DEF PanelsStep
  <2>2. CASE UNCHANGED ofPanels
    <3>1. UNCHANGED Pop!L!vars
      BY <2>2
      DEF ofPanels, Pop!L!vars
    <3> QED
      BY <3>1
  <2> QED
    BY <2>1, <2>2
    DEF NextContents, PixelsStep, ImportsStep, PoolsStep, ConfiguresStep, PopupsStep,
        contents
<1> QED
  BY <1>1, <1>2, PTL DEF ContentsSpec, Pop!L!Spec

\* What is asked of the constants is the same of both.
LEMMA PanelsAssumed == Pop!L!PanelsAssumption
BY ContentsAssumption
   DEF ThePanels!PanelsAssumption, ThePanels!LayerSurfaceStatePending, ThePanels!LayerKind,
       Pop!L!PanelsAssumption, Pop!L!LayerSurfaceStatePending, Pop!L!LayerKind

\* Panels is well typed.
LEMMA PanelsTyped == ContentsSpec => []ThePanels!TypeOK
<1>1. Pop!L!Spec => []Pop!L!TypeOK
  BY PanelsAssumed, Pop!PanelsTyped
<1>2. Pop!L!TypeOK => ThePanels!TypeOK
  BY PanelsTypeOK
<1> QED
  BY <1>1, <1>2, PanelsRun, PTL

\* PanelsKnowTheirPlace: while panels only come and commit, each was told the size it
\* is drawn at and its menus hang from where it is, for any panels, outputs and
\* requests (reconfigure_output_layers).
THEOREM PanelsAreTold == ContentsSpec => []PanelsKnowTheirPlace
<1>1. Pop!L!Spec => []Pop!L!PanelsKnowTheirPlace
  BY PanelsAssumed, Pop!PanelsAreTold
<1>2. Pop!L!PanelsKnowTheirPlace => PanelsKnowTheirPlace
  BY PanelsPanelsKnowTheirPlace DEF PanelsKnowTheirPlace
<1> QED
  BY <1>1, <1>2, PanelsRun, PTL

\* ReservedIsClear: no maximised window and no panel arranged later that fits its
\* room reaches into what a panel reserved, on outputs of any size (arrange, shrink
\* and place in src/layer.rs).
THEOREM ReservedStaysClear == ContentsSpec => []ReservedIsClear
<1>1. Pop!L!Spec => []Pop!L!ReservedIsClear
  BY PanelsAssumed, Pop!ReservedStaysClear
<1>2. Pop!L!ReservedIsClear => ReservedIsClear
  BY PanelsReservedIsClear DEF ReservedIsClear
<1> QED
  BY <1>1, <1>2, PanelsRun, PTL

-----------------------------------------------------------------------------
(* The configure handshake (Configures). *)

One == INSTANCE WindowStates_proof
  WITH Toplevels <- OneToplevels, Output <- OneOutput, Usable <- OneUsable,
       Limits <- OneLimits, MaxWidth <- OneMaxWidth, MaxGrabs <- OneMaxGrabs,
       GrabsAgain <- FALSE, None <- Nothing, live <- oneLive, homed <- oneHomed,
       x <- oneX, width <- oneWidth, maximized <- oneMaximized,
       fullscreen <- oneFullscreen, restore <- oneRestore, limits <- oneLimits,
       focused <- oneFocused, told <- oneTold, pointer <- onePointer,
       pressed <- onePressed, entitled <- oneEntitled, grab <- oneGrab,
       anchor <- oneAnchor, grabs <- oneGrabs,
       wrapped <- confWrapped, role <- confRole, configured <- confConfigured,
       pending <- confPending, highest <- confHighest, next <- confNext,
       parented <- confParented, content <- confContent, fatal <- confFatal,
       sent <- confSent, answered <- confAnswered, astray <- confAstray,
       ReusesIds <- FALSE, stack <- famStack, parent <- famParent

LEMMA ConfiguresInit == ASSUME Configures!Init PROVE One!C!Init
BY DEF Configures!Init, One!C!Init

LEMMA ConfiguresNext == ASSUME Configures!Next PROVE One!C!Next
BY DEF Configures!Next, Configures!GetXdgSurface, Configures!DestroyXdgSurface,
       Configures!Adopt, Configures!Tell, Configures!GetToplevel, Configures!GetPopup,
       Configures!AckConfigure, Configures!CommitBuffer, Configures!CommitNull,
       Configures!SerialElsewhere, Configures!SendConfigure, Configures!record,
       Configures!SendConfigures, Configures!Invented, Configures!Contains,
       Configures!Drained, Configures!HasAgreed, Configures!Queued, Configures!Last,
       Configures!Range, Configures!Newest, One!C!Next, One!C!GetXdgSurface,
       One!C!DestroyXdgSurface, One!C!Adopt, One!C!Tell, One!C!GetToplevel, One!C!GetPopup,
       One!C!AckConfigure, One!C!CommitBuffer, One!C!CommitNull, One!C!SerialElsewhere,
       One!C!SendConfigure, One!C!record, One!C!SendConfigures, One!C!Invented,
       One!C!Contains, One!C!Drained, One!C!HasAgreed, One!C!Queued, One!C!Last,
       One!C!Range, One!C!Newest

LEMMA ConfiguresTypeOK == ASSUME One!C!TypeOK PROVE Configures!TypeOK
BY DEF Configures!TypeOK, One!C!TypeOK

\* What ConfiguresStep does is a run of Configures, and the other steps leave it alone.
LEMMA ConfiguresRun == ContentsSpec => One!C!Spec
<1>1. InitContents => One!C!Init
  BY ConfiguresInit DEF InitContents
<1>2. [NextContents]_contents => [One!C!Next]_(One!C!vars)
  <2>1. CASE ConfiguresStep
    BY <2>1, ConfiguresNext DEF ConfiguresStep
  <2>2. CASE UNCHANGED ofConfigures
    <3>1. UNCHANGED One!C!vars
      BY <2>2
      DEF ofConfigures, One!C!vars, One!C!record
    <3> QED
      BY <3>1
  <2> QED
    BY <2>1, <2>2
    DEF NextContents, PixelsStep, ImportsStep, PoolsStep, PopupsStep, PanelsStep, contents
<1> QED
  BY <1>1, <1>2, PTL DEF ContentsSpec, One!C!Spec

\* What is asked of the constants is the same of both.
LEMMA ConfiguresAssumed == One!C!ConfiguresAssumption
BY ContentsAssumption
   DEF Configures!ConfiguresAssumption, One!C!ConfiguresAssumption

\* Configures is well typed.
LEMMA ConfiguresTyped == ContentsSpec => []Configures!TypeOK
<1>1. One!C!Spec => []One!C!TypeOK
  BY ConfiguresAssumed, One!ConfiguresTyped
<1>2. One!C!TypeOK => Configures!TypeOK
  BY ConfiguresTypeOK
<1> QED
  BY <1>1, <1>2, ConfiguresRun, PTL

LEMMA ConfiguresFlooded == ASSUME One!C!Flooded PROVE Configures!Flooded
BY DEF Configures!Flooded, Configures!Cardinality, One!C!Flooded, One!C!Cardinality

\* HonestIsSafe: a client that answers only what it was asked, late or out of order,
\* and shows nothing before its first answer is never disconnected (ack_configure,
\* check_configured_before_buffer), for any queue bound and any number of surfaces.
THEOREM HonestClientsStay == ContentsSpec => HonestIsSafe
<1>1. One!C!Spec => One!C!HonestIsSafe
  BY ConfiguresAssumed, One!HonestIsSafe
<1>2. ASSUME ~confFatal /\ confFatal' => confAstray' \/ One!C!Flooded
      PROVE  ~confFatal /\ confFatal' => confAstray' \/ Configures!Flooded
  BY <1>2, ConfiguresFlooded
<1>3. ASSUME UNCHANGED One!C!vars
      PROVE  UNCHANGED Configures!vars
  BY <1>3
  DEF Configures!vars, Configures!record, One!C!vars, One!C!record
<1>4. [~confFatal /\ confFatal' => confAstray' \/ One!C!Flooded]_(One!C!vars)
        => [~confFatal /\ confFatal' => confAstray' \/ Configures!Flooded]_(Configures!vars)
  BY <1>2, <1>3
<1> QED
  BY <1>1, <1>4, ConfiguresRun, PTL
  DEF HonestIsSafe, Configures!HonestIsSafe, One!C!HonestIsSafe

-----------------------------------------------------------------------------
(* All of Contents. *)

\* ContentsTypeOK: every variable of every part of Contents has its type, whatever
\* the parts do in between.
THEOREM ContentsTyped == ContentsSpec => []ContentsTypeOK
<1>1. Pixels!TypeOK /\ Imports!TypeOK /\ Pools!TypeOK /\ Configures!TypeOK
        /\ ThePopups!TypeOK /\ ThePanels!TypeOK => ContentsTypeOK
  BY DEF ContentsTypeOK
<1> QED
  BY <1>1, PixelsTyped, ImportsTyped, PoolsTyped, ConfiguresTyped, PopupsTyped, PanelsTyped,
     PTL

-----------------------------------------------------------------------------
(* WindowStates, one window. *)

LEMMA OneWindowInit == ASSUME OneWindow!Init PROVE One!Init
BY DEF OneWindow!Init, One!Init

LEMMA OneWindowNext == ASSUME OneWindow!Next PROVE One!Next
BY DEF OneWindow!Next, OneWindow!GetToplevel, OneWindow!DestroyToplevel, OneWindow!Rehome,
       OneWindow!Move, OneWindow!SetSizeHint, OneWindow!SetState, OneWindow!Resize,
       OneWindow!Commit, OneWindow!PointerPositions, OneWindow!MovePointer,
       OneWindow!Press, OneWindow!Release, OneWindow!clear_focus, OneWindow!Focus,
       OneWindow!hand, OneWindow!Configure, OneWindow!FocusChange, OneWindow!MayGrab,
       OneWindow!wins, OneWindow!AnswerUnchanged, OneWindow!AnswerHomeless, OneWindow!Fill,
       OneWindow!GoBack, OneWindow!DragMove, OneWindow!DragResize, OneWindow!Hover,
       OneWindow!Resizing, OneWindow!current_states, OneWindow!is_window_state_locked,
       OneWindow!Unchanging, OneWindow!DropGrabOf, OneWindow!WithOut, OneWindow!Wanted,
       OneWindow!STATES, OneWindow!Dragged, OneWindow!Clamped, OneWindow!Larger,
       OneWindow!Smaller, One!Next, One!GetToplevel, One!DestroyToplevel, One!Rehome,
       One!Move, One!SetSizeHint, One!SetState, One!Resize, One!Commit,
       One!PointerPositions, One!MovePointer, One!Press, One!Release, One!clear_focus,
       One!Focus, One!hand, One!Configure, One!FocusChange, One!MayGrab, One!wins,
       One!AnswerUnchanged, One!AnswerHomeless, One!Fill, One!GoBack, One!DragMove,
       One!DragResize, One!Hover, One!Resizing, One!current_states,
       One!is_window_state_locked, One!Unchanging, One!DropGrabOf, One!WithOut, One!Wanted,
       One!STATES, One!Dragged, One!Clamped, One!Larger, One!Smaller

LEMMA OneWindowTypeOK == ASSUME One!TypeOK PROVE OneWindow!TypeOK
BY DEF OneWindow!TypeOK, OneWindow!Geometry, OneWindow!STATES, OneWindow!PointerPositions,
       OneWindow!Grabs, One!TypeOK, One!Geometry, One!STATES, One!PointerPositions,
       One!Grabs

LEMMA OneWindowToldIsTrue == ASSUME One!ToldIsTrue PROVE OneWindow!ToldIsTrue
BY DEF OneWindow!ToldIsTrue, OneWindow!STATES, OneWindow!Resizing, One!ToldIsTrue,
       One!STATES, One!Resizing

LEMMA OneWindowAnchoredEdgeHolds ==
  ASSUME One!AnchoredEdgeHolds PROVE OneWindow!AnchoredEdgeHolds
BY DEF OneWindow!AnchoredEdgeHolds, OneWindow!Resizing, OneWindow!is_window_state_locked,
       One!AnchoredEdgeHolds, One!Resizing, One!is_window_state_locked

\* What OneWindowStep does is a run of WindowStates, and the other steps leave it alone.
LEMMA OneWindowRun == DesktopSpec => One!Spec
<1>1. InitDesktop => One!Init
  BY OneWindowInit DEF InitDesktop
<1>2. [NextDesktop]_desktop => [One!Next]_(One!vars)
  <2>1. CASE OneWindowStep
    BY <2>1, OneWindowNext DEF OneWindowStep
  <2>2. CASE UNCHANGED ofOneWindow
    <3>1. UNCHANGED One!vars
      BY <2>2
      DEF ofOneWindow, One!vars, One!wins, One!hand
    <3> QED
      BY <3>1
  <2> QED
    BY <2>1, <2>2
    DEF NextDesktop, DraggingStep, SelectingStep, TwoWindowsStep, FamiliesStep,
        KeyboardStep, PointerStep, desktop
<1> QED
  BY <1>1, <1>2, PTL DEF DesktopSpec, One!Spec

\* What is asked of the constants is the same of both.
LEMMA OneWindowAssumed == One!WindowsAssumption
BY DesktopAssumption
   DEF OneWindow!WindowsAssumption, OneWindow!Grabs, OneWindow!Geometry,
       One!WindowsAssumption, One!Grabs, One!Geometry

\* OneWindow is well typed.
LEMMA OneWindowTyped == DesktopSpec => []OneWindow!TypeOK
<1>1. One!Spec => []One!TypeOK
  BY OneWindowAssumed, One!TypeCorrect
<1>2. One!TypeOK => OneWindow!TypeOK
  BY OneWindowTypeOK
<1> QED
  BY <1>1, <1>2, OneWindowRun, PTL

-----------------------------------------------------------------------------
(* WindowStates, two windows. *)

Two == INSTANCE WindowStates_proof
  WITH Toplevels <- TwoToplevels, Output <- TwoOutput, Usable <- TwoUsable,
       Limits <- TwoLimits, MaxWidth <- TwoMaxWidth, MaxGrabs <- TwoMaxGrabs,
       GrabsAgain <- FALSE, None <- Nothing, live <- twoLive, homed <- twoHomed,
       x <- twoX, width <- twoWidth, maximized <- twoMaximized,
       fullscreen <- twoFullscreen, restore <- twoRestore, limits <- twoLimits,
       focused <- twoFocused, told <- twoTold, pointer <- twoPointer,
       pressed <- twoPressed, entitled <- twoEntitled, grab <- twoGrab,
       anchor <- twoAnchor, grabs <- twoGrabs,
       wrapped <- confWrapped, role <- confRole, configured <- confConfigured,
       pending <- confPending, highest <- confHighest, next <- confNext,
       parented <- confParented, content <- confContent, fatal <- confFatal,
       sent <- confSent, answered <- confAnswered, astray <- confAstray,
       ReusesIds <- FALSE, stack <- famStack, parent <- famParent

LEMMA TwoWindowsInit == ASSUME TwoWindows!Init PROVE Two!Init
BY DEF TwoWindows!Init, Two!Init

LEMMA TwoWindowsNext == ASSUME TwoWindows!Next PROVE Two!Next
BY DEF TwoWindows!Next, TwoWindows!GetToplevel, TwoWindows!DestroyToplevel,
       TwoWindows!Rehome, TwoWindows!Move, TwoWindows!SetSizeHint, TwoWindows!SetState,
       TwoWindows!Resize, TwoWindows!Commit, TwoWindows!PointerPositions,
       TwoWindows!MovePointer, TwoWindows!Press, TwoWindows!Release,
       TwoWindows!clear_focus, TwoWindows!Focus, TwoWindows!hand, TwoWindows!Configure,
       TwoWindows!FocusChange, TwoWindows!MayGrab, TwoWindows!wins,
       TwoWindows!AnswerUnchanged, TwoWindows!AnswerHomeless, TwoWindows!Fill,
       TwoWindows!GoBack, TwoWindows!DragMove, TwoWindows!DragResize, TwoWindows!Hover,
       TwoWindows!Resizing, TwoWindows!current_states, TwoWindows!is_window_state_locked,
       TwoWindows!Unchanging, TwoWindows!DropGrabOf, TwoWindows!WithOut, TwoWindows!Wanted,
       TwoWindows!STATES, TwoWindows!Dragged, TwoWindows!Clamped, TwoWindows!Larger,
       TwoWindows!Smaller, Two!Next, Two!GetToplevel, Two!DestroyToplevel, Two!Rehome,
       Two!Move, Two!SetSizeHint, Two!SetState, Two!Resize, Two!Commit,
       Two!PointerPositions, Two!MovePointer, Two!Press, Two!Release, Two!clear_focus,
       Two!Focus, Two!hand, Two!Configure, Two!FocusChange, Two!MayGrab, Two!wins,
       Two!AnswerUnchanged, Two!AnswerHomeless, Two!Fill, Two!GoBack, Two!DragMove,
       Two!DragResize, Two!Hover, Two!Resizing, Two!current_states,
       Two!is_window_state_locked, Two!Unchanging, Two!DropGrabOf, Two!WithOut, Two!Wanted,
       Two!STATES, Two!Dragged, Two!Clamped, Two!Larger, Two!Smaller

LEMMA TwoWindowsTypeOK == ASSUME Two!TypeOK PROVE TwoWindows!TypeOK
BY DEF TwoWindows!TypeOK, TwoWindows!Geometry, TwoWindows!STATES,
       TwoWindows!PointerPositions, TwoWindows!Grabs, Two!TypeOK, Two!Geometry, Two!STATES,
       Two!PointerPositions, Two!Grabs

LEMMA TwoWindowsToldIsTrue == ASSUME Two!ToldIsTrue PROVE TwoWindows!ToldIsTrue
BY DEF TwoWindows!ToldIsTrue, TwoWindows!STATES, TwoWindows!Resizing, Two!ToldIsTrue,
       Two!STATES, Two!Resizing

LEMMA TwoWindowsAnchoredEdgeHolds ==
  ASSUME Two!AnchoredEdgeHolds PROVE TwoWindows!AnchoredEdgeHolds
BY DEF TwoWindows!AnchoredEdgeHolds, TwoWindows!Resizing,
       TwoWindows!is_window_state_locked, Two!AnchoredEdgeHolds, Two!Resizing,
       Two!is_window_state_locked

\* What TwoWindowsStep does is a run of WindowStates, and the other steps leave it alone.
LEMMA TwoWindowsRun == DesktopSpec => Two!Spec
<1>1. InitDesktop => Two!Init
  BY TwoWindowsInit DEF InitDesktop
<1>2. [NextDesktop]_desktop => [Two!Next]_(Two!vars)
  <2>1. CASE TwoWindowsStep
    BY <2>1, TwoWindowsNext DEF TwoWindowsStep
  <2>2. CASE UNCHANGED ofTwoWindows
    <3>1. UNCHANGED Two!vars
      BY <2>2
      DEF ofTwoWindows, Two!vars, Two!wins, Two!hand
    <3> QED
      BY <3>1
  <2> QED
    BY <2>1, <2>2
    DEF NextDesktop, DraggingStep, SelectingStep, OneWindowStep, FamiliesStep,
        KeyboardStep, PointerStep, desktop
<1> QED
  BY <1>1, <1>2, PTL DEF DesktopSpec, Two!Spec

\* What is asked of the constants is the same of both.
LEMMA TwoWindowsAssumed == Two!WindowsAssumption
BY DesktopAssumption
   DEF TwoWindows!WindowsAssumption, TwoWindows!Grabs, TwoWindows!Geometry,
       Two!WindowsAssumption, Two!Grabs, Two!Geometry

\* TwoWindows is well typed.
LEMMA TwoWindowsTyped == DesktopSpec => []TwoWindows!TypeOK
<1>1. Two!Spec => []Two!TypeOK
  BY TwoWindowsAssumed, Two!TypeCorrect
<1>2. Two!TypeOK => TwoWindows!TypeOK
  BY TwoWindowsTypeOK
<1> QED
  BY <1>1, <1>2, TwoWindowsRun, PTL

\* ToldIsTrue: a window's last configure told it the states it is in, in any order of
\* requests, focus and grabs, for any windows, limits and output, of clients that ask
\* for one grab in a press (current_states and its callers).
THEOREM WindowsAreTold == DesktopSpec => []ToldIsTrue
<1>1. One!Spec => []One!ToldIsTrue
  BY OneWindowAssumed, One!WindowsAreTold
<1>2. Two!Spec => []Two!ToldIsTrue
  BY TwoWindowsAssumed, Two!WindowsAreTold
<1>3. One!ToldIsTrue /\ Two!ToldIsTrue => ToldIsTrue
  BY OneWindowToldIsTrue, TwoWindowsToldIsTrue DEF ToldIsTrue
<1> QED
  BY <1>1, <1>2, <1>3, OneWindowRun, TwoWindowsRun, PTL

\* AnchoredEdgeHolds: the edge opposite the one that is dragged stays where it is,
\* whatever sizes the client commits and however late (apply_resize_anchor).
THEOREM EdgesHold == DesktopSpec => []AnchoredEdgeHolds
<1>1. One!Spec => []One!AnchoredEdgeHolds
  BY OneWindowAssumed, One!EdgesHold
<1>2. Two!Spec => []Two!AnchoredEdgeHolds
  BY TwoWindowsAssumed, Two!EdgesHold
<1>3. One!AnchoredEdgeHolds /\ Two!AnchoredEdgeHolds => AnchoredEdgeHolds
  BY OneWindowAnchoredEdgeHolds, TwoWindowsAnchoredEdgeHolds DEF AnchoredEdgeHolds
<1> QED
  BY <1>1, <1>2, <1>3, OneWindowRun, TwoWindowsRun, PTL

-----------------------------------------------------------------------------
(* Dialogs (ToplevelFamilies). *)

Fam == INSTANCE WindowStates_proof
  WITH Output <- OneOutput, Usable <- OneUsable,
       Limits <- OneLimits, MaxWidth <- OneMaxWidth, MaxGrabs <- OneMaxGrabs,
       GrabsAgain <- FALSE, None <- Nothing, live <- oneLive, homed <- oneHomed,
       x <- oneX, width <- oneWidth, maximized <- oneMaximized,
       fullscreen <- oneFullscreen, restore <- oneRestore, limits <- oneLimits,
       focused <- oneFocused, told <- oneTold, pointer <- onePointer,
       pressed <- onePressed, entitled <- oneEntitled, grab <- oneGrab,
       anchor <- oneAnchor, grabs <- oneGrabs,
       wrapped <- confWrapped, role <- confRole, configured <- confConfigured,
       pending <- confPending, highest <- confHighest, next <- confNext,
       parented <- confParented, content <- confContent, fatal <- confFatal,
       sent <- confSent, answered <- confAnswered, astray <- confAstray,
       ReusesIds <- FALSE, stack <- famStack, parent <- famParent

LEMMA FamiliesInit == ASSUME Families!Init PROVE Fam!F!Init
BY DEF Families!Init, Fam!F!Init

LEMMA FamiliesUp == \A p, t, n : Families!Up(p, t, n) = Fam!F!Up(p, t, n)
BY DEF Families!Up, Families!xdg_toplevels, Families!Range, Fam!F!Up, Fam!F!xdg_toplevels,
       Fam!F!Range

LEMMA FamiliesBelow == \A p, t : Families!descendants_of(p, t) = Fam!F!descendants_of(p, t)
BY DEF Families!descendants_of, Families!Range, Families!xdg_toplevels, Families!Last,
       Fam!F!descendants_of, Fam!F!Range, Fam!F!xdg_toplevels, Fam!F!Last

LEMMA FamiliesFamily ==
  \A p, t : Families!toplevel_family(p, t) = Fam!F!toplevel_family(p, t)
BY FamiliesUp, FamiliesBelow
   DEF Families!toplevel_family, Fam!F!toplevel_family

LEMMA FamiliesOrders == \A S : Families!SetToSeqs(S) = Fam!F!SetToSeqs(S)
BY DEF Families!SetToSeqs, Fam!F!SetToSeqs, Families!Cardinality, Fam!F!Cardinality

LEMMA FamiliesRaised == \A p, t : Families!Raised(p, t) = Fam!F!Raised(p, t)
<1> TAKE p, t
<1>1. Families!toplevel_family(p, t) = Fam!F!toplevel_family(p, t)
  BY FamiliesFamily
<1>2. Families!SetToSeqs(Families!xdg_toplevels) = Fam!F!SetToSeqs(Fam!F!xdg_toplevels)
  BY FamiliesOrders
  DEF Families!xdg_toplevels, Families!Range, Fam!F!xdg_toplevels, Fam!F!Range
<1> QED
  BY <1>1, <1>2
  DEF Families!Raised, Families!Range, Families!Place, Fam!F!Raised, Fam!F!Range,
      Fam!F!Place

LEMMA FamiliesCreate == ASSUME NEW t, Families!Create(t) PROVE Fam!F!Create(t)
BY FamiliesRaised, FamiliesUp
   DEF Families!Create, Families!xdg_toplevels, Families!Range, Fam!F!Create,
       Fam!F!xdg_toplevels, Fam!F!Range

LEMMA FamiliesDestroy == ASSUME NEW t, Families!Destroy(t) PROVE Fam!F!Destroy(t)
BY FamiliesRaised, FamiliesUp
   DEF Families!Destroy, Families!xdg_toplevels, Families!RemoveAt, Families!Place,
       Families!Range, Fam!F!Destroy, Fam!F!xdg_toplevels, Fam!F!RemoveAt, Fam!F!Place,
       Fam!F!Range

LEMMA FamiliesRaise == ASSUME NEW t, Families!Raise(t) PROVE Fam!F!Raise(t)
BY FamiliesRaised, FamiliesUp
   DEF Families!Raise, Families!xdg_toplevels, Families!Range, Fam!F!Raise,
       Fam!F!xdg_toplevels, Fam!F!Range

LEMMA FamiliesSetParent ==
  ASSUME NEW t, NEW u, Families!SetParent(t, u) PROVE Fam!F!SetParent(t, u)
BY FamiliesRaised, FamiliesUp
   DEF Families!SetParent, Families!xdg_toplevels, Families!would_cycle, Families!Range,
       Fam!F!SetParent, Fam!F!xdg_toplevels, Fam!F!would_cycle, Fam!F!Range

LEMMA FamiliesNext == ASSUME Families!Next PROVE Fam!F!Next
BY FamiliesCreate, FamiliesDestroy, FamiliesRaise, FamiliesSetParent
   DEF Families!Next, Fam!F!Next

LEMMA FamiliesTypeOK == ASSUME Fam!F!TypeOK PROVE Families!TypeOK
BY DEF Families!TypeOK, Families!IsInjective, Fam!F!TypeOK, Fam!F!IsInjective

LEMMA FamiliesDialogsOnTop == ASSUME Fam!F!DialogsOnTop PROVE Families!DialogsOnTop
BY DEF Families!DialogsOnTop, Families!xdg_toplevels, Families!Place, Families!Range,
       Fam!F!DialogsOnTop, Fam!F!xdg_toplevels, Fam!F!Place, Fam!F!Range

\* What FamiliesStep does is a run of ToplevelFamilies, and the other steps leave it alone.
LEMMA FamiliesRun == DesktopSpec => Fam!F!Spec
<1>1. InitDesktop => Fam!F!Init
  BY FamiliesInit DEF InitDesktop
<1>2. [NextDesktop]_desktop => [Fam!F!Next]_(Fam!F!vars)
  <2>1. CASE FamiliesStep
    BY <2>1, FamiliesNext DEF FamiliesStep
  <2>2. CASE UNCHANGED ofFamilies
    <3>1. UNCHANGED Fam!F!vars
      BY <2>2
      DEF ofFamilies, Fam!F!vars
    <3> QED
      BY <3>1
  <2> QED
    BY <2>1, <2>2
    DEF NextDesktop, DraggingStep, SelectingStep, OneWindowStep, TwoWindowsStep,
        KeyboardStep, PointerStep, desktop
<1> QED
  BY <1>1, <1>2, PTL DEF DesktopSpec, Fam!F!Spec

\* What is asked of the constants is the same of both.
LEMMA FamiliesAssumed == Fam!F!FamiliesAssumption
BY DesktopAssumption
   DEF Families!FamiliesAssumption, Fam!F!FamiliesAssumption

\* Families is well typed.
LEMMA FamiliesTyped == DesktopSpec => []Families!TypeOK
<1>1. Fam!F!Spec => []Fam!F!TypeOK
  BY FamiliesAssumed, Fam!FamiliesTyped
<1>2. Fam!F!TypeOK => Families!TypeOK
  BY FamiliesTypeOK
<1> QED
  BY <1>1, <1>2, FamiliesRun, PTL

\* DialogsOnTop: a dialog stays above the window it belongs to, in families of any
\* depth, of clients that use no id again while a dialog still names it
\* (raise_with_children, set_parent).
THEOREM DialogsStayOnTop == DesktopSpec => []DialogsOnTop
<1>1. Fam!F!Spec => []Fam!F!DialogsOnTop
  BY FamiliesAssumed, Fam!DialogsStayOnTop
<1>2. Fam!F!DialogsOnTop => DialogsOnTop
  BY FamiliesDialogsOnTop DEF DialogsOnTop
<1> QED
  BY <1>1, <1>2, FamiliesRun, PTL

-----------------------------------------------------------------------------
(* Keys (KeyboardDelivery). *)

Sel == INSTANCE InputDelivery_proof
  WITH OldClients <- SelOldClients, DataSources <- SelDataSources,
       PrimarySources <- SelPrimarySources, ControlSources <- SelControlSources,
       DataDevices <- SelDataDevices, PrimaryDevices <- SelPrimaryDevices,
       ControlDevices <- SelControlDevices, OldManagers <- SelOldManagers,
       OwnerOf <- SelOwnerOf, Actions <- SelActions, NoClient <- Nothing,
       NoSource <- Nothing, Never <- 0, clients <- selClients, mapped <- selMapped,
       devices <- selDevices, sources <- selSources, offers <- selOffers,
       selection <- selSelection, drag <- selDrag, focus <- selFocus,
       buttonHeld <- selHeld, told <- selTold, entered <- selEntered,
       agreed <- selAgreed, dropped <- selDropped,
       toplevels <- keyToplevels, keyFocused <- keyFocused, keyboards <- keyKeyboards,
       pressed_keys <- keyPressed_keys, consumed_keys <- keyConsumed_keys,
       dragging <- keyDragging, held <- keyHeld, known <- keyKnown,
       Owner <- SurfaceOwner, None <- Nothing, surfaces <- ptrSurfaces,
       pointer_surface <- ptrPointer_surface, focused <- ptrFocused,
       pressed_buttons <- ptrPressed_buttons, owned_by <- ptrOwned_by,
       grabbed_popups <- ptrGrabbed_popups, pointers <- ptrPointers, on <- ptrOn,
       late <- ptrLate, robbed <- ptrRobbed, touches <- ptrTouches,
       touch_points <- ptrTouch_points, fingers <- ptrFingers

LEMMA KeyboardInit == ASSUME Keyboard!Init PROVE Sel!K!Init
BY DEF Keyboard!Init, Sel!K!Init

LEMMA KeyboardNext == ASSUME Keyboard!Next PROVE Sel!K!Next
BY DEF Keyboard!Next, Keyboard!CreateSurface, Keyboard!GetToplevel,
       Keyboard!DestroyToplevel, Keyboard!DestroySurface, Keyboard!GetKeyboard,
       Keyboard!ReleaseKeyboard, Keyboard!ClientGone, Keyboard!KeyDown, Keyboard!KeyUp,
       Keyboard!Refocus, Keyboard!StartDrag, Keyboard!switch_focus, Keyboard!catch_up,
       Keyboard!Forget, Keyboard!FocusedClient, Keyboard!matches, Keyboard!ShellDecides,
       Keyboard!deliver, Keyboard!leave_and_enter, Keyboard!modifiers,
       Keyboard!clear_focus, Sel!K!Next, Sel!K!CreateSurface, Sel!K!GetToplevel,
       Sel!K!DestroyToplevel, Sel!K!DestroySurface, Sel!K!GetKeyboard,
       Sel!K!ReleaseKeyboard, Sel!K!ClientGone, Sel!K!KeyDown, Sel!K!KeyUp, Sel!K!Refocus,
       Sel!K!StartDrag, Sel!K!switch_focus, Sel!K!catch_up, Sel!K!Forget,
       Sel!K!FocusedClient, Sel!K!matches, Sel!K!ShellDecides, Sel!K!deliver,
       Sel!K!leave_and_enter, Sel!K!modifiers, Sel!K!clear_focus

LEMMA KeyboardTypeOK == ASSUME Sel!K!TypeOK PROVE Keyboard!TypeOK
BY DEF Keyboard!TypeOK, Sel!K!TypeOK

LEMMA KeyboardTheFocusedClientKnows ==
  ASSUME Sel!K!TheFocusedClientKnows PROVE Keyboard!TheFocusedClientKnows
BY DEF Keyboard!TheFocusedClientKnows, Keyboard!FocusedClient, Keyboard!modifiers,
       Sel!K!TheFocusedClientKnows, Sel!K!FocusedClient, Sel!K!modifiers

\* What KeyboardStep does is a run of KeyboardDelivery, and the other steps leave it alone.
LEMMA KeyboardRun == DesktopSpec => Sel!K!Spec
<1>1. InitDesktop => Sel!K!Init
  BY KeyboardInit DEF InitDesktop
<1>2. [NextDesktop]_desktop => [Sel!K!Next]_(Sel!K!vars)
  <2>1. CASE KeyboardStep
    BY <2>1, KeyboardNext DEF KeyboardStep
  <2>2. CASE UNCHANGED ofKeyboard
    <3>1. UNCHANGED Sel!K!vars
      BY <2>2
      DEF ofKeyboard, Sel!K!vars
    <3> QED
      BY <3>1
  <2> QED
    BY <2>1, <2>2
    DEF NextDesktop, DraggingStep, SelectingStep, OneWindowStep, TwoWindowsStep,
        FamiliesStep, PointerStep, desktop
<1> QED
  BY <1>1, <1>2, PTL DEF DesktopSpec, Sel!K!Spec

\* What is asked of the constants is the same of both.
LEMMA KeyboardAssumed == Sel!K!KeyboardAssumption
BY DesktopAssumption
   DEF Keyboard!KeyboardAssumption, Sel!K!KeyboardAssumption

\* Keyboard is well typed.
LEMMA KeyboardTyped == DesktopSpec => []Keyboard!TypeOK
<1>1. Sel!K!Spec => []Sel!K!TypeOK
  BY KeyboardAssumed, Sel!KeyboardTyped
<1>2. Sel!K!TypeOK => Keyboard!TypeOK
  BY KeyboardTypeOK
<1> QED
  BY <1>1, <1>2, KeyboardRun, PTL

\* TheFocusedClientKnows: a client that is sent keys knows the surface they are for,
\* the modifiers and every key that is down for it, for any keys, bindings, windows
\* and clients (switch_focus, handle_get_keyboard).
THEOREM TheFocusedKnow == DesktopSpec => []TheFocusedClientKnows
<1>1. Sel!K!Spec => []Sel!K!TheFocusedClientKnows
  BY KeyboardAssumed, Sel!KeyboardIsKnown
<1>2. Sel!K!TheFocusedClientKnows => TheFocusedClientKnows
  BY KeyboardTheFocusedClientKnows DEF TheFocusedClientKnows
<1> QED
  BY <1>1, <1>2, KeyboardRun, PTL

-----------------------------------------------------------------------------
(* The pointer and fingers (PointerDelivery). *)

LEMMA PointerInit == ASSUME Pointer!Init PROVE Sel!Init
BY DEF Pointer!Init, Sel!Init

LEMMA PointerNext == ASSUME Pointer!Next PROVE Sel!Next
BY DEF Pointer!Next, Pointer!CreateSurface, Pointer!DestroySurface, Pointer!ClientGone,
       Pointer!GetPointer, Pointer!ReleasePointer, Pointer!GetTouch, Pointer!ReleaseTouch,
       Pointer!PointerMoved, Pointer!StartGrab, Pointer!StartDrag, Pointer!LetGo, Pointer!Menu,
       Pointer!Press, Pointer!Release, Pointer!TouchUp, Pointer!TouchDown,
       Pointer!TouchCancel, Pointer!ptr_vars, Pointer!touch_vars, Pointer!forget_surfaces,
       Pointer!ClientOf, Pointer!windows, Pointer!hit_test, Pointer!leave_and_enter,
       Pointer!taken_by, Pointer!ShellDecides, Pointer!enter_by_press, Pointer!lifted_from,
       Pointer!fingers_kept, Sel!Next, Sel!CreateSurface, Sel!DestroySurface,
       Sel!ClientGone, Sel!GetPointer, Sel!ReleasePointer, Sel!GetTouch, Sel!ReleaseTouch,
       Sel!PointerMoved, Sel!StartGrab, Sel!StartDrag, Sel!LetGo, Sel!Menu, Sel!Press,
       Sel!Release,
       Sel!TouchUp, Sel!TouchDown, Sel!TouchCancel, Sel!ptr_vars, Sel!touch_vars,
       Sel!forget_surfaces, Sel!ClientOf, Sel!windows, Sel!hit_test, Sel!leave_and_enter,
       Sel!taken_by, Sel!ShellDecides, Sel!enter_by_press, Sel!lifted_from,
       Sel!fingers_kept

LEMMA PointerTypeOK == ASSUME Sel!TypeOK PROVE Pointer!TypeOK
BY DEF Pointer!TypeOK, Sel!TypeOK

LEMMA PointerHoversAgree == ASSUME Sel!HoversAgree PROVE Pointer!HoversAgree
BY DEF Pointer!HoversAgree, Pointer!ClientOf, Sel!HoversAgree, Sel!ClientOf

LEMMA PointerFingersAgree == ASSUME Sel!FingersAgree PROVE Pointer!FingersAgree
BY DEF Pointer!FingersAgree, Pointer!ClientOf, Sel!FingersAgree, Sel!ClientOf

\* What PointerStep does is a run of PointerDelivery, and the other steps leave it alone.
LEMMA PointerRun == DesktopSpec => Sel!Spec
<1>1. InitDesktop => Sel!Init
  BY PointerInit DEF InitDesktop
<1>2. [NextDesktop]_desktop => [Sel!Next]_(Sel!vars)
  <2>1. CASE PointerStep
    BY <2>1, PointerNext DEF PointerStep
  <2>2. CASE UNCHANGED ofPointer
    <3>1. UNCHANGED Sel!vars
      BY <2>2
      DEF ofPointer, Sel!vars, Sel!ptr_vars, Sel!touch_vars
    <3> QED
      BY <3>1
  <2> QED
    BY <2>1, <2>2
    DEF NextDesktop, DraggingStep, SelectingStep, OneWindowStep, TwoWindowsStep,
        FamiliesStep, KeyboardStep, desktop
<1> QED
  BY <1>1, <1>2, PTL DEF DesktopSpec, Sel!Spec

\* What is asked of the constants is the same of both.
LEMMA PointerAssumed == Sel!PointerAssumption
BY DesktopAssumption
   DEF Pointer!PointerAssumption, Sel!PointerAssumption

\* Pointer is well typed.
LEMMA PointerTyped == DesktopSpec => []Pointer!TypeOK
<1>1. Sel!Spec => []Sel!TypeOK
  BY PointerAssumed, Sel!PointerTyped
<1>2. Sel!TypeOK => Pointer!TypeOK
  BY PointerTypeOK
<1> QED
  BY <1>1, <1>2, PointerRun, PTL

\* HoversAgree: every client believes its pointer where the compositor has it, but for
\* one that asked for its pointer late and one a press took it from
\* (deliver_pointer_motion, release_pointer_to_grab).
THEOREM PointersAgree == DesktopSpec => []HoversAgree
<1>1. Sel!Spec => []Sel!HoversAgree
  BY PointerAssumed, Sel!PointersAgree
<1>2. Sel!HoversAgree => HoversAgree
  BY PointerHoversAgree DEF HoversAgree
<1> QED
  BY <1>1, <1>2, PointerRun, PTL

\* FingersAgree: a client believes a finger down only while it is down on a surface
\* of that client (touch_up, touch_cancel, destroy_surface).
THEOREM TouchesAgree == DesktopSpec => []FingersAgree
<1>1. Sel!Spec => []Sel!FingersAgree
  BY Sel!TouchesAgree
<1>2. Sel!FingersAgree => FingersAgree
  BY PointerFingersAgree DEF FingersAgree
<1> QED
  BY <1>1, <1>2, PointerRun, PTL

-----------------------------------------------------------------------------
(* Selections (DataTransfer). *)

LEMMA SelectingInit == ASSUME Selecting!Init PROVE Sel!T!Init
BY DEF Selecting!Init, Selecting!Sources, Selecting!Absent, Selecting!Offers,
       Selecting!NoOffer, Selecting!Selections, Selecting!NoDrag, Selecting!Devices,
       Selecting!NoAction, Selecting!NewOffer, Sel!T!Init, Sel!T!Sources, Sel!T!Absent,
       Sel!T!Offers, Sel!T!NoOffer, Sel!T!Selections, Sel!T!NoDrag, Sel!T!Devices,
       Sel!T!NoAction, Sel!T!NewOffer

LEMMA SelectingSetSelection ==
  ASSUME NEW d, NEW sel, NEW s, Selecting!SetSelection(d, sel, s)
  PROVE  Sel!T!SetSelection(d, sel, s)
BY DEF Selecting!SetSelection, Selecting!MaySet, Selecting!Room, Selecting!Cancelled,
       Selecting!Claimed, Selecting!Replaced, Selecting!Given, Selecting!Cut,
       Selecting!From, Selecting!Audience, Selecting!Hears, Selecting!owners,
       Selecting!Hearing, Selecting!Live, Selecting!Devices, Selecting!Cardinality,
       Selecting!Sources, Selecting!Offers, Selecting!Slot, Selecting!NewOffer,
       Selecting!NoOffer, Selecting!Following, Selecting!NoAction, Selecting!DevicesOf,
       Sel!T!SetSelection, Sel!T!MaySet, Sel!T!Room, Sel!T!Cancelled, Sel!T!Claimed,
       Sel!T!Replaced, Sel!T!Given, Sel!T!Cut, Sel!T!From, Sel!T!Audience, Sel!T!Hears,
       Sel!T!owners, Sel!T!Hearing, Sel!T!Live, Sel!T!Devices, Sel!T!Cardinality,
       Sel!T!Sources, Sel!T!Offers, Sel!T!Slot, Sel!T!NewOffer, Sel!T!NoOffer,
       Sel!T!Following, Sel!T!NoAction, Sel!T!DevicesOf

LEMMA SelectingStartDrag ==
  ASSUME NEW d, NEW s, Selecting!StartDrag(d, s) PROVE Sel!T!StartDrag(d, s)
BY DEF Selecting!StartDrag, Selecting!NoDrag, Selecting!Sources, Selecting!owners,
       Sel!T!StartDrag, Sel!T!NoDrag, Sel!T!Sources, Sel!T!owners

LEMMA SelectingGetDevice == ASSUME NEW d, Selecting!GetDevice(d) PROVE Sel!T!GetDevice(d)
BY DEF Selecting!GetDevice, Selecting!Room, Selecting!HandedOut, Selecting!AtOnce,
       Selecting!ToldBoth, Selecting!Devices, Selecting!Cardinality, Selecting!Given,
       Selecting!Hearing, Selecting!Hears, Selecting!Offers, Selecting!Slot,
       Selecting!NewOffer, Selecting!NoAction, Sel!T!GetDevice, Sel!T!Room,
       Sel!T!HandedOut, Sel!T!AtOnce, Sel!T!ToldBoth, Sel!T!Devices, Sel!T!Cardinality,
       Sel!T!Given, Sel!T!Hearing, Sel!T!Hears, Sel!T!Offers, Sel!T!Slot, Sel!T!NewOffer,
       Sel!T!NoAction

LEMMA SelectingReleaseDevice ==
  ASSUME NEW d, Selecting!ReleaseDevice(d) PROVE Sel!T!ReleaseDevice(d)
BY DEF Selecting!ReleaseDevice, Selecting!Selections, Sel!T!ReleaseDevice, Sel!T!Selections

LEMMA SelectingSourceRequest ==
  ASSUME NEW s, Selecting!SourceRequest(s) PROVE Sel!T!SourceRequest(s)
BY DEF Selecting!SourceRequest, Selecting!CreateSource, Selecting!DestroySource,
       Selecting!SetSourceActions, Selecting!Live, Selecting!NewSource, Selecting!NoAction,
       Selecting!owners, Selecting!Cleared, Selecting!ToldCleared, Selecting!Cut,
       Selecting!From, Selecting!NoDrag, Selecting!Left, Selecting!Absent,
       Selecting!Resolved, Selecting!Offers, Selecting!Heard, Selecting!Selections,
       Selecting!Devices, Selecting!Audience, Selecting!NoOffer, Selecting!DataDevicesOf,
       Selecting!OfDrag, Selecting!Settled, Selecting!Version, Selecting!Sources,
       Selecting!Following, Selecting!Hearing, Selecting!NewOffer, Selecting!DevicesOf,
       Selecting!Copy, Sel!T!SourceRequest, Sel!T!CreateSource, Sel!T!DestroySource,
       Sel!T!SetSourceActions, Sel!T!Live, Sel!T!NewSource, Sel!T!NoAction, Sel!T!owners,
       Sel!T!Cleared, Sel!T!ToldCleared, Sel!T!Cut, Sel!T!From, Sel!T!NoDrag, Sel!T!Left,
       Sel!T!Absent, Sel!T!Resolved, Sel!T!Offers, Sel!T!Heard, Sel!T!Selections,
       Sel!T!Devices, Sel!T!Audience, Sel!T!NoOffer, Sel!T!DataDevicesOf, Sel!T!OfDrag,
       Sel!T!Settled, Sel!T!Version, Sel!T!Sources, Sel!T!Following, Sel!T!Hearing,
       Sel!T!NewOffer, Sel!T!DevicesOf, Sel!T!Copy

LEMMA SelectingOfferRequest ==
  ASSUME NEW o, Selecting!OfferRequest(o) PROVE Sel!T!OfferRequest(o)
BY DEF Selecting!OfferRequest, Selecting!Accept, Selecting!NoAction,
       Selecting!SetOfferActions, Selecting!Finish, Selecting!DestroyOffer,
       Selecting!Answered, Selecting!NoOffer, Selecting!owners, Selecting!OfDrag,
       Selecting!Resolved, Selecting!Heard, Selecting!NewOffer, Selecting!Offers,
       Selecting!Settled, Selecting!Version, Selecting!Sources, Selecting!Devices,
       Selecting!Copy, Sel!T!OfferRequest, Sel!T!Accept, Sel!T!NoAction,
       Sel!T!SetOfferActions, Sel!T!Finish, Sel!T!DestroyOffer, Sel!T!Answered,
       Sel!T!NoOffer, Sel!T!owners, Sel!T!OfDrag, Sel!T!Resolved, Sel!T!Heard,
       Sel!T!NewOffer, Sel!T!Offers, Sel!T!Settled, Sel!T!Version, Sel!T!Sources,
       Sel!T!Devices, Sel!T!Copy

LEMMA SelectingDestroySurface ==
  ASSUME NEW c, Selecting!DestroySurface(c) PROVE Sel!T!DestroySurface(c)
BY DEF Selecting!DestroySurface, Selecting!CancelDrag, Selecting!Cut, Selecting!Left,
       Selecting!NoDrag, Selecting!Cancelled, Selecting!Offers, Selecting!NoOffer,
       Selecting!DataDevicesOf, Selecting!Sources, Selecting!Devices, Selecting!NewOffer,
       Selecting!DevicesOf, Selecting!NoAction, Sel!T!DestroySurface, Sel!T!CancelDrag,
       Sel!T!Cut, Sel!T!Left, Sel!T!NoDrag, Sel!T!Cancelled, Sel!T!Offers, Sel!T!NoOffer,
       Sel!T!DataDevicesOf, Sel!T!Sources, Sel!T!Devices, Sel!T!NewOffer, Sel!T!DevicesOf,
       Sel!T!NoAction

LEMMA SelectingDisconnect == ASSUME NEW c, Selecting!Disconnect(c) PROVE Sel!T!Disconnect(c)
BY ZenonT(30)
   DEF Selecting!Disconnect, Selecting!Following, Selecting!Cleared, Selecting!SourcesOf,
       Selecting!HandedOut, Selecting!ToldBoth, Selecting!Cut, Selecting!From,
       Selecting!Offers, Selecting!NoOffer, Selecting!Devices, Selecting!Selections,
       Selecting!ToldCleared, Selecting!Room, Selecting!DevicesOf, Selecting!Sources,
       Selecting!Absent, Selecting!NoDrag, Selecting!Left, Selecting!Hearing,
       Selecting!Given, Selecting!Hears, Selecting!NewOffer, Selecting!Audience,
       Selecting!Cardinality, Selecting!DataDevicesOf, Selecting!Slot, Selecting!NoAction,
       Sel!T!Disconnect, Sel!T!Following, Sel!T!Cleared, Sel!T!SourcesOf, Sel!T!HandedOut,
       Sel!T!ToldBoth, Sel!T!Cut, Sel!T!From, Sel!T!Offers, Sel!T!NoOffer, Sel!T!Devices,
       Sel!T!Selections, Sel!T!ToldCleared, Sel!T!Room, Sel!T!DevicesOf, Sel!T!Sources,
       Sel!T!Absent, Sel!T!NoDrag, Sel!T!Left, Sel!T!Hearing, Sel!T!Given, Sel!T!Hears,
       Sel!T!NewOffer, Sel!T!Audience, Sel!T!Cardinality, Sel!T!DataDevicesOf, Sel!T!Slot,
       Sel!T!NoAction

LEMMA SelectingFocus == ASSUME NEW c, Selecting!Focus(c) PROVE Sel!T!Focus(c)
BY DEF Selecting!Focus, Selecting!Room, Selecting!HandedOut, Selecting!Following,
       Selecting!ToldBoth, Selecting!owners, Selecting!Devices, Selecting!Cardinality,
       Selecting!Given, Selecting!DevicesOf, Selecting!Hearing, Selecting!Hears,
       Selecting!Offers, Selecting!Slot, Selecting!NewOffer, Selecting!NoAction,
       Sel!T!Focus, Sel!T!Room, Sel!T!HandedOut, Sel!T!Following, Sel!T!ToldBoth,
       Sel!T!owners, Sel!T!Devices, Sel!T!Cardinality, Sel!T!Given, Sel!T!DevicesOf,
       Sel!T!Hearing, Sel!T!Hears, Sel!T!Offers, Sel!T!Slot, Sel!T!NewOffer, Sel!T!NoAction

LEMMA SelectingMoveDrag == ASSUME NEW t, Selecting!MoveDrag(t) PROVE Sel!T!MoveDrag(t)
BY DEF Selecting!MoveDrag, Selecting!Cut, Selecting!DataDevicesOf, Selecting!Slot,
       Selecting!Given, Selecting!Room, Selecting!Left, Selecting!Resolved,
       Selecting!Heard, Selecting!owners, Selecting!Offers, Selecting!NoOffer,
       Selecting!DevicesOf, Selecting!NewOffer, Selecting!Devices, Selecting!Cardinality,
       Selecting!OfDrag, Selecting!Settled, Selecting!Version, Selecting!Sources,
       Selecting!NoAction, Selecting!Copy, Sel!T!MoveDrag, Sel!T!Cut, Sel!T!DataDevicesOf,
       Sel!T!Slot, Sel!T!Given, Sel!T!Room, Sel!T!Left, Sel!T!Resolved, Sel!T!Heard,
       Sel!T!owners, Sel!T!Offers, Sel!T!NoOffer, Sel!T!DevicesOf, Sel!T!NewOffer,
       Sel!T!Devices, Sel!T!Cardinality, Sel!T!OfDrag, Sel!T!Settled, Sel!T!Version,
       Sel!T!Sources, Sel!T!NoAction, Sel!T!Copy

LEMMA SelectingDeviceRequest ==
  ASSUME NEW d, Selecting!DeviceRequest(d) PROVE Sel!T!DeviceRequest(d)
BY SelectingSetSelection, SelectingStartDrag, SelectingGetDevice, SelectingReleaseDevice
   DEF Selecting!DeviceRequest, Selecting!Sources, Selecting!Selections,
       Sel!T!DeviceRequest, Sel!T!Sources, Sel!T!Selections

LEMMA SelectingRequest == ASSUME Selecting!Request PROVE Sel!T!Request
BY SelectingSourceRequest, SelectingDeviceRequest, SelectingOfferRequest,
   SelectingDestroySurface, SelectingDisconnect
   DEF Selecting!Request, Selecting!Sources, Selecting!Devices, Selecting!Offers,
       Selecting!CreateSurface, Sel!T!Request, Sel!T!Sources, Sel!T!Devices, Sel!T!Offers,
       Sel!T!CreateSurface

LEMMA SelectingUser == ASSUME Selecting!User PROVE Sel!T!User
BY SelectingFocus, SelectingMoveDrag
   DEF Selecting!User, Selecting!Unfocus, Selecting!ButtonDown, Selecting!ButtonUp,
       Selecting!Escape, Selecting!owners, Selecting!NoDrag, Selecting!Left,
       Selecting!Dropped, Selecting!Offers, Selecting!Cut, Selecting!Cancelled,
       Selecting!Ended, Selecting!CancelDrag, Selecting!DataDevicesOf,
       Selecting!TargetAccepted, Selecting!Devices, Selecting!NoOffer, Selecting!Sources,
       Selecting!DevicesOf, Selecting!NoAction, Selecting!NewOffer, Sel!T!User,
       Sel!T!Unfocus, Sel!T!ButtonDown, Sel!T!ButtonUp, Sel!T!Escape, Sel!T!owners,
       Sel!T!NoDrag, Sel!T!Left, Sel!T!Dropped, Sel!T!Offers, Sel!T!Cut, Sel!T!Cancelled,
       Sel!T!Ended, Sel!T!CancelDrag, Sel!T!DataDevicesOf, Sel!T!TargetAccepted,
       Sel!T!Devices, Sel!T!NoOffer, Sel!T!Sources, Sel!T!DevicesOf, Sel!T!NoAction,
       Sel!T!NewOffer

LEMMA SelectingNext == ASSUME Selecting!Next PROVE Sel!T!Next
BY SelectingRequest, SelectingUser DEF Selecting!Next, Sel!T!Next

LEMMA SelectingTypeOK == ASSUME Sel!T!TypeOK PROVE Selecting!TypeOK
BY DEF Selecting!TypeOK, Selecting!Devices, Selecting!Sources, Selecting!Source,
       Selecting!Offers, Selecting!Offer, Selecting!Selections, Selecting!Drag,
       Selecting!NoAction, Sel!T!TypeOK, Sel!T!Devices, Sel!T!Sources, Sel!T!Source,
       Sel!T!Offers, Sel!T!Offer, Sel!T!Selections, Sel!T!Drag, Sel!T!NoAction

LEMMA SelectingOffersAreCurrent ==
  ASSUME Sel!T!OffersAreCurrent PROVE Selecting!OffersAreCurrent
BY DEF Selecting!OffersAreCurrent, Selecting!Offers, Selecting!Live, Selecting!Selections,
       Selecting!Devices, Sel!T!OffersAreCurrent, Sel!T!Offers, Sel!T!Live,
       Sel!T!Selections, Sel!T!Devices

LEMMA SelectingSourceFate == ASSUME Sel!T!SourceFate PROVE Selecting!SourceFate
BY DEF Selecting!SourceFate, Selecting!Selections, Selecting!Ends, Selecting!Version, Sel!T!SourceFate,
       Sel!T!Selections, Sel!T!Ends, Sel!T!Version

LEMMA SelectingEntitledKnow == ASSUME Sel!T!EntitledKnow PROVE Selecting!EntitledKnow
BY DEF Selecting!EntitledKnow, Selecting!Selections, Selecting!Hearing, Sel!T!EntitledKnow,
       Sel!T!Selections, Sel!T!Hearing

\* What SelectingStep does is a run of DataTransfer, and the other steps leave it alone.
LEMMA SelectingRun == DesktopSpec => Sel!T!Spec
<1>1. InitDesktop => Sel!T!Init
  BY SelectingInit DEF InitDesktop
<1>2. [NextDesktop]_desktop => [Sel!T!Next]_(Sel!T!vars)
  <2>1. CASE SelectingStep
    BY <2>1, SelectingNext DEF SelectingStep
  <2>2. CASE UNCHANGED ofSelecting
    <3>1. UNCHANGED Sel!T!vars
      BY <2>2
      DEF ofSelecting, Sel!T!vars, Sel!T!owners
    <3> QED
      BY <3>1
  <2> QED
    BY <2>1, <2>2
    DEF NextDesktop, DraggingStep, OneWindowStep, TwoWindowsStep, FamiliesStep,
        KeyboardStep, PointerStep, desktop
<1> QED
  BY <1>1, <1>2, PTL DEF DesktopSpec, Sel!T!Spec

\* What is asked of the constants is the same of both.
LEMMA SelectingAssumed == Sel!TransferAssumption
BY DesktopAssumption
   DEF Sel!TransferAssumption, Selecting!OwnersAssumption, Selecting!NamesAssumption,
       Selecting!KindsAssumption, Selecting!ActionsAssumption, Selecting!BoundAssumption,
       Selecting!Sources, Selecting!Devices, Selecting!Copy, Sel!T!OwnersAssumption,
       Sel!T!NamesAssumption, Sel!T!KindsAssumption, Sel!T!ActionsAssumption,
       Sel!T!BoundAssumption, Sel!T!Sources, Sel!T!Devices, Sel!T!Copy

\* Selecting is well typed.
LEMMA SelectingTyped == DesktopSpec => []Selecting!TypeOK
<1>1. Sel!T!Spec => []Sel!T!TypeOK
  BY SelectingAssumed, Sel!TransferTyped
<1>2. Sel!T!TypeOK => Selecting!TypeOK
  BY SelectingTypeOK
<1> QED
  BY <1>1, <1>2, SelectingRun, PTL

-----------------------------------------------------------------------------
(* Drag and drop (DataTransfer). *)

Dnd == INSTANCE InputDelivery_proof
  WITH OldClients <- DndOldClients, DataSources <- DndDataSources,
       PrimarySources <- DndPrimarySources, ControlSources <- DndControlSources,
       DataDevices <- DndDataDevices, PrimaryDevices <- DndPrimaryDevices,
       ControlDevices <- DndControlDevices, OldManagers <- DndOldManagers,
       OwnerOf <- DndOwnerOf, Actions <- DndActions, NoClient <- Nothing,
       NoSource <- Nothing, Never <- 0, clients <- dndClients, mapped <- dndMapped,
       devices <- dndDevices, sources <- dndSources, offers <- dndOffers,
       selection <- dndSelection, drag <- dndDrag, focus <- dndFocus,
       buttonHeld <- dndHeld, told <- dndTold, entered <- dndEntered,
       agreed <- dndAgreed, dropped <- dndDropped,
       toplevels <- keyToplevels, keyFocused <- keyFocused, keyboards <- keyKeyboards,
       pressed_keys <- keyPressed_keys, consumed_keys <- keyConsumed_keys,
       dragging <- keyDragging, held <- keyHeld, known <- keyKnown,
       Owner <- SurfaceOwner, None <- Nothing, surfaces <- ptrSurfaces,
       pointer_surface <- ptrPointer_surface, focused <- ptrFocused,
       pressed_buttons <- ptrPressed_buttons, owned_by <- ptrOwned_by,
       grabbed_popups <- ptrGrabbed_popups, pointers <- ptrPointers, on <- ptrOn,
       late <- ptrLate, robbed <- ptrRobbed, touches <- ptrTouches,
       touch_points <- ptrTouch_points, fingers <- ptrFingers

LEMMA DraggingInit == ASSUME Dragging!Init PROVE Dnd!T!Init
BY DEF Dragging!Init, Dragging!Sources, Dragging!Absent, Dragging!Offers, Dragging!NoOffer,
       Dragging!Selections, Dragging!NoDrag, Dragging!Devices, Dragging!NoAction,
       Dragging!NewOffer, Dnd!T!Init, Dnd!T!Sources, Dnd!T!Absent, Dnd!T!Offers,
       Dnd!T!NoOffer, Dnd!T!Selections, Dnd!T!NoDrag, Dnd!T!Devices, Dnd!T!NoAction,
       Dnd!T!NewOffer

LEMMA DraggingSetSelection ==
  ASSUME NEW d, NEW sel, NEW s, Dragging!SetSelection(d, sel, s)
  PROVE  Dnd!T!SetSelection(d, sel, s)
BY DEF Dragging!SetSelection, Dragging!MaySet, Dragging!Room, Dragging!Cancelled,
       Dragging!Claimed, Dragging!Replaced, Dragging!Given, Dragging!Cut, Dragging!From,
       Dragging!Audience, Dragging!Hears, Dragging!owners, Dragging!Hearing, Dragging!Live,
       Dragging!Devices, Dragging!Cardinality, Dragging!Sources, Dragging!Offers,
       Dragging!Slot, Dragging!NewOffer, Dragging!NoOffer, Dragging!Following,
       Dragging!NoAction, Dragging!DevicesOf, Dnd!T!SetSelection, Dnd!T!MaySet, Dnd!T!Room,
       Dnd!T!Cancelled, Dnd!T!Claimed, Dnd!T!Replaced, Dnd!T!Given, Dnd!T!Cut, Dnd!T!From,
       Dnd!T!Audience, Dnd!T!Hears, Dnd!T!owners, Dnd!T!Hearing, Dnd!T!Live, Dnd!T!Devices,
       Dnd!T!Cardinality, Dnd!T!Sources, Dnd!T!Offers, Dnd!T!Slot, Dnd!T!NewOffer,
       Dnd!T!NoOffer, Dnd!T!Following, Dnd!T!NoAction, Dnd!T!DevicesOf

LEMMA DraggingStartDrag ==
  ASSUME NEW d, NEW s, Dragging!StartDrag(d, s) PROVE Dnd!T!StartDrag(d, s)
BY DEF Dragging!StartDrag, Dragging!NoDrag, Dragging!Sources, Dragging!owners,
       Dnd!T!StartDrag, Dnd!T!NoDrag, Dnd!T!Sources, Dnd!T!owners

LEMMA DraggingGetDevice == ASSUME NEW d, Dragging!GetDevice(d) PROVE Dnd!T!GetDevice(d)
BY DEF Dragging!GetDevice, Dragging!Room, Dragging!HandedOut, Dragging!AtOnce,
       Dragging!ToldBoth, Dragging!Devices, Dragging!Cardinality, Dragging!Given,
       Dragging!Hearing, Dragging!Hears, Dragging!Offers, Dragging!Slot, Dragging!NewOffer,
       Dragging!NoAction, Dnd!T!GetDevice, Dnd!T!Room, Dnd!T!HandedOut, Dnd!T!AtOnce,
       Dnd!T!ToldBoth, Dnd!T!Devices, Dnd!T!Cardinality, Dnd!T!Given, Dnd!T!Hearing,
       Dnd!T!Hears, Dnd!T!Offers, Dnd!T!Slot, Dnd!T!NewOffer, Dnd!T!NoAction

LEMMA DraggingReleaseDevice ==
  ASSUME NEW d, Dragging!ReleaseDevice(d) PROVE Dnd!T!ReleaseDevice(d)
BY DEF Dragging!ReleaseDevice, Dragging!Selections, Dnd!T!ReleaseDevice, Dnd!T!Selections

LEMMA DraggingSourceRequest ==
  ASSUME NEW s, Dragging!SourceRequest(s) PROVE Dnd!T!SourceRequest(s)
BY DEF Dragging!SourceRequest, Dragging!CreateSource, Dragging!DestroySource,
       Dragging!SetSourceActions, Dragging!Live, Dragging!NewSource, Dragging!NoAction,
       Dragging!owners, Dragging!Cleared, Dragging!ToldCleared, Dragging!Cut,
       Dragging!From, Dragging!NoDrag, Dragging!Left, Dragging!Absent, Dragging!Resolved,
       Dragging!Offers, Dragging!Heard, Dragging!Selections, Dragging!Devices,
       Dragging!Audience, Dragging!NoOffer, Dragging!DataDevicesOf, Dragging!OfDrag,
       Dragging!Settled, Dragging!Version, Dragging!Sources, Dragging!Following,
       Dragging!Hearing, Dragging!NewOffer, Dragging!DevicesOf, Dragging!Copy,
       Dnd!T!SourceRequest, Dnd!T!CreateSource, Dnd!T!DestroySource,
       Dnd!T!SetSourceActions, Dnd!T!Live, Dnd!T!NewSource, Dnd!T!NoAction, Dnd!T!owners,
       Dnd!T!Cleared, Dnd!T!ToldCleared, Dnd!T!Cut, Dnd!T!From, Dnd!T!NoDrag, Dnd!T!Left,
       Dnd!T!Absent, Dnd!T!Resolved, Dnd!T!Offers, Dnd!T!Heard, Dnd!T!Selections,
       Dnd!T!Devices, Dnd!T!Audience, Dnd!T!NoOffer, Dnd!T!DataDevicesOf, Dnd!T!OfDrag,
       Dnd!T!Settled, Dnd!T!Version, Dnd!T!Sources, Dnd!T!Following, Dnd!T!Hearing,
       Dnd!T!NewOffer, Dnd!T!DevicesOf, Dnd!T!Copy

LEMMA DraggingOfferRequest ==
  ASSUME NEW o, Dragging!OfferRequest(o) PROVE Dnd!T!OfferRequest(o)
BY DEF Dragging!OfferRequest, Dragging!Accept, Dragging!NoAction, Dragging!SetOfferActions,
       Dragging!Finish, Dragging!DestroyOffer, Dragging!Answered, Dragging!NoOffer,
       Dragging!owners, Dragging!OfDrag, Dragging!Resolved, Dragging!Heard,
       Dragging!NewOffer, Dragging!Offers, Dragging!Settled, Dragging!Version,
       Dragging!Sources, Dragging!Devices, Dragging!Copy, Dnd!T!OfferRequest, Dnd!T!Accept,
       Dnd!T!NoAction, Dnd!T!SetOfferActions, Dnd!T!Finish, Dnd!T!DestroyOffer,
       Dnd!T!Answered, Dnd!T!NoOffer, Dnd!T!owners, Dnd!T!OfDrag, Dnd!T!Resolved,
       Dnd!T!Heard, Dnd!T!NewOffer, Dnd!T!Offers, Dnd!T!Settled, Dnd!T!Version,
       Dnd!T!Sources, Dnd!T!Devices, Dnd!T!Copy

LEMMA DraggingDestroySurface ==
  ASSUME NEW c, Dragging!DestroySurface(c) PROVE Dnd!T!DestroySurface(c)
BY DEF Dragging!DestroySurface, Dragging!CancelDrag, Dragging!Cut, Dragging!Left,
       Dragging!NoDrag, Dragging!Cancelled, Dragging!Offers, Dragging!NoOffer,
       Dragging!DataDevicesOf, Dragging!Sources, Dragging!Devices, Dragging!NewOffer,
       Dragging!DevicesOf, Dragging!NoAction, Dnd!T!DestroySurface, Dnd!T!CancelDrag,
       Dnd!T!Cut, Dnd!T!Left, Dnd!T!NoDrag, Dnd!T!Cancelled, Dnd!T!Offers, Dnd!T!NoOffer,
       Dnd!T!DataDevicesOf, Dnd!T!Sources, Dnd!T!Devices, Dnd!T!NewOffer, Dnd!T!DevicesOf,
       Dnd!T!NoAction

LEMMA DraggingDisconnect == ASSUME NEW c, Dragging!Disconnect(c) PROVE Dnd!T!Disconnect(c)
BY ZenonT(30)
   DEF Dragging!Disconnect, Dragging!Following, Dragging!Cleared, Dragging!SourcesOf,
       Dragging!HandedOut, Dragging!ToldBoth, Dragging!Cut, Dragging!From, Dragging!Offers,
       Dragging!NoOffer, Dragging!Devices, Dragging!Selections, Dragging!ToldCleared,
       Dragging!Room, Dragging!DevicesOf, Dragging!Sources, Dragging!Absent,
       Dragging!NoDrag, Dragging!Left, Dragging!Hearing, Dragging!Given, Dragging!Hears,
       Dragging!NewOffer, Dragging!Audience, Dragging!Cardinality, Dragging!DataDevicesOf,
       Dragging!Slot, Dragging!NoAction, Dnd!T!Disconnect, Dnd!T!Following, Dnd!T!Cleared,
       Dnd!T!SourcesOf, Dnd!T!HandedOut, Dnd!T!ToldBoth, Dnd!T!Cut, Dnd!T!From,
       Dnd!T!Offers, Dnd!T!NoOffer, Dnd!T!Devices, Dnd!T!Selections, Dnd!T!ToldCleared,
       Dnd!T!Room, Dnd!T!DevicesOf, Dnd!T!Sources, Dnd!T!Absent, Dnd!T!NoDrag, Dnd!T!Left,
       Dnd!T!Hearing, Dnd!T!Given, Dnd!T!Hears, Dnd!T!NewOffer, Dnd!T!Audience,
       Dnd!T!Cardinality, Dnd!T!DataDevicesOf, Dnd!T!Slot, Dnd!T!NoAction

LEMMA DraggingFocus == ASSUME NEW c, Dragging!Focus(c) PROVE Dnd!T!Focus(c)
BY DEF Dragging!Focus, Dragging!Room, Dragging!HandedOut, Dragging!Following,
       Dragging!ToldBoth, Dragging!owners, Dragging!Devices, Dragging!Cardinality,
       Dragging!Given, Dragging!DevicesOf, Dragging!Hearing, Dragging!Hears,
       Dragging!Offers, Dragging!Slot, Dragging!NewOffer, Dragging!NoAction, Dnd!T!Focus,
       Dnd!T!Room, Dnd!T!HandedOut, Dnd!T!Following, Dnd!T!ToldBoth, Dnd!T!owners,
       Dnd!T!Devices, Dnd!T!Cardinality, Dnd!T!Given, Dnd!T!DevicesOf, Dnd!T!Hearing,
       Dnd!T!Hears, Dnd!T!Offers, Dnd!T!Slot, Dnd!T!NewOffer, Dnd!T!NoAction

LEMMA DraggingMoveDrag == ASSUME NEW t, Dragging!MoveDrag(t) PROVE Dnd!T!MoveDrag(t)
BY DEF Dragging!MoveDrag, Dragging!Cut, Dragging!DataDevicesOf, Dragging!Slot,
       Dragging!Given, Dragging!Room, Dragging!Left, Dragging!Resolved, Dragging!Heard,
       Dragging!owners, Dragging!Offers, Dragging!NoOffer, Dragging!DevicesOf,
       Dragging!NewOffer, Dragging!Devices, Dragging!Cardinality, Dragging!OfDrag,
       Dragging!Settled, Dragging!Version, Dragging!Sources, Dragging!NoAction,
       Dragging!Copy, Dnd!T!MoveDrag, Dnd!T!Cut, Dnd!T!DataDevicesOf, Dnd!T!Slot,
       Dnd!T!Given, Dnd!T!Room, Dnd!T!Left, Dnd!T!Resolved, Dnd!T!Heard, Dnd!T!owners,
       Dnd!T!Offers, Dnd!T!NoOffer, Dnd!T!DevicesOf, Dnd!T!NewOffer, Dnd!T!Devices,
       Dnd!T!Cardinality, Dnd!T!OfDrag, Dnd!T!Settled, Dnd!T!Version, Dnd!T!Sources,
       Dnd!T!NoAction, Dnd!T!Copy

LEMMA DraggingDeviceRequest ==
  ASSUME NEW d, Dragging!DeviceRequest(d) PROVE Dnd!T!DeviceRequest(d)
BY DraggingSetSelection, DraggingStartDrag, DraggingGetDevice, DraggingReleaseDevice
   DEF Dragging!DeviceRequest, Dragging!Sources, Dragging!Selections, Dnd!T!DeviceRequest,
       Dnd!T!Sources, Dnd!T!Selections

LEMMA DraggingRequest == ASSUME Dragging!Request PROVE Dnd!T!Request
BY DraggingSourceRequest, DraggingDeviceRequest, DraggingOfferRequest,
   DraggingDestroySurface, DraggingDisconnect
   DEF Dragging!Request, Dragging!Sources, Dragging!Devices, Dragging!Offers,
       Dragging!CreateSurface, Dnd!T!Request, Dnd!T!Sources, Dnd!T!Devices, Dnd!T!Offers,
       Dnd!T!CreateSurface

LEMMA DraggingUser == ASSUME Dragging!User PROVE Dnd!T!User
BY DraggingFocus, DraggingMoveDrag
   DEF Dragging!User, Dragging!Unfocus, Dragging!ButtonDown, Dragging!ButtonUp,
       Dragging!Escape, Dragging!owners, Dragging!NoDrag, Dragging!Left, Dragging!Dropped,
       Dragging!Offers, Dragging!Cut, Dragging!Cancelled, Dragging!Ended,
       Dragging!CancelDrag, Dragging!DataDevicesOf, Dragging!TargetAccepted,
       Dragging!Devices, Dragging!NoOffer, Dragging!Sources, Dragging!DevicesOf,
       Dragging!NoAction, Dragging!NewOffer, Dnd!T!User, Dnd!T!Unfocus, Dnd!T!ButtonDown,
       Dnd!T!ButtonUp, Dnd!T!Escape, Dnd!T!owners, Dnd!T!NoDrag, Dnd!T!Left, Dnd!T!Dropped,
       Dnd!T!Offers, Dnd!T!Cut, Dnd!T!Cancelled, Dnd!T!Ended, Dnd!T!CancelDrag,
       Dnd!T!DataDevicesOf, Dnd!T!TargetAccepted, Dnd!T!Devices, Dnd!T!NoOffer,
       Dnd!T!Sources, Dnd!T!DevicesOf, Dnd!T!NoAction, Dnd!T!NewOffer

LEMMA DraggingNext == ASSUME Dragging!Next PROVE Dnd!T!Next
BY DraggingRequest, DraggingUser DEF Dragging!Next, Dnd!T!Next

LEMMA DraggingTypeOK == ASSUME Dnd!T!TypeOK PROVE Dragging!TypeOK
BY DEF Dragging!TypeOK, Dragging!Devices, Dragging!Sources, Dragging!Source,
       Dragging!Offers, Dragging!Offer, Dragging!Selections, Dragging!Drag,
       Dragging!NoAction, Dnd!T!TypeOK, Dnd!T!Devices, Dnd!T!Sources, Dnd!T!Source,
       Dnd!T!Offers, Dnd!T!Offer, Dnd!T!Selections, Dnd!T!Drag, Dnd!T!NoAction

LEMMA DraggingOffersAreCurrent ==
  ASSUME Dnd!T!OffersAreCurrent PROVE Dragging!OffersAreCurrent
BY DEF Dragging!OffersAreCurrent, Dragging!Offers, Dragging!Live, Dragging!Selections,
       Dragging!Devices, Dnd!T!OffersAreCurrent, Dnd!T!Offers, Dnd!T!Live,
       Dnd!T!Selections, Dnd!T!Devices

LEMMA DraggingSourceFate == ASSUME Dnd!T!SourceFate PROVE Dragging!SourceFate
BY DEF Dragging!SourceFate, Dragging!Selections, Dragging!Ends, Dragging!Version, Dnd!T!SourceFate,
       Dnd!T!Selections, Dnd!T!Ends, Dnd!T!Version

LEMMA DraggingEntitledKnow == ASSUME Dnd!T!EntitledKnow PROVE Dragging!EntitledKnow
BY DEF Dragging!EntitledKnow, Dragging!Selections, Dragging!Hearing, Dnd!T!EntitledKnow,
       Dnd!T!Selections, Dnd!T!Hearing

LEMMA DraggingSidesAgree == ASSUME Dnd!T!SidesAgree PROVE Dragging!SidesAgree
BY DEF Dragging!SidesAgree, Dragging!Offers, Dragging!OfDrag, Dragging!Settled,
       Dragging!NoAction, Dragging!Version, Dragging!Devices, Dragging!Copy,
       Dnd!T!SidesAgree, Dnd!T!Offers, Dnd!T!OfDrag, Dnd!T!Settled, Dnd!T!NoAction,
       Dnd!T!Version, Dnd!T!Devices, Dnd!T!Copy

LEMMA DraggingNobodyLeftEntered ==
  ASSUME Dnd!T!NobodyLeftEntered PROVE Dragging!NobodyLeftEntered
BY DEF Dragging!NobodyLeftEntered, Dnd!T!NobodyLeftEntered

\* What DraggingStep does is a run of DataTransfer, and the other steps leave it alone.
LEMMA DraggingRun == DesktopSpec => Dnd!T!Spec
<1>1. InitDesktop => Dnd!T!Init
  BY DraggingInit DEF InitDesktop
<1>2. [NextDesktop]_desktop => [Dnd!T!Next]_(Dnd!T!vars)
  <2>1. CASE DraggingStep
    BY <2>1, DraggingNext DEF DraggingStep
  <2>2. CASE UNCHANGED ofDragging
    <3>1. UNCHANGED Dnd!T!vars
      BY <2>2
      DEF ofDragging, Dnd!T!vars, Dnd!T!owners
    <3> QED
      BY <3>1
  <2> QED
    BY <2>1, <2>2
    DEF NextDesktop, SelectingStep, OneWindowStep, TwoWindowsStep, FamiliesStep,
        KeyboardStep, PointerStep, desktop
<1> QED
  BY <1>1, <1>2, PTL DEF DesktopSpec, Dnd!T!Spec

\* What is asked of the constants is the same of both.
LEMMA DraggingAssumed == Dnd!TransferAssumption
BY DesktopAssumption
   DEF Dnd!TransferAssumption, Dragging!OwnersAssumption, Dragging!NamesAssumption,
       Dragging!KindsAssumption, Dragging!ActionsAssumption, Dragging!BoundAssumption,
       Dragging!Sources, Dragging!Devices, Dragging!Copy, Dnd!T!OwnersAssumption,
       Dnd!T!NamesAssumption, Dnd!T!KindsAssumption, Dnd!T!ActionsAssumption,
       Dnd!T!BoundAssumption, Dnd!T!Sources, Dnd!T!Devices, Dnd!T!Copy

\* Dragging is well typed.
LEMMA DraggingTyped == DesktopSpec => []Dragging!TypeOK
<1>1. Dnd!T!Spec => []Dnd!T!TypeOK
  BY DraggingAssumed, Dnd!TransferTyped
<1>2. Dnd!T!TypeOK => Dragging!TypeOK
  BY DraggingTypeOK
<1> QED
  BY <1>1, <1>2, DraggingRun, PTL

\* OffersAreCurrent: an offer reads the selection, the drag over its client or what
\* was dropped on it, and never a source that is gone, for any clients, devices and
\* sources (wl_data_offer, wl_data_device, src/protocol).
THEOREM OffersReadWhatTheySay == DesktopSpec => []OffersAreCurrent
<1>1. Dnd!T!Spec => []Dnd!T!OffersAreCurrent
  BY DraggingAssumed, Dnd!OffersReadWhatTheySay
<1>2. Sel!T!Spec => []Sel!T!OffersAreCurrent
  BY SelectingAssumed, Sel!OffersReadWhatTheySay
<1>3. Dnd!T!OffersAreCurrent /\ Sel!T!OffersAreCurrent => OffersAreCurrent
  BY DraggingOffersAreCurrent, SelectingOffersAreCurrent DEF OffersAreCurrent
<1> QED
  BY <1>1, <1>2, <1>3, DraggingRun, SelectingRun, PTL

\* SourceFate: a source that was selected or dragged hears of the end of that when it
\* comes, and of no other: that it is cancelled, or that it was dropped, of which a
\* source below version 3 hears nothing, in any order of drags and selections.
THEOREM SourcesHearTheirEnd == DesktopSpec => []SourceFate
<1>1. Dnd!T!Spec => []Dnd!T!SourceFate
  BY DraggingAssumed, Dnd!SourcesHearOneEnd
<1>2. Sel!T!Spec => []Sel!T!SourceFate
  BY SelectingAssumed, Sel!SourcesHearOneEnd
<1>3. Dnd!T!SourceFate /\ Sel!T!SourceFate => SourceFate
  BY DraggingSourceFate, SelectingSourceFate DEF SourceFate
<1> QED
  BY <1>1, <1>2, <1>3, DraggingRun, SelectingRun, PTL

\* EntitledKnow: the client with the focus and every manager know both selections,
\* whichever of the focus, the selection and the device came last.
THEOREM TheEntitledAreTold == DesktopSpec => []EntitledKnow
<1>1. Dnd!T!Spec => []Dnd!T!EntitledKnow
  BY DraggingAssumed, Dnd!EntitledAreTold
<1>2. Sel!T!Spec => []Sel!T!EntitledKnow
  BY SelectingAssumed, Sel!EntitledAreTold
<1>3. Dnd!T!EntitledKnow /\ Sel!T!EntitledKnow => EntitledKnow
  BY DraggingEntitledKnow, SelectingEntitledKnow DEF EntitledKnow
<1> QED
  BY <1>1, <1>2, <1>3, DraggingRun, SelectingRun, PTL

\* SidesAgree: both sides of a drag have heard of the action it settled on, through
\* every change of mind, for clients with one data device each: with two, a client may
\* accept a different action on each, and the source hears of every one and keeps the
\* last (wl_data_offer.set_actions).
THEOREM SidesSettle ==
  ASSUME Dnd!OneDataDevice
  PROVE  DesktopSpec => []SidesAgree
<1>1. Dnd!T!Spec => []Dnd!T!SidesAgree
  BY DraggingAssumed, Dnd!SidesSettle
<1>2. Dnd!T!SidesAgree => SidesAgree
  BY DraggingSidesAgree DEF SidesAgree
<1> QED
  BY <1>1, <1>2, DraggingRun, PTL

\* NobodyLeftEntered: however a drag ends or moves, every device that was told that
\* it entered was told that it left.
THEOREM NobodyStaysEntered == DesktopSpec => []NobodyLeftEntered
<1>1. Dnd!T!Spec => []Dnd!T!NobodyLeftEntered
  BY DraggingAssumed, Dnd!NobodyIsLeftEntered
<1>2. Dnd!T!NobodyLeftEntered => NobodyLeftEntered
  BY DraggingNobodyLeftEntered DEF NobodyLeftEntered
<1> QED
  BY <1>1, <1>2, DraggingRun, PTL

-----------------------------------------------------------------------------
(* All of Desktop. *)

\* DesktopTypeOK: every variable of every part of Desktop has its type, whatever the
\* parts do in between.
THEOREM DesktopTyped == DesktopSpec => []DesktopTypeOK
<1>1. Dragging!TypeOK /\ Selecting!TypeOK /\ OneWindow!TypeOK /\ TwoWindows!TypeOK
        /\ Families!TypeOK /\ Keyboard!TypeOK /\ Pointer!TypeOK => DesktopTypeOK
  BY DEF DesktopTypeOK
<1> QED
  BY <1>1, DraggingTyped, SelectingTyped, OneWindowTyped, TwoWindowsTyped, FamiliesTyped,
     KeyboardTyped, PointerTyped, PTL
=============================================================================
