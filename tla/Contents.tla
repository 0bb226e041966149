------------------------------- MODULE Contents -------------------------------
(* What clients give to be shown, and where it may go: the pixels that reach    *)
(* the backend, dma-bufs and shared memory, the configures to answer before     *)
(* anything is shown, popups and panels.  The parts run side by side: a step is *)
(* a step of one of them, in any order, and no part writes what another reads.  *)
EXTENDS Integers

CONSTANTS
  None,
  \* DamageUpload, the window on every output
  Outputs, BufferIds, Cells, MaxCommits, MaxBuffers,
  \* BufferImports
  Params, Ids, MAX_DMABUF_PLANES, MAX_LIVE_PARAMS, QueueSize, MaxServerIds, MaxImports, MaxSerial,
  \* ShmPools
  PoolIds, MaxSize, MaxPools,
  \* Configures
  XdgSurfaces, MAX_PENDING_CONFIGURES,
  \* Popups
  Menus, Root, Positioners, OutputWidth, MaxWindowX, MaxWidth,
  \* LayerPanels
  PanelIds, PanelOutputs, Areas, Requests, MaxUnanswered

VARIABLES
  \* DamageUpload
  pixLive, pixMemory, pixSerial, pixDamage, pixKnown, pixNextSerial, pixAttached,
  pixPicture, pixCommits, pixMade, pixStale, pixCache, pixPublished, pixDrawn,
  pixTexture,
  \* BufferImports
  impClient, impParams, impNamed, impBuffers, impNextSerial, impNextToken, impPending,
  impRequests, impAnswers, impNextServer, impAsked, impTold, impVerdict, impAbandoned,
  \* ShmPools
  shmPools, shmBuffers, shmGuards, shmDamaged, shmFile, shmOpen, shmMade, shmTwice,
  shmConnected,
  \* Configures
  confWrapped, confRole, confConfigured, confPending, confHighest, confNext,
  confParented, confContent, confFatal, confSent, confAnswered, confAstray,
  \* Popups
  popPopups, popParent, popNamed, popPositioner, popTold, popGiven, popWidth,
  popWindowX, popGrabbed, popDone,
  \* LayerPanels
  layOutputs, layOutput, layPending, layCurrent, layPosition, layTold, layUnanswered,
  layConfigured, layUnsettled

Pixels == INSTANCE DamageUpload
  WITH NoBuffer <- None, NoImage <- None, ShownOn <- Outputs,
       live <- pixLive, memory <- pixMemory, serial <- pixSerial, damage <- pixDamage,
       known <- pixKnown, nextSerial <- pixNextSerial, attached <- pixAttached,
       picture <- pixPicture, commits <- pixCommits, made <- pixMade,
       stale <- pixStale, cache <- pixCache, published <- pixPublished,
       drawn <- pixDrawn, texture <- pixTexture

Imports == INSTANCE BufferImports
  WITH client <- impClient, params <- impParams, named <- impNamed,
       buffers <- impBuffers, nextSerial <- impNextSerial, nextToken <- impNextToken,
       pending <- impPending, requests <- impRequests, answers <- impAnswers,
       nextServer <- impNextServer, asked <- impAsked, told <- impTold,
       verdict <- impVerdict, abandoned <- impAbandoned

Pools == INSTANCE ShmPools
  WITH pools <- shmPools, buffers <- shmBuffers, guards <- shmGuards,
       damaged <- shmDamaged, file <- shmFile, open <- shmOpen, made <- shmMade,
       twice <- shmTwice, connected <- shmConnected

Configures == INSTANCE Configures
  WITH wrapped <- confWrapped, role <- confRole, configured <- confConfigured,
       pending <- confPending, highest <- confHighest, next <- confNext,
       parented <- confParented, content <- confContent, fatal <- confFatal,
       sent <- confSent, answered <- confAnswered, astray <- confAstray

ThePopups == INSTANCE Popups
  WITH Popups <- Menus, popups <- popPopups, parent <- popParent, named <- popNamed,
       positioner <- popPositioner, told <- popTold, given <- popGiven,
       width <- popWidth, windowX <- popWindowX, grabbed <- popGrabbed, done <- popDone

ThePanels == INSTANCE LayerPanels
  WITH Panels <- PanelIds, Outputs <- PanelOutputs, outputs <- layOutputs,
       output <- layOutput, pending <- layPending, current <- layCurrent,
       position <- layPosition, told <- layTold, unanswered <- layUnanswered,
       configured <- layConfigured, unsettled <- layUnsettled

\* What the constants have to be.
ASSUME ContentsAssumption ==
  /\ Pixels!NamesAssumption /\ Pixels!BoundsAssumption /\ Pixels!ShownOnAssumption
  /\ Imports!ImportsAssumption
  /\ Pools!PoolsAssumption
  /\ Configures!ConfiguresAssumption
  /\ ThePopups!PopupsAssumption
  /\ ThePanels!PanelsAssumption

ofPixels ==
  <<pixLive, pixMemory, pixSerial, pixDamage, pixKnown, pixNextSerial, pixAttached,
    pixPicture, pixCommits, pixMade, pixStale, pixCache, pixPublished, pixDrawn,
    pixTexture>>
ofImports ==
  <<impClient, impParams, impNamed, impBuffers, impNextSerial, impNextToken, impPending,
    impRequests, impAnswers, impNextServer, impAsked, impTold, impVerdict, impAbandoned>>
ofPools ==
  <<shmPools, shmBuffers, shmGuards, shmDamaged, shmFile, shmOpen, shmMade, shmTwice,
    shmConnected>>
ofConfigures ==
  <<confWrapped, confRole, confConfigured, confPending, confHighest, confNext,
    confParented, confContent, confFatal, confSent, confAnswered, confAstray>>
ofPopups ==
  <<popPopups, popParent, popNamed, popPositioner, popTold, popGiven, popWidth,
    popWindowX, popGrabbed, popDone>>
ofPanels ==
  <<layOutputs, layOutput, layPending, layCurrent, layPosition, layTold, layUnanswered,
    layConfigured, layUnsettled>>

contents == <<ofPixels, ofImports, ofPools, ofConfigures, ofPopups, ofPanels>>

InitContents ==
  /\ Pixels!Init /\ Imports!Init /\ Pools!Init
  /\ Configures!Init /\ ThePopups!Init /\ ThePanels!Init

PixelsStep ==
  UNCHANGED <<ofImports, ofPools, ofConfigures, ofPopups, ofPanels>> /\ Pixels!Next
ImportsStep ==
  UNCHANGED <<ofPixels, ofPools, ofConfigures, ofPopups, ofPanels>> /\ Imports!Next
PoolsStep ==
  UNCHANGED <<ofPixels, ofImports, ofConfigures, ofPopups, ofPanels>> /\ Pools!Next
ConfiguresStep ==
  UNCHANGED <<ofPixels, ofImports, ofPools, ofPopups, ofPanels>> /\ Configures!Next
PopupsStep ==
  UNCHANGED <<ofPixels, ofImports, ofPools, ofConfigures, ofPanels>> /\ ThePopups!Next
PanelsStep ==
  UNCHANGED <<ofPixels, ofImports, ofPools, ofConfigures, ofPopups>> /\ ThePanels!Next

NextContents ==
  \/ PixelsStep \/ ImportsStep \/ PoolsStep \/ ConfiguresStep \/ PopupsStep \/ PanelsStep

ContentsSpec == InitContents /\ [][NextContents]_contents

-----------------------------------------------------------------------------
\* Every part is well typed.
ContentsTypeOK ==
  /\ Pixels!TypeOK /\ Imports!TypeOK /\ Pools!TypeOK
  /\ Configures!TypeOK /\ ThePopups!TypeOK /\ ThePanels!TypeOK

\* DamageUpload: a texture of a buffer's serial holds what the buffer holds.
TextureIsTheBuffer == Pixels!TextureIsTheBuffer

\* BufferImports: a params object is answered once.
AnsweredOnce == Imports!AnsweredOnce

\* BufferImports: a verdict is about the buffer it was asked for.
VerdictsFindTheirBuffer == Imports!VerdictsFindTheirBuffer

\* ShmPools: a buffer that can be drawn is drawn from the memory it was made of.
ReadsItsOwnMemory == Pools!ReadsItsOwnMemory

\* ShmPools: no descriptor is closed twice, and none is left open for nothing.
NoneLeaksNoneTwice == Pools!NoneLeaksNoneTwice

\* Configures: a client that keeps the rules is not disconnected.
HonestIsSafe == Configures!HonestIsSafe

\* Popups: each is where its positioner lets it be.
PlacedAsAllowed == ThePopups!PlacedAsAllowed

\* Popups: grabbed popups close from the top.
ClosedFromTheTop == ThePopups!ClosedFromTheTop

\* LayerPanels: a panel was told the size it has.
PanelsKnowTheirPlace == ThePanels!PanelsKnowTheirPlace

\* LayerPanels: nothing reaches into what a panel reserves.
ReservedIsClear == ThePanels!ReservedIsClear
=============================================================================
