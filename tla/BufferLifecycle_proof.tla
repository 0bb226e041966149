----------------------- MODULE BufferLifecycle_proof -----------------------
(***************************************************************************)
(* Proofs about BufferLifecycle, for any surfaces, ids and number of       *)
(* buffers.                                                                *)
(*                                                                         *)
(* Ids are reused whenever the client likes.  A buffer made under an id    *)
(* that a surface, a cache or the queue still had from an older one is     *)
(* `inherited'; of any other a release is about the buffer that is owed,   *)
(* because an id in a queue names the buffer it named when it was retired  *)
(* (QueuedIsBusy), and nothing waits in a cache to show it again           *)
(* (CachedOnce).  The last needs a client that does not hand over, through *)
(* a cache, a buffer it has handed over already (~ SharesCached).  What    *)
(* the scenes read is below the next number (NumbersAreOld), so a new      *)
(* buffer is read by none.                                                 *)
(***************************************************************************)
EXTENDS BufferLifecycle, TLAPS

\* Ids name different buffers, and what is read or handed over has been made.
NumbersAreOld ==
  /\ \A b \in DOMAIN buffers : buffers[b] \in 1 .. made
  /\ \A b, c \in DOMAIN buffers : buffers[b] = buffers[c] => b = c
  /\ Range(scene) \cup Range(retained) \cup drawing \cup busy \cup inherited \subseteq 1 .. made

\* The ids of which nothing was left over when the buffers they name were made.
Fresh == {b \in DOMAIN buffers : buffers[b] \notin inherited}

\* A release that is owed is of a buffer that was handed over.
QueuedIsBusy ==
  \A b \in Fresh : b \in toRelease \cup releasing => buffers[b] \in busy

\* A buffer that waits in a cache was handed over by that commit alone.
CachedOnce ==
  \A s \in alive : cached[s] \in Fresh =>
    /\ buffers[cached[s]] \in busy
    /\ cached[s] \notin toRelease \cup releasing
    /\ \A x \in alive : attached[x] # cached[s]
    /\ \A x \in alive \ {s} : cached[x] # cached[s]

\* The inductive invariant but for the types.
Owing ==
  /\ NumbersAreOld
  /\ QueuedIsBusy
  /\ CachedOnce
  /\ ReleasedIsFree

\* What has been composed and not emptied since can be fallen back to.
ComposedIsRetained ==
  \A s \in composed : s \in alive /\ attached[s] # NoBuffer /\ s \in DOMAIN retained

-----------------------------------------------------------------------------
(* Type correctness.                                                       *)

LEMMA InitTypes == Init => TypeOK
<1> SUFFICES ASSUME Init PROVE TypeOK
  OBVIOUS
<1>1. << >> \in [DOMAIN << >> -> Buffer] /\ DOMAIN << >> = {}
  OBVIOUS
<1>2. 0 \in 0 .. MaxBuffers
  BY BuffersAssumption
<1>3. QED BY <1>1, <1>2 DEF Init, TypeOK, AttachedBuffer, Change

LEMMA CreateBufferTypes ==
  ASSUME TypeOK, NEW b \in BufferIds, CreateBuffer(b)
  PROVE  TypeOK'
<1>1. made + 1 \in Buffer /\ made' \in 0 .. MaxBuffers
  BY BuffersAssumption DEF CreateBuffer, TypeOK, Buffer
<1>2. /\ DOMAIN buffers' = DOMAIN buffers \cup {b}
      /\ \A x \in DOMAIN buffers' : buffers'[x] \in Buffer
      /\ buffers' = [x \in DOMAIN buffers' |-> buffers'[x]]
  BY <1>1 DEF CreateBuffer, TypeOK
<1>3. DOMAIN buffers' \subseteq BufferIds /\ buffers' \in [DOMAIN buffers' -> Buffer]
  BY <1>2 DEF TypeOK
<1>4. QED BY <1>1, <1>3 DEF CreateBuffer, TypeOK, tree, images

LEMMA DestroyBufferTypes ==
  ASSUME TypeOK, NEW b \in BufferIds, DestroyBuffer(b)
  PROVE  TypeOK'
<1>1. buffers' = [x \in DOMAIN buffers \ {b} |-> buffers[x]]
  BY DEF DestroyBuffer, Restrict
<1>2. DOMAIN buffers' \subseteq BufferIds /\ buffers' \in [DOMAIN buffers' -> Buffer]
  BY <1>1 DEF TypeOK
<1>3. QED BY <1>2 DEF DestroyBuffer, TypeOK, tree, images

\* The contents of a surface after a window's commit.
After(s) ==
  [x \in Surfaces |-> CASE x = s -> Applied(s, pending[s])
                        [] x \in {c \in alive \cap Subsurfaces : ParentOf[c] = s} ->
                             Applied(x, cached[x])
                        [] OTHER -> attached[x]]

LEMMA AfterType ==
  ASSUME TypeOK, NEW s \in Surfaces
  PROVE  After(s) \in [Surfaces -> AttachedBuffer]
<1>1. ASSUME NEW x \in Surfaces, NEW change \in Change
      PROVE  Applied(x, change) \in AttachedBuffer
  BY DEF Applied, TypeOK, Change
<1>2. ASSUME NEW x \in Surfaces
      PROVE  After(s)[x] \in AttachedBuffer
  BY <1>1 DEF After, TypeOK
<1>3. QED BY <1>2 DEF After

LEMMA CommitTypes ==
  ASSUME TypeOK, NEW s \in Surfaces, Commit(s)
  PROVE  TypeOK'
<1>1. UNCHANGED <<buffers, alive, releasing, visible, scene, retained, drawing, made, inherited>>
      /\ pending' \in [Surfaces -> Change]
  BY DEF Commit, images, TypeOK, Change
<1>2. busy' \subseteq Buffer
  BY DEF Commit, Busied, BuffersIn, TypeOK
<1>3. CASE s \in Windows /\ ApplyCommit(s)
  <2>1. /\ attached' = After(s)
        /\ toRelease' = toRelease \cup Retired(After(s))
        /\ replaced' = Replacements(After(s))
        /\ composed' \subseteq composed /\ stale' = TRUE
    BY <1>3 DEF ApplyCommit, After
  <2>2. cached' \in [Surfaces -> Change]
    BY <1>3 DEF ApplyCommit, TypeOK, Change
  <2>3. toRelease' \subseteq BufferIds
    BY <2>1 DEF Retired, TypeOK, AttachedBuffer
  <2>4. replaced' \subseteq Buffer
    BY <2>1 DEF Replacements, BuffersIn, TypeOK
  <2>5. attached' \in [Surfaces -> AttachedBuffer]
    BY <2>1, AfterType
  <2>6. QED BY <1>1, <1>2, <2>1, <2>2, <2>3, <2>4, <2>5 DEF TypeOK
<1>4. CASE /\ s \in Subsurfaces
           /\ cached' = [cached EXCEPT ![s] = Merge(@, pending[s])]
           /\ UNCHANGED <<attached, toRelease, replaced, composed, stale>>
  <2>1. Merge(cached[s], pending[s]) \in Change
    BY DEF Merge, TypeOK
  <2>2. cached' \in [Surfaces -> Change]
    BY <1>4, <2>1 DEF TypeOK
  <2>3. QED BY <1>1, <1>2, <1>4, <2>2 DEF TypeOK
<1>5. QED BY <1>3, <1>4 DEF Commit

LEMMA ComposeTypes ==
  ASSUME TypeOK, Compose
  PROVE  TypeOK'
<1> DEFINE live == {s \in Walked : attached[s] \in DOMAIN buffers}
           fallback == (Walked \ live) \cap KeptByGc
<1>1. live \subseteq Surfaces /\ fallback \subseteq Surfaces /\ KeptByGc \subseteq Surfaces
      /\ KeptByGc \subseteq DOMAIN retained
  BY DEF Walked, KeptByGc, TypeOK
<1>2. \A s \in live : buffers[attached[s]] \in Buffer
  BY DEF TypeOK
<1>3. \A s \in KeptByGc : retained[s] \in Buffer
  BY <1>1 DEF TypeOK
<1>4. scene' = [s \in live \cup fallback |->
                  IF s \in live THEN buffers[attached[s]] ELSE retained[s]]
      /\ retained' = [s \in KeptByGc \cup live |->
                       IF s \in live THEN buffers[attached[s]] ELSE retained[s]]
      /\ composed' = composed \cup live
  BY DEF Compose
<1>5. fallback \subseteq KeptByGc
  OBVIOUS
<1> HIDE DEF live, fallback
<1>6. DOMAIN scene' \subseteq Surfaces /\ scene' \in [DOMAIN scene' -> Buffer]
  BY <1>1, <1>2, <1>3, <1>4, <1>5
<1>7. DOMAIN retained' \subseteq Surfaces /\ retained' \in [DOMAIN retained' -> Buffer]
  BY <1>1, <1>2, <1>3, <1>4
<1>8. composed' \subseteq Surfaces
  BY <1>1, <1>4 DEF TypeOK
<1>9. QED BY <1>6, <1>7, <1>8 DEF Compose, TypeOK, tree, queues, client

LEMMA HousekeepingTypes ==
  ASSUME TypeOK, Housekeeping
  PROVE  TypeOK'
<1>1. retained' = [s \in KeptByGc |-> retained[s]]
  BY DEF Housekeeping, Restrict
<1>2. KeptByGc \subseteq DOMAIN retained
  BY DEF KeptByGc
<1>3. DOMAIN retained' \subseteq Surfaces /\ retained' \in [DOMAIN retained' -> Buffer]
  BY <1>1, <1>2 DEF TypeOK
<1>4. releasing' \subseteq BufferIds
  BY DEF Housekeeping, StillOwed, Started, TypeOK
<1>5. QED BY <1>3, <1>4 DEF Housekeeping, TypeOK, tree

LEMMA StepTypes == TypeOK /\ [Next]_vars => TypeOK'
<1> SUFFICES ASSUME TypeOK, [Next]_vars PROVE TypeOK'
  OBVIOUS
<1>1. ASSUME NEW b \in BufferIds, CreateBuffer(b) \/ DestroyBuffer(b) PROVE TypeOK'
  BY <1>1, CreateBufferTypes, DestroyBufferTypes
<1>2. ASSUME NEW s \in Surfaces, NEW b \in AttachedBuffer, Attach(s, b) PROVE TypeOK'
  BY <1>2 DEF Attach, TypeOK, Change, queues, images, client
<1>3. ASSUME NEW s \in Surfaces, Commit(s) PROVE TypeOK'
  BY <1>3, CommitTypes
<1>4. ASSUME NEW s \in Surfaces, DestroySurface(s) PROVE TypeOK'
  BY <1>4 DEF DestroySurface, TypeOK, AttachedBuffer, Change, queues, images, client
<1>5. CASE Compose
  BY <1>5, ComposeTypes
<1>6. CASE Switch
  BY <1>6 DEF Switch, TypeOK, tree, queues, images, client
<1>7. CASE Take
  BY <1>7 DEF Take, TypeOK, Range, tree, queues, client
<1>8. CASE LetGo
  BY <1>8 DEF LetGo, TypeOK, tree, queues, client
<1>9. CASE Housekeeping
  BY <1>9, HousekeepingTypes
<1>10. CASE UNCHANGED vars
  BY <1>10 DEF vars, TypeOK, tree, queues, images, client
<1>11. QED
  BY <1>1, <1>2, <1>3, <1>4, <1>5, <1>6, <1>7, <1>8, <1>9, <1>10 DEF Next, Request

\* Every value stays of its type: ids where ids belong, buffers where a buffer
\* is read, and a queue never holds a null attach.
THEOREM TypeCorrect == Spec => []TypeOK
BY InitTypes, StepTypes, PTL DEF Spec

-----------------------------------------------------------------------------
(* What is owed, shown and read.                                           *)

\* Steps of the shell, of the pointer and of the backend that reach no buffer.
LEMMA NothingOwing ==
  ASSUME Owing,
         UNCHANGED <<buffers, alive, attached, cached, toRelease, releasing, scene, retained,
                     made, inherited, busy>>,
         drawing' \in {drawing, {}, Range(scene)}
  PROVE  Owing'
<1>1. NumbersAreOld' /\ QueuedIsBusy' /\ CachedOnce'
  BY DEF Owing, NumbersAreOld, Fresh, QueuedIsBusy, CachedOnce
<1>2. ReleasedIsFree'
  <2>1. \A buffer : BeingRead(buffer)' => BeingRead(buffer)
    BY DEF BeingRead
  <2> HIDE DEF BeingRead
  <2>2. QED BY <2>1 DEF Owing, ReleasedIsFree
<1>3. QED BY <1>1, <1>2 DEF Owing

LEMMA CreateBufferOwing ==
  ASSUME TypeOK, Owing, ~ SharesCached, NEW b \in BufferIds, CreateBuffer(b)
  PROVE  Owing'
<1>1. /\ b \notin DOMAIN buffers /\ made \in Nat /\ made' = made + 1
      /\ UNCHANGED <<alive, attached, cached, toRelease, scene, retained, drawing, busy>>
      /\ releasing' = releasing \ {b}
      /\ inherited' = inherited \cup {n \in {made + 1} : StillNamed(b)}
  BY DEF CreateBuffer, TypeOK, tree, images
<1>2. /\ DOMAIN buffers' = DOMAIN buffers \cup {b}
      /\ buffers'[b] = made + 1
      /\ \A c \in DOMAIN buffers : buffers'[c] = buffers[c]
  BY <1>1 DEF CreateBuffer
<1>3. /\ Fresh' \subseteq Fresh \cup {b}
      /\ b \in Fresh' => ~ StillNamed(b)
  BY <1>1, <1>2 DEF Fresh
<1>4. b \in Fresh' => /\ \A s \in alive : attached[s] # b /\ cached[s] # b
                     /\ b \notin toRelease
  BY <1>3 DEF StillNamed
<1>5. NumbersAreOld'
  <2>1. \A c \in DOMAIN buffers' : buffers'[c] \in 1 .. made'
    BY <1>1, <1>2 DEF Owing, NumbersAreOld
  <2>2. \A c \in DOMAIN buffers : buffers[c] # made + 1
    BY <1>1 DEF Owing, NumbersAreOld
  <2>3. \A c, d \in DOMAIN buffers' : buffers'[c] = buffers'[d] => c = d
    BY <1>1, <1>2, <2>2 DEF Owing, NumbersAreOld
  <2>4. 1 .. made \subseteq 1 .. made'
    BY <1>1
  <2>5. (Range(scene) \cup Range(retained) \cup drawing \cup busy \cup inherited
           \subseteq 1 .. made)'
    BY <1>1, <2>4 DEF Owing, NumbersAreOld
  <2>6. QED BY <2>1, <2>3, <2>5 DEF NumbersAreOld
<1>6. QueuedIsBusy'
  BY <1>1, <1>2, <1>3, <1>4 DEF Owing, Fresh, QueuedIsBusy
<1>7. CachedOnce'
  BY <1>1, <1>2, <1>3, <1>4 DEF Owing, Fresh, CachedOnce
<1>8. ReleasedIsFree'
  <2>1. \A buffer : BeingRead(buffer)' <=> BeingRead(buffer)
    BY <1>1 DEF BeingRead
  <2>2. ~ BeingRead(made + 1)
    BY <1>1 DEF BeingRead, Owing, NumbersAreOld
  <2> HIDE DEF BeingRead
  <2>3. ASSUME NEW c \in Fresh', buffers'[c] \notin busy
        PROVE  ~ BeingRead(buffers'[c]) /\ ~ \E s \in alive : attached[s] = c
    <3>1. CASE c = b
      BY <1>2, <1>4, <2>2, <2>3, <3>1
    <3>2. CASE c # b
      BY <1>1, <1>2, <1>3, <2>3, <3>2 DEF Owing, ReleasedIsFree, Fresh
    <3>3. QED BY <3>1, <3>2
  <2>4. QED BY <1>1, <2>1, <2>3 DEF ReleasedIsFree, Fresh
<1>9. QED BY <1>5, <1>6, <1>7, <1>8 DEF Owing

LEMMA DestroyBufferOwing ==
  ASSUME TypeOK, Owing, NEW b \in BufferIds, DestroyBuffer(b)
  PROVE  Owing'
<1>1. /\ b \in DOMAIN buffers
      /\ UNCHANGED <<alive, attached, cached, scene, retained, drawing, made>>
      /\ releasing' = releasing \ {b} /\ toRelease' = toRelease \ {b}
      /\ busy' = busy \ {buffers[b]} /\ inherited' = inherited \ {buffers[b]}
  BY DEF DestroyBuffer, tree, images
<1>2. /\ DOMAIN buffers' = DOMAIN buffers \ {b}
      /\ \A c \in DOMAIN buffers' : buffers'[c] = buffers[c] /\ buffers[c] # buffers[b]
  BY <1>1 DEF DestroyBuffer, Restrict, Owing, NumbersAreOld
<1>3. NumbersAreOld'
  BY <1>1, <1>2 DEF Owing, NumbersAreOld
<1>4. QueuedIsBusy'
  BY <1>1, <1>2 DEF Owing, Fresh, QueuedIsBusy
<1>5. CachedOnce'
  BY <1>1, <1>2 DEF Owing, Fresh, CachedOnce
<1>6. ReleasedIsFree'
  <2>1. \A buffer : BeingRead(buffer)' <=> BeingRead(buffer)
    BY <1>1 DEF BeingRead
  <2> HIDE DEF BeingRead
  <2>2. QED BY <1>1, <1>2, <2>1 DEF Owing, ReleasedIsFree
<1>7. QED BY <1>3, <1>4, <1>5, <1>6 DEF Owing

LEMMA DestroySurfaceOwing ==
  ASSUME TypeOK, Owing, NEW s \in Surfaces, DestroySurface(s)
  PROVE  Owing'
<1>1. /\ alive' = alive \ {s}
      /\ \A x \in alive' : attached'[x] = attached[x] /\ cached'[x] = cached[x]
      /\ UNCHANGED <<buffers, toRelease, releasing, scene, retained, drawing, made, inherited,
                     busy>>
  BY DEF DestroySurface, TypeOK, queues, images, client
<1>2. NumbersAreOld' /\ QueuedIsBusy'
  BY <1>1 DEF Owing, NumbersAreOld, Fresh, QueuedIsBusy
<1>3. CachedOnce'
  BY <1>1 DEF Owing, Fresh, CachedOnce
<1>4. ReleasedIsFree'
  <2>1. \A buffer : BeingRead(buffer)' <=> BeingRead(buffer)
    BY <1>1 DEF BeingRead
  <2> HIDE DEF BeingRead
  <2>2. QED BY <1>1, <2>1 DEF Owing, ReleasedIsFree
<1>5. QED BY <1>2, <1>3, <1>4 DEF Owing

\* What a commit hands over, if it is a live buffer, was not handed over already.
LEMMA Unshared ==
  ASSUME TypeOK, ~ SharesCached, NEW s \in Surfaces, Commit(s), pending[s] \in DOMAIN buffers,
         buffers[pending[s]] \in busy
  PROVE  s \in Windows /\ pending[s] \notin {cached[x] : x \in alive}
<1>1. ~ Shared(s)
  BY DEF Commit
<1>2. buffers[pending[s]] \in BuffersIn({pending[s]})
  BY DEF BuffersIn
<1>3. QED BY <1>1, <1>2 DEF Shared, Surfaces

LEMMA BusiedGrows ==
  ASSUME NEW b, busy' = Busied(b)
  PROVE  /\ busy \subseteq busy'
         /\ b \in DOMAIN buffers => buffers[b] \in busy'
         /\ \A n \in busy' : n \in busy \/ (b \in DOMAIN buffers /\ n = buffers[b])
BY DEF Busied, BuffersIn

LEMMA CacheOwing ==
  ASSUME TypeOK, Owing, ~ SharesCached, NEW s \in Subsurfaces, Commit(s),
         cached' = [cached EXCEPT ![s] = Merge(@, pending[s])],
         UNCHANGED <<attached, toRelease, replaced, composed, stale>>
  PROVE  Owing'
<1>1. /\ s \in alive /\ busy' = Busied(pending[s])
      /\ UNCHANGED <<buffers, alive, attached, toRelease, releasing, scene, retained, drawing,
                     made, inherited>>
      /\ Fresh' = Fresh /\ Fresh \subseteq DOMAIN buffers
  BY DEF Commit, images, Fresh
<1>2. s \in Surfaces /\ s \notin Windows
  BY SurfacesAssumption DEF Surfaces
<1>3. /\ cached'[s] = IF pending[s] = Unchanged THEN cached[s] ELSE pending[s]
      /\ \A x \in alive : x # s => cached'[x] = cached[x]
  BY <1>2 DEF TypeOK, Merge
<1>4. /\ busy \subseteq busy'
      /\ pending[s] \in DOMAIN buffers => buffers[pending[s]] \in busy'
      /\ \A n \in busy' :
           n \in busy \/ (pending[s] \in DOMAIN buffers /\ n = buffers[pending[s]])
  BY <1>1, BusiedGrows
<1>5. pending[s] \in DOMAIN buffers => buffers[pending[s]] \notin busy
  BY <1>2, Unshared
<1>6. NumbersAreOld'
  BY <1>1, <1>4 DEF Owing, NumbersAreOld
<1>7. QueuedIsBusy'
  BY <1>1, <1>4 DEF Owing, QueuedIsBusy
<1>8. ReleasedIsFree'
  <2>1. \A buffer : BeingRead(buffer)' <=> BeingRead(buffer)
    BY <1>1 DEF BeingRead
  <2> HIDE DEF BeingRead
  <2>2. QED BY <1>1, <1>4, <2>1 DEF Owing, ReleasedIsFree
<1>9. CachedOnce'
  <2>1. ASSUME pending[s] \in Fresh
        PROVE  /\ pending[s] \notin toRelease \cup releasing
               /\ \A x \in alive : attached[x] # pending[s] /\ cached[x] # pending[s]
    BY <1>1, <1>5, <2>1 DEF Owing, QueuedIsBusy, ReleasedIsFree, CachedOnce, Fresh
  <2>2. ASSUME NEW x \in alive, cached'[x] \in Fresh
        PROVE  /\ buffers[cached'[x]] \in busy'
               /\ cached'[x] \notin toRelease \cup releasing
               /\ \A y \in alive : attached[y] # cached'[x]
               /\ \A y \in alive \ {x} : cached'[y] # cached'[x]
    <3>1. CASE x = s /\ pending[s] # Unchanged
      BY <1>1, <1>3, <1>4, <2>1, <2>2, <3>1
    <3>2. CASE x # s \/ pending[s] = Unchanged
      BY <1>1, <1>3, <1>4, <2>1, <2>2, <3>2 DEF Owing, CachedOnce
    <3>3. QED BY <3>1, <3>2
  <2>3. QED BY <1>1, <2>2 DEF CachedOnce
<1>10. QED BY <1>6, <1>7, <1>8, <1>9 DEF Owing

\* What After(s) gives each surface.
LEMMA AfterGives ==
  ASSUME TypeOK, NEW s \in Windows, s \in alive, NEW x \in alive
  PROVE  \/ After(s)[x] = attached[x]
         \/ x = s /\ After(s)[x] = pending[s]
         \/ /\ x \in Subsurfaces /\ ParentOf[x] = s
            /\ After(s)[x] = cached[x] /\ cached[x] # Unchanged
<1>1. x \in Surfaces
  BY DEF TypeOK
<1>2. CASE x = s
  BY <1>1, <1>2 DEF After, Applied
<1>3. CASE x # s /\ x \in Subsurfaces /\ ParentOf[x] = s
  BY <1>1, <1>3 DEF After, Applied
<1>4. CASE x # s /\ ~ (x \in Subsurfaces /\ ParentOf[x] = s)
  BY <1>1, <1>4 DEF After
<1>5. QED BY <1>2, <1>3, <1>4

LEMMA ApplyOwing ==
  ASSUME TypeOK, Owing, ~ SharesCached, NEW s \in Windows, Commit(s), ApplyCommit(s)
  PROVE  Owing'
<1>1. /\ s \in alive /\ s \in Surfaces /\ busy' = Busied(pending[s])
      /\ UNCHANGED <<buffers, alive, releasing, scene, retained, drawing, made, inherited>>
      /\ attached' = After(s) /\ toRelease' = toRelease \cup Retired(After(s))
      /\ Fresh' = Fresh
  BY DEF Commit, ApplyCommit, After, images, Surfaces, Fresh
<1>2. /\ busy \subseteq busy'
      /\ pending[s] \in DOMAIN buffers => buffers[pending[s]] \in busy'
      /\ \A n \in busy' :
           n \in busy \/ (pending[s] \in DOMAIN buffers /\ n = buffers[pending[s]])
  BY <1>1, BusiedGrows
<1>3. ASSUME NEW x \in alive
      PROVE  \/ attached'[x] = attached[x]
             \/ x = s /\ attached'[x] = pending[s]
             \/ /\ x \in Subsurfaces /\ ParentOf[x] = s
                /\ attached'[x] = cached[x]
  BY <1>1, AfterGives
<1>4. ASSUME NEW x \in alive
      PROVE  IF x \in Subsurfaces /\ ParentOf[x] = s
               THEN cached'[x] = Unchanged ELSE cached'[x] = cached[x]
  BY DEF ApplyCommit, TypeOK
<1>5. \A b \in Retired(After(s)) : \E x \in alive : attached[x] = b
  BY DEF Retired
<1>6. Fresh \subseteq DOMAIN buffers /\ Unchanged \notin Fresh
  BY BuffersAssumption DEF TypeOK, Fresh
<1>7. ASSUME pending[s] \in Fresh, NEW x \in alive
      PROVE  cached[x] # pending[s]
  <2>1. CASE buffers[pending[s]] \in busy
    BY <1>1, <1>6, <1>7, <2>1, Unshared
  <2>2. CASE buffers[pending[s]] \notin busy
    BY <1>7, <2>2 DEF Owing, CachedOnce
  <2>3. QED BY <2>1, <2>2
<1>8. NumbersAreOld'
  BY <1>1, <1>2 DEF Owing, NumbersAreOld
<1>9. QueuedIsBusy'
  BY <1>1, <1>2, <1>5 DEF Owing, QueuedIsBusy, ReleasedIsFree, Fresh
<1>10. ReleasedIsFree'
  <2>1. \A buffer : BeingRead(buffer)' <=> BeingRead(buffer)
    BY <1>1 DEF BeingRead
  <2>2. ASSUME NEW b \in Fresh, NEW x \in alive, attached'[x] = b
        PROVE  buffers[b] \in busy'
    <3>1. CASE attached'[x] = attached[x]
      BY <1>2, <2>2, <3>1 DEF Owing, ReleasedIsFree, Fresh
    <3>2. CASE x = s /\ attached'[x] = pending[s]
      BY <1>2, <1>6, <2>2, <3>2
    <3>3. CASE attached'[x] = cached[x]
      BY <1>2, <2>2, <3>3 DEF Owing, CachedOnce
    <3>4. QED BY <1>3, <3>1, <3>2, <3>3
  <2> HIDE DEF BeingRead
  <2>3. QED BY <1>1, <1>2, <2>1, <2>2 DEF Owing, ReleasedIsFree, Fresh
<1>11. CachedOnce'
  <2>1. ASSUME NEW x \in alive, cached'[x] \in Fresh
        PROVE  /\ buffers[cached'[x]] \in busy'
               /\ cached'[x] \notin toRelease' \cup releasing
               /\ \A y \in alive : attached'[y] # cached'[x]
               /\ \A y \in alive \ {x} : cached'[y] # cached'[x]
    <3>1. cached'[x] = cached[x] /\ ~ (x \in Subsurfaces /\ ParentOf[x] = s)
      BY <1>4, <1>6, <2>1
    <3>2. /\ buffers[cached[x]] \in busy
          /\ cached[x] \notin toRelease \cup releasing
          /\ \A y \in alive : attached[y] # cached[x]
          /\ \A y \in alive \ {x} : cached[y] # cached[x]
      BY <2>1, <3>1 DEF Owing, CachedOnce
    <3>3. cached[x] \notin toRelease'
      BY <1>1, <1>5, <3>2
    <3>4. ASSUME NEW y \in alive
          PROVE  attached'[y] # cached[x]
      BY <1>3, <1>7, <2>1, <3>1, <3>2
    <3>5. \A y \in alive \ {x} : cached'[y] # cached[x]
      BY <1>4, <1>6, <2>1, <3>1, <3>2
    <3>6. QED BY <1>2, <3>1, <3>2, <3>3, <3>4, <3>5
  <2>2. QED BY <1>1, <2>1 DEF CachedOnce
<1>12. QED BY <1>8, <1>9, <1>10, <1>11 DEF Owing

\* A commit of a window or of a subsurface.
LEMMA CommitOwing ==
  ASSUME TypeOK, Owing, ~ SharesCached, NEW s \in Surfaces, Commit(s)
  PROVE  Owing'
BY ApplyOwing, CacheOwing DEF Commit

LEMMA ComposeOwing ==
  ASSUME TypeOK, Owing, Compose
  PROVE  Owing'
<1> DEFINE live == {s \in Walked : attached[s] \in DOMAIN buffers}
           fallback == (Walked \ live) \cap KeptByGc
<1>1. /\ UNCHANGED <<buffers, alive, attached, cached, toRelease, releasing, drawing, made,
                     inherited, busy>>
      /\ scene' = [s \in live \cup fallback |->
                    IF s \in live THEN buffers[attached[s]] ELSE retained[s]]
      /\ retained' = [s \in KeptByGc \cup live |->
                       IF s \in live THEN buffers[attached[s]] ELSE retained[s]]
  BY DEF Compose, tree, queues, client
<1>2. /\ live \subseteq alive
      /\ \A s \in live : attached[s] \in DOMAIN buffers
      /\ KeptByGc \subseteq DOMAIN retained /\ fallback \subseteq KeptByGc
  BY DEF Walked, KeptByGc
<1> HIDE DEF live, fallback
<1> DEFINE shownBy == {buffers[attached[s]] : s \in live}
<1>3. Range(scene') \subseteq shownBy \cup Range(retained)
  BY <1>1, <1>2 DEF Range
<1>4. Range(retained') \subseteq shownBy \cup Range(retained)
  BY <1>1, <1>2 DEF Range
<1>5. shownBy \subseteq {buffers[b] : b \in DOMAIN buffers}
  BY <1>2
<1>6. shownBy \subseteq busy \cup inherited
  BY <1>2 DEF Owing, ReleasedIsFree
<1> HIDE DEF shownBy
<1>7. NumbersAreOld'
  BY <1>1, <1>3, <1>4, <1>6 DEF Owing, NumbersAreOld
<1>8. QueuedIsBusy' /\ CachedOnce'
  BY <1>1 DEF Owing, Fresh, QueuedIsBusy, CachedOnce
<1>9. ReleasedIsFree'
  <2>1. \A buffer : BeingRead(buffer)' => BeingRead(buffer) \/ buffer \in busy \cup inherited
    BY <1>1, <1>3, <1>4, <1>6 DEF BeingRead
  <2> HIDE DEF BeingRead
  <2>2. QED BY <1>1, <2>1 DEF Owing, ReleasedIsFree
<1>10. QED BY <1>7, <1>8, <1>9 DEF Owing

LEMMA HousekeepingOwing ==
  ASSUME TypeOK, Owing, Housekeeping
  PROVE  Owing'
<1> DEFINE kept == Restrict(retained, KeptByGc)
<1>1. /\ UNCHANGED <<buffers, alive, attached, cached, scene, drawing, made, inherited>>
      /\ Fresh' = Fresh /\ Fresh \subseteq DOMAIN buffers
      /\ retained' = kept /\ toRelease' = {}
      /\ releasing' = Started \ Finished(kept)
      /\ busy' = busy \ BuffersIn(Finished(kept))
  BY DEF Housekeeping, tree, StillOwed, Released, Fresh
<1>2. Range(kept) \subseteq Range(retained)
  BY DEF Range, Restrict, KeptByGc
<1>3. Started \subseteq toRelease \cup releasing
  BY DEF Started
<1> HIDE DEF kept
<1>4. ASSUME NEW b \in DOMAIN buffers, b \in Finished(kept)
      PROVE  /\ b \in toRelease \cup releasing
             /\ buffers[b] \notin Range(scene) \cup Range(retained') \cup drawing
             /\ ~ \E x \in alive : attached[x] = b
             /\ b \in Fresh => ~ \E x \in alive : cached[x] = b
  <2>1. b \in Started /\ buffers[b] \notin Range(scene) \cup Range(kept) \cup drawing
        /\ ~ \E x \in Surfaces : Shows(x, b)
    BY <1>4 DEF Finished, UnreadOwed
  <2>2. ~ \E x \in alive : attached[x] = b
    BY <2>1 DEF Shows, TypeOK
  <2>3. b \in toRelease \cup releasing
    BY <1>3, <2>1
  <2>4. b \in Fresh => ~ \E x \in alive : cached[x] = b
    BY <2>3 DEF Owing, CachedOnce
  <2>5. QED BY <1>1, <2>1, <2>2, <2>3, <2>4
<1>5. ASSUME NEW b \in DOMAIN buffers
      PROVE  buffers[b] \in busy' <=> buffers[b] \in busy /\ b \notin Finished(kept)
  BY <1>1 DEF BuffersIn, Owing, NumbersAreOld
<1>6. NumbersAreOld'
  BY <1>1, <1>2 DEF Owing, NumbersAreOld
<1>7. QueuedIsBusy'
  BY <1>1, <1>3, <1>5 DEF Owing, QueuedIsBusy
<1>8. CachedOnce'
  <2>1. ASSUME NEW x \in alive, cached[x] \in Fresh
        PROVE  buffers[cached[x]] \in busy'
    BY <1>1, <1>4, <1>5, <2>1 DEF Owing, CachedOnce
  <2>2. QED BY <1>1, <1>3, <2>1 DEF Owing, CachedOnce
<1>9. ReleasedIsFree'
  <2>1. \A buffer : BeingRead(buffer)' <=>
                      buffer \in Range(scene) \cup Range(retained') \cup drawing
    BY <1>1 DEF BeingRead
  <2>2. \A buffer : BeingRead(buffer)' => BeingRead(buffer)
    BY <1>1, <1>2 DEF BeingRead
  <2> HIDE DEF BeingRead
  <2>3. QED BY <1>1, <1>4, <1>5, <2>1, <2>2 DEF Owing, ReleasedIsFree
<1>10. QED BY <1>6, <1>7, <1>8, <1>9 DEF Owing

LEMMA StepOwing ==
  ASSUME TypeOK, Owing, ~ SharesCached, [Next]_vars
  PROVE  Owing'
<1>1. ASSUME NEW b \in BufferIds, CreateBuffer(b) \/ DestroyBuffer(b) PROVE Owing'
  BY <1>1, CreateBufferOwing, DestroyBufferOwing
<1>2. ASSUME NEW s \in Surfaces, NEW b \in AttachedBuffer, Attach(s, b) PROVE Owing'
  <2>1. UNCHANGED <<buffers, alive, attached, cached, toRelease, releasing, scene, retained,
                    made, inherited, busy, drawing>>
    BY <1>2 DEF Attach, queues, images, client
  <2>2. QED BY <2>1, NothingOwing
<1>3. ASSUME NEW s \in Surfaces, Commit(s) \/ DestroySurface(s) PROVE Owing'
  BY <1>3, CommitOwing, DestroySurfaceOwing
<1>4. CASE Compose \/ Housekeeping
  BY <1>4, ComposeOwing, HousekeepingOwing
<1>5. CASE Switch \/ Take \/ LetGo \/ UNCHANGED vars
  <2>1. UNCHANGED <<buffers, alive, attached, cached, toRelease, releasing, scene, retained,
                    made, inherited, busy>>
    BY <1>5 DEF Switch, Take, LetGo, vars, tree, queues, images, client
  <2>2. drawing' \in {drawing, {}, Range(scene)}
    BY <1>5 DEF Switch, Take, LetGo, vars, images
  <2>3. QED BY <2>1, <2>2, NothingOwing
<1>6. QED BY <1>1, <1>2, <1>3, <1>4, <1>5 DEF Next, Request

LEMMA InitOwing == Init => Owing
<1> SUFFICES ASSUME Init PROVE Owing
  OBVIOUS
<1>1. DOMAIN buffers = {} /\ Range(scene) = {} /\ Range(retained) = {}
  BY DEF Init, Range
<1>2. /\ drawing = {} /\ busy = {}
  BY DEF Init
<1>3. Fresh = {} /\ inherited = {}
  BY <1>1 DEF Fresh, Init
<1>4. QED
  BY <1>1, <1>2, <1>3 DEF Owing, NumbersAreOld, QueuedIsBusy, CachedOnce, ReleasedIsFree

LEMMA OwingHolds ==
  ASSUME ~ SharesCached
  PROVE  Spec => [](TypeOK /\ Owing)
<1>1. Init => TypeOK /\ Owing
  BY InitTypes, InitOwing
<1>2. TypeOK /\ Owing /\ [Next]_vars => (TypeOK /\ Owing)'
  BY StepTypes, StepOwing
<1>3. QED BY <1>1, <1>2, PTL DEF Spec

\* A client that waits for releases never draws into a buffer a scene, a
\* retained texture, the backend or a surface still holds, however the frames,
\* the hidden windows and the housekeeping ticks fall between its requests, and
\* whichever ids it reuses: if it hands a buffer over once at a time where a
\* cache is involved, and made the buffer under an id that no commit had left
\* named (ReleasedIsFree).
THEOREM ReleaseIsSafe ==
  ASSUME ~ SharesCached
  PROVE  Spec => []ReleasedIsFree
<1>1. TypeOK /\ Owing => ReleasedIsFree
  BY DEF Owing
<1>2. QED BY <1>1, OwingHolds, PTL

\* Housekeeping sends a release only for a buffer the client handed over and
\* has not been given back.  What a queue names is still the buffer it named,
\* or one that was made while the queue, a surface or a cache named its id; and
\* nothing but such an id lets a release reach another buffer than it is owed.
THEOREM ReleaseIsOfItsBuffer ==
  ASSUME ~ SharesCached
  PROVE  Spec => ReleasesWhatWasHandedOver
<1>1. ASSUME TypeOK, Owing, Housekeeping
      PROVE  BuffersIn(Finished(retained')) \subseteq busy \cup inherited
  <2>1. Finished(retained') \subseteq toRelease \cup releasing
    BY DEF Finished, UnreadOwed, Started
  <2>2. QED BY <1>1, <2>1 DEF BuffersIn, Owing, QueuedIsBusy, Fresh
<1>2. TypeOK /\ Owing
        => (Housekeeping => BuffersIn(Finished(retained')) \subseteq busy \cup inherited)
  BY <1>1
<1>3. TypeOK /\ Owing /\ [Next]_vars
        => [Housekeeping => BuffersIn(Finished(retained')) \subseteq busy \cup inherited]_vars
  BY <1>2
<1>4. QED BY <1>3, OwingHolds, PTL DEF Spec, ReleasesWhatWasHandedOver

-----------------------------------------------------------------------------
(* What a surface falls back to.                                           *)

LEMMA StepComposed ==
  ASSUME TypeOK, ComposedIsRetained, [Next]_vars
  PROVE  ComposedIsRetained'
<1>1. ASSUME NEW b \in BufferIds, CreateBuffer(b) \/ DestroyBuffer(b)
      PROVE  ComposedIsRetained'
  BY <1>1 DEF CreateBuffer, DestroyBuffer, ComposedIsRetained, tree, images
<1>2. ASSUME NEW s \in Surfaces, NEW b \in AttachedBuffer, Attach(s, b)
      PROVE  ComposedIsRetained'
  BY <1>2 DEF Attach, ComposedIsRetained, images
<1>3. ASSUME NEW s \in Surfaces, Commit(s)
      PROVE  ComposedIsRetained'
  <2>1. UNCHANGED <<alive, retained>>
    BY <1>3 DEF Commit, images
  <2>2. CASE ApplyCommit(s)
    <3>1. attached' = After(s) /\ composed' = {x \in composed : After(s)[x] # NoBuffer}
      BY <2>2 DEF ApplyCommit, After
    <3>2. QED BY <2>1, <3>1 DEF ComposedIsRetained
  <2>3. CASE UNCHANGED <<attached, toRelease, replaced, composed, stale>>
    BY <2>1, <2>3 DEF ComposedIsRetained
  <2>4. QED BY <1>3, <2>2, <2>3 DEF Commit
<1>4. ASSUME NEW s \in Surfaces, DestroySurface(s)
      PROVE  ComposedIsRetained'
  BY <1>4 DEF DestroySurface, ComposedIsRetained, TypeOK, images
<1>5. CASE Compose
  <2> DEFINE live == {s \in Walked : attached[s] \in DOMAIN buffers}
  <2>1. /\ UNCHANGED <<alive, attached>>
        /\ composed' = composed \cup live
        /\ DOMAIN retained' = KeptByGc \cup live
    BY <1>5 DEF Compose, tree
  <2>2. live \subseteq alive /\ \A s \in live : attached[s] # NoBuffer
    BY DEF Walked
  <2>3. composed \subseteq KeptByGc
    BY DEF ComposedIsRetained, KeptByGc
  <2> HIDE DEF live
  <2>4. QED BY <2>1, <2>2, <2>3 DEF ComposedIsRetained
<1>6. CASE Housekeeping
  <2>1. UNCHANGED <<alive, attached, composed>> /\ DOMAIN retained' = KeptByGc
    BY <1>6 DEF Housekeeping, Restrict, tree
  <2>2. QED BY <2>1 DEF ComposedIsRetained, KeptByGc
<1>7. CASE Switch \/ Take \/ LetGo \/ UNCHANGED vars
  BY <1>7 DEF Switch, Take, LetGo, vars, ComposedIsRetained, tree, images
<1>8. QED BY <1>1, <1>2, <1>3, <1>4, <1>5, <1>6, <1>7 DEF Next, Request

\* Destroying the buffer under a window, at whatever moment, never composes the
\* window away: the texture it last showed is retained for as long as the
\* surface has a buffer.
THEOREM FallsBack == Spec => NeverBlanked
<1>1. Init => ComposedIsRetained
  BY DEF Init, ComposedIsRetained
<1>2. TypeOK /\ ComposedIsRetained /\ [Next]_vars => ComposedIsRetained'
  BY StepComposed
<1>3. ASSUME ComposedIsRetained, Next, stale, ~ stale'
      PROVE  composed \cap Walked \subseteq DOMAIN scene'
  <2>1. Compose
    BY <1>3 DEF Next, Request, CreateBuffer, DestroyBuffer, Attach, Commit, ApplyCommit,
                DestroySurface, Switch, Take, LetGo, Housekeeping
  <2> DEFINE live == {s \in Walked : attached[s] \in DOMAIN buffers}
  <2>2. DOMAIN scene' = live \cup ((Walked \ live) \cap KeptByGc)
    BY <2>1 DEF Compose
  <2>3. composed \subseteq KeptByGc
    BY <1>3 DEF ComposedIsRetained, KeptByGc
  <2>4. QED BY <2>2, <2>3
<1>4. ComposedIsRetained /\ [Next]_vars
        => [stale /\ ~ stale' => composed \cap Walked \subseteq DOMAIN scene']_vars
  BY <1>3
<1>5. QED BY <1>1, <1>2, <1>4, TypeCorrect, PTL DEF Spec, NeverBlanked
=============================================================================
