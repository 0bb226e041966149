------------------------ MODULE ClientMemory_proof -------------------------
(***************************************************************************)
(* Proofs about the memory clients draw in: BufferImports, for any params  *)
(* objects, ids, planes, bounds and length of the channel to the backend;  *)
(* ShmPools, for any ids, sizes and number of pools; and DamageUpload, for *)
(* any outputs, buffer ids and cells, and a window that is on every output.*)
(*                                                                         *)
(* BufferImports.  A verdict finds its buffer by the id it was asked under *)
(* and the serial the buffer had.  That is enough because no serial is     *)
(* given twice, so that a buffer with the serial of a pending import is    *)
(* the one it is for (SerialsName), and because a buffer without a verdict *)
(* is still what its pending import describes, unless that was forgotten   *)
(* (WaitingIsPending).  Everyone is answered because a params object that  *)
(* was used has one import pending or was told something, never both       *)
(* (OneAnswer), and every pending import is under way to the backend or    *)
(* back (PendingIsUnderWay), once (UnderWayOnce).                          *)
(*                                                                         *)
(* ShmPools.  A buffer reads its own memory because its guard is the       *)
(* mapping of the pool it was made of, which needs that a pool's mapping   *)
(* is of its own descriptor and as large as the pool says                  *)
(* (MappingsAreTheirs, GuardsAreTheirs).  Descriptors are closed once      *)
(* because no two pools of the table have the same (FdsAreTheirs).         *)
(*                                                                         *)
(* DamageUpload.  A texture is right because every serial has a mark, the  *)
(* last commit whose drawing the content under that serial has: a texture  *)
(* is right in each cell that was not drawn since the mark of its serial   *)
(* (TexturesHold), a patch has every cell drawn between the marks of the   *)
(* serial it is for and of its own (PatchesSuffice), and the damage noted  *)
(* every cell drawn since the mark of the serial last sent (DamageIsNoted).*)
(* The marks begin anew when the window takes a buffer nobody reads.       *)
(***************************************************************************)
EXTENDS BufferImports, FiniteSetTheorems, SequenceTheorems, TLAPS

Answered == {answers[i].token : i \in DOMAIN answers}

\* What TypeOK does not say.
MoreTypes ==
  /\ told \in [Params -> Seq({"created", "failed"})]
  /\ requests \in Seq(Tokens)
  /\ answers \in Seq([token : Tokens, imported : BOOLEAN])
  /\ nextServer \in Nat \ {0}

\* The numbers the server gives out itself.
CountersFit ==
  /\ nextServer + Cardinality(DOMAIN pending) <= nextToken
  /\ nextSerial < MaxSerial + nextServer

\* A token is under way once and has no verdict before it comes.
UnderWayOnce ==
  /\ \A i, j \in DOMAIN requests : requests[i] = requests[j] => i = j
  /\ \A i, j \in DOMAIN answers : answers[i].token = answers[j].token => i = j
  /\ Range(requests) \cap Answered = {}
  /\ \A t \in Range(requests) \cup Answered : t < nextToken /\ verdict[t] = None
  /\ \A t \in Tokens : t >= nextToken => verdict[t] = None

PendingIsUnderWay == DOMAIN pending \subseteq UnderWay

\* A params object that is not used was asked for nothing; one that is has one
\* import pending or was told something, never both.
OneAnswer ==
  /\ \A t, u \in DOMAIN pending : pending[t].params = pending[u].params => t = u
  /\ \A t \in DOMAIN pending :
       /\ told[pending[t].params] = << >>
       /\ asked[pending[t].params] = IF pending[t].id = None THEN "create" ELSE "create_immed"
  /\ \A p \in Params : params[p] = None \/ ~ params[p].used => told[p] = << >> /\ asked[p] = None
  /\ \A p \in Live :
       /\ Len(told[p]) <= 1
       /\ asked[p] = None => told[p] = << >>
       /\ asked[p] = "create" /\ told[p] = << >> => PendingOf(p) # {}
       /\ asked[p] = "create_immed" => told[p] \in {<< >>, << "failed" >>}

\* No serial is in use that is still to be given; a buffer with the serial of a
\* pending import is the one it is for.
SerialsName ==
  /\ \A id \in DOMAIN buffers : buffers[id].serial < nextSerial
  /\ \A t \in DOMAIN pending :
       /\ pending[t].id # None => pending[t].serial < nextSerial
       /\ pending[t].id \in DOMAIN buffers /\ buffers[pending[t].id].serial = pending[t].serial
            => buffers[pending[t].id].import = t

\* A buffer whose import has no verdict is the one the verdict will be about.
WaitingIsPending ==
  \A id \in DOMAIN buffers :
    LET b == buffers[id] IN
      b.kind = "dmabuf" =>
        /\ b.import \in Tokens /\ b.import < nextToken
        /\ verdict[b.import] = None =>
             \/ b.import \in abandoned
             \/ /\ b.import \in DOMAIN pending
                /\ pending[b.import].id = id /\ pending[b.import].serial = b.serial

ImportsInv ==
  /\ TypeOK /\ MoreTypes /\ CountersFit
  /\ UnderWayOnce /\ PendingIsUnderWay /\ OneAnswer
  /\ SerialsName /\ WaitingIsPending /\ VerdictsFindTheirBuffer

-----------------------------------------------------------------------------
(* Helpers.                                                                *)

LEMMA WithFacts ==
  ASSUME NEW f, NEW x, NEW y
  PROVE  /\ DOMAIN With(f, x, y) = DOMAIN f \cup {x}
         /\ With(f, x, y)[x] = y
         /\ \A z \in DOMAIN f : z # x => With(f, x, y)[z] = f[z]
BY DEF With

LEMMA WithoutFacts ==
  ASSUME NEW f, NEW xs
  PROVE  /\ DOMAIN Without(f, xs) = DOMAIN f \ xs
         /\ \A z \in DOMAIN f \ xs : Without(f, xs)[z] = f[z]
BY DEF Without, Restrict

Buffer == [kind : {"dmabuf", "failed", "shm"}, serial : Serials,
           import : Tokens \cup {Refused, None}]

\* What the invariant says of the types, part by part.
LEMMA Types ==
  ASSUME ImportsAssumption, ImportsInv
  PROVE  /\ \A id \in DOMAIN buffers : buffers[id] \in Buffer /\ (id \in named \/ id \in 1 .. MaxImports)
         /\ \A t \in DOMAIN pending :
              /\ t \in Tokens /\ t < nextToken
              /\ pending[t].params \in Params /\ params[pending[t].params] # None
              /\ pending[t].id \in Ids \cup {None} /\ pending[t].serial \in Serials
         /\ nextToken \in Nat \ {0} /\ nextSerial \in Nat \ {0} /\ nextServer \in Nat \ {0}
         /\ MaxImports \in Nat /\ MaxSerial \in Nat \ {0}
         /\ None \notin Ids /\ None \notin Nat /\ None \notin BOOLEAN
         /\ Ids \cap Nat = {} /\ named \subseteq Ids
<1>1. TypeOK /\ MoreTypes
  BY DEF ImportsInv
<1>2. ASSUME NEW t \in DOMAIN pending
      PROVE  pending[t] \in [params : Live, id : Ids \cup {None}, serial : Serials]
  BY <1>1 DEF TypeOK, Range
<1>3. ASSUME NEW t \in DOMAIN pending
      PROVE  t \in Tokens /\ t < nextToken
  <2>1. t \in UnderWay
    BY DEF ImportsInv, PendingIsUnderWay
  <2>2. t \in Tokens
    BY <1>1 DEF TypeOK
  <2>3. QED BY <2>1, <2>2 DEF UnderWay, Answered, ImportsInv, UnderWayOnce
<1>4. ASSUME NEW id \in DOMAIN buffers
      PROVE  buffers[id] \in Buffer /\ (id \in named \/ id \in 1 .. MaxImports)
  BY <1>1 DEF TypeOK, Range, Buffer
<1>5. ImportsAssumption /\ nextToken \in Nat \ {0} /\ nextSerial \in Nat \ {0} /\ named \subseteq Ids
  BY <1>1 DEF TypeOK, Serials, ImportsAssumption
<1>6. QED BY <1>1, <1>2, <1>3, <1>4, <1>5 DEF Live, MoreTypes, ImportsAssumption

LEMMA PendingIsFinite ==
  ASSUME ImportsAssumption, TypeOK
  PROVE  IsFiniteSet(DOMAIN pending) /\ Cardinality(DOMAIN pending) \in Nat
<1>1. IsFiniteSet(Tokens)
  BY FS_Interval DEF Tokens, ImportsAssumption
<1>2. IsFiniteSet(DOMAIN pending)
  BY <1>1, FS_Subset DEF TypeOK
<1>3. QED BY <1>2, FS_CardinalityType

LEMMA ChannelTypes ==
  ASSUME MoreTypes
  PROVE  /\ Len(requests) \in Nat /\ DOMAIN requests = 1 .. Len(requests)
         /\ Len(answers) \in Nat /\ DOMAIN answers = 1 .. Len(answers)
         /\ \A i \in DOMAIN requests : requests[i] \in Tokens
         /\ \A i \in DOMAIN answers : answers[i] \in [token : Tokens, imported : BOOLEAN]
         /\ Range(requests) \cup Answered \subseteq Tokens
<1>1. requests \in Seq(Tokens) /\ answers \in Seq([token : Tokens, imported : BOOLEAN])
  BY DEF MoreTypes
<1>2. /\ Len(requests) \in Nat /\ DOMAIN requests = 1 .. Len(requests)
      /\ \A i \in DOMAIN requests : requests[i] \in Tokens
  BY <1>1, LenProperties, ElementOfSeq
<1>3. Len(answers) \in Nat /\ DOMAIN answers = 1 .. Len(answers)
  BY <1>1, LenProperties
<1>4. \A i \in DOMAIN answers : answers[i] \in [token : Tokens, imported : BOOLEAN]
  BY <1>1, <1>3, ElementOfSeq
<1>5. Range(requests) \cup Answered \subseteq Tokens
  BY <1>2, <1>4 DEF Range, Answered
<1>6. QED BY <1>2, <1>3, <1>4, <1>5

\* No params object there is now is None.
LEMMA ObjectsAreNotNone ==
  ASSUME ImportsAssumption,
         NEW entry \in [used : BOOLEAN, planes : SUBSET (0 .. MAX_DMABUF_PLANES - 1)]
  PROVE  entry # None
<1>1. entry \in [used : BOOLEAN, planes : SUBSET Nat]
  BY DEF ImportsAssumption
<1>2. QED BY <1>1 DEF ImportsAssumption

LEMMA InitIsRight == ASSUME ImportsAssumption, Init PROVE ImportsInv
<1> USE DEF Init
<1>1. DOMAIN NothingOn = {}
  BY DEF NothingOn
<1>2. TypeOK
  <2>1. 1 \in Serials /\ 1 \in 1 .. MaxImports + 1
    BY DEF Serials, ImportsAssumption
  <2>2. Range(NothingOn) = {}
    BY <1>1 DEF Range
  <2>3. Len(requests) <= QueueSize
    BY DEF ImportsAssumption
  <2>4. \A p \in Params : Range(told[p]) \subseteq {"created", "failed"}
    BY DEF Range
  <2>5. QED BY <1>1, <2>1, <2>2, <2>3, <2>4 DEF TypeOK
<1>3. MoreTypes
  <2>1. << >> \in Seq({"created", "failed"}) /\ << >> \in Seq(Tokens)
        /\ << >> \in Seq([token : Tokens, imported : BOOLEAN])
    OBVIOUS
  <2>2. QED BY <2>1 DEF MoreTypes
<1>4. CountersFit
  <2>1. Cardinality({}) = 0
    BY FS_EmptySet
  <2>2. QED BY <1>1, <2>1 DEF CountersFit, ImportsAssumption
<1>5. UnderWayOnce /\ PendingIsUnderWay
  BY <1>1 DEF UnderWayOnce, PendingIsUnderWay, Range, Answered
<1>6. OneAnswer
  BY <1>1 DEF OneAnswer, Live, ImportsAssumption
<1>7. SerialsName /\ WaitingIsPending /\ VerdictsFindTheirBuffer
  BY <1>1 DEF SerialsName, WaitingIsPending, VerdictsFindTheirBuffer
<1>8. QED BY <1>2, <1>3, <1>4, <1>5, <1>6, <1>7 DEF ImportsInv

-----------------------------------------------------------------------------
(* The steps of a params object that ask for nothing.                      *)

\* A new object, or a plane more.
LEMMA DescribingKeeps ==
  ASSUME ImportsAssumption, ImportsInv, NEW p \in Params,
         NEW index \in 0 .. MAX_DMABUF_PLANES,
         CreateParams(p) \/ Add(p, index)
  PROVE  ImportsInv'
<1>1. /\ UNCHANGED <<named, buffers, nextSerial, nextToken, pending, channel, nextServer, asked,
                     told, verdict, abandoned>>
      /\ client' \in {client, "cancelled"}
  BY DEF CreateParams, Add, Fatal
<1>2. /\ params \in [Params -> [used : BOOLEAN, planes : SUBSET (0 .. MAX_DMABUF_PLANES - 1)]
                                 \cup {None}]
      /\ TypeOK
  BY DEF ImportsInv, TypeOK
<1> DEFINE Unused == {entry \in [used : BOOLEAN, planes : SUBSET (0 .. MAX_DMABUF_PLANES - 1)] :
                       ~ entry.used}
<1>3. \/ params' = params
      \/ /\ params[p] = None \/ ~ params[p].used
         /\ \E entry \in Unused : params' = [params EXCEPT ![p] = entry]
  <2>1. CASE CreateParams(p) /\ params' # params
    <3>1. /\ params[p] = None
          /\ params' = [params EXCEPT ![p] = [used |-> FALSE, planes |-> {}]]
      BY <2>1 DEF CreateParams
    <3>2. [used |-> FALSE, planes |-> {}] \in Unused
      OBVIOUS
    <3> HIDE DEF Unused
    <3>3. QED BY <3>1, <3>2
  <2>2. CASE Add(p, index) /\ params' # params
    <3>1. /\ params' = [params EXCEPT ![p].planes = @ \cup {index}]
          /\ params[p] # None /\ ~ params[p].used
          /\ index < MAX_DMABUF_PLANES
      BY <2>2 DEF Add
    <3>2. params[p] \in [used : BOOLEAN, planes : SUBSET (0 .. MAX_DMABUF_PLANES - 1)]
      BY <1>2, <3>1
    <3>3. params[p].planes \cup {index} \in SUBSET (0 .. MAX_DMABUF_PLANES - 1)
      BY <3>1, <3>2 DEF ImportsAssumption
    <3>4. [params[p] EXCEPT !.planes = @ \cup {index}] \in Unused
      BY <3>1, <3>2, <3>3
    <3>5. params' = [params EXCEPT ![p] = [params[p] EXCEPT !.planes = @ \cup {index}]]
      BY <3>1
    <3> HIDE DEF Unused
    <3>6. QED BY <3>1, <3>4, <3>5
  <2>3. QED BY <2>1, <2>2
<1>4. /\ params' \in [Params -> [used : BOOLEAN, planes : SUBSET (0 .. MAX_DMABUF_PLANES - 1)]
                                  \cup {None}]
      /\ \A q \in Params : params[q] # None => params'[q] # None
      /\ \A q \in Params : \/ params'[q] = params[q]
                           \/ /\ params'[q] # None /\ ~ params'[q].used
                              /\ params[q] = None \/ ~ params[q].used
  <2>1. CASE params' = params
    BY <1>2, <2>1
  <2>2. CASE params' # params
    <3>1. PICK entry \in Unused : params' = [params EXCEPT ![p] = entry]
      BY <1>3, <2>2
    <3>2. entry # None
      BY ObjectsAreNotNone
    <3>3. QED BY <1>2, <1>3, <2>2, <3>1, <3>2
  <2>3. QED BY <2>1, <2>2
<1>5. TypeOK'
  <2>1. Live \subseteq Live'
    BY <1>4 DEF Live
  <2>2. Range(pending') \subseteq [params : Live', id : Ids \cup {None}, serial : Serials]
    BY <1>1, <1>2, <2>1 DEF TypeOK
  <2>3. client' \in {"live", "cancelled", "gone"}
    BY <1>1, <1>2 DEF TypeOK
  <2>4. Len(requests') <= QueueSize /\ UNCHANGED requests
    BY <1>1, <1>2 DEF TypeOK, channel
  <2>5. /\ named' \subseteq Ids /\ DOMAIN buffers' \subseteq named' \cup 1 .. MaxImports
        /\ Range(buffers') \subseteq [kind : {"dmabuf", "failed", "shm"}, serial : Serials,
                                      import : Tokens \cup {Refused, None}]
        /\ nextSerial' \in Serials /\ nextToken' \in 1 .. MaxImports + 1
        /\ DOMAIN pending' \subseteq Tokens
        /\ asked' \in [Params -> {None, "create", "create_immed"}]
        /\ \A q \in Params : Range(told'[q]) \subseteq {"created", "failed"}
        /\ verdict' \in [Tokens -> BOOLEAN \cup {None}] /\ abandoned' \subseteq Tokens
    BY <1>1, <1>2 DEF TypeOK
  <2>6. QED BY <1>4, <2>2, <2>3, <2>4, <2>5 DEF TypeOK
<1>6. OneAnswer'
  <2>1. OneAnswer
    BY DEF ImportsInv
  <2>2. PendingOf(p)' = PendingOf(p) /\ \A q : PendingOf(q)' = PendingOf(q)
    BY <1>1 DEF PendingOf
  <2>3. ASSUME NEW q \in Params
        PROVE  params'[q] = None \/ ~ params'[q].used => told'[q] = << >> /\ asked'[q] = None
    BY <1>1, <1>4, <2>1 DEF OneAnswer
  <2>4. ASSUME NEW q \in Live'
        PROVE  /\ Len(told'[q]) <= 1
               /\ asked'[q] = None => told'[q] = << >>
               /\ asked'[q] = "create" /\ told'[q] = << >> => PendingOf(q)' # {}
               /\ asked'[q] = "create_immed" => told'[q] \in {<< >>, << "failed" >>}
    <3>1. CASE q \in Live
      BY <1>1, <2>1, <2>2, <3>1 DEF OneAnswer
    <3>2. CASE q \notin Live
      <4>1. q \in Params /\ params[q] = None
        BY <3>2 DEF Live
      <4>2. told[q] = << >> /\ asked[q] = None
        BY <2>1, <4>1 DEF OneAnswer
      <4>3. Len(<< >>) <= 1
        OBVIOUS
      <4>4. QED BY <1>1, <4>2, <4>3 DEF ImportsAssumption
    <3>3. QED BY <3>1, <3>2
  <2>5. QED BY <1>1, <2>1, <2>3, <2>4 DEF OneAnswer
<1>7. MoreTypes' /\ CountersFit' /\ UnderWayOnce' /\ PendingIsUnderWay'
  BY <1>1 DEF ImportsInv, MoreTypes, CountersFit, UnderWayOnce, PendingIsUnderWay, Answered, UnderWay,
              channel
<1>8. SerialsName' /\ WaitingIsPending' /\ VerdictsFindTheirBuffer'
  BY <1>1 DEF ImportsInv, SerialsName, WaitingIsPending, VerdictsFindTheirBuffer
<1>9. QED BY <1>5, <1>6, <1>7, <1>8 DEF ImportsInv

\* A params object that goes takes what is pending for it along.
LEMMA DestroyKeeps ==
  ASSUME ImportsAssumption, ImportsInv, NEW p \in Params, Destroy(p)
  PROVE  ImportsInv'
<1> USE DEF Destroy
<1>1. TypeOK /\ MoreTypes /\ OneAnswer
  BY DEF ImportsInv
<1>2. /\ DOMAIN pending' = DOMAIN pending \ PendingOf(p)
      /\ \A t \in DOMAIN pending' : pending'[t] = pending[t] /\ pending[t].params # p
  <2>1. pending' = Without(pending, PendingOf(p))
    OBVIOUS
  <2>2. /\ DOMAIN pending' = DOMAIN pending \ PendingOf(p)
        /\ \A t \in DOMAIN pending \ PendingOf(p) : pending'[t] = pending[t]
    BY <2>1 DEF Without, Restrict
  <2>3. QED BY <2>2 DEF PendingOf
<1>3. \A q \in Params : /\ params'[q] = IF q = p THEN None ELSE params[q]
                        /\ asked'[q] = IF q = p THEN None ELSE asked[q]
                        /\ told'[q] = IF q = p THEN << >> ELSE told[q]
  BY <1>1 DEF TypeOK, MoreTypes
<1>4. Live' = Live \ {p}
  BY <1>3 DEF Live
<1>5. TypeOK'
  <2>1. Range(pending') \subseteq [params : Live', id : Ids \cup {None}, serial : Serials]
    <3>1. \A t \in DOMAIN pending' :
            pending[t] \in [params : Live, id : Ids \cup {None}, serial : Serials]
      BY <1>1, <1>2 DEF TypeOK, Range
    <3>2. \A t \in DOMAIN pending' :
            pending'[t] \in [params : Live', id : Ids \cup {None}, serial : Serials]
      BY <1>2, <1>4, <3>1
    <3>3. QED BY <3>2 DEF Range
  <2>2. DOMAIN pending' \subseteq Tokens /\ abandoned' \subseteq Tokens
    BY <1>1, <1>2 DEF TypeOK, PendingOf
  <2>3. \A q \in Params : Range(told'[q]) \subseteq {"created", "failed"}
    <3>1. Range(<< >>) = {}
      BY DEF Range
    <3>2. QED BY <1>1, <1>3, <3>1 DEF TypeOK
  <2>4. /\ params' \in [Params -> [used : BOOLEAN, planes : SUBSET (0 .. MAX_DMABUF_PLANES - 1)]
                                    \cup {None}]
        /\ asked' \in [Params -> {None, "create", "create_immed"}]
    BY <1>1 DEF TypeOK
  <2>5. Len(requests') <= QueueSize /\ requests' = requests
    BY <1>1 DEF TypeOK, channel
  <2>6. /\ client' \in {"live", "cancelled", "gone"} /\ named' \subseteq Ids
        /\ DOMAIN buffers' \subseteq named' \cup 1 .. MaxImports
        /\ nextSerial' \in Serials /\ nextToken' \in 1 .. MaxImports + 1
        /\ verdict' \in [Tokens -> BOOLEAN \cup {None}]
        /\ Range(buffers') \subseteq [kind : {"dmabuf", "failed", "shm"}, serial : Serials,
                                      import : Tokens \cup {Refused, None}]
    BY <1>1 DEF TypeOK
  <2>7. QED BY <2>1, <2>2, <2>3, <2>4, <2>5, <2>6 DEF TypeOK
<1>6. MoreTypes'
  <2>1. << >> \in Seq({"created", "failed"})
    OBVIOUS
  <2>2. QED BY <1>1, <2>1 DEF MoreTypes, channel
<1>7. CountersFit'
  <2>1. Cardinality(DOMAIN pending') <= Cardinality(DOMAIN pending)
        /\ Cardinality(DOMAIN pending') \in Nat /\ Cardinality(DOMAIN pending) \in Nat
    BY <1>1, <1>2, PendingIsFinite, FS_Subset, FS_CardinalityType
  <2>2. nextToken \in Nat /\ nextServer \in Nat
    BY Types
  <2>3. QED BY <2>1, <2>2 DEF ImportsInv, CountersFit
<1>8. UnderWayOnce' /\ PendingIsUnderWay'
  BY <1>2 DEF ImportsInv, UnderWayOnce, PendingIsUnderWay, Answered, UnderWay, channel
<1>9. OneAnswer'
  <2>1. ASSUME NEW q \in Live'
        PROVE  PendingOf(q)' = PendingOf(q)
    BY <1>2, <1>4 DEF PendingOf
  <2>2. \A t \in DOMAIN pending' : pending'[t].params \in Live'
    BY <1>2, <1>4, Types DEF Live
  <2>3. \A q \in Live' : told'[q] = told[q] /\ asked'[q] = asked[q] /\ q \in Live
    BY <1>3, <1>4 DEF Live
  <2>4. ASSUME NEW q \in Params
        PROVE  params'[q] = None \/ ~ params'[q].used => told'[q] = << >> /\ asked'[q] = None
    BY <1>1, <1>3 DEF OneAnswer
  <2>5. QED BY <1>1, <1>2, <2>1, <2>2, <2>3, <2>4 DEF OneAnswer
<1>10. SerialsName'
  BY <1>2 DEF ImportsInv, SerialsName
<1>11. WaitingIsPending' /\ VerdictsFindTheirBuffer'
  <2>1. WaitingIsPending'
    <3>1. WaitingIsPending
      BY DEF ImportsInv
    <3>2. PendingOf(p) = DOMAIN pending \ DOMAIN pending'
      BY <1>2 DEF PendingOf
    <3>3. \A t \in DOMAIN pending : t \in abandoned' \/ (t \in DOMAIN pending' /\ pending'[t] = pending[t])
      BY <1>2, <3>2
    <3>4. UNCHANGED <<buffers, verdict, nextToken>> /\ abandoned \subseteq abandoned'
      OBVIOUS
    <3>5. QED BY ONLY <3>1, <3>3, <3>4 DEF WaitingIsPending
  <2>2. VerdictsFindTheirBuffer'
    <3>1. VerdictsFindTheirBuffer /\ UNCHANGED <<buffers, verdict>> /\ abandoned \subseteq abandoned'
      BY DEF ImportsInv
    <3>2. QED BY ONLY <3>1 DEF VerdictsFindTheirBuffer
  <2>3. QED BY <2>1, <2>2
<1>12. QED BY <1>5, <1>6, <1>7, <1>8, <1>9, <1>10, <1>11 DEF ImportsInv

-----------------------------------------------------------------------------
(* Asking for a buffer.                                                    *)

\* What every request that uses up p does, also one that is refused with an
\* error and the end of the client.
Uses(p, id) ==
  /\ params[p] # None
  /\ id \notin named
  /\ named' = named \cup ({id} \ {None})
  /\ params' = [params EXCEPT ![p].used = TRUE]
  /\ client' \in {client, "cancelled"}
  /\ UNCHANGED <<answers, nextServer, verdict, abandoned>>

LEMMA UsesTypes ==
  ASSUME ImportsAssumption, ImportsInv, NEW p \in Params, NEW id \in Ids \cup {None}, Uses(p, id)
  PROVE  /\ params' \in [Params -> [used : BOOLEAN, planes : SUBSET (0 .. MAX_DMABUF_PLANES - 1)]
                                     \cup {None}]
         /\ Live' = Live /\ p \in Live
         /\ \A q \in Params : q # p => params'[q] = params[q]
         /\ params'[p] # None /\ params'[p].used
         /\ named' \subseteq Ids /\ named \subseteq named' /\ (id = None \/ id \in named')
         /\ client' \in {"live", "cancelled", "gone"}
         /\ id \notin DOMAIN buffers
<1> USE DEF Uses
<1>1. TypeOK /\ params[p] # None
  BY DEF ImportsInv
<1>2. params[p] \in [used : BOOLEAN, planes : SUBSET (0 .. MAX_DMABUF_PLANES - 1)]
  BY <1>1 DEF TypeOK
<1>3. /\ [params[p] EXCEPT !.used = TRUE]
           \in [used : BOOLEAN, planes : SUBSET (0 .. MAX_DMABUF_PLANES - 1)]
      /\ [params[p] EXCEPT !.used = TRUE].used
  BY <1>2
<1>4. [params[p] EXCEPT !.used = TRUE] # None
  BY <1>3, ObjectsAreNotNone
<1>5. params' = [params EXCEPT ![p] = [params[p] EXCEPT !.used = TRUE]]
  OBVIOUS
<1>6. /\ params' \in [Params -> [used : BOOLEAN, planes : SUBSET (0 .. MAX_DMABUF_PLANES - 1)]
                                  \cup {None}]
      /\ \A q \in Params : q # p => params'[q] = params[q]
      /\ params'[p] # None /\ params'[p].used
  BY <1>1, <1>3, <1>4, <1>5 DEF TypeOK
<1>7. Live' = Live /\ p \in Live
  BY <1>1, <1>6 DEF Live
<1>8. /\ named' \subseteq Ids /\ named \subseteq named' /\ (id = None \/ id \in named')
      /\ client' \in {"live", "cancelled", "gone"}
  BY <1>1 DEF TypeOK
<1>9. id \notin DOMAIN buffers
  <2>1. id \notin 1 .. MaxImports
    BY DEF ImportsAssumption
  <2>2. QED BY <1>1, <2>1 DEF TypeOK
<1>10. QED BY <1>6, <1>7, <1>8, <1>9

\* An error: only the object is used up, or nothing is.
LEMMA ErrorKeeps ==
  ASSUME ImportsAssumption, ImportsInv, NEW p \in Params, NEW id \in Ids \cup {None},
         \/ Uses(p, id)
         \/ /\ UNCHANGED <<params, named, answers, nextServer, verdict, abandoned>>
            /\ client' = "cancelled",
         UNCHANGED <<buffers, nextSerial, nextToken, pending, requests, asked, told>>
  PROVE  ImportsInv'
<1>1. TypeOK /\ MoreTypes /\ OneAnswer
  BY DEF ImportsInv
<1>2. /\ params' \in [Params -> [used : BOOLEAN, planes : SUBSET (0 .. MAX_DMABUF_PLANES - 1)]
                                  \cup {None}]
      /\ Live' = Live
      /\ \A q \in Params : params'[q] = params[q] \/ (params'[q] # None /\ params'[q].used)
      /\ named' \subseteq Ids /\ named \subseteq named'
      /\ client' \in {"live", "cancelled", "gone"}
      /\ UNCHANGED <<answers, nextServer, verdict, abandoned>>
  <2>1. CASE Uses(p, id)
    <3>1. UNCHANGED <<answers, nextServer, verdict, abandoned>>
      BY <2>1 DEF Uses
    <3>2. QED BY <2>1, <3>1, UsesTypes
  <2>2. CASE ~ Uses(p, id)
    BY <1>1, <2>2 DEF TypeOK, Live
  <2>3. QED BY <2>1, <2>2
<1>3. TypeOK'
  <2>1. Range(pending') \subseteq [params : Live', id : Ids \cup {None}, serial : Serials]
    BY <1>1, <1>2 DEF TypeOK
  <2>2. DOMAIN buffers' \subseteq named' \cup 1 .. MaxImports
    BY <1>1, <1>2 DEF TypeOK
  <2>3. Range(buffers') \subseteq [kind : {"dmabuf", "failed", "shm"}, serial : Serials,
                                   import : Tokens \cup {Refused, None}]
    BY <1>1 DEF TypeOK
  <2>4. \A q \in Params : Range(told'[q]) \subseteq {"created", "failed"}
    BY <1>1 DEF TypeOK
  <2>5. Len(requests') <= QueueSize
    BY <1>1 DEF TypeOK
  <2>6. QED BY <1>1, <1>2, <2>1, <2>2, <2>3, <2>4, <2>5 DEF TypeOK
<1>4. OneAnswer'
  <2>1. \A q : PendingOf(q)' = PendingOf(q)
    BY DEF PendingOf
  <2>2. \A q \in Params : params'[q] = None \/ ~ params'[q].used => told'[q] = << >> /\ asked'[q] = None
    BY <1>1, <1>2 DEF OneAnswer
  <2>3. QED BY <1>1, <1>2, <2>1, <2>2 DEF OneAnswer
<1>5. MoreTypes' /\ CountersFit' /\ UnderWayOnce' /\ PendingIsUnderWay'
  BY <1>2 DEF ImportsInv, MoreTypes, CountersFit, UnderWayOnce, PendingIsUnderWay, Answered, UnderWay
<1>6. SerialsName' /\ WaitingIsPending' /\ VerdictsFindTheirBuffer'
  BY <1>2 DEF ImportsInv, SerialsName, WaitingIsPending, VerdictsFindTheirBuffer
<1>7. QED BY <1>3, <1>4, <1>5, <1>6 DEF ImportsInv

\* A refusal is told at once, and the buffer of a create_immed draws nothing.
LEMMA RefusedKeeps ==
  ASSUME ImportsAssumption, ImportsInv, NEW p \in Params, NEW id \in Ids \cup {None}, Uses(p, id),
         ~ params[p].used,
         asked' = [asked EXCEPT ![p] = IF id = None THEN "create" ELSE "create_immed"],
         told' = [told EXCEPT ![p] = Append(@, "failed")],
         UNCHANGED <<pending, requests>>,
         nextToken' \in {nextToken, nextToken + 1}, nextToken' \in 1 .. MaxImports + 1,
         NEW s \in {nextSerial, nextSerial + 1}, s < MaxSerial,
         \/ id = None /\ UNCHANGED <<buffers, nextSerial>>
         \/ /\ id # None
            /\ DOMAIN buffers' = DOMAIN buffers \cup {id}
            /\ \A other \in DOMAIN buffers : buffers'[other] = buffers[other]
            /\ buffers'[id] = FailedBuffer(s)
            /\ nextSerial' = s + 1
  PROVE  ImportsInv'
<1>1. /\ TypeOK /\ MoreTypes /\ OneAnswer
      /\ UNCHANGED <<answers, nextServer, verdict, abandoned>>
  BY DEF ImportsInv, Uses
<1>2. /\ Live' = Live /\ p \in Live /\ id \notin DOMAIN buffers
      /\ \A q \in Params : q # p => params'[q] = params[q]
      /\ params'[p] # None /\ params'[p].used
      /\ named' \subseteq Ids /\ named \subseteq named' /\ (id = None \/ id \in named')
  BY UsesTypes
<1>3. /\ nextSerial \in Nat \ {0} /\ MaxSerial \in Nat /\ MaxImports \in Nat
      /\ nextToken \in Nat /\ nextServer \in Nat \ {0}
  BY Types
<1>4. told[p] = << >> /\ asked[p] = None
  BY <1>1 DEF OneAnswer
<1>5. /\ told'[p] = << "failed" >>
      /\ \A q \in Params : q # p => told'[q] = told[q] /\ asked'[q] = asked[q]
      /\ asked'[p] = IF id = None THEN "create" ELSE "create_immed"
      /\ told' \in [Params -> Seq({"created", "failed"})]
      /\ asked' \in [Params -> {None, "create", "create_immed"}]
  <2>1. Append(<< >>, "failed") = << "failed" >>
    OBVIOUS
  <2>2. << "failed" >> \in Seq({"created", "failed"})
    OBVIOUS
  <2>3. QED BY <1>1, <1>4, <2>1, <2>2 DEF MoreTypes, TypeOK
<1>6. nextSerial <= nextSerial' /\ nextSerial' \in Serials /\ s \in Serials /\ nextSerial' <= MaxSerial + (nextServer - 1)
  <2>1. s \in Serials
    BY <1>3 DEF Serials
  <2>2. nextSerial < MaxSerial + nextServer /\ nextSerial \in Serials
    BY <1>1 DEF ImportsInv, CountersFit, TypeOK
  <2>3. QED BY <1>3, <2>1, <2>2 DEF Serials
<1>7. /\ DOMAIN buffers' \subseteq DOMAIN buffers \cup {id} /\ DOMAIN buffers \subseteq DOMAIN buffers'
      /\ None \notin DOMAIN buffers' \/ id # None
      /\ \A other \in DOMAIN buffers : buffers'[other] = buffers[other]
      /\ id \in DOMAIN buffers' => buffers'[id] = FailedBuffer(s) /\ id # None
  BY <1>2
<1>8. FailedBuffer(s) \in [kind : {"dmabuf", "failed", "shm"}, serial : Serials,
                           import : Tokens \cup {Refused, None}]
  BY <1>6 DEF FailedBuffer
<1>9. TypeOK'
  <2>1. Range(pending') \subseteq [params : Live', id : Ids \cup {None}, serial : Serials]
    BY <1>1, <1>2 DEF TypeOK
  <2>2. DOMAIN buffers' \subseteq named' \cup 1 .. MaxImports
    BY <1>1, <1>2, <1>7 DEF TypeOK
  <2>3. Range(buffers') \subseteq [kind : {"dmabuf", "failed", "shm"}, serial : Serials,
                                   import : Tokens \cup {Refused, None}]
    BY <1>1, <1>7, <1>8 DEF TypeOK, Range
  <2>4. \A q \in Params : Range(told'[q]) \subseteq {"created", "failed"}
    <3>1. Range(<< "failed" >>) \subseteq {"created", "failed"}
      BY DEF Range
    <3>2. QED BY <1>1, <1>5, <3>1 DEF TypeOK
  <2>5. Len(requests') <= QueueSize
    BY <1>1 DEF TypeOK
  <2>6. /\ params' \in [Params -> [used : BOOLEAN, planes : SUBSET (0 .. MAX_DMABUF_PLANES - 1)]
                                    \cup {None}]
        /\ client' \in {"live", "cancelled", "gone"}
    BY UsesTypes
  <2>7. QED BY <1>1, <1>2, <1>5, <1>6, <2>1, <2>2, <2>3, <2>4, <2>5, <2>6 DEF TypeOK
<1>10. MoreTypes' /\ CountersFit'
  <2>1. nextServer' + Cardinality(DOMAIN pending') <= nextToken'
    <3>1. Cardinality(DOMAIN pending) \in Nat
      BY <1>1, PendingIsFinite
    <3>2. QED BY <1>1, <1>3, <3>1 DEF ImportsInv, CountersFit
  <2>2. nextSerial' < MaxSerial + nextServer'
    BY <1>1, <1>3, <1>6 DEF Serials
  <2>3. QED BY <1>1, <1>5, <2>1, <2>2 DEF MoreTypes, CountersFit
<1>11. UnderWayOnce' /\ PendingIsUnderWay'
  <2>1. UnderWayOnce /\ PendingIsUnderWay
    BY DEF ImportsInv
  <2>2. Range(requests) \cup Answered \subseteq Tokens
    BY <1>1, ChannelTypes
  <2>3. \A t \in Tokens : t < nextToken => t < nextToken'
    BY <1>3 DEF Tokens
  <2>4. \A t \in Tokens : t >= nextToken' => t >= nextToken
    BY <1>3 DEF Tokens
  <2>5. UnderWayOnce'
    BY <1>1, <2>1, <2>2, <2>3, <2>4 DEF UnderWayOnce, Answered
  <2>6. QED BY <1>1, <2>1, <2>5 DEF PendingIsUnderWay, UnderWay
<1>12. OneAnswer'
  <2>1. \A q : PendingOf(q)' = PendingOf(q)
    BY DEF PendingOf
  <2>2. \A t \in DOMAIN pending : pending[t].params # p
    BY <1>1, <1>4, Types DEF OneAnswer, ImportsAssumption
  <2>3. \A t \in DOMAIN pending : pending[t].params \in Params
    BY Types
  <2>4. ASSUME NEW q \in Params
        PROVE  params'[q] = None \/ ~ params'[q].used => told'[q] = << >> /\ asked'[q] = None
    BY <1>1, <1>2, <1>5 DEF OneAnswer
  <2>5. ASSUME NEW q \in Live'
        PROVE  /\ Len(told'[q]) <= 1
               /\ asked'[q] = None => told'[q] = << >>
               /\ asked'[q] = "create" /\ told'[q] = << >> => PendingOf(q)' # {}
               /\ asked'[q] = "create_immed" => told'[q] \in {<< >>, << "failed" >>}
    <3>1. CASE q = p
      <4>1. Len(<< "failed" >>) = 1 /\ << "failed" >> # << >>
        OBVIOUS
      <4>2. QED BY <1>5, <3>1, <4>1 DEF ImportsAssumption
    <3>2. CASE q # p
      BY <1>1, <1>2, <1>5, <2>1, <2>5, <3>2 DEF OneAnswer, Live
    <3>3. QED BY <3>1, <3>2
  <2>6. ASSUME NEW t \in DOMAIN pending'
        PROVE  /\ told'[pending'[t].params] = << >>
               /\ asked'[pending'[t].params] = IF pending'[t].id = None THEN "create" ELSE "create_immed"
    BY <1>1, <1>5, <2>2, <2>3 DEF OneAnswer
  <2>7. QED BY <1>1, <2>4, <2>5, <2>6 DEF OneAnswer
<1>13. SerialsName'
  <2>1. SerialsName
    BY DEF ImportsInv
  <2>2. \A other \in DOMAIN buffers' : buffers'[other].serial < nextSerial'
    <3>1. \A other \in DOMAIN buffers : buffers[other].serial < nextSerial /\ buffers[other].serial \in Nat
      BY <2>1, Types DEF SerialsName, Buffer, Serials
    <3>2. FailedBuffer(s).serial = s
      BY DEF FailedBuffer
    <3>3. id \in DOMAIN buffers' => s < nextSerial'
      BY <1>3, <1>7
    <3>4. nextSerial' \in Nat
      BY <1>6 DEF Serials
    <3>5. QED BY <1>3, <1>6, <1>7, <3>1, <3>2, <3>3, <3>4
  <2>3. ASSUME NEW t \in DOMAIN pending'
        PROVE  /\ pending'[t].id # None => pending'[t].serial < nextSerial'
               /\ pending'[t].id \in DOMAIN buffers' /\ buffers'[pending'[t].id].serial = pending'[t].serial
                    => buffers'[pending'[t].id].import = t
    <3>1. pending'[t] = pending[t] /\ pending[t].serial \in Nat
      BY Types DEF Serials
    <3>2. pending[t].id # None => pending[t].serial < nextSerial
      BY <2>1 DEF SerialsName
    <3>3. nextSerial' \in Nat
      BY <1>6 DEF Serials
    <3>4. CASE pending[t].id = id /\ id \in DOMAIN buffers'
      <4>1. pending[t].serial < nextSerial /\ buffers'[id].serial = s /\ id # None
        BY <1>7, <3>2, <3>4 DEF FailedBuffer
      <4>2. pending[t].serial # s
        BY <1>3, <3>1, <4>1
      <4>3. QED BY <1>3, <1>6, <3>1, <3>2, <3>3, <3>4, <4>1, <4>2
    <3>5. CASE pending[t].id \in DOMAIN buffers \/ pending[t].id \notin DOMAIN buffers'
      BY <1>3, <1>6, <1>7, <2>1, <3>1, <3>2, <3>3, <3>5 DEF SerialsName
    <3>6. QED BY <1>7, <3>1, <3>4, <3>5
  <2>4. QED BY <2>2, <2>3 DEF SerialsName
<1>14. WaitingIsPending' /\ VerdictsFindTheirBuffer'
  <2>1. FailedBuffer(s).kind = "failed" /\ FailedBuffer(s).import = Refused
    BY DEF FailedBuffer
  <2>2. \A t \in Tokens : t < nextToken => t < nextToken'
    BY <1>3 DEF Tokens
  <2>3. WaitingIsPending'
    BY <1>1, <1>7, <2>1, <2>2 DEF ImportsInv, WaitingIsPending
  <2>4. VerdictsFindTheirBuffer'
    BY <1>1, <1>7, <2>1 DEF ImportsInv, VerdictsFindTheirBuffer
  <2>5. QED BY <2>3, <2>4
<1>15. QED BY <1>9, <1>10, <1>11, <1>12, <1>13, <1>14 DEF ImportsInv

\* A request on its way, and the buffer of a create_immed made before the answer.
LEMMA DeliveredKeeps ==
  ASSUME ImportsAssumption, ImportsInv, NEW p \in Params, NEW id \in Ids \cup {None}, Uses(p, id),
         ~ params[p].used, nextToken \in Tokens, nextSerial + 1 < MaxSerial,
         asked' = [asked EXCEPT ![p] = IF id = None THEN "create" ELSE "create_immed"],
         UNCHANGED told,
         nextToken' = nextToken + 1,
         Len(requests) < QueueSize,
         requests' = Append(requests, nextToken),
         pending' = With(pending, nextToken, [params |-> p, id |-> id, serial |-> nextSerial]),
         \/ id = None /\ UNCHANGED <<buffers, nextSerial>>
         \/ /\ id # None
            /\ buffers' = With(buffers, id, Dmabuf(nextSerial, nextToken))
            /\ nextSerial' = nextSerial + 1
  PROVE  ImportsInv'
<1> DEFINE import == [params |-> p, id |-> id, serial |-> nextSerial]
<1>1. /\ TypeOK /\ MoreTypes /\ OneAnswer /\ UnderWayOnce
      /\ UNCHANGED <<answers, nextServer, verdict, abandoned>>
  BY DEF ImportsInv, Uses
<1>2. /\ Live' = Live /\ p \in Live /\ id \notin DOMAIN buffers
      /\ \A q \in Params : q # p => params'[q] = params[q]
      /\ params'[p] # None /\ params'[p].used
      /\ named' \subseteq Ids /\ named \subseteq named' /\ (id = None \/ id \in named')
  BY UsesTypes
<1>3. /\ nextSerial \in Nat \ {0} /\ MaxSerial \in Nat /\ MaxImports \in Nat
      /\ nextToken \in Nat \ {0} /\ nextServer \in Nat \ {0}
      /\ None \notin Ids /\ None \notin Nat
  BY Types
<1>4. told[p] = << >> /\ asked[p] = None
  BY <1>1 DEF OneAnswer
<1>5. /\ \A q \in Params : q # p => asked'[q] = asked[q]
      /\ asked'[p] = IF id = None THEN "create" ELSE "create_immed"
      /\ asked' \in [Params -> {None, "create", "create_immed"}]
  BY <1>1 DEF TypeOK
<1>6. nextSerial \in Serials /\ nextSerial' \in Serials /\ nextSerial <= nextSerial' /\ nextSerial' < MaxSerial
  BY <1>3 DEF Serials
<1>7. /\ DOMAIN buffers' \subseteq DOMAIN buffers \cup {id} /\ DOMAIN buffers \subseteq DOMAIN buffers'
      /\ \A other \in DOMAIN buffers : buffers'[other] = buffers[other]
      /\ id \in DOMAIN buffers' => /\ buffers'[id] = Dmabuf(nextSerial, nextToken)
                                   /\ id # None /\ nextSerial' = nextSerial + 1
  <2>1. CASE id = None
    BY <1>2, <2>1
  <2>2. CASE id # None
    <3>1. /\ DOMAIN buffers' = DOMAIN buffers \cup {id}
          /\ buffers'[id] = Dmabuf(nextSerial, nextToken)
          /\ \A other \in DOMAIN buffers : other # id => buffers'[other] = buffers[other]
      BY <2>2, Zenon DEF With
    <3>2. QED BY <1>2, <2>2, <3>1
  <2>3. QED BY <2>1, <2>2
<1>8. Dmabuf(nextSerial, nextToken) \in [kind : {"dmabuf", "failed", "shm"}, serial : Serials,
                                         import : Tokens \cup {Refused, None}]
  BY <1>6 DEF Dmabuf
<1>9. \A t \in DOMAIN pending : t < nextToken /\ t \in Tokens /\ t \in Nat
  BY Types DEF Tokens
<1>10. /\ DOMAIN pending' = DOMAIN pending \cup {nextToken} /\ nextToken \notin DOMAIN pending
       /\ pending'[nextToken] = import
       /\ \A t \in DOMAIN pending : pending'[t] = pending[t]
  <2>1. nextToken \notin DOMAIN pending
    BY <1>3, <1>9
  <2> HIDE DEF import
  <2>2. pending' = With(pending, nextToken, import)
    BY DEF import
  <2>3. /\ DOMAIN pending' = DOMAIN pending \cup {nextToken}
        /\ pending'[nextToken] = import
        /\ \A t \in DOMAIN pending : t # nextToken => pending'[t] = pending[t]
    BY <2>2 DEF With
  <2>4. QED BY <2>1, <2>3
<1>11. /\ DOMAIN requests' = 1 .. Len(requests) + 1 /\ Len(requests) \in Nat
       /\ Len(requests') = Len(requests) + 1 /\ requests' \in Seq(Tokens)
       /\ \A i \in 1 .. Len(requests) : requests'[i] = requests[i]
       /\ requests'[Len(requests) + 1] = nextToken
       /\ DOMAIN requests = 1 .. Len(requests)
  BY <1>1, ChannelTypes, AppendProperties DEF MoreTypes
<1>12. Range(requests') = Range(requests) \cup {nextToken}
  BY <1>11 DEF Range
<1>13. TypeOK'
  <2>1. Range(pending') \subseteq [params : Live', id : Ids \cup {None}, serial : Serials]
    <3>1. import \in [params : Live, id : Ids \cup {None}, serial : Serials]
      BY <1>2, <1>6
    <3>2. \A t \in DOMAIN pending : pending[t] \in [params : Live, id : Ids \cup {None}, serial : Serials]
      BY <1>1 DEF TypeOK, Range
    <3> HIDE DEF import
    <3>3. QED BY <1>2, <1>10, <3>1, <3>2 DEF Range
  <2>2. DOMAIN buffers' \subseteq named' \cup 1 .. MaxImports
    BY <1>1, <1>2, <1>7 DEF TypeOK
  <2>3. Range(buffers') \subseteq [kind : {"dmabuf", "failed", "shm"}, serial : Serials,
                                   import : Tokens \cup {Refused, None}]
    BY <1>1, <1>7, <1>8 DEF TypeOK, Range
  <2>4. DOMAIN pending' \subseteq Tokens
    BY <1>9, <1>10
  <2>5. Len(requests') <= QueueSize /\ nextToken' \in 1 .. MaxImports + 1
    BY <1>3, <1>11 DEF Tokens, ImportsAssumption
  <2>6. /\ params' \in [Params -> [used : BOOLEAN, planes : SUBSET (0 .. MAX_DMABUF_PLANES - 1)]
                                    \cup {None}]
        /\ client' \in {"live", "cancelled", "gone"}
    BY UsesTypes
  <2>7. \A q \in Params : Range(told'[q]) \subseteq {"created", "failed"}
    BY <1>1 DEF TypeOK
  <2>8. QED BY <1>1, <1>2, <1>5, <1>6, <2>1, <2>2, <2>3, <2>4, <2>5, <2>6, <2>7 DEF TypeOK
<1>14. MoreTypes' /\ CountersFit'
  <2>1. Cardinality(DOMAIN pending') = Cardinality(DOMAIN pending) + 1
        /\ Cardinality(DOMAIN pending) \in Nat
    BY <1>1, <1>10, PendingIsFinite, FS_AddElement
  <2>2. nextServer' + Cardinality(DOMAIN pending') <= nextToken'
    BY <1>1, <1>3, <2>1 DEF ImportsInv, CountersFit
  <2>3. nextSerial' < MaxSerial + nextServer'
    BY <1>1, <1>3, <1>6 DEF Serials
  <2>4. QED BY <1>1, <1>11, <2>2, <2>3 DEF MoreTypes, CountersFit
<1>15. UnderWayOnce' /\ PendingIsUnderWay'
  <2>1. Range(requests) \cup Answered \subseteq Tokens
    BY <1>1, ChannelTypes
  <2>2. Answered' = Answered
    BY <1>1 DEF Answered
  <2>3. \A t \in Range(requests) \cup Answered : t < nextToken /\ t # nextToken /\ t < nextToken'
    BY <1>1, <1>3, <2>1 DEF UnderWayOnce, Tokens
  <2>4. verdict[nextToken] = None /\ nextToken < nextToken'
    BY <1>1, <1>3 DEF UnderWayOnce
  <2>5. ASSUME NEW i \in DOMAIN requests', NEW j \in DOMAIN requests', requests'[i] = requests'[j]
        PROVE  i = j
    <3>1. \A k \in DOMAIN requests' : k \in 1 .. Len(requests) \/ k = Len(requests) + 1
      BY <1>11
    <3>2. \A k \in 1 .. Len(requests) : requests[k] \in Range(requests)
      BY <1>11 DEF Range
    <3>3. QED BY <1>1, <1>11, <2>3, <2>5, <3>1, <3>2 DEF UnderWayOnce
  <2>6. \A t \in Tokens : t >= nextToken' => t >= nextToken
    BY <1>3 DEF Tokens
  <2>7. UnderWayOnce'
    BY <1>1, <1>12, <2>2, <2>3, <2>4, <2>5, <2>6 DEF UnderWayOnce
  <2>8. UnderWay' = UnderWay \cup {nextToken}
    BY <1>12, <2>2 DEF UnderWay, Answered
  <2>9. PendingIsUnderWay'
    BY <1>10, <2>8 DEF ImportsInv, PendingIsUnderWay
  <2>10. QED BY <2>7, <2>9
<1>16. OneAnswer'
  <2>1. import.params = p /\ import.id = id
    OBVIOUS
  <2> HIDE DEF import
  <2>2. \A t \in DOMAIN pending : pending[t].params # p
    BY <1>1, <1>4, Types DEF OneAnswer, ImportsAssumption
  <2>3. \A t \in DOMAIN pending : pending[t].params \in Params
    BY Types
  <2>4. \A q \in Params : q # p => PendingOf(q)' = PendingOf(q)
    BY <1>10, <2>1 DEF PendingOf
  <2>5. nextToken \in PendingOf(p)'
    BY <1>10, <2>1 DEF PendingOf
  <2>6. ASSUME NEW q \in Params
        PROVE  params'[q] = None \/ ~ params'[q].used => told'[q] = << >> /\ asked'[q] = None
    BY <1>1, <1>2, <1>5 DEF OneAnswer
  <2>7. ASSUME NEW q \in Live'
        PROVE  /\ Len(told'[q]) <= 1
               /\ asked'[q] = None => told'[q] = << >>
               /\ asked'[q] = "create" /\ told'[q] = << >> => PendingOf(q)' # {}
               /\ asked'[q] = "create_immed" => told'[q] \in {<< >>, << "failed" >>}
    <3>1. CASE q = p
      BY <1>1, <1>2, <1>4, <1>5, <2>5, <3>1 DEF OneAnswer, Live
    <3>2. CASE q # p
      BY <1>1, <1>2, <1>5, <2>4, <2>7, <3>2 DEF OneAnswer, Live
    <3>3. QED BY <3>1, <3>2
  <2>8. ASSUME NEW t \in DOMAIN pending'
        PROVE  /\ told'[pending'[t].params] = << >>
               /\ asked'[pending'[t].params] = IF pending'[t].id = None THEN "create" ELSE "create_immed"
    BY <1>1, <1>4, <1>5, <1>10, <2>1, <2>2, <2>3 DEF OneAnswer
  <2>9. ASSUME NEW t \in DOMAIN pending', NEW u \in DOMAIN pending',
               pending'[t].params = pending'[u].params
        PROVE  t = u
    BY <1>1, <1>10, <2>1, <2>2, <2>9 DEF OneAnswer
  <2>10. QED BY <2>6, <2>7, <2>8, <2>9 DEF OneAnswer
<1>17. SerialsName'
  <2>1. SerialsName
    BY DEF ImportsInv
  <2>2. /\ Dmabuf(nextSerial, nextToken).serial = nextSerial
        /\ Dmabuf(nextSerial, nextToken).import = nextToken
        /\ import.serial = nextSerial /\ import.id = id
    BY DEF Dmabuf
  <2> HIDE DEF import
  <2>3. \A other \in DOMAIN buffers : buffers[other].serial < nextSerial /\ buffers[other].serial \in Nat
    BY <2>1, Types DEF SerialsName, Buffer, Serials
  <2>4. nextSerial' \in Nat
    BY <1>6 DEF Serials
  <2>5. \A other \in DOMAIN buffers' : buffers'[other].serial < nextSerial'
    BY <1>3, <1>6, <1>7, <2>2, <2>3, <2>4
  <2>6. ASSUME NEW t \in DOMAIN pending
        PROVE  /\ pending'[t].id # None => pending'[t].serial < nextSerial'
               /\ pending'[t].id \in DOMAIN buffers' /\ buffers'[pending'[t].id].serial = pending'[t].serial
                    => buffers'[pending'[t].id].import = t
    <3>1. pending'[t] = pending[t] /\ pending[t].serial \in Nat
      BY <1>10, Types DEF Serials
    <3>2. pending[t].id # None => pending[t].serial < nextSerial
      BY <2>1 DEF SerialsName
    <3>3. CASE pending[t].id = id /\ id \in DOMAIN buffers'
      <4>1. pending[t].serial < nextSerial /\ buffers'[id].serial = nextSerial /\ id # None
        BY <1>7, <2>2, <3>2, <3>3
      <4>2. pending[t].serial # nextSerial
        BY <1>3, <3>1, <4>1
      <4>3. QED BY <1>3, <1>6, <2>4, <3>1, <3>3, <4>1, <4>2
    <3>4. CASE pending[t].id \in DOMAIN buffers \/ pending[t].id \notin DOMAIN buffers'
      BY <1>3, <1>6, <1>7, <2>1, <2>4, <3>1, <3>2, <3>4 DEF SerialsName
    <3>5. QED BY <1>7, <3>1, <3>3, <3>4
  <2>7. /\ pending'[nextToken].id # None => pending'[nextToken].serial < nextSerial'
        /\ pending'[nextToken].id \in DOMAIN buffers'
             => buffers'[pending'[nextToken].id].import = nextToken
    BY <1>3, <1>7, <1>10, <2>2
  <2>8. QED BY <1>10, <2>5, <2>6, <2>7 DEF SerialsName
<1>18. WaitingIsPending' /\ VerdictsFindTheirBuffer'
  <2>1. /\ Dmabuf(nextSerial, nextToken).serial = nextSerial
        /\ Dmabuf(nextSerial, nextToken).import = nextToken
        /\ Dmabuf(nextSerial, nextToken).kind = "dmabuf"
        /\ import.serial = nextSerial /\ import.id = id
    BY DEF Dmabuf
  <2> HIDE DEF import
  <2>2. \A t \in Tokens : t < nextToken => t < nextToken'
    BY <1>3 DEF Tokens
  <2>3. verdict[nextToken] = None /\ nextToken < nextToken'
    BY <1>1, <1>3 DEF UnderWayOnce
  <2>4. WaitingIsPending'
    BY <1>1, <1>7, <1>10, <2>1, <2>2, <2>3 DEF ImportsInv, WaitingIsPending
  <2>5. None # FALSE
    BY DEF ImportsAssumption
  <2>6. VerdictsFindTheirBuffer'
    BY <1>1, <1>7, <2>1, <2>3, <2>5 DEF ImportsInv, VerdictsFindTheirBuffer
  <2>7. QED BY <2>4, <2>6
<1>19. QED BY <1>13, <1>14, <1>15, <1>16, <1>17, <1>18 DEF ImportsInv

LEMMA CreateKeeps ==
  ASSUME ImportsAssumption, ImportsInv, NEW p \in Params, NEW id \in Ids \cup {None},
         NEW offer, Create(p, id, offer)
  PROVE  ImportsInv'
<1>1. /\ params[p] # None /\ nextToken \in Tokens /\ nextSerial + 1 < MaxSerial
      /\ UNCHANGED <<answers, nextServer, verdict, abandoned>>
      /\ nextToken \in Nat /\ nextSerial \in Nat /\ MaxSerial \in Nat /\ MaxImports \in Nat
  BY Types DEF Create
<1>2. CASE id \in named
  <2>1. /\ client' = "cancelled"
        /\ UNCHANGED <<params, named, buffers, nextSerial, nextToken, pending, requests, asked, told>>
    BY <1>2 DEF Create, Fatal
  <2>2. QED BY <1>1, <2>1, ErrorKeeps
<1>3. CASE /\ id \notin named
           /\ params[p].used \/ ~ Complete(params[p].planes) \/ offer = "misfit"
  <2>1. /\ Uses(p, id)
        /\ UNCHANGED <<buffers, nextSerial, nextToken, pending, requests, asked, told>>
    BY <1>3 DEF Create, Fatal, Uses
  <2>2. QED BY <2>1, ErrorKeeps
<1>4. CASE /\ id \notin named
           /\ ~ (params[p].used \/ ~ Complete(params[p].planes) \/ offer = "misfit")
  <2>1. /\ Uses(p, id) /\ ~ params[p].used
        /\ asked' = [asked EXCEPT ![p] = IF id = None THEN "create" ELSE "create_immed"]
    BY <1>4 DEF Create, Uses
  <2>2. CASE offer = "unknown"
    <3>1. Refuse(p, id, nextSerial, buffers) /\ UNCHANGED <<nextToken, pending, requests>>
      BY <1>4, <2>2 DEF Create
    <3>2. nextToken' \in {nextToken, nextToken + 1} /\ nextToken' \in 1 .. MaxImports + 1
      BY <1>1, <3>1 DEF Tokens
    <3>3. nextSerial \in {nextSerial, nextSerial + 1} /\ nextSerial < MaxSerial
      BY <1>1
    <3>4. \/ id = None /\ UNCHANGED <<buffers, nextSerial>>
          \/ /\ id # None
             /\ DOMAIN buffers' = DOMAIN buffers \cup {id}
             /\ \A other \in DOMAIN buffers : buffers'[other] = buffers[other]
             /\ buffers'[id] = FailedBuffer(nextSerial)
             /\ nextSerial' = nextSerial + 1
      <4>1. CASE id = None
        BY <3>1, <4>1 DEF Refuse
      <4>2. CASE id # None
        <5>1. buffers' = With(buffers, id, FailedBuffer(nextSerial)) /\ nextSerial' = nextSerial + 1
          BY <3>1, <4>2 DEF Refuse
        <5>2. id \notin DOMAIN buffers
          BY <2>1, UsesTypes
        <5>3. /\ DOMAIN buffers' = DOMAIN buffers \cup {id}
              /\ buffers'[id] = FailedBuffer(nextSerial)
              /\ \A other \in DOMAIN buffers : other # id => buffers'[other] = buffers[other]
          BY <5>1, Zenon DEF With
        <5>4. QED BY <4>2, <5>1, <5>2, <5>3
      <4>3. QED BY <4>1, <4>2
    <3>5. told' = [told EXCEPT ![p] = Append(@, "failed")]
      BY <3>1 DEF Refuse
    <3>6. QED BY <2>1, <3>1, <3>2, <3>3, <3>4, <3>5, RefusedKeeps
  <2>3. CASE offer = "good" /\ Len(requests) < QueueSize
    <3>1. /\ nextToken' = nextToken + 1
          /\ requests' = Append(requests, nextToken)
          /\ pending' = With(pending, nextToken, [params |-> p, id |-> id, serial |-> nextSerial])
          /\ buffers' = IF id # None THEN With(buffers, id, Dmabuf(nextSerial, nextToken)) ELSE buffers
          /\ nextSerial' = IF id # None THEN nextSerial + 1 ELSE nextSerial
          /\ UNCHANGED told
      BY <1>4, <2>3, Types, ChannelTypes DEF Create, ImportsInv, ImportsAssumption
    <3>2. QED BY <1>1, <2>1, <2>3, <3>1, DeliveredKeeps
  <2>4. CASE offer = "good" /\ Len(requests) >= QueueSize
    <3> DEFINE registered == IF id # None THEN With(buffers, id, Dmabuf(nextSerial, nextToken))
                             ELSE buffers
               serial == IF id # None THEN nextSerial + 1 ELSE nextSerial
    <3>1. /\ nextToken' = nextToken + 1
          /\ Refuse(p, id, serial, registered)
          /\ UNCHANGED <<pending, requests>>
      BY <1>4, <2>4, Types, ChannelTypes DEF Create, Undelivered, ImportsInv, ImportsAssumption
    <3>2. nextToken' \in {nextToken, nextToken + 1} /\ nextToken' \in 1 .. MaxImports + 1
      BY <1>1, <3>1 DEF Tokens
    <3>3. serial \in {nextSerial, nextSerial + 1} /\ serial < MaxSerial
      BY <1>1
    <3>4. \/ id = None /\ UNCHANGED <<buffers, nextSerial>>
          \/ /\ id # None
             /\ DOMAIN buffers' = DOMAIN buffers \cup {id}
             /\ \A other \in DOMAIN buffers : buffers'[other] = buffers[other]
             /\ buffers'[id] = FailedBuffer(serial)
             /\ nextSerial' = serial + 1
      <4>1. CASE id = None
        BY <3>1, <4>1 DEF Refuse
      <4>2. CASE id # None
        <5>1. /\ buffers' = With(registered, id, FailedBuffer(serial)) /\ nextSerial' = serial + 1
              /\ registered = With(buffers, id, Dmabuf(nextSerial, nextToken))
          BY <3>1, <4>2 DEF Refuse
        <5>2. id \notin DOMAIN buffers
          BY <2>1, UsesTypes
        <5> HIDE DEF registered, serial
        <5>3. /\ DOMAIN registered = DOMAIN buffers \cup {id}
              /\ \A other \in DOMAIN buffers : other # id => registered[other] = buffers[other]
          BY <5>1, Zenon DEF With
        <5>4. /\ DOMAIN buffers' = DOMAIN registered \cup {id}
              /\ buffers'[id] = FailedBuffer(serial)
              /\ \A other \in DOMAIN registered : other # id => buffers'[other] = registered[other]
          BY <5>1, Zenon DEF With
        <5>5. QED BY <4>2, <5>1, <5>2, <5>3, <5>4
      <4>3. QED BY <4>1, <4>2
    <3>5. told' = [told EXCEPT ![p] = Append(@, "failed")]
      BY <3>1 DEF Refuse
    <3> HIDE DEF registered, serial
    <3>6. QED BY <2>1, <3>1, <3>2, <3>3, <3>4, <3>5, RefusedKeeps
  <2>5. QED
    <3>1. Len(requests) \in Nat /\ QueueSize \in Nat
      BY ChannelTypes DEF ImportsInv, ImportsAssumption
    <3>2. offer \in {"good", "unknown"}
      BY <1>4 DEF Create
    <3>3. QED BY <2>2, <2>3, <2>4, <3>1, <3>2
<1>5. QED BY <1>2, <1>3, <1>4

-----------------------------------------------------------------------------
(* The verdict.                                                            *)

LEMMA AnswerKeeps ==
  ASSUME ImportsAssumption, ImportsInv, NEW imported \in BOOLEAN, Answer(imported)
  PROVE  ImportsInv'
<1> USE DEF Answer
<1> DEFINE new == [token |-> Head(requests), imported |-> imported]
<1>1. /\ TypeOK /\ MoreTypes /\ UnderWayOnce /\ PendingIsUnderWay
      /\ requests \in Seq(Tokens) /\ answers \in Seq([token : Tokens, imported : BOOLEAN])
      /\ requests # << >>
  BY DEF ImportsInv, MoreTypes
<1>2. /\ Len(requests) \in Nat \ {0} /\ DOMAIN requests = 1 .. Len(requests)
      /\ Len(answers) \in Nat /\ DOMAIN answers = 1 .. Len(answers)
      /\ Range(requests) \cup Answered \subseteq Tokens
  BY <1>1, ChannelTypes, EmptySeq
<1>3. /\ requests' \in Seq(Tokens) /\ DOMAIN requests' = 1 .. Len(requests) - 1
      /\ Len(requests') = Len(requests) - 1
      /\ \A i \in 1 .. Len(requests) - 1 : requests'[i] = requests[i + 1] /\ i + 1 \in DOMAIN requests
      /\ Head(requests) = requests[1] /\ 1 \in DOMAIN requests /\ requests[1] \in Tokens
  BY <1>1, <1>2, HeadTailProperties
<1>4. new \in [token : Tokens, imported : BOOLEAN] /\ new.token = requests[1]
  BY <1>3
<1>5. /\ answers' \in Seq([token : Tokens, imported : BOOLEAN])
      /\ DOMAIN answers' = 1 .. Len(answers) + 1
      /\ \A i \in 1 .. Len(answers) : answers'[i] = answers[i]
      /\ answers'[Len(answers) + 1] = new
  <2> HIDE DEF new
  <2>1. answers' = Append(answers, new)
    BY DEF new
  <2>2. QED BY <1>1, <1>2, <1>4, <2>1, AppendProperties
<1>6. Range(requests') = Range(requests) \ {requests[1]}
  <2>1. \A i \in DOMAIN requests : i = 1 \/ (i - 1 \in 1 .. Len(requests) - 1 /\ (i - 1) + 1 = i)
    BY <1>2
  <2>2. \A i \in 1 .. Len(requests) - 1 : i + 1 # 1
    BY <1>2
  <2>3. Range(requests') \subseteq Range(requests) \ {requests[1]}
    <3>1. ASSUME NEW i \in 1 .. Len(requests) - 1
          PROVE  requests[i + 1] \in Range(requests) /\ requests[i + 1] # requests[1]
      BY <1>1, <1>3, <2>2 DEF Range, UnderWayOnce
    <3>2. \A i \in DOMAIN requests' : requests'[i] \in Range(requests) \ {requests[1]}
      BY <1>3, <3>1
    <3>3. QED BY <3>2 DEF Range
  <2>4. ASSUME NEW t \in Range(requests) \ {requests[1]}
        PROVE  t \in Range(requests')
    <3>1. PICK i \in DOMAIN requests : requests[i] = t /\ i # 1
      BY <2>4 DEF Range
    <3>2. i - 1 \in DOMAIN requests' /\ requests'[i - 1] = t
      BY <1>3, <2>1, <3>1
    <3>3. QED BY <3>2 DEF Range
  <2>5. QED BY <2>3, <2>4
<1>7. Answered' = Answered \cup {requests[1]}
  <2>1. \A i \in DOMAIN answers' : i \in 1 .. Len(answers) \/ i = Len(answers) + 1
    BY <1>2, <1>5
  <2>2. Len(answers) + 1 \in DOMAIN answers' /\ \A i \in 1 .. Len(answers) : i \in DOMAIN answers'
    BY <1>2, <1>5
  <2>3. QED BY <1>2, <1>4, <1>5, <2>1, <2>2 DEF Answered
<1>8. requests[1] \in Range(requests)
  BY <1>3 DEF Range
<1>9. UnderWayOnce'
  <2>1. ASSUME NEW i \in DOMAIN requests', NEW j \in DOMAIN requests', requests'[i] = requests'[j]
        PROVE  i = j
    <3>1. i + 1 = j + 1
      BY <1>1, <1>3, <2>1 DEF UnderWayOnce
    <3>2. QED BY <1>2, <1>3, <3>1
  <2>2. ASSUME NEW i \in DOMAIN answers', NEW j \in DOMAIN answers',
               answers'[i].token = answers'[j].token
        PROVE  i = j
    <3>1. \A k \in DOMAIN answers' : k \in 1 .. Len(answers) \/ k = Len(answers) + 1
      BY <1>2, <1>5
    <3>2. \A k \in 1 .. Len(answers) : answers[k].token \in Answered
      BY <1>2 DEF Answered
    <3>3. requests[1] \notin Answered
      BY <1>1, <1>8 DEF UnderWayOnce
    <3>4. QED BY <1>1, <1>2, <1>4, <1>5, <2>2, <3>1, <3>2, <3>3 DEF UnderWayOnce
  <2>3. Range(requests') \cup Answered' = Range(requests) \cup Answered
    BY <1>6, <1>7, <1>8
  <2>4. Range(requests') \cap Answered' = {}
    BY <1>1, <1>6, <1>7 DEF UnderWayOnce
  <2>5. QED BY <1>1, <2>1, <2>2, <2>3, <2>4 DEF UnderWayOnce
<1>10. PendingIsUnderWay'
  BY <1>1, <1>6, <1>7, <1>8 DEF PendingIsUnderWay, UnderWay, Answered
<1>11. TypeOK' /\ MoreTypes'
  <2>1. Len(requests') <= QueueSize
    BY <1>1, <1>2, <1>3 DEF TypeOK, ImportsAssumption
  <2>2. Live' = Live
    BY DEF Live
  <2>3. QED BY <1>1, <1>3, <1>5, <2>1, <2>2 DEF TypeOK, MoreTypes, Range
<1>12. OneAnswer' /\ CountersFit' /\ SerialsName' /\ WaitingIsPending' /\ VerdictsFindTheirBuffer'
  <2>1. OneAnswer'
    BY DEF ImportsInv, OneAnswer, Live, PendingOf
  <2>2. QED BY <2>1 DEF ImportsInv, CountersFit, SerialsName, WaitingIsPending, VerdictsFindTheirBuffer
<1>13. QED BY <1>9, <1>10, <1>11, <1>12 DEF ImportsInv

\* What the arrival of any verdict does to the channel.
LEMMA VerdictArrives ==
  ASSUME ImportsAssumption, ImportsInv, Verdict, NEW token, token = Head(answers).token
  PROVE  /\ token \in Tokens /\ verdict[token] = None /\ Head(answers).imported \in BOOLEAN
         /\ token < nextToken
         /\ verdict' \in [Tokens -> BOOLEAN \cup {None}]
         /\ verdict'[token] = Head(answers).imported
         /\ \A t \in Tokens : t # token => verdict'[t] = verdict[t]
         /\ answers' \in Seq([token : Tokens, imported : BOOLEAN])
         /\ UnderWayOnce' /\ UnderWay' = UnderWay \ {token}
<1>1. /\ TypeOK /\ MoreTypes /\ UnderWayOnce
      /\ answers \in Seq([token : Tokens, imported : BOOLEAN])
      /\ answers # << >> /\ answers' = Tail(answers) /\ requests' = requests
      /\ nextToken' = nextToken
      /\ verdict' = [verdict EXCEPT ![token] = Head(answers).imported]
  BY DEF ImportsInv, MoreTypes, Verdict
<1>2. /\ Len(answers) \in Nat \ {0} /\ DOMAIN answers = 1 .. Len(answers)
      /\ Range(requests) \cup Answered \subseteq Tokens
      /\ \A i \in DOMAIN answers : answers[i] \in [token : Tokens, imported : BOOLEAN]
  BY <1>1, ChannelTypes, EmptySeq
<1>3. /\ answers' \in Seq([token : Tokens, imported : BOOLEAN])
      /\ DOMAIN answers' = 1 .. Len(answers) - 1
      /\ \A i \in 1 .. Len(answers) - 1 : answers'[i] = answers[i + 1] /\ i + 1 \in DOMAIN answers
      /\ Head(answers) = answers[1] /\ 1 \in DOMAIN answers
  BY <1>1, <1>2, HeadTailProperties
<1>4. /\ token \in Answered /\ token = answers[1].token
      /\ answers[1] \in [token : Tokens, imported : BOOLEAN]
  BY <1>2, <1>3 DEF Answered
<1>5. token \in Tokens /\ verdict[token] = None /\ Head(answers).imported \in BOOLEAN /\ token < nextToken
  BY <1>1, <1>2, <1>3, <1>4 DEF UnderWayOnce
<1>6. /\ verdict' \in [Tokens -> BOOLEAN \cup {None}]
      /\ verdict'[token] = Head(answers).imported
      /\ \A t \in Tokens : t # token => verdict'[t] = verdict[t]
  BY <1>1, <1>5 DEF TypeOK
<1>7. Answered' = Answered \ {token}
  <2>1. \A i \in DOMAIN answers : i = 1 \/ (i - 1 \in 1 .. Len(answers) - 1 /\ (i - 1) + 1 = i)
    BY <1>2
  <2>2. \A i \in 1 .. Len(answers) - 1 : i + 1 # 1
    BY <1>2
  <2>3. Answered' \subseteq Answered \ {token}
    BY <1>1, <1>3, <1>4, <2>2 DEF Answered, UnderWayOnce
  <2>4. ASSUME NEW t \in Answered \ {token}
        PROVE  t \in Answered'
    <3>1. PICK i \in DOMAIN answers : answers[i].token = t /\ i # 1
      BY <1>4, <2>4 DEF Answered
    <3>2. i - 1 \in DOMAIN answers' /\ answers'[i - 1].token = t
      BY <1>3, <2>1, <3>1
    <3>3. QED BY <3>2 DEF Answered
  <2>5. QED BY <2>3, <2>4
<1>8. UnderWayOnce'
  <2>1. ASSUME NEW i \in DOMAIN answers', NEW j \in DOMAIN answers',
               answers'[i].token = answers'[j].token
        PROVE  i = j
    <3>1. i + 1 = j + 1
      BY <1>1, <1>3, <2>1 DEF UnderWayOnce
    <3>2. QED BY <1>2, <1>3, <3>1
  <2>2. \A t \in Range(requests) \cup (Answered \ {token}) : t \in Tokens /\ t # token
    BY <1>1, <1>2, <1>4 DEF UnderWayOnce
  <2>3. \A t \in Tokens : t >= nextToken => t # token
    BY <1>1, <1>5 DEF Tokens, TypeOK, ImportsAssumption
  <2>4. \A t \in Range(requests) \cup Answered' : t < nextToken /\ verdict'[t] = None
    BY <1>1, <1>6, <1>7, <2>2 DEF UnderWayOnce
  <2>5. \A t \in Tokens : t >= nextToken => verdict'[t] = None
    BY <1>1, <1>6, <2>3 DEF UnderWayOnce
  <2>6. Range(requests) \cap Answered' = {}
    BY <1>1, <1>7 DEF UnderWayOnce
  <2>7. QED BY <1>1, <2>1, <2>4, <2>5, <2>6 DEF UnderWayOnce
<1>9. UnderWay' = UnderWay \ {token}
  BY <1>1, <1>4, <1>7 DEF UnderWay, Answered, UnderWayOnce
<1>10. QED BY <1>3, <1>5, <1>6, <1>8, <1>9

\* What resolve_import tells the params object of a pending import: something of
\* a create, of a create_immed nothing or that it failed.
ToldBy(token) ==
  IF token \notin DOMAIN pending THEN told' = told
  ELSE LET import == pending[token] IN
    \E answer \in {<< >>, << "failed" >>, << "created" >>} :
      /\ told' = [told EXCEPT ![import.params] = answer]
      /\ import.id = None => answer # << >>
      /\ import.id # None => answer # << "created" >>

LEMMA ResolveTells ==
  ASSUME ImportsAssumption, ImportsInv, NEW token, NEW imported \in BOOLEAN,
         Resolve(token, imported)
  PROVE  ToldBy(token)
<1>1. CASE token \notin DOMAIN pending
  BY <1>1 DEF Resolve, ToldBy
<1>2. CASE token \in DOMAIN pending
  <2> DEFINE import == pending[token]
  <2>1. /\ import.params \in Params /\ params[import.params] # None
        /\ told[import.params] = << >> /\ told \in [Params -> Seq({"created", "failed"})]
    BY <1>2, Types DEF ImportsInv, OneAnswer, MoreTypes
  <2>2. \/ told' = told /\ import.id # None
        \/ SendFailed(import.params)
        \/ told' = [told EXCEPT ![import.params] = Append(@, "created")] /\ import.id = None
    BY <1>2 DEF Resolve
  <2>3. \/ told' = told /\ import.id # None
        \/ told' = [told EXCEPT ![import.params] = Append(@, "failed")]
        \/ told' = [told EXCEPT ![import.params] = Append(@, "created")] /\ import.id = None
    BY <2>1, <2>2 DEF SendFailed
  <2>4. /\ Append(<< >>, "failed") = << "failed" >> /\ Append(<< >>, "created") = << "created" >>
        /\ << "failed" >> # << >> /\ << "created" >> # << >> /\ << "failed" >> # << "created" >>
    <3>1. "failed" # "created"
      OBVIOUS
    <3>2. << "failed" >>[1] # << "created" >>[1]
      BY <3>1
    <3>3. QED BY <3>2
  <2> HIDE DEF import
  <2>5. \E answer \in {<< >>, << "failed" >>, << "created" >>} :
          /\ told' = [told EXCEPT ![import.params] = answer]
          /\ import.id = None => answer # << >>
          /\ import.id # None => answer # << "created" >>
    <3>1. CASE told' = told /\ import.id # None
      <4>1. told' = [told EXCEPT ![import.params] = << >>]
        BY <2>1, <3>1
      <4>2. QED BY <2>4, <3>1, <4>1
    <3>2. CASE told' = [told EXCEPT ![import.params] = Append(@, "failed")]
      <4>1. told' = [told EXCEPT ![import.params] = << "failed" >>]
        BY <2>1, <2>4, <3>2
      <4>2. QED BY <2>4, <4>1
    <3>3. CASE told' = [told EXCEPT ![import.params] = Append(@, "created")] /\ import.id = None
      <4>1. told' = [told EXCEPT ![import.params] = << "created" >>]
        BY <2>1, <2>4, <3>3
      <4>2. QED BY <2>4, <3>3, <4>1
    <3>4. QED BY <2>3, <3>1, <3>2, <3>3
  <2>6. QED BY <1>2, <2>5 DEF ToldBy, import
<1>3. QED BY <1>1, <1>2

\* What it does to the buffers: nothing, unless the import failed of a buffer
\* that is still its own, or made one that had to wait for it.
Untouched(token, imported) ==
  /\ UNCHANGED <<buffers, nextSerial, nextServer>>
  /\ token \in DOMAIN pending =>
       imported \/ pending[token].id = None \/ ~ StillIts(pending[token])

Failed(token, imported) ==
  /\ token \in DOMAIN pending /\ ~ imported
  /\ StillIts(pending[token])
  /\ buffers' = [buffers EXCEPT ![pending[token].id].kind = "failed"]
  /\ UNCHANGED <<nextSerial, nextServer>>

Made(token, imported) ==
  /\ token \in DOMAIN pending /\ imported
  /\ buffers' = With(buffers, nextServer, Dmabuf(nextSerial, token))
  /\ nextSerial' = nextSerial + 1 /\ nextServer' = nextServer + 1

LEMMA ResolveBuffers ==
  ASSUME NEW token, NEW imported \in BOOLEAN, Resolve(token, imported)
  PROVE  Untouched(token, imported) \/ Failed(token, imported) \/ Made(token, imported)
BY DEF Resolve, Untouched, Failed, Made

\* The params objects' side of a verdict.
LEMMA ToldByKeeps ==
  ASSUME ImportsAssumption, ImportsInv, NEW token, ToldBy(token),
         pending' = Without(pending, {token}), UNCHANGED <<params, asked>>
  PROVE  /\ OneAnswer'
         /\ told' \in [Params -> Seq({"created", "failed"})]
         /\ \A q \in Params : Range(told'[q]) \subseteq {"created", "failed"}
<1>1. OneAnswer /\ TypeOK /\ told \in [Params -> Seq({"created", "failed"})]
  BY DEF ImportsInv, MoreTypes
<1>2. /\ DOMAIN pending' = DOMAIN pending \ {token}
      /\ \A t \in DOMAIN pending' : pending'[t] = pending[t]
  BY DEF Without, Restrict
<1>3. Live' = Live
  BY DEF Live
<1>4. << >> \in Seq({"created", "failed"}) /\ << "failed" >> \in Seq({"created", "failed"})
      /\ << "created" >> \in Seq({"created", "failed"})
  OBVIOUS
<1>5. \A q : PendingOf(q)' = PendingOf(q) \ {token}
  BY <1>2 DEF PendingOf
<1>6. CASE token \notin DOMAIN pending
  <2>1. told' = told
    BY <1>6 DEF ToldBy
  <2>2. \A q : PendingOf(q)' = PendingOf(q)
    BY <1>5, <1>6 DEF PendingOf
  <2>3. OneAnswer'
    <3>1. /\ \A t, u \in DOMAIN pending' : pending'[t].params = pending'[u].params => t = u
          /\ \A t \in DOMAIN pending' :
               /\ told'[pending'[t].params] = << >>
               /\ asked'[pending'[t].params] = IF pending'[t].id = None THEN "create" ELSE "create_immed"
      <4>1. \A t \in DOMAIN pending' : t \in DOMAIN pending /\ pending'[t] = pending[t]
        BY <1>2
      <4>2. OneAnswer /\ told' = told /\ asked' = asked
        BY <1>1, <2>1
      <4>3. \A t, u \in DOMAIN pending' : pending'[t].params = pending'[u].params => t = u
        BY ONLY <4>1, <4>2 DEF OneAnswer
      <4>4. QED BY ONLY <4>1, <4>2, <4>3 DEF OneAnswer
    <3>2. QED BY <1>1, <1>3, <2>1, <2>2, <3>1 DEF OneAnswer
  <2>4. QED BY <1>1, <2>1, <2>3 DEF TypeOK
<1>7. CASE token \in DOMAIN pending
  <2> DEFINE import == pending[token]
  <2>1. PICK answer \in {<< >>, << "failed" >>, << "created" >>} :
          /\ told' = [told EXCEPT ![import.params] = answer]
          /\ import.id = None => answer # << >>
          /\ import.id # None => answer # << "created" >>
    BY <1>7 DEF ToldBy
  <2>2. /\ import.params \in Params /\ params[import.params] # None
        /\ told[import.params] = << >>
        /\ asked[import.params] = IF import.id = None THEN "create" ELSE "create_immed"
        /\ \A t \in DOMAIN pending : t # token => pending[t].params # import.params
        /\ \A t \in DOMAIN pending : pending[t].params \in Params
    BY <1>1, <1>7, Types DEF OneAnswer
  <2> HIDE DEF import
  <2>3. /\ \A q \in Params : told'[q] = IF q = import.params THEN answer ELSE told[q]
        /\ told' \in [Params -> Seq({"created", "failed"})]
    BY <1>1, <1>4, <2>1
  <2>4. Range(answer) \subseteq {"created", "failed"} /\ Len(answer) <= 1
    <3>1. /\ Range(<< >>) = {} /\ Range(<< "failed" >>) = {"failed"}
          /\ Range(<< "created" >>) = {"created"}
      BY DEF Range
    <3>2. Len(<< >>) = 0 /\ Len(<< "failed" >>) = 1 /\ Len(<< "created" >>) = 1
      OBVIOUS
    <3>3. CASE answer = << >>
      BY <3>1, <3>2, <3>3
    <3>4. CASE answer = << "failed" >>
      BY <3>1, <3>2, <3>4
    <3>5. CASE answer = << "created" >>
      BY <3>1, <3>2, <3>5
    <3>6. QED BY <3>3, <3>4, <3>5
  <2>5. params[import.params].used
    BY <1>1, <2>2 DEF OneAnswer, ImportsAssumption
  <2>6. ASSUME NEW q \in Params
        PROVE  params'[q] = None \/ ~ params'[q].used => told'[q] = << >> /\ asked'[q] = None
    BY <1>1, <2>2, <2>3, <2>5 DEF OneAnswer
  <2>7. ASSUME NEW q \in Live'
        PROVE  /\ Len(told'[q]) <= 1
               /\ asked'[q] = None => told'[q] = << >>
               /\ asked'[q] = "create" /\ told'[q] = << >> => PendingOf(q)' # {}
               /\ asked'[q] = "create_immed" => told'[q] \in {<< >>, << "failed" >>}
    <3>1. q \in Live /\ q \in Params
      BY <1>3 DEF Live
    <3>2. CASE q = import.params
      BY <2>1, <2>2, <2>3, <2>4, <3>1, <3>2 DEF ImportsAssumption
    <3>3. CASE q # import.params
      <4>1. PendingOf(q)' = PendingOf(q)
        BY <1>5, <3>3 DEF PendingOf, import
      <4>2. QED BY <1>1, <2>3, <3>1, <3>3, <4>1 DEF OneAnswer
    <3>4. QED BY <3>2, <3>3
  <2>8. ASSUME NEW t \in DOMAIN pending'
        PROVE  /\ told'[pending'[t].params] = << >>
               /\ asked'[pending'[t].params] = IF pending'[t].id = None THEN "create" ELSE "create_immed"
    <3>1. t \in DOMAIN pending /\ t # token /\ pending'[t] = pending[t]
      BY <1>2
    <3>2. pending[t].params \in Params /\ pending[t].params # import.params
      BY <2>2, <3>1
    <3>3. told'[pending[t].params] = told[pending[t].params]
      BY <2>3, <3>2
    <3>4. QED BY <1>1, <3>1, <3>3 DEF OneAnswer
  <2>9. OneAnswer'
    <3>1. \A t, u \in DOMAIN pending' : pending'[t].params = pending'[u].params => t = u
      BY <1>1, <1>2 DEF OneAnswer
    <3>2. QED BY <2>6, <2>7, <2>8, <3>1 DEF OneAnswer
  <2>10. \A q \in Params : Range(told'[q]) \subseteq {"created", "failed"}
    BY <1>1, <2>3, <2>4 DEF TypeOK
  <2>11. QED BY <2>3, <2>9, <2>10
<1>8. QED BY <1>6, <1>7

\* What an import that is no longer pending leaves to count.
LEMMA OneLessPending ==
  ASSUME ImportsAssumption, ImportsInv, NEW token, pending' = Without(pending, {token})
  PROVE  /\ Cardinality(DOMAIN pending) \in Nat /\ Cardinality(DOMAIN pending') \in Nat
         /\ Cardinality(DOMAIN pending') =
              IF token \in DOMAIN pending THEN Cardinality(DOMAIN pending) - 1
              ELSE Cardinality(DOMAIN pending)
<1>1. DOMAIN pending' = DOMAIN pending \ {token}
  BY WithoutFacts
<1>2. IsFiniteSet(DOMAIN pending) /\ Cardinality(DOMAIN pending) \in Nat
  BY PendingIsFinite DEF ImportsInv
<1>3. Cardinality(DOMAIN pending') =
        IF token \in DOMAIN pending THEN Cardinality(DOMAIN pending) - 1
        ELSE Cardinality(DOMAIN pending)
  BY <1>1, <1>2, FS_RemoveElement
<1>4. IsFiniteSet(DOMAIN pending')
  BY <1>1, <1>2, FS_Subset
<1>5. QED BY <1>2, <1>3, <1>4, FS_CardinalityType

\* The buffers' side of a verdict: what the invariant says of them, and the
\* numbers they take.
BuffersAreRight ==
  /\ \A id \in DOMAIN buffers : buffers[id] \in Buffer /\ (id \in named \/ id \in 1 .. MaxImports)
  /\ nextSerial \in Serials /\ nextServer \in Nat \ {0}
  /\ CountersFit /\ SerialsName /\ WaitingIsPending /\ VerdictsFindTheirBuffer

\* What the three cases share.
VerdictOf(token, imported) ==
  /\ token \in Tokens /\ verdict[token] = None /\ imported \in BOOLEAN
  /\ verdict'[token] = imported
  /\ \A t \in Tokens : t # token => verdict'[t] = verdict[t]
  /\ pending' = Without(pending, {token})
  /\ UNCHANGED <<named, nextToken, abandoned>>

LEMMA SameBuffersAreRight ==
  ASSUME ImportsAssumption, ImportsInv, NEW token, NEW imported, VerdictOf(token, imported),
         Untouched(token, imported)
  PROVE  BuffersAreRight'
<1> USE DEF VerdictOf, Untouched
<1>1. /\ DOMAIN pending' = DOMAIN pending \ {token}
      /\ \A t \in DOMAIN pending' : pending'[t] = pending[t]
  BY DEF Without, Restrict
<1>2. /\ SerialsName /\ WaitingIsPending /\ VerdictsFindTheirBuffer /\ CountersFit
      /\ verdict'[token] # None /\ verdict[token] # FALSE /\ TypeOK
  BY Types DEF ImportsInv
<1>3. CountersFit'
  <2>1. /\ Cardinality(DOMAIN pending) \in Nat /\ Cardinality(DOMAIN pending') \in Nat
        /\ Cardinality(DOMAIN pending') <= Cardinality(DOMAIN pending)
    <3>1. pending' = Without(pending, {token})
      OBVIOUS
    <3>2. /\ Cardinality(DOMAIN pending) \in Nat /\ Cardinality(DOMAIN pending') \in Nat
          /\ Cardinality(DOMAIN pending') =
               IF token \in DOMAIN pending THEN Cardinality(DOMAIN pending) - 1
               ELSE Cardinality(DOMAIN pending)
      BY <3>1, OneLessPending
    <3>3. QED BY <3>2
  <2>2. nextToken \in Nat /\ nextServer \in Nat
    BY Types
  <2>3. QED BY <1>2, <2>1, <2>2 DEF CountersFit
<1>4. SerialsName'
  BY <1>1, <1>2 DEF SerialsName
<1>5. WaitingIsPending'
  BY <1>1, <1>2 DEF WaitingIsPending
<1>6. ASSUME NEW id \in DOMAIN buffers, buffers[id].kind = "failed"
      PROVE  buffers[id].import = Refused
               \/ buffers[id].import \in {t \in Tokens : verdict'[t] = FALSE}
  BY <1>2, <1>6 DEF VerdictsFindTheirBuffer
<1>7. ASSUME NEW id \in DOMAIN buffers, buffers[id].kind = "dmabuf"
      PROVE  verdict'[buffers[id].import] # FALSE \/ buffers[id].import \in abandoned
  <2>1. buffers[id].import \in Tokens
    BY <1>2, <1>7 DEF WaitingIsPending
  <2>2. CASE buffers[id].import # token
    BY <1>2, <1>7, <2>1, <2>2 DEF VerdictsFindTheirBuffer
  <2>3. CASE buffers[id].import = token /\ token \notin abandoned
    <3>1. /\ token \in DOMAIN pending
          /\ pending[token].id = id /\ pending[token].serial = buffers[id].serial
      BY <1>2, <1>7, <2>3 DEF WaitingIsPending
    <3>2. StillIts(pending[token])
      BY <3>1 DEF StillIts
    <3>3. id # None
      BY <1>2, Types
    <3>4. QED BY <2>3, <3>1, <3>2, <3>3
  <2>4. QED BY <2>2, <2>3
<1>8. VerdictsFindTheirBuffer'
  BY <1>6, <1>7 DEF VerdictsFindTheirBuffer
<1>9. /\ \A id \in DOMAIN buffers : buffers[id] \in Buffer /\ (id \in named \/ id \in 1 .. MaxImports)
      /\ nextSerial \in Serials /\ nextServer \in Nat \ {0}
  BY <1>2, Types DEF TypeOK
<1>10. QED BY <1>3, <1>4, <1>5, <1>8, <1>9 DEF BuffersAreRight, Buffer

\* A buffer that is still the import's own draws nothing from now on.
LEMMA FailedBufferIsRight ==
  ASSUME ImportsAssumption, ImportsInv, NEW token, NEW imported, VerdictOf(token, imported),
         Failed(token, imported)
  PROVE  BuffersAreRight'
<1> USE DEF VerdictOf, Failed
<1> DEFINE own == pending[token].id
<1>1. /\ DOMAIN pending' = DOMAIN pending \ {token}
      /\ \A t \in DOMAIN pending' : pending'[t] = pending[t]
  BY DEF Without, Restrict
<1>2. /\ SerialsName /\ WaitingIsPending /\ VerdictsFindTheirBuffer /\ CountersFit
      /\ verdict'[token] = FALSE /\ verdict[token] # FALSE /\ TypeOK /\ verdict'[token] # None
  BY Types DEF ImportsInv
<1>3. own \in DOMAIN buffers /\ buffers[own].import = token
  BY <1>2 DEF StillIts, SerialsName
<1>4. /\ DOMAIN buffers' = DOMAIN buffers
      /\ \A id \in DOMAIN buffers : id # own => buffers'[id] = buffers[id]
      /\ nextToken' = nextToken /\ abandoned' = abandoned
  OBVIOUS
<1>5. /\ buffers'[own] \in Buffer /\ buffers'[own].kind = "failed"
      /\ buffers'[own].serial = buffers[own].serial /\ buffers'[own].import = token
  <2>1. buffers[own] \in Buffer
    BY <1>3, Types
  <2>2. buffers'[own] = [buffers[own] EXCEPT !.kind = "failed"]
    BY <1>3
  <2>3. QED BY <1>3, <2>1, <2>2 DEF Buffer
<1> HIDE DEF own
<1>6. \A id \in DOMAIN buffers : buffers'[id].serial = buffers[id].serial
                                 /\ buffers'[id].import = buffers[id].import
  BY <1>3, <1>4, <1>5
<1>7. CountersFit'
  <2>1. /\ Cardinality(DOMAIN pending) \in Nat /\ Cardinality(DOMAIN pending') \in Nat
        /\ Cardinality(DOMAIN pending') <= Cardinality(DOMAIN pending)
    <3>1. pending' = Without(pending, {token})
      OBVIOUS
    <3>2. /\ Cardinality(DOMAIN pending) \in Nat /\ Cardinality(DOMAIN pending') \in Nat
          /\ Cardinality(DOMAIN pending') =
               IF token \in DOMAIN pending THEN Cardinality(DOMAIN pending) - 1
               ELSE Cardinality(DOMAIN pending)
      BY <3>1, OneLessPending
    <3>3. QED BY <3>2
  <2>2. nextToken \in Nat /\ nextServer \in Nat
    BY Types
  <2>3. QED BY <1>2, <2>1, <2>2 DEF CountersFit
<1>8. SerialsName'
  <2>1. \A id \in DOMAIN buffers : buffers'[id].serial < nextSerial
    BY <1>2, <1>6 DEF SerialsName
  <2>2. ASSUME NEW t \in DOMAIN pending'
        PROVE  /\ pending'[t].id # None => pending'[t].serial < nextSerial
               /\ pending'[t].id \in DOMAIN buffers
                    /\ buffers'[pending'[t].id].serial = pending'[t].serial
                    => buffers'[pending'[t].id].import = t
    <3>1. pending'[t] = pending[t] /\ t \in DOMAIN pending
      BY <1>1
    <3>2. QED BY <1>2, <1>6, <3>1 DEF SerialsName
  <2>3. QED BY <1>4, <2>1, <2>2 DEF SerialsName
<1>9. WaitingIsPending'
  <2>1. ASSUME NEW id \in DOMAIN buffers, id # own, buffers[id].kind = "dmabuf"
        PROVE  /\ buffers[id].import \in Tokens /\ buffers[id].import < nextToken
               /\ verdict'[buffers[id].import] = None =>
                    \/ buffers[id].import \in abandoned
                    \/ /\ buffers[id].import \in DOMAIN pending'
                       /\ pending'[buffers[id].import].id = id
                       /\ pending'[buffers[id].import].serial = buffers[id].serial
    BY <1>1, <1>2, <2>1 DEF WaitingIsPending
  <2>2. buffers'[own].kind # "dmabuf"
    BY <1>5
  <2>3. \A id \in DOMAIN buffers : buffers'[id].kind = "dmabuf" => id # own /\ buffers'[id] = buffers[id]
    BY <1>4, <2>2
  <2>4. ASSUME NEW id \in DOMAIN buffers', buffers'[id].kind = "dmabuf"
        PROVE  /\ buffers'[id].import \in Tokens /\ buffers'[id].import < nextToken'
               /\ verdict'[buffers'[id].import] = None =>
                    \/ buffers'[id].import \in abandoned'
                    \/ /\ buffers'[id].import \in DOMAIN pending'
                       /\ pending'[buffers'[id].import].id = id
                       /\ pending'[buffers'[id].import].serial = buffers'[id].serial
    <3>1. id \in DOMAIN buffers /\ id # own /\ buffers'[id] = buffers[id]
      BY <1>4, <2>3, <2>4
    <3>2. buffers[id].kind = "dmabuf" /\ nextToken' = nextToken /\ abandoned' = abandoned
      BY <1>4, <2>4, <3>1
    <3>3. /\ buffers[id].import \in Tokens /\ buffers[id].import < nextToken'
          /\ verdict'[buffers[id].import] = None =>
               \/ buffers[id].import \in abandoned'
               \/ /\ buffers[id].import \in DOMAIN pending'
                  /\ pending'[buffers[id].import].id = id
                  /\ pending'[buffers[id].import].serial = buffers[id].serial
      BY ONLY <2>1, <3>1, <3>2
    <3>4. QED BY ONLY <3>1, <3>3
  <2>5. QED BY <2>4 DEF WaitingIsPending
<1>10. VerdictsFindTheirBuffer'
  <2>1. ASSUME NEW id \in DOMAIN buffers, id # own
        PROVE  /\ buffers[id].kind = "failed" =>
                    buffers[id].import = Refused
                      \/ buffers[id].import \in {t \in Tokens : verdict'[t] = FALSE}
               /\ buffers[id].kind = "dmabuf" =>
                    verdict'[buffers[id].import] # FALSE \/ buffers[id].import \in abandoned
    <3>1. CASE buffers[id].kind = "failed"
      BY <1>2, <2>1, <3>1 DEF VerdictsFindTheirBuffer
    <3>2. CASE buffers[id].kind = "dmabuf"
      <4>1. buffers[id].import \in Tokens
        BY <1>2, <2>1, <3>2 DEF WaitingIsPending
      <4>2. CASE buffers[id].import # token
        BY <1>2, <2>1, <3>2, <4>1, <4>2 DEF VerdictsFindTheirBuffer
      <4>3. CASE buffers[id].import = token
        BY <1>2, <2>1, <3>2, <4>3 DEF WaitingIsPending, own
      <4>4. QED BY <3>2, <4>2, <4>3
    <3>3. QED BY <3>1, <3>2
  <2>2. token \in {t \in Tokens : verdict'[t] = FALSE}
    BY <1>2
  <2>3. ASSUME NEW id \in DOMAIN buffers
        PROVE  /\ buffers'[id].kind = "failed" =>
                    buffers'[id].import = Refused
                      \/ buffers'[id].import \in {t \in Tokens : verdict'[t] = FALSE}
               /\ buffers'[id].kind = "dmabuf" =>
                    verdict'[buffers'[id].import] # FALSE \/ buffers'[id].import \in abandoned
    <3>1. CASE id = own
      BY <1>5, <2>2, <3>1
    <3>2. CASE id # own
      BY <1>4, <2>1, <3>2
    <3>3. QED BY <3>1, <3>2
  <2>4. QED BY <1>4, <2>3 DEF VerdictsFindTheirBuffer
<1>11. /\ \A id \in DOMAIN buffers' : buffers'[id] \in Buffer /\ (id \in named \/ id \in 1 .. MaxImports)
       /\ nextSerial \in Serials /\ nextServer \in Nat \ {0}
  BY <1>2, <1>4, <1>5, Types DEF TypeOK
<1>12. QED BY <1>7, <1>8, <1>9, <1>10, <1>11 DEF BuffersAreRight, Buffer

\* A create gets its buffer, under an id of the server's.
LEMMA NewBufferIsRight ==
  ASSUME ImportsAssumption, ImportsInv, NEW token, NEW imported, VerdictOf(token, imported),
         Made(token, imported)
  PROVE  BuffersAreRight'
<1> USE DEF VerdictOf, Made
<1>1. /\ DOMAIN pending' = DOMAIN pending \ {token}
      /\ \A t \in DOMAIN pending' : pending'[t] = pending[t]
  BY DEF Without, Restrict
<1>2. /\ SerialsName /\ WaitingIsPending /\ VerdictsFindTheirBuffer /\ CountersFit
      /\ verdict'[token] = TRUE /\ TypeOK /\ verdict'[token] # None /\ verdict[token] # FALSE
  BY Types DEF ImportsInv
<1>3. /\ DOMAIN buffers' = DOMAIN buffers \cup {nextServer}
      /\ buffers'[nextServer] = Dmabuf(nextSerial, token)
      /\ \A id \in DOMAIN buffers : id # nextServer => buffers'[id] = buffers[id]
  BY DEF With
<1>4. /\ nextServer \in Nat \ {0} /\ nextSerial \in Nat \ {0} /\ nextToken \in Nat
      /\ nextToken <= MaxImports + 1 /\ MaxImports \in Nat /\ MaxSerial \in Nat
  BY <1>2, Types DEF TypeOK
<1>5. nextServer \in 1 .. MaxImports /\ CountersFit' /\ nextSerial' \in Serials
  <2>1. /\ Cardinality(DOMAIN pending) \in Nat /\ Cardinality(DOMAIN pending') \in Nat
        /\ Cardinality(DOMAIN pending') = Cardinality(DOMAIN pending) - 1
    BY OneLessPending
  <2>2. nextServer + Cardinality(DOMAIN pending) <= nextToken /\ nextSerial < MaxSerial + nextServer
    BY <1>2 DEF CountersFit
  <2>3. nextServer' + Cardinality(DOMAIN pending') <= nextToken /\ nextSerial' < MaxSerial + nextServer'
    BY <1>4, <2>1, <2>2
  <2>4. nextServer <= MaxImports
    BY <1>4, <2>1, <2>2
  <2>5. QED BY <1>4, <2>2, <2>3, <2>4 DEF CountersFit, Serials
<1>6. SerialsName'
  <2>1. \A id \in DOMAIN buffers' : buffers'[id].serial < nextSerial'
    <3>1. Dmabuf(nextSerial, token).serial = nextSerial
      BY DEF Dmabuf
    <3>2. \A id \in DOMAIN buffers : buffers[id].serial < nextSerial /\ buffers[id].serial \in Nat
      BY <1>2, <1>4, Types DEF SerialsName, Buffer, Serials
    <3>3. QED BY <1>3, <1>4, <3>1, <3>2
  <2>2. ASSUME NEW t \in DOMAIN pending'
        PROVE  /\ pending'[t].id # None => pending'[t].serial < nextSerial'
               /\ pending'[t].id \in DOMAIN buffers'
                    /\ buffers'[pending'[t].id].serial = pending'[t].serial
                    => buffers'[pending'[t].id].import = t
    <3>1. pending'[t] = pending[t] /\ t \in DOMAIN pending
      BY <1>1
    <3>2. pending[t].id # nextServer /\ pending[t].serial \in Nat
      BY <1>4, <3>1, Types DEF Serials
    <3>3. pending[t].id # None => pending[t].serial < nextSerial
      BY <1>2, <3>1 DEF SerialsName
    <3>4. QED BY <1>2, <1>3, <1>4, <3>1, <3>2, <3>3 DEF SerialsName
  <2>3. QED BY <2>1, <2>2 DEF SerialsName
<1>7. /\ Dmabuf(nextSerial, token).kind = "dmabuf" /\ Dmabuf(nextSerial, token).import = token
      /\ Dmabuf(nextSerial, token) \in Buffer
  BY <1>2 DEF Dmabuf, Buffer, TypeOK
<1>8. WaitingIsPending'
  <2>1. ASSUME NEW id \in DOMAIN buffers, id # nextServer, buffers[id].kind = "dmabuf"
        PROVE  /\ buffers[id].import \in Tokens /\ buffers[id].import < nextToken
               /\ verdict'[buffers[id].import] = None =>
                    \/ buffers[id].import \in abandoned
                    \/ /\ buffers[id].import \in DOMAIN pending'
                       /\ pending'[buffers[id].import].id = id
                       /\ pending'[buffers[id].import].serial = buffers[id].serial
    BY <1>1, <1>2, <2>1 DEF WaitingIsPending
  <2>2. token < nextToken
    BY Types
  <2>3. ASSUME NEW id \in DOMAIN buffers', buffers'[id].kind = "dmabuf"
        PROVE  /\ buffers'[id].import \in Tokens /\ buffers'[id].import < nextToken
               /\ verdict'[buffers'[id].import] = None =>
                    \/ buffers'[id].import \in abandoned
                    \/ /\ buffers'[id].import \in DOMAIN pending'
                       /\ pending'[buffers'[id].import].id = id
                       /\ pending'[buffers'[id].import].serial = buffers'[id].serial
    <3>1. CASE id = nextServer
      BY <1>2, <1>3, <1>7, <2>2, <3>1
    <3>2. CASE id # nextServer
      <4>1. id \in DOMAIN buffers /\ buffers'[id] = buffers[id]
        BY <1>3, <2>3, <3>2
      <4>2. QED BY <2>1, <2>3, <3>2, <4>1
    <3>3. QED BY <3>1, <3>2
  <2>4. QED BY <2>3 DEF WaitingIsPending
<1>9. VerdictsFindTheirBuffer'
  <2>1. ASSUME NEW id \in DOMAIN buffers, id # nextServer
        PROVE  /\ buffers[id].kind = "failed" =>
                    buffers[id].import = Refused
                      \/ buffers[id].import \in {t \in Tokens : verdict'[t] = FALSE}
               /\ buffers[id].kind = "dmabuf" =>
                    verdict'[buffers[id].import] # FALSE \/ buffers[id].import \in abandoned
    <3>1. CASE buffers[id].kind = "failed"
      BY <1>2, <2>1, <3>1 DEF VerdictsFindTheirBuffer
    <3>2. CASE buffers[id].kind = "dmabuf"
      <4>1. buffers[id].import \in Tokens
        BY <1>2, <2>1, <3>2 DEF WaitingIsPending
      <4>2. QED BY <1>2, <2>1, <3>2, <4>1 DEF VerdictsFindTheirBuffer
    <3>3. QED BY <3>1, <3>2
  <2>2. ASSUME NEW id \in DOMAIN buffers'
        PROVE  /\ buffers'[id].kind = "failed" =>
                    buffers'[id].import = Refused
                      \/ buffers'[id].import \in {t \in Tokens : verdict'[t] = FALSE}
               /\ buffers'[id].kind = "dmabuf" =>
                    verdict'[buffers'[id].import] # FALSE \/ buffers'[id].import \in abandoned
    <3>1. CASE id = nextServer
      BY <1>2, <1>3, <1>7, <3>1
    <3>2. CASE id # nextServer
      <4>1. id \in DOMAIN buffers /\ buffers'[id] = buffers[id]
        BY <1>3, <2>2, <3>2
      <4>2. QED BY <2>1, <3>2, <4>1
    <3>3. QED BY <3>1, <3>2
  <2>3. QED BY <2>2 DEF VerdictsFindTheirBuffer
<1>10. \A id \in DOMAIN buffers' : buffers'[id] \in Buffer /\ (id \in named \/ id \in 1 .. MaxImports)
  BY <1>3, <1>5, <1>7, Types
<1>11. QED BY <1>4, <1>5, <1>6, <1>8, <1>9, <1>10 DEF BuffersAreRight, Buffer, Serials

LEMMA VerdictKeeps ==
  ASSUME ImportsAssumption, ImportsInv, Verdict
  PROVE  ImportsInv'
<1> DEFINE token == Head(answers).token
           imported == Head(answers).imported
<1>1. /\ Resolve(token, imported) /\ pending' = Without(pending, {token})
      /\ UNCHANGED <<client, params, named, nextToken, requests, asked, abandoned>>
  BY DEF Verdict, Resolve
<1>2. /\ token \in Tokens /\ verdict[token] = None /\ imported \in BOOLEAN
      /\ verdict' \in [Tokens -> BOOLEAN \cup {None}]
      /\ verdict'[token] = imported
      /\ \A t \in Tokens : t # token => verdict'[t] = verdict[t]
      /\ answers' \in Seq([token : Tokens, imported : BOOLEAN])
      /\ UnderWayOnce' /\ UnderWay' = UnderWay \ {token}
  BY VerdictArrives
<1> HIDE DEF token, imported
<1>3. TypeOK /\ MoreTypes /\ PendingIsUnderWay
  BY DEF ImportsInv
<1>4. /\ ToldBy(token)
      /\ Untouched(token, imported) \/ Failed(token, imported) \/ Made(token, imported)
  BY <1>1, <1>2, ResolveTells, ResolveBuffers
<1>5. /\ OneAnswer'
      /\ told' \in [Params -> Seq({"created", "failed"})]
      /\ \A q \in Params : Range(told'[q]) \subseteq {"created", "failed"}
  BY <1>1, <1>4, ToldByKeeps
<1>6. BuffersAreRight'
  <2>1. VerdictOf(token, imported)
    BY <1>1, <1>2 DEF VerdictOf
  <2>2. QED BY <1>4, <2>1, SameBuffersAreRight, FailedBufferIsRight, NewBufferIsRight
<1>7. /\ DOMAIN pending' = DOMAIN pending \ {token}
      /\ \A t \in DOMAIN pending' : pending'[t] = pending[t]
  BY <1>1 DEF Without, Restrict
<1>8. PendingIsUnderWay'
  BY <1>2, <1>3, <1>7 DEF PendingIsUnderWay
<1>9. TypeOK'
  <2>1. Range(pending') \subseteq [params : Live', id : Ids \cup {None}, serial : Serials]
    <3>1. Live' = Live
      BY <1>1 DEF Live
    <3>2. QED BY <1>3, <1>7, <3>1 DEF TypeOK, Range
  <2>2. /\ DOMAIN buffers' \subseteq named \cup 1 .. MaxImports
        /\ Range(buffers') \subseteq [kind : {"dmabuf", "failed", "shm"}, serial : Serials,
                                      import : Tokens \cup {Refused, None}]
        /\ nextSerial' \in Serials
    <3>1. /\ \A id \in DOMAIN buffers' : buffers'[id] \in Buffer /\ (id \in named' \/ id \in 1 .. MaxImports)
          /\ nextSerial' \in Serials
      BY <1>6 DEF BuffersAreRight, Buffer, Serials
    <3>2. QED BY <1>1, <3>1 DEF Buffer, Range
  <2>3. DOMAIN pending' \subseteq Tokens /\ Len(requests') <= QueueSize
    BY <1>1, <1>3, <1>7 DEF TypeOK
  <2>4. /\ client' \in {"live", "cancelled", "gone"} /\ named' \subseteq Ids /\ named' = named
        /\ params' \in [Params -> [used : BOOLEAN, planes : SUBSET (0 .. MAX_DMABUF_PLANES - 1)]
                                   \cup {None}]
        /\ nextToken' \in 1 .. MaxImports + 1
        /\ asked' \in [Params -> {None, "create", "create_immed"}]
        /\ abandoned' \subseteq Tokens
    BY <1>1, <1>3 DEF TypeOK
  <2>5. QED BY <1>2, <1>5, <2>1, <2>2, <2>3, <2>4 DEF TypeOK
<1>10. MoreTypes'
  <2>1. nextServer' \in Nat \ {0}
    BY <1>6 DEF BuffersAreRight
  <2>2. QED BY <1>1, <1>2, <1>3, <1>5, <2>1 DEF MoreTypes
<1>11. CountersFit' /\ SerialsName' /\ WaitingIsPending' /\ VerdictsFindTheirBuffer'
  BY <1>6 DEF BuffersAreRight
<1>12. QED BY <1>2, <1>5, <1>8, <1>9, <1>10, <1>11 DEF ImportsInv

-----------------------------------------------------------------------------
(* The ids of buffers, and the end of the client.                          *)

LEMMA DestroyBufferKeeps ==
  ASSUME ImportsAssumption, ImportsInv, NEW id \in Ids \cup 1 .. MaxImports, DestroyBuffer(id)
  PROVE  ImportsInv'
<1>1. /\ UNCHANGED <<client, params, nextSerial, nextToken, pending, requests, answers, nextServer,
                     asked, told, verdict, abandoned>>
      /\ named' = named \ {id} /\ buffers' = Without(buffers, {id})
  BY DEF DestroyBuffer, channel
<1>2. /\ DOMAIN buffers' = DOMAIN buffers \ {id}
      /\ \A b \in DOMAIN buffers' : buffers'[b] = buffers[b]
  BY <1>1 DEF Without, Restrict
<1>3. TypeOK /\ OneAnswer
  BY DEF ImportsInv
<1>4. TypeOK'
  <2>1. /\ DOMAIN buffers' \subseteq named' \cup 1 .. MaxImports
        /\ named' \subseteq Ids
        /\ Range(buffers') \subseteq [kind : {"dmabuf", "failed", "shm"}, serial : Serials,
                                      import : Tokens \cup {Refused, None}]
    <3>1. \A b \in DOMAIN buffers' : buffers'[b] \in Buffer
      BY <1>2, Types
    <3>2. named \subseteq Ids /\ DOMAIN buffers \subseteq named \cup 1 .. MaxImports
      BY <1>3 DEF TypeOK
    <3>3. DOMAIN buffers' \subseteq named' \cup 1 .. MaxImports /\ named' \subseteq Ids
      BY <1>1, <1>2, <3>2
    <3>4. QED BY <3>1, <3>3 DEF Range, Buffer
  <2>2. Live' = Live
    BY <1>1 DEF Live
  <2>3. QED BY <1>1, <1>3, <2>1, <2>2 DEF TypeOK
<1>5. OneAnswer'
  <2>1. Live' = Live /\ \A q : PendingOf(q)' = PendingOf(q)
    BY <1>1 DEF Live, PendingOf
  <2>2. QED BY <1>1, <1>3, <2>1 DEF OneAnswer
<1>6. MoreTypes' /\ CountersFit' /\ UnderWayOnce' /\ PendingIsUnderWay'
  BY <1>1 DEF ImportsInv, MoreTypes, CountersFit, UnderWayOnce, PendingIsUnderWay, Answered, UnderWay
<1>7. SerialsName'
  BY <1>1, <1>2 DEF ImportsInv, SerialsName
<1>8. WaitingIsPending' /\ VerdictsFindTheirBuffer'
  <2>1. WaitingIsPending /\ VerdictsFindTheirBuffer
    BY DEF ImportsInv
  <2>2. \A b \in DOMAIN buffers' : b \in DOMAIN buffers /\ buffers'[b] = buffers[b]
    BY <1>2
  <2>3. WaitingIsPending'
    BY <1>1, <2>1, <2>2 DEF WaitingIsPending
  <2>4. VerdictsFindTheirBuffer'
    BY <1>1, <2>1, <2>2 DEF VerdictsFindTheirBuffer
  <2>5. QED BY <2>3, <2>4
<1>9. QED BY <1>4, <1>5, <1>6, <1>7, <1>8 DEF ImportsInv

\* A buffer of shared memory takes an id and a serial of its own.
LEMMA CreateShmKeeps ==
  ASSUME ImportsAssumption, ImportsInv, NEW id \in Ids, CreateShm(id)
  PROVE  ImportsInv'
<1> DEFINE shm == [kind |-> "shm", serial |-> nextSerial, import |-> None]
<1>1. /\ UNCHANGED <<client, params, nextToken, pending, requests, answers, nextServer,
                     asked, told, verdict, abandoned>>
      /\ named' = named \cup {id} /\ buffers' = With(buffers, id, shm)
      /\ nextSerial' = nextSerial + 1 /\ nextSerial + 1 < MaxSerial
      /\ id \notin named
  BY DEF CreateShm, channel
<1>2. TypeOK /\ OneAnswer /\ SerialsName /\ WaitingIsPending /\ VerdictsFindTheirBuffer
      /\ MoreTypes /\ CountersFit
  BY DEF ImportsInv
<1>3. /\ nextSerial \in Nat \ {0} /\ nextServer \in Nat \ {0} /\ MaxSerial \in Nat
      /\ MaxImports \in Nat /\ id # None
  BY Types
<1>4. shm \in Buffer /\ shm.kind = "shm" /\ shm.serial = nextSerial /\ nextSerial' \in Serials
  BY <1>1, <1>3 DEF Buffer, Serials
<1> HIDE DEF shm
<1>5. /\ DOMAIN buffers' = DOMAIN buffers \cup {id}
      /\ buffers'[id] = shm
      /\ \A b \in DOMAIN buffers : b # id => buffers'[b] = buffers[b]
  BY <1>1 DEF With
<1>6. id \notin DOMAIN buffers
  BY <1>1, <1>2 DEF TypeOK, ImportsAssumption
<1>7. TypeOK'
  <2>1. /\ DOMAIN buffers' \subseteq named' \cup 1 .. MaxImports
        /\ named' \subseteq Ids
    BY <1>1, <1>2, <1>5 DEF TypeOK
  <2>2. Range(buffers') \subseteq [kind : {"dmabuf", "failed", "shm"}, serial : Serials,
                                   import : Tokens \cup {Refused, None}]
    <3>1. \A b \in DOMAIN buffers' : buffers'[b] \in Buffer
      BY <1>4, <1>5, Types
    <3>2. QED BY <3>1 DEF Range, Buffer
  <2>3. Live' = Live
    BY <1>1 DEF Live
  <2>4. QED BY <1>1, <1>2, <1>4, <2>1, <2>2, <2>3 DEF TypeOK
<1>8. OneAnswer'
  <2>1. Live' = Live /\ \A q : PendingOf(q)' = PendingOf(q)
    BY <1>1 DEF Live, PendingOf
  <2>2. QED BY <1>1, <1>2, <2>1 DEF OneAnswer
<1>9. MoreTypes' /\ UnderWayOnce' /\ PendingIsUnderWay'
  BY <1>1 DEF ImportsInv, MoreTypes, UnderWayOnce, PendingIsUnderWay, Answered, UnderWay
<1>10. CountersFit'
  BY <1>1, <1>2, <1>3 DEF CountersFit
<1>11. SerialsName'
  <2>1. \A b \in DOMAIN buffers' : buffers'[b].serial < nextSerial'
    <3>1. \A b \in DOMAIN buffers : buffers[b].serial < nextSerial /\ buffers[b].serial \in Nat
      BY <1>2, Types DEF SerialsName, Buffer, Serials
    <3>2. QED BY <1>1, <1>3, <1>4, <1>5, <3>1
  <2>2. ASSUME NEW t \in DOMAIN pending
        PROVE  /\ pending[t].id # None => pending[t].serial < nextSerial'
               /\ pending[t].id \in DOMAIN buffers' /\ buffers'[pending[t].id].serial = pending[t].serial
                    => buffers'[pending[t].id].import = t
    <3>1. pending[t].serial \in Nat
      BY Types DEF Serials
    <3>2. pending[t].id # None => pending[t].serial < nextSerial
      BY <1>2 DEF SerialsName
    <3>3. CASE pending[t].id = id
      BY <1>1, <1>3, <1>4, <1>5, <3>1, <3>2, <3>3
    <3>4. CASE pending[t].id # id
      BY <1>1, <1>2, <1>3, <1>5, <3>1, <3>2, <3>4 DEF SerialsName
    <3>5. QED BY <3>3, <3>4
  <2>3. QED BY <1>1, <2>1, <2>2 DEF SerialsName
<1>12. ASSUME NEW b \in DOMAIN buffers', buffers'[b].kind # "shm"
       PROVE  b \in DOMAIN buffers /\ buffers'[b] = buffers[b]
  BY <1>4, <1>5, <1>12
<1>13. WaitingIsPending'
  <2>1. ASSUME NEW b \in DOMAIN buffers', buffers'[b].kind = "dmabuf"
        PROVE  /\ buffers'[b].import \in Tokens /\ buffers'[b].import < nextToken'
               /\ verdict'[buffers'[b].import] = None =>
                    \/ buffers'[b].import \in abandoned'
                    \/ /\ buffers'[b].import \in DOMAIN pending'
                       /\ pending'[buffers'[b].import].id = b
                       /\ pending'[buffers'[b].import].serial = buffers'[b].serial
    BY <1>1, <1>2, <1>12, <2>1 DEF WaitingIsPending
  <2>2. QED BY <2>1 DEF WaitingIsPending
<1>14. VerdictsFindTheirBuffer'
  <2>1. ASSUME NEW b \in DOMAIN buffers'
        PROVE  /\ buffers'[b].kind = "failed" =>
                    buffers'[b].import = Refused
                      \/ buffers'[b].import \in {t \in Tokens : verdict'[t] = FALSE}
               /\ buffers'[b].kind = "dmabuf" =>
                    verdict'[buffers'[b].import] # FALSE \/ buffers'[b].import \in abandoned'
    BY <1>1, <1>2, <1>12 DEF VerdictsFindTheirBuffer
  <2>2. QED BY <2>1 DEF VerdictsFindTheirBuffer
<1>15. QED BY <1>7, <1>8, <1>9, <1>10, <1>11, <1>13, <1>14 DEF ImportsInv

\* A client that goes leaves only the channel behind, and what was answered.
LEMMA GoneKeeps ==
  ASSUME ImportsAssumption, ImportsInv, Gone
  PROVE  ImportsInv'
<1>1. /\ client' = "gone" /\ params' = [p \in Params |-> None] /\ named' = {}
      /\ buffers' = NothingOn /\ pending' = NothingOn
      /\ asked' = [p \in Params |-> None] /\ told' = [p \in Params |-> << >>]
      /\ UNCHANGED <<nextSerial, nextToken, requests, answers, nextServer, verdict, abandoned>>
  BY DEF Gone, channel
<1>2. DOMAIN buffers' = {} /\ DOMAIN pending' = {} /\ Live' = {}
  BY <1>1 DEF NothingOn, Live
<1>3. TypeOK /\ MoreTypes /\ CountersFit
  BY DEF ImportsInv
<1>4. << >> \in Seq({"created", "failed"}) /\ Range(<< >>) = {}
  BY DEF Range
<1>5. TypeOK'
  <2>1. Range(buffers') = {} /\ Range(pending') = {}
    BY <1>2 DEF Range
  <2>2. \A q \in Params : Range(told'[q]) \subseteq {"created", "failed"}
    BY <1>1, <1>4
  <2>3. QED BY <1>1, <1>2, <1>3, <2>1, <2>2 DEF TypeOK
<1>6. MoreTypes'
  BY <1>1, <1>3, <1>4 DEF MoreTypes
<1>7. CountersFit'
  <2>1. Cardinality(DOMAIN pending') = 0
    BY <1>2, FS_EmptySet
  <2>2. Cardinality(DOMAIN pending) \in Nat /\ nextServer \in Nat /\ nextToken \in Nat
    BY <1>3, PendingIsFinite, Types
  <2>3. QED BY <1>1, <1>3, <2>1, <2>2 DEF CountersFit
<1>8. UnderWayOnce' /\ PendingIsUnderWay'
  BY <1>1, <1>2 DEF ImportsInv, UnderWayOnce, PendingIsUnderWay, Answered
<1>9. OneAnswer'
  BY <1>1, <1>2 DEF OneAnswer
<1>10. SerialsName' /\ WaitingIsPending' /\ VerdictsFindTheirBuffer'
  BY <1>2 DEF SerialsName, WaitingIsPending, VerdictsFindTheirBuffer
<1>11. QED BY <1>5, <1>6, <1>7, <1>8, <1>9, <1>10 DEF ImportsInv

LEMMA StutterKeeps ==
  ASSUME ImportsInv, UNCHANGED vars
  PROVE  ImportsInv'
<1>1. UNCHANGED <<client, params, named, buffers, nextSerial, nextToken, pending, requests, answers,
                  nextServer, asked, told, verdict, abandoned>>
  BY DEF vars, channel
<1>2. TypeOK'
  BY <1>1 DEF ImportsInv, TypeOK, Live
<1>3. MoreTypes' /\ CountersFit' /\ UnderWayOnce' /\ PendingIsUnderWay'
  BY <1>1 DEF ImportsInv, MoreTypes, CountersFit, UnderWayOnce, PendingIsUnderWay, Answered, UnderWay
<1>4. OneAnswer'
  <2>1. Live' = Live /\ \A q : PendingOf(q)' = PendingOf(q)
    BY <1>1 DEF Live, PendingOf
  <2>2. QED BY <1>1, <2>1 DEF ImportsInv, OneAnswer
<1>5. SerialsName' /\ WaitingIsPending' /\ VerdictsFindTheirBuffer'
  BY <1>1 DEF ImportsInv, SerialsName, WaitingIsPending, VerdictsFindTheirBuffer
<1>6. QED BY <1>2, <1>3, <1>4, <1>5 DEF ImportsInv

LEMMA StepKeeps ==
  ASSUME ImportsAssumption, ImportsInv, [Next]_vars
  PROVE  ImportsInv'
<1>1. CASE \E p \in Params :
             \/ CreateParams(p) \/ Destroy(p)
             \/ \E index \in 0 .. MAX_DMABUF_PLANES : Add(p, index)
             \/ \E id \in Ids \cup {None}, offer \in {"good", "unknown", "misfit"} : Create(p, id, offer)
  <2>1. PICK p \in Params :
          \/ CreateParams(p) \/ Destroy(p)
          \/ \E index \in 0 .. MAX_DMABUF_PLANES : Add(p, index)
          \/ \E id \in Ids \cup {None}, offer \in {"good", "unknown", "misfit"} : Create(p, id, offer)
    BY <1>1
  <2>2. CASE CreateParams(p)
    <3>1. 0 \in 0 .. MAX_DMABUF_PLANES
      BY DEF ImportsAssumption
    <3>2. QED BY <2>2, <3>1, DescribingKeeps
  <2>3. CASE Destroy(p)
    BY <2>3, DestroyKeeps
  <2>4. CASE \E index \in 0 .. MAX_DMABUF_PLANES : Add(p, index)
    BY <2>4, DescribingKeeps
  <2>5. CASE \E id \in Ids \cup {None}, offer \in {"good", "unknown", "misfit"} : Create(p, id, offer)
    BY <2>5, CreateKeeps
  <2>6. QED BY <2>1, <2>2, <2>3, <2>4, <2>5
<1>2. CASE \E imported \in BOOLEAN : Answer(imported)
  BY <1>2, AnswerKeeps
<1>3. CASE Verdict
  BY <1>3, VerdictKeeps
<1>4. CASE \E id \in Ids \cup 1 .. MaxImports : DestroyBuffer(id)
  BY <1>4, DestroyBufferKeeps
<1>5. CASE \E id \in Ids : CreateShm(id)
  BY <1>5, CreateShmKeeps
<1>6. CASE Gone
  BY <1>6, GoneKeeps
<1>7. CASE UNCHANGED vars
  BY <1>7, StutterKeeps
<1>8. QED BY <1>1, <1>2, <1>3, <1>4, <1>5, <1>6, <1>7 DEF Next

LEMMA Invariance == ASSUME ImportsAssumption PROVE Spec => []ImportsInv
<1>1. Init => ImportsInv
  BY InitIsRight
<1>2. ImportsInv /\ [Next]_vars => ImportsInv'
  BY StepKeeps
<1>3. QED BY <1>1, <1>2, PTL DEF Spec

-----------------------------------------------------------------------------
(* The theorems.                                                           *)

\* The state has its types.
THEOREM TypeCorrect == ASSUME ImportsAssumption PROVE Spec => []TypeOK
<1>1. ImportsInv => TypeOK
  BY DEF ImportsInv
<1>2. QED BY <1>1, Invariance, PTL

\* Every params object that asked for a buffer is told once what became of it or
\* waits for a verdict that is on its way, however many imports there are and
\* however short the channel to the backend (handle_create, refuse,
\* resolve_import).
THEOREM EveryoneIsAnswered == ASSUME ImportsAssumption PROVE Spec => []AnsweredOnce
<1>1. ASSUME ImportsInv PROVE AnsweredOnce
  <2>1. OneAnswer /\ PendingIsUnderWay /\ TypeOK /\ MoreTypes
    BY <1>1 DEF ImportsInv
  <2>2. ASSUME NEW p \in Live
        PROVE  /\ Len(told[p]) + Cardinality(PendingOf(p)) <= 1
               /\ asked[p] = "create" => Len(told[p]) + Cardinality(PendingOf(p)) = 1
               /\ asked[p] = "create_immed" => told[p] \in {<< >>, << "failed" >>}
    <3>1. /\ p \in Params /\ told[p] \in Seq({"created", "failed"})
          /\ Len(told[p]) \in Nat /\ Len(told[p]) <= 1
          /\ asked[p] = "create" /\ told[p] = << >> => PendingOf(p) # {}
          /\ asked[p] = "create_immed" => told[p] \in {<< >>, << "failed" >>}
      BY <2>1, <2>2 DEF MoreTypes, OneAnswer, Live
    <3>2. told[p] # << >> => Len(told[p]) = 1
      <4> DEFINE n == Len(told[p])
      <4>0. n \in Nat /\ n <= 1
        BY <3>1
      <4> HIDE DEF n
      <4>1. n \in {0, 1}
        BY ONLY <4>0
      <4>2. n = 0 => told[p] = << >>
        BY <3>1, EmptySeq DEF n
      <4>3. QED BY <4>1, <4>2 DEF n
    <3>3. Len(<< >>) = 0
      OBVIOUS
    <3>4. CASE PendingOf(p) = {}
      <4>1. Cardinality(PendingOf(p)) = 0
        BY <3>4, FS_EmptySet
      <4>2. QED BY <3>1, <3>2, <3>4, <4>1
    <3>5. CASE PendingOf(p) # {}
      <4>1. PICK t \in DOMAIN pending : pending[t].params = p
        BY <3>5 DEF PendingOf
      <4>2. PendingOf(p) = {t}
        BY <2>1, <4>1 DEF OneAnswer, PendingOf
      <4>3. Cardinality(PendingOf(p)) = 1
        BY <4>2, FS_Singleton
      <4>4. told[p] = << >>
        BY <2>1, <4>1 DEF OneAnswer
      <4>5. QED BY <3>1, <3>3, <4>3, <4>4
    <3>6. QED BY <3>4, <3>5
  <2>3. QED BY <2>1, <2>2 DEF AnsweredOnce, PendingIsUnderWay
<1>2. QED BY <1>1, Invariance, PTL

\* A buffer draws nothing exactly when its own import was refused: no verdict
\* reaches a buffer that got the id of an earlier one, and each reaches its own
\* (resolve_import, and the cancelling in handle_destroy).
THEOREM VerdictsFindTheirs == ASSUME ImportsAssumption PROVE Spec => []VerdictsFindTheirBuffer
<1>1. ImportsInv => VerdictsFindTheirBuffer
  BY DEF ImportsInv
<1>2. QED BY <1>1, Invariance, PTL

-----------------------------------------------------------------------------
(* Shared memory (module ShmPools), for any ids, sizes and number of pools. *)

CONSTANTS PoolIds, BufferIds, MaxSize, MaxPools
VARIABLES pools, poolBuffers, guards, damaged, file, open, made, twice, connected

S == INSTANCE ShmPools WITH buffers <- poolBuffers

\* A pool of the table is what create_pool made it, in its fields.
IsPool(pool) ==
  pool \in [fd : Nat, size : S!Sizes, mapping : [file : Nat, size : S!Sizes] \cup {None},
            dead : BOOLEAN]

\* A pool is mapped, if it is, with its own descriptor and at its own size.
MappingsAreTheirs ==
  \A p \in DOMAIN pools :
    \/ pools[p].mapping = None
    \/ pools[p].mapping = [file |-> pools[p].fd, size |-> pools[p].size]

\* A buffer with a guard ends within it, and it maps what the buffer was made of.
GuardsAreTheirs ==
  /\ DOMAIN guards \subseteq DOMAIN poolBuffers
  /\ \A b \in DOMAIN poolBuffers :
       IF b \in DOMAIN guards
       THEN /\ guards[b] # None
            /\ guards[b].file = poolBuffers[b].of
            /\ poolBuffers[b].end <= guards[b].size
       ELSE poolBuffers[b].of = None

\* Descriptors are numbered as they come, and each belongs to one pool.
FdsAreTheirs ==
  /\ made \in Nat
  /\ \A p \in DOMAIN pools : pools[p].fd \in 1 .. made
  /\ \A p, q \in DOMAIN pools : pools[p].fd = pools[q].fd => p = q

PoolsInv ==
  /\ \A p \in DOMAIN pools : IsPool(pools[p])
  /\ MappingsAreTheirs
  /\ GuardsAreTheirs
  /\ FdsAreTheirs
  /\ DOMAIN pools \subseteq PoolIds
  /\ S!NoneLeaksNoneTwice

-----------------------------------------------------------------------------
(* Cleaning up.                                                            *)

\* What a table must be for CleanUp to be right of it: like the pools there
\* are, but for some that died, and with every pool nobody needs among `ids'.
LEMMA CleanUpKeeps ==
  ASSUME PoolsInv, NEW table, NEW left, NEW ids,
         DOMAIN table = DOMAIN pools,
         \A p \in DOMAIN pools : /\ IsPool(table[p])
                                 /\ table[p].fd = pools[p].fd
                                 /\ table[p].mapping = pools[p].mapping
                                 /\ table[p].size = pools[p].size,
         S!Unneeded(table, left, PoolIds) \subseteq ids,
         S!CleanUp(table, left, ids),
         UNCHANGED made
  PROVE  /\ (\A p \in DOMAIN pools : IsPool(pools[p]))'
         /\ MappingsAreTheirs'
         /\ FdsAreTheirs'
         /\ (DOMAIN pools \subseteq PoolIds)'
         /\ open' = {pools'[p].fd : p \in DOMAIN pools'}
         /\ ~ twice'
         /\ S!Unneeded(pools', left, PoolIds) = {}
<1> DEFINE freed == S!Unneeded(table, left, ids)
<1>1. /\ DOMAIN pools' = DOMAIN pools \ freed
      /\ \A p \in DOMAIN pools' : pools'[p] = table[p]
  <2>1. pools' = S!Without(table, freed)
    BY DEF S!CleanUp
  <2> HIDE DEF freed
  <2>2. QED BY <2>1 DEF S!Without, S!Restrict
<1>2. /\ open' = open \ {table[p].fd : p \in freed}
      /\ twice' = (twice \/ ~ {table[p].fd : p \in freed} \subseteq open)
  BY DEF S!CleanUp, S!Close
<1>3. freed \subseteq DOMAIN pools
  BY DEF S!Unneeded
<1> HIDE DEF freed
<1>records. (\A p \in DOMAIN pools : IsPool(pools[p]))'
  BY <1>1
<1>4. MappingsAreTheirs'
  BY <1>1 DEF PoolsInv, MappingsAreTheirs
<1>5. FdsAreTheirs'
  BY <1>1 DEF PoolsInv, FdsAreTheirs
<1>6. (DOMAIN pools \subseteq PoolIds)'
  BY <1>1 DEF PoolsInv
<1>7. open = {pools[p].fd : p \in DOMAIN pools} /\ ~ twice
  BY DEF PoolsInv, S!NoneLeaksNoneTwice
<1>8. ~ twice'
  BY <1>2, <1>3, <1>7
<1>9. open' = {pools'[p].fd : p \in DOMAIN pools'}
  <2>1. ASSUME NEW p \in DOMAIN pools'
        PROVE  pools'[p].fd \in open'
    <3>1. pools'[p].fd = pools[p].fd /\ p \in DOMAIN pools /\ p \notin freed
      BY <1>1
    <3>2. pools[p].fd \notin {table[q].fd : q \in freed}
      BY <1>3, <3>1 DEF PoolsInv, FdsAreTheirs
    <3>3. QED BY <1>2, <1>7, <3>1, <3>2
  <2>2. ASSUME NEW fd \in open'
        PROVE  fd \in {pools'[p].fd : p \in DOMAIN pools'}
    <3>1. PICK p \in DOMAIN pools : fd = pools[p].fd
      BY <1>2, <1>7
    <3>2. p \notin freed
      BY <1>2, <3>1
    <3>3. QED BY <1>1, <3>1, <3>2
  <2>3. QED BY <2>1, <2>2
<1>10. S!Unneeded(pools', left, PoolIds) = {}
  <2>1. SUFFICES ASSUME NEW p \in S!Unneeded(pools', left, PoolIds)
                 PROVE  FALSE
    OBVIOUS
  <2>2. /\ p \in PoolIds /\ p \in DOMAIN pools' /\ pools'[p].dead
        /\ \A b \in DOMAIN left : left[b].pool # p
    BY DEF S!Unneeded
  <2>3. p \in S!Unneeded(table, left, PoolIds)
    BY <1>1, <2>2 DEF S!Unneeded
  <2>4. p \in freed
    BY <2>3 DEF S!Unneeded, freed
  <2>5. QED BY <1>1, <2>2, <2>4
<1>11. QED BY <1>records, <1>4, <1>5, <1>6, <1>8, <1>9, <1>10

-----------------------------------------------------------------------------
(* The operations.                                                         *)

LEMMA InitInv == S!Init => PoolsInv
<1> SUFFICES ASSUME S!Init PROVE PoolsInv
  OBVIOUS
<1>2. DOMAIN pools = {} /\ DOMAIN poolBuffers = {} /\ DOMAIN guards = {}
  BY DEF S!Init, S!NothingOn
<1>3. QED
  BY <1>2 DEF S!Init, PoolsInv, MappingsAreTheirs, GuardsAreTheirs, FdsAreTheirs,
              S!NoneLeaksNoneTwice, S!Unneeded

LEMMA CreatePoolKeeps ==
  ASSUME PoolsInv, NEW p \in PoolIds, NEW size \in S!Sizes, NEW fileSize, S!CreatePool(p, size, fileSize)
  PROVE  PoolsInv'
<1> DEFINE new == [fd |-> made', size |-> size, mapping |-> S!Mapping(made', size),
                   dead |-> FALSE]
<1>1. /\ DOMAIN pools' = DOMAIN pools \cup {p}
      /\ pools'[p] = new
      /\ \A q \in DOMAIN pools : q # p => pools'[q] = pools[q]
  <2>1. pools' = S!With(pools, p, new)
    BY DEF S!CreatePool
  <2> HIDE DEF new
  <2>2. QED BY <2>1 DEF S!With
<1>2. made' = made + 1 /\ made \in Nat
  BY DEF S!CreatePool, PoolsInv, FdsAreTheirs
<1>records. (\A q \in DOMAIN pools : IsPool(pools[q]))'
  <2>1. S!Mapping(made', size) \in [file : Nat, size : S!Sizes] \cup {None}
    BY <1>2 DEF S!Mapping
  <2>2. IsPool(new)
    BY <1>2, <2>1 DEF IsPool
  <2> HIDE DEF new
  <2>3. QED BY <1>1, <2>2 DEF PoolsInv
<1>3. MappingsAreTheirs'
  BY <1>1 DEF PoolsInv, MappingsAreTheirs, S!Mapping
<1>4. GuardsAreTheirs'
  BY DEF PoolsInv, GuardsAreTheirs, S!CreatePool
<1>5. FdsAreTheirs'
  <2>1. \A q \in DOMAIN pools' \ {p} : pools'[q].fd \in 1 .. made
    BY <1>1 DEF PoolsInv, FdsAreTheirs
  <2>2. pools'[p].fd = made + 1
    BY <1>1, <1>2
  <2>3. \A q, r \in DOMAIN pools' \ {p} : pools'[q].fd = pools'[r].fd => q = r
    BY <1>1 DEF PoolsInv, FdsAreTheirs
  <2>4. QED BY <1>2, <2>1, <2>2, <2>3 DEF FdsAreTheirs
<1>6. (DOMAIN pools \subseteq PoolIds)'
  BY <1>1 DEF PoolsInv
<1>7. open = {pools[q].fd : q \in DOMAIN pools} /\ ~ twice /\ connected
  BY DEF PoolsInv, S!NoneLeaksNoneTwice, S!CreatePool
<1>8. open' = (open \ S!Replaced(p)) \cup {made'} /\ ~ twice'
  BY <1>7 DEF S!CreatePool, S!Replaced
<1>9. open' = {pools'[q].fd : q \in DOMAIN pools'}
  <2>1. pools'[p].fd = made'
    BY <1>1
  <2>2. ASSUME NEW q \in DOMAIN pools, q # p
        PROVE  pools'[q].fd \in open \ S!Replaced(p)
    BY <1>1, <1>7, <2>2 DEF S!Replaced, PoolsInv, FdsAreTheirs
  <2>3. ASSUME NEW fd \in open \ S!Replaced(p)
        PROVE  \E q \in DOMAIN pools' : fd = pools'[q].fd
    BY <1>1, <1>7 DEF S!Replaced
  <2>4. QED BY <1>1, <1>8, <2>1, <2>2, <2>3
<1>10. S!Unneeded(pools', poolBuffers', PoolIds) = {}
  <2>1. ASSUME NEW q \in S!Unneeded(pools', poolBuffers', PoolIds)
        PROVE  q \in S!Unneeded(pools, poolBuffers, PoolIds)
    <3>1. q # p
      BY <1>1 DEF S!Unneeded
    <3>2. QED BY <1>1, <3>1 DEF S!Unneeded, S!CreatePool
  <2>2. QED BY <2>1 DEF PoolsInv, S!NoneLeaksNoneTwice
<1>11. connected'
  BY <1>7 DEF S!CreatePool
<1>12. QED
  BY <1>records, <1>3, <1>4, <1>5, <1>6, <1>8, <1>9, <1>10, <1>11 DEF PoolsInv, S!NoneLeaksNoneTwice

LEMMA DestroyPoolKeeps ==
  ASSUME PoolsInv, NEW p \in PoolIds, S!DestroyPool(p)
  PROVE  PoolsInv'
<1> DEFINE table == [pools EXCEPT ![p].dead = TRUE]
<1>1. /\ p \in DOMAIN pools /\ S!CleanUp(table, poolBuffers, {p}) /\ connected
      /\ UNCHANGED <<poolBuffers, guards, made, connected>>
  BY DEF S!DestroyPool, S!IsLive
<1>2. /\ DOMAIN table = DOMAIN pools
      /\ \A q \in DOMAIN pools : /\ IsPool(table[q])
                                 /\ table[q].fd = pools[q].fd
                                 /\ table[q].mapping = pools[q].mapping
                                 /\ table[q].size = pools[q].size
                                 /\ q # p => table[q] = pools[q]
  BY DEF PoolsInv, IsPool
<1> HIDE DEF table
<1>3. S!Unneeded(table, poolBuffers, PoolIds) \subseteq {p}
  BY <1>2 DEF S!Unneeded, PoolsInv, S!NoneLeaksNoneTwice
<1>4. /\ (\A q \in DOMAIN pools : IsPool(pools[q]))'
      /\ MappingsAreTheirs'
      /\ FdsAreTheirs'
      /\ (DOMAIN pools \subseteq PoolIds)'
      /\ open' = {pools'[q].fd : q \in DOMAIN pools'}
      /\ ~ twice'
      /\ S!Unneeded(pools', poolBuffers, PoolIds) = {}
  BY <1>1, <1>2, <1>3, CleanUpKeeps
<1>5. GuardsAreTheirs'
  BY <1>1 DEF PoolsInv, GuardsAreTheirs
<1>6. QED BY <1>1, <1>4, <1>5 DEF PoolsInv, S!NoneLeaksNoneTwice, S!Unneeded

LEMMA ResizeKeeps ==
  ASSUME PoolsInv, NEW p \in PoolIds, NEW size \in S!Sizes, S!Resize(p, size)
  PROVE  PoolsInv'
<1>1. /\ p \in DOMAIN pools
      /\ UNCHANGED <<poolBuffers, guards, file, open, made, twice, connected>>
      /\ pools' = [pools EXCEPT ![p].size = size, ![p].mapping = S!Mapping(pools[p].fd, size)]
  BY DEF S!Resize, S!IsLive
<1>2. /\ DOMAIN pools' = DOMAIN pools
      /\ \A q \in DOMAIN pools : /\ pools'[q].fd = pools[q].fd
                                 /\ pools'[q].dead = pools[q].dead
                                 /\ q # p => pools'[q] = pools[q]
  BY <1>1
<1>records. (\A q \in DOMAIN pools : IsPool(pools[q]))'
  BY <1>1, <1>2 DEF PoolsInv, IsPool
<1>3. MappingsAreTheirs'
  <2>1. ASSUME NEW q \in DOMAIN pools', q # p
        PROVE  pools'[q] = pools[q] /\ q \in DOMAIN pools
    BY <1>2, <2>1
  <2>2. /\ pools'[p].size = size
        /\ pools'[p].mapping = S!Mapping(pools[p].fd, size)
        /\ pools'[p].fd = pools[p].fd
    BY <1>1 DEF PoolsInv, IsPool
  <2>3. QED BY <2>1, <2>2 DEF PoolsInv, MappingsAreTheirs, S!Mapping
<1>4. GuardsAreTheirs'
  BY <1>1 DEF PoolsInv, GuardsAreTheirs
<1>5. FdsAreTheirs'
  BY <1>1, <1>2 DEF PoolsInv, FdsAreTheirs
<1>6. S!NoneLeaksNoneTwice'
  <2>1. {pools'[q].fd : q \in DOMAIN pools'} = {pools[q].fd : q \in DOMAIN pools}
    BY <1>2
  <2>2. S!Unneeded(pools', poolBuffers', PoolIds) = S!Unneeded(pools, poolBuffers, PoolIds)
    BY <1>1, <1>2 DEF S!Unneeded
  <2>3. connected
    BY DEF S!Resize
  <2>4. QED BY <1>1, <2>1, <2>2, <2>3 DEF PoolsInv, S!NoneLeaksNoneTwice
<1>7. QED BY <1>2, <1>records, <1>3, <1>4, <1>5, <1>6 DEF PoolsInv

LEMMA CreateBufferKeeps ==
  ASSUME PoolsInv, NEW p \in PoolIds, NEW b, NEW end, S!CreateBuffer(p, b, end)
  PROVE  PoolsInv'
<1> DEFINE new == [pool |-> p, end |-> end,
                   of |-> IF pools[p].mapping = None THEN None ELSE pools[p].fd]
<1>1. /\ p \in DOMAIN pools /\ b \notin DOMAIN poolBuffers /\ end <= pools[p].size
      /\ UNCHANGED <<pools, file, open, made, twice, connected>>
  BY DEF S!CreateBuffer, S!IsLive
<1>2. /\ DOMAIN poolBuffers' = DOMAIN poolBuffers \cup {b}
      /\ poolBuffers'[b] = new
      /\ \A c \in DOMAIN poolBuffers : poolBuffers'[c] = poolBuffers[c]
  <2>1. poolBuffers' = S!With(poolBuffers, b, new)
    BY DEF S!CreateBuffer
  <2> HIDE DEF new
  <2>2. QED BY <1>1, <2>1 DEF S!With
<1>3. GuardsAreTheirs'
  <2>1. b \notin DOMAIN guards
    BY <1>1 DEF PoolsInv, GuardsAreTheirs
  <2>2. CASE pools[p].mapping = None
    <3>1. guards' = guards
      BY <2>2 DEF S!CreateBuffer
    <3>2. QED BY <1>2, <2>1, <2>2, <3>1 DEF PoolsInv, GuardsAreTheirs
  <2>3. CASE pools[p].mapping # None
    <3>1. guards' = S!With(guards, b, pools[p].mapping)
      BY <2>3 DEF S!CreateBuffer
    <3>2. /\ DOMAIN guards' = DOMAIN guards \cup {b}
          /\ guards'[b] = pools[p].mapping
          /\ \A c \in DOMAIN guards : guards'[c] = guards[c]
      BY <2>1, <3>1 DEF S!With
    <3>3. pools[p].mapping = [file |-> pools[p].fd, size |-> pools[p].size]
      BY <1>1, <2>3 DEF PoolsInv, MappingsAreTheirs
    <3>4. /\ guards'[b] # None /\ guards'[b].file = poolBuffers'[b].of
          /\ poolBuffers'[b].end <= guards'[b].size
      BY <1>1, <1>2, <2>3, <3>2, <3>3
    <3>5. QED BY <1>2, <2>1, <3>2, <3>4 DEF PoolsInv, GuardsAreTheirs
  <2>4. QED BY <2>2, <2>3
<1>4. S!Unneeded(pools', poolBuffers', PoolIds) \subseteq S!Unneeded(pools, poolBuffers, PoolIds)
  BY <1>1, <1>2 DEF S!Unneeded
<1>5. S!NoneLeaksNoneTwice'
  BY <1>1, <1>4 DEF PoolsInv, S!NoneLeaksNoneTwice
<1>6. QED BY <1>1, <1>3, <1>5 DEF PoolsInv, MappingsAreTheirs, FdsAreTheirs

LEMMA PoolDestroyBufferKeeps ==
  ASSUME PoolsInv, NEW b, S!DestroyBuffer(b)
  PROVE  PoolsInv'
<1> DEFINE left == S!Without(poolBuffers, {b})
<1>1. /\ connected /\ b \in DOMAIN poolBuffers
      /\ poolBuffers' = left /\ guards' = S!Without(guards, {b})
      /\ S!CleanUp(pools, left, {poolBuffers[b].pool})
      /\ UNCHANGED <<made, connected>>
  BY DEF S!DestroyBuffer, S!ItsPool
<1>2. /\ DOMAIN left = DOMAIN poolBuffers \ {b}
      /\ \A c \in DOMAIN poolBuffers \ {b} : left[c] = poolBuffers[c]
  BY DEF S!Without, S!Restrict
<1> HIDE DEF left
<1>3. GuardsAreTheirs'
  <2>1. /\ DOMAIN guards' = DOMAIN guards \ {b}
        /\ \A c \in DOMAIN guards \ {b} : guards'[c] = guards[c]
    BY <1>1 DEF S!Without, S!Restrict
  <2>2. QED BY <1>1, <1>2, <2>1 DEF PoolsInv, GuardsAreTheirs
<1>4. S!Unneeded(pools, left, PoolIds) \subseteq {poolBuffers[b].pool}
  <2>1. SUFFICES ASSUME NEW p \in S!Unneeded(pools, left, PoolIds), p # poolBuffers[b].pool
                 PROVE  FALSE
    OBVIOUS
  <2>2. p \in S!Unneeded(pools, poolBuffers, PoolIds)
    BY <1>2, <2>1 DEF S!Unneeded
  <2>3. QED BY <2>2 DEF PoolsInv, S!NoneLeaksNoneTwice
<1>5. /\ (\A q \in DOMAIN pools : IsPool(pools[q]))'
      /\ MappingsAreTheirs'
      /\ FdsAreTheirs'
      /\ (DOMAIN pools \subseteq PoolIds)'
      /\ open' = {pools'[q].fd : q \in DOMAIN pools'}
      /\ ~ twice'
      /\ S!Unneeded(pools', left, PoolIds) = {}
  <2>1. \A q \in DOMAIN pools : IsPool(pools[q])
    BY DEF PoolsInv
  <2>2. QED BY <1>1, <1>4, <2>1, CleanUpKeeps
<1>6. S!NoneLeaksNoneTwice'
  BY <1>1, <1>5 DEF S!NoneLeaksNoneTwice
<1>7. QED BY <1>3, <1>5, <1>6 DEF PoolsInv

LEMMA PoolGoneKeeps ==
  ASSUME PoolsInv, S!Gone
  PROVE  PoolsInv'
<1> DEFINE table == [p \in DOMAIN pools |-> [pools[p] EXCEPT !.dead = TRUE]]
<1>1. /\ poolBuffers' = S!NothingOn /\ guards' = S!NothingOn /\ UNCHANGED made
      /\ S!CleanUp(table, S!NothingOn, DOMAIN pools)
  BY DEF S!Gone
<1>2. /\ DOMAIN table = DOMAIN pools
      /\ \A q \in DOMAIN pools : /\ IsPool(table[q])
                                 /\ table[q].fd = pools[q].fd
                                 /\ table[q].mapping = pools[q].mapping
                                 /\ table[q].size = pools[q].size
                                 /\ table[q].dead
  BY DEF PoolsInv, IsPool
<1> HIDE DEF table
<1>3. S!Unneeded(table, S!NothingOn, PoolIds) \subseteq DOMAIN pools
  BY <1>2 DEF S!Unneeded
<1>4. /\ (\A q \in DOMAIN pools : IsPool(pools[q]))'
      /\ MappingsAreTheirs'
      /\ FdsAreTheirs'
      /\ (DOMAIN pools \subseteq PoolIds)'
      /\ open' = {pools'[q].fd : q \in DOMAIN pools'}
      /\ ~ twice'
      /\ S!Unneeded(pools', S!NothingOn, PoolIds) = {}
  BY <1>1, <1>2, <1>3, CleanUpKeeps
<1>5. pools' = S!NothingOn
  <2>1. S!Unneeded(table, S!NothingOn, DOMAIN pools) = DOMAIN pools
    BY <1>2 DEF S!Unneeded, S!NothingOn
  <2>2. pools' = S!Without(table, DOMAIN pools)
    BY <1>1, <2>1 DEF S!CleanUp
  <2>3. QED BY <1>2, <2>2 DEF S!Without, S!Restrict, S!NothingOn
<1>6. GuardsAreTheirs'
  BY <1>1 DEF GuardsAreTheirs, S!NothingOn
<1>7. S!NoneLeaksNoneTwice'
  BY <1>1, <1>4, <1>5 DEF S!NoneLeaksNoneTwice
<1>8. QED BY <1>4, <1>6, <1>7 DEF PoolsInv

-----------------------------------------------------------------------------
(* The theorems.                                                           *)

LEMMA PoolStepKeeps == PoolsInv /\ [S!Next]_(S!vars) => PoolsInv'
<1> SUFFICES ASSUME PoolsInv, [S!Next]_(S!vars) PROVE PoolsInv'
  OBVIOUS
<1>1. CASE UNCHANGED S!vars
  <2>1. UNCHANGED <<pools, poolBuffers, guards, open, made, twice, connected>>
    BY <1>1 DEF S!vars
  <2>2. QED
    BY <2>1 DEF PoolsInv, MappingsAreTheirs, GuardsAreTheirs, FdsAreTheirs,
                S!NoneLeaksNoneTwice, S!Unneeded
<1>2. CASE S!Publish
  <2>1. UNCHANGED <<pools, poolBuffers, guards, open, made, twice, connected>>
    BY <1>2 DEF S!Publish
  <2>2. QED
    BY <2>1 DEF PoolsInv, MappingsAreTheirs, GuardsAreTheirs, FdsAreTheirs,
                S!NoneLeaksNoneTwice, S!Unneeded
<1>3. CASE S!Gone
  BY <1>3, PoolGoneKeeps
<1>4. CASE \E b \in BufferIds : S!DestroyBuffer(b)
  BY <1>4, PoolDestroyBufferKeeps
<1>5. ASSUME NEW p \in PoolIds,
             \/ \E size, fileSize \in S!Sizes : S!CreatePool(p, size, fileSize)
             \/ S!DestroyPool(p)
             \/ \E size \in S!Sizes : S!Resize(p, size)
             \/ \E b \in BufferIds, end \in S!Sizes : S!CreateBuffer(p, b, end)
      PROVE  PoolsInv'
  BY <1>5, CreatePoolKeeps, DestroyPoolKeeps, ResizeKeeps, CreateBufferKeeps
<1>6. QED BY <1>1, <1>2, <1>3, <1>4, <1>5 DEF S!Next

\* What PoolsInv does not say of the types.
PoolTypes ==
  /\ made \in 0 .. MaxPools
  /\ DOMAIN poolBuffers \subseteq BufferIds
  /\ \A b \in DOMAIN poolBuffers :
       poolBuffers[b] \in [pool : PoolIds, end : S!Sizes, of : S!Fds \cup {None}]
  /\ \A b \in DOMAIN guards : guards[b] \in S!Mappings
  /\ damaged \subseteq DOMAIN poolBuffers
  /\ file \in [S!Fds -> 0 .. MaxSize]
  /\ twice \in BOOLEAN /\ connected \in BOOLEAN

\* The pools there are have their types.
LEMMA PoolsArePools ==
  ASSUME S!PoolsAssumption, PoolsInv, made \in 0 .. MaxPools, NEW p \in DOMAIN pools
  PROVE  pools[p] \in [fd : S!Fds, size : S!Sizes, mapping : S!Mappings \cup {None},
                       dead : BOOLEAN]
<1>1. /\ pools[p] \in [fd : Nat, size : S!Sizes,
                       mapping : [file : Nat, size : S!Sizes] \cup {None}, dead : BOOLEAN]
      /\ pools[p].mapping = None \/ pools[p].mapping = [file |-> pools[p].fd, size |-> pools[p].size]
      /\ pools[p].fd \in 1 .. made /\ made \in Nat
  BY DEF PoolsInv, IsPool, MappingsAreTheirs, FdsAreTheirs
<1>2. pools[p].fd \in S!Fds
  BY <1>1 DEF S!PoolsAssumption, S!Fds
<1>3. pools[p].mapping \in S!Mappings \cup {None}
  BY <1>1, <1>2 DEF S!Mappings
<1>4. QED BY <1>1, <1>2, <1>3

LEMMA PoolsAreTyped ==
  ASSUME S!PoolsAssumption, PoolsInv, PoolTypes
  PROVE  S!TypeOK
<1>1. \A p \in DOMAIN pools :
        pools[p] \in [fd : S!Fds, size : S!Sizes, mapping : S!Mappings \cup {None},
                     dead : BOOLEAN]
  BY PoolsArePools DEF PoolTypes
<1>2. open \subseteq S!Fds
  BY <1>1 DEF PoolsInv, S!NoneLeaksNoneTwice
<1>3. DOMAIN guards \subseteq DOMAIN poolBuffers
  BY DEF PoolsInv, GuardsAreTheirs
<1>4. QED BY <1>1, <1>2, <1>3 DEF PoolsInv, PoolTypes, S!TypeOK, S!Range

LEMMA CreateBufferTypes ==
  ASSUME S!PoolsAssumption, PoolsInv, PoolTypes, NEW p \in PoolIds, NEW b \in BufferIds,
         NEW end \in S!Sizes, S!CreateBuffer(p, b, end)
  PROVE  PoolTypes'
<1> DEFINE new == [pool |-> p, end |-> end,
                   of |-> IF pools[p].mapping = None THEN None ELSE pools[p].fd]
<1>1. /\ p \in DOMAIN pools
      /\ UNCHANGED <<file, made, twice, connected>> /\ damaged' = damaged \cup {b}
      /\ poolBuffers' = S!With(poolBuffers, b, new)
      /\ guards' = IF pools[p].mapping = None THEN guards
                   ELSE S!With(guards, b, pools[p].mapping)
  BY DEF S!CreateBuffer, S!IsLive
<1>2. /\ pools[p].fd \in S!Fds
      /\ pools[p].mapping = None \/ pools[p].mapping \in S!Mappings
  BY <1>1, PoolsArePools DEF PoolTypes
<1>3. new \in [pool : PoolIds, end : S!Sizes, of : S!Fds \cup {None}]
  BY <1>2
<1> HIDE DEF new
<1>4. /\ DOMAIN poolBuffers' = DOMAIN poolBuffers \cup {b}
      /\ \A c \in DOMAIN poolBuffers' :
           poolBuffers'[c] = IF c = b THEN new ELSE poolBuffers[c]
  BY <1>1 DEF S!With
<1>5. (\A c \in DOMAIN guards : guards[c] \in S!Mappings)'
  BY <1>1, <1>2 DEF S!With, S!Mappings, S!Sizes, S!Fds, PoolTypes
<1>6. (\A c \in DOMAIN poolBuffers :
         poolBuffers[c] \in [pool : PoolIds, end : S!Sizes, of : S!Fds \cup {None}])'
  BY <1>3, <1>4 DEF PoolTypes, S!Sizes, S!Fds
<1>7. QED BY <1>1, <1>4, <1>5, <1>6 DEF PoolTypes, S!Sizes, S!Fds

\* Descriptors closed or made, the rest as it was or less of it.
LEMMA FewerTypes ==
  ASSUME PoolTypes,
         DOMAIN poolBuffers' \subseteq DOMAIN poolBuffers,
         \A b \in DOMAIN poolBuffers' : poolBuffers'[b] = poolBuffers[b],
         DOMAIN guards' \subseteq DOMAIN guards,
         \A b \in DOMAIN guards' : guards'[b] = guards[b],
         damaged' \subseteq DOMAIN poolBuffers',
         made' \in 0 .. MaxPools, file' \in [S!Fds -> 0 .. MaxSize],
         twice' \in BOOLEAN, connected' \in BOOLEAN
  PROVE  PoolTypes'
BY DEF PoolTypes, S!Mappings, S!Sizes, S!Fds

LEMMA PoolStepTypes ==
  ASSUME S!PoolsAssumption, PoolsInv, PoolTypes, [S!Next]_(S!vars)
  PROVE  PoolTypes'
<1>1. CASE UNCHANGED S!vars \/ S!Publish
  BY <1>1, FewerTypes DEF S!vars, S!Publish, PoolTypes
<1>2. CASE S!Gone
  <2>1. /\ DOMAIN poolBuffers' = {} /\ DOMAIN guards' = {} /\ damaged' = {}
        /\ connected' = FALSE /\ UNCHANGED <<file, made>>
    BY <1>2 DEF S!Gone, S!NothingOn
  <2>2. twice' \in BOOLEAN
    BY <1>2 DEF S!Gone, S!CleanUp, S!Close
  <2>3. QED BY <2>1, <2>2, FewerTypes DEF PoolTypes
<1>3. ASSUME NEW b \in BufferIds, S!DestroyBuffer(b)
      PROVE  PoolTypes'
  <2>1. /\ poolBuffers' = S!Without(poolBuffers, {b}) /\ guards' = S!Without(guards, {b})
        /\ damaged' = damaged \ {b} /\ UNCHANGED <<file, made, connected>>
    BY <1>3 DEF S!DestroyBuffer
  <2>2. twice' \in BOOLEAN
    BY <1>3 DEF S!DestroyBuffer, S!CleanUp, S!Close
  <2>3. /\ DOMAIN poolBuffers' = DOMAIN poolBuffers \ {b}
        /\ \A c \in DOMAIN poolBuffers' : poolBuffers'[c] = poolBuffers[c]
        /\ DOMAIN guards' = DOMAIN guards \ {b}
        /\ \A c \in DOMAIN guards' : guards'[c] = guards[c]
    BY <2>1 DEF S!Without, S!Restrict
  <2>4. QED BY <2>1, <2>2, <2>3, FewerTypes DEF PoolTypes
<1>4. ASSUME NEW p \in PoolIds, NEW size \in S!Sizes, NEW fileSize \in S!Sizes,
             S!CreatePool(p, size, fileSize)
      PROVE  PoolTypes'
  <2>1. /\ made < MaxPools /\ made' = made + 1
        /\ file' = [file EXCEPT ![made'] = fileSize]
        /\ UNCHANGED <<poolBuffers, guards, damaged, connected>>
    BY <1>4 DEF S!CreatePool
  <2>2. twice' \in BOOLEAN
    BY <1>4 DEF S!CreatePool
  <2>3. made' \in 0 .. MaxPools /\ file' \in [S!Fds -> 0 .. MaxSize]
    BY <2>1 DEF PoolTypes, S!PoolsAssumption, S!Fds, S!Sizes
  <2>4. QED BY <2>1, <2>2, <2>3, FewerTypes DEF PoolTypes
<1>5. ASSUME NEW p \in PoolIds, S!DestroyPool(p)
      PROVE  PoolTypes'
  <2>1. UNCHANGED <<poolBuffers, guards, damaged, file, made, connected>>
    BY <1>5 DEF S!DestroyPool
  <2>2. twice' \in BOOLEAN
    BY <1>5 DEF S!DestroyPool, S!CleanUp, S!Close
  <2>3. QED BY <2>1, <2>2, FewerTypes DEF PoolTypes
<1>6. ASSUME NEW p \in PoolIds, NEW size \in S!Sizes, S!Resize(p, size)
      PROVE  PoolTypes'
  BY <1>6, FewerTypes DEF S!Resize, PoolTypes
<1>7. QED
  BY <1>1, <1>2, <1>3, <1>4, <1>5, <1>6, CreateBufferTypes DEF S!Next

\* The variables of ShmPools have their types.
LEMMA PoolsTyped ==
  ASSUME S!PoolsAssumption
  PROVE  S!Spec => []S!TypeOK
<1>1. S!Init => PoolTypes
  <2>1. SUFFICES ASSUME S!Init PROVE PoolTypes
    OBVIOUS
  <2>2. DOMAIN poolBuffers = {} /\ DOMAIN guards = {}
    BY <2>1 DEF S!Init, S!NothingOn
  <2>3. made \in 0 .. MaxPools /\ file \in [S!Fds -> 0 .. MaxSize]
    BY <2>1 DEF S!Init, S!PoolsAssumption
  <2>4. damaged = {} /\ twice = FALSE /\ connected = TRUE
    BY <2>1 DEF S!Init
  <2>5. QED BY <2>2, <2>3, <2>4 DEF PoolTypes
<1>2. PoolsInv /\ PoolTypes => S!TypeOK
  BY PoolsAreTyped
<1>3. PoolsInv /\ PoolTypes /\ [S!Next]_(S!vars) => PoolTypes'
  BY PoolStepTypes
<1>4. QED BY <1>1, <1>2, <1>3, InitInv, PoolStepKeeps, PTL DEF S!Spec

LEMMA GuardsAreRead == PoolsInv => S!ReadsItsOwnMemory
BY DEF PoolsInv, GuardsAreTheirs, S!ReadsItsOwnMemory, S!ImageOf, S!MappingOf

\* Whatever becomes of pools and their ids, a buffer that can be drawn is drawn
\* from the memory it was made of (buffer_guards, ensure_buffer_image).
THEOREM OwnMemory == S!Spec => []S!ReadsItsOwnMemory
<1>1. S!Spec => []PoolsInv
  BY InitInv, PoolStepKeeps, PTL DEF S!Spec
<1>2. QED BY <1>1, GuardsAreRead, PTL

\* Descriptors are closed once, when neither the client nor a buffer needs the
\* pool any more, and dead pools do not stay (try_cleanup_pool,
\* register_shm_pool, remove_client_resources).
THEOREM NothingLeaks == S!Spec => []S!NoneLeaksNoneTwice
<1>1. S!Spec => []PoolsInv
  BY InitInv, PoolStepKeeps, PTL DEF S!Spec
<1>2. PoolsInv => S!NoneLeaksNoneTwice
  BY DEF PoolsInv
<1>3. QED BY <1>1, <1>2, PTL

-----------------------------------------------------------------------------
(* What is sent of a buffer: DamageUpload.                                 *)

CONSTANTS Outputs, Cells, NoBuffer, NoImage, MaxCommits, MaxBuffers
VARIABLES live, memory, serial, damage, known, nextContent, attached, picture, commits,
          created, stale, cache, published, drawn, texture

\* A window that is on every output.
D == INSTANCE DamageUpload
  WITH ShownOn <- Outputs, made <- created, nextSerial <- nextContent

\* Serials in use are below the next, and a serial that is used is not 0.
SerialsAreOld ==
  /\ nextContent = 1 + commits + created
  /\ \A b \in BufferIds : /\ serial[b] < nextContent /\ cache[b] < nextContent
                          /\ texture[b].serial < nextContent
                          /\ b \in live => serial[b] # 0
  /\ \A o \in Outputs : published[o] # NoImage =>
       published[o].serial < nextContent /\ published[o].previous < nextContent

\* Nothing reads a buffer that is gone, and a texture is of one that is drawn.
ReadersAreLive ==
  /\ D!Read \subseteq live
  /\ \A b \in BufferIds : texture[b].serial # 0 =>
       \E o \in Outputs : drawn[o] # NoImage /\ drawn[o].buffer = b

\* The window's buffer holds what the client drew.
WindowIsDrawn ==
  /\ attached # NoBuffer => memory[attached] = picture
  /\ \A c \in Cells : picture[c] <= commits

UnknownIsAll == \A b \in BufferIds \ known : damage[b] = Cells

(***************************************************************************)
(* by[b][s] is the last commit that what buffer b held under serial s      *)
(* may lack nothing of: a cell with a later number was drawn since.        *)
(***************************************************************************)
Marks == [BufferIds -> [Nat -> Nat]]

MarksAreOld(by) == \A b \in BufferIds, s \in Nat : by[b][s] <= commits

BuffersAreNewest(by) ==
  \A b \in live, c \in Cells : memory[b][c] <= by[b][serial[b]]

\* A texture is right wherever nothing was drawn since its serial.
TexturesHold(by) ==
  \A b \in BufferIds, c \in Cells :
    texture[b].serial # 0 /\ memory[b][c] <= by[b][texture[b].serial]
      => texture[b].cells[c] = memory[b][c]

\* A patch has every cell drawn between the serial it is for and its own.
PatchesSuffice(by) ==
  \A o \in Outputs :
    published[o] # NoImage /\ published[o].cells # {} =>
      /\ published[o].previous # 0
      /\ \A c \in Cells :
           LET b == published[o].buffer IN
             /\ by[b][published[o].previous] < memory[b][c]
             /\ memory[b][c] <= by[b][published[o].serial]
             => c \in published[o].cells

\* The damage of the window's buffer has every cell drawn since it was last sent.
DamageIsNoted(by) ==
  attached # NoBuffer /\ cache[attached] # 0 =>
    \A c \in Cells : by[attached][cache[attached]] < memory[attached][c]
                       => c \in damage[attached]

Sent(by) ==
  /\ MarksAreOld(by)
  /\ BuffersAreNewest(by)
  /\ TexturesHold(by)
  /\ PatchesSuffice(by)
  /\ DamageIsNoted(by)

DamageInv ==
  /\ D!TypeOK
  /\ SerialsAreOld
  /\ ReadersAreLive
  /\ WindowIsDrawn
  /\ UnknownIsAll
  /\ \E by \in Marks : Sent(by)

-----------------------------------------------------------------------------
LEMMA DamageInit ==
  ASSUME D!NamesAssumption, D!BoundsAssumption, D!Init
  PROVE  DamageInv
<1> USE DEF D!Init
<1>1. D!TypeOK
  BY DEF D!TypeOK, D!BoundsAssumption, D!Serials, D!Contents, D!Blank
<1>2. SerialsAreOld
  BY DEF SerialsAreOld
<1>3. ReadersAreLive
  BY DEF ReadersAreLive, D!Read
<1>4. WindowIsDrawn
  BY DEF WindowIsDrawn, D!Blank
<1>5. UnknownIsAll
  BY DEF UnknownIsAll
<1>6. \E by \in Marks : Sent(by)
  <2> DEFINE by == [b \in BufferIds |-> [s \in Nat |-> 0]]
  <2>1. by \in Marks /\ \A b \in BufferIds, s \in Nat : by[b][s] = 0
    BY DEF Marks
  <2> HIDE DEF by
  <2>2. MarksAreOld(by) /\ BuffersAreNewest(by)
    BY <2>1 DEF MarksAreOld, BuffersAreNewest
  <2>3. TexturesHold(by) /\ PatchesSuffice(by) /\ DamageIsNoted(by)
    BY DEF TexturesHold, PatchesSuffice, DamageIsNoted
  <2>4. QED BY <2>1, <2>2, <2>3 DEF Sent
<1>7. QED BY <1>1, <1>2, <1>3, <1>4, <1>5, <1>6 DEF DamageInv

\* What Read says of an output.
LEMMA ReadBy ==
  ASSUME NEW o \in Outputs
  PROVE  /\ published[o] # NoImage => published[o].buffer \in D!Read
         /\ drawn[o] # NoImage => drawn[o].buffer \in D!Read
BY DEF D!Read

\* The types there are, without the bounds.
LEMMA PlainTypes ==
  ASSUME D!BoundsAssumption, DamageInv
  PROVE  /\ live \subseteq BufferIds /\ attached \in live \cup {NoBuffer}
         /\ memory \in [BufferIds -> [Cells -> Nat]] /\ picture \in [Cells -> Nat]
         /\ serial \in [BufferIds -> Nat] /\ cache \in [BufferIds -> Nat]
         /\ damage \in [BufferIds -> SUBSET Cells]
         /\ nextContent \in Nat \ {0} /\ commits \in Nat /\ created \in Nat
         /\ published \in [Outputs -> [buffer : BufferIds, serial : Nat, previous : Nat,
                                       cells : SUBSET Cells] \cup {NoImage}]
         /\ texture \in [BufferIds -> [serial : Nat, cells : [Cells -> Nat]]]
<1>1. D!Serials \subseteq Nat /\ D!Contents \subseteq [Cells -> Nat]
  BY DEF D!BoundsAssumption, D!Serials, D!Contents
<1>2. D!Images \subseteq [buffer : BufferIds, serial : Nat, previous : Nat, cells : SUBSET Cells]
  BY <1>1 DEF D!Images
<1>3. commits \in Nat /\ created \in Nat /\ nextContent \in Nat \ {0}
  BY DEF DamageInv, D!TypeOK, SerialsAreOld, D!BoundsAssumption
<1>4. memory \in [BufferIds -> [Cells -> Nat]]
  BY <1>1 DEF DamageInv, D!TypeOK
<1>5. texture \in [BufferIds -> [serial : Nat, cells : [Cells -> Nat]]]
  BY <1>1 DEF DamageInv, D!TypeOK
<1>6. published \in [Outputs -> [buffer : BufferIds, serial : Nat, previous : Nat,
                               cells : SUBSET Cells] \cup {NoImage}]
  BY <1>2 DEF DamageInv, D!TypeOK
<1>7. QED BY <1>1, <1>3, <1>4, <1>5, <1>6 DEF DamageInv, D!TypeOK

\* Serials only go up, so what was given stays old.
LEMMA OldStaysOld ==
  ASSUME D!BoundsAssumption, DamageInv, nextContent' = nextContent + 1,
         UNCHANGED <<cache, published, texture>>
  PROVE  /\ \A x \in BufferIds : cache'[x] < nextContent' /\ texture'[x].serial < nextContent'
         /\ \A o \in Outputs : published'[o] # NoImage =>
              published'[o].serial < nextContent' /\ published'[o].previous < nextContent'
<1>1. ASSUME NEW x \in BufferIds
      PROVE  cache[x] < nextContent + 1 /\ texture[x].serial < nextContent + 1
  <2>1. cache[x] \in Nat /\ texture[x].serial \in Nat /\ nextContent \in Nat
    BY PlainTypes
  <2>2. QED BY <2>1 DEF DamageInv, SerialsAreOld
<1>2. ASSUME NEW o \in Outputs, published[o] # NoImage
      PROVE  published[o].serial < nextContent + 1 /\ published[o].previous < nextContent + 1
  <2>1. published[o].serial \in Nat /\ published[o].previous \in Nat /\ nextContent \in Nat
    BY <1>2, PlainTypes
  <2>2. QED BY <1>2, <2>1 DEF DamageInv, SerialsAreOld
<1>3. QED BY <1>1, <1>2

LEMMA DrawnCreateKeeps ==
  ASSUME D!BoundsAssumption, DamageInv, NEW b \in BufferIds, D!Create(b)
  PROVE  DamageInv'
<1> USE DEF D!Create, D!window, D!backend
<1>1. D!TypeOK'
  BY DEF DamageInv, SerialsAreOld, D!TypeOK, D!BoundsAssumption, D!Serials, D!Contents, D!Blank
<1>2. SerialsAreOld'
  <2>1. /\ serial' \in [BufferIds -> Nat] /\ serial'[b] = nextContent
        /\ \A x \in BufferIds \ {b} : serial'[x] = serial[x]
    BY PlainTypes
  <2>2. nextContent' = nextContent + 1 /\ created' = created + 1 /\ commits' = commits
    OBVIOUS
  <2>3. ASSUME NEW x \in BufferIds
        PROVE  serial'[x] < nextContent' /\ (x \in live' => serial'[x] # 0)
    <3>1. serial[x] \in Nat /\ serial[x] < nextContent /\ (x \in live => serial[x] # 0)
      BY PlainTypes DEF DamageInv, SerialsAreOld
    <3>2. QED BY <2>1, <2>2, <3>1, PlainTypes
  <2>4. nextContent' = 1 + commits' + created'
    BY <2>2, PlainTypes DEF DamageInv, SerialsAreOld
  <2>5. UNCHANGED <<cache, published, texture>>
    OBVIOUS
  <2>6. QED BY <2>2, <2>3, <2>4, <2>5, OldStaysOld DEF SerialsAreOld
<1>3. ReadersAreLive'
  BY DEF DamageInv, ReadersAreLive, D!Read
<1>4. WindowIsDrawn'
  <2>1. attached # NoBuffer => attached # b /\ memory'[attached] = memory[attached]
    BY DEF DamageInv, D!TypeOK
  <2>2. attached' = attached /\ picture' = picture /\ commits' = commits
    OBVIOUS
  <2>3. QED BY <2>1, <2>2 DEF DamageInv, WindowIsDrawn
<1>5. UnknownIsAll'
  BY DEF DamageInv, UnknownIsAll, D!TypeOK
<1>6. \E by \in Marks : Sent(by)'
  <2>1. PICK by \in Marks : Sent(by)
    BY DEF DamageInv
  <2> DEFINE new == [by EXCEPT ![b] = [s \in Nat |-> 0]]
  <2>2. /\ new \in Marks /\ \A s \in Nat : new[b][s] = 0
        /\ \A x \in BufferIds \ {b} : new[x] = by[x]
    BY <2>1 DEF Marks
  <2> HIDE DEF new
  <2>3. /\ texture[b].serial = 0
        /\ \A o \in Outputs : published[o] # NoImage => published[o].buffer # b
    BY ReadBy DEF DamageInv, ReadersAreLive, D!Create
  <2>4. MarksAreOld(new)'
    BY <2>1, <2>2 DEF Sent, MarksAreOld, DamageInv, D!TypeOK
  <2>5. BuffersAreNewest(new)'
    <3>1. /\ \A c \in Cells : memory'[b][c] = 0
          /\ serial'[b] = nextContent /\ new[b][nextContent] = 0
          /\ \A x \in live : x # b /\ memory'[x] = memory[x] /\ serial'[x] = serial[x]
      BY <2>2, PlainTypes DEF D!Blank
    <3>2. ASSUME NEW x \in live, NEW c \in Cells
          PROVE  memory'[x][c] <= new[x][serial'[x]]
      BY <2>1, <2>2, <3>1, <3>2, PlainTypes DEF Sent, BuffersAreNewest
    <3>3. QED BY <3>1, <3>2 DEF BuffersAreNewest
  <2>6. TexturesHold(new)'
    BY <2>1, <2>2, <2>3 DEF Sent, TexturesHold, DamageInv, D!TypeOK
  <2>7. PatchesSuffice(new)'
    <3>1. ASSUME NEW o \in Outputs, published[o] # NoImage
          PROVE  LET x == published[o].buffer IN new[x] = by[x] /\ memory'[x] = memory[x]
      BY <2>2, <2>3, <3>1 DEF DamageInv, D!TypeOK, D!Images
    <3>2. PatchesSuffice(by) /\ published' = published
      BY <2>1 DEF Sent
    <3>3. QED BY <3>1, <3>2 DEF PatchesSuffice
  <2>8. DamageIsNoted(new)'
    BY <2>1, <2>2 DEF Sent, DamageIsNoted, DamageInv, D!TypeOK
  <2>9. Sent(new)'
    BY <2>4, <2>5, <2>6, <2>7, <2>8 DEF Sent
  <2>10. QED BY <2>2, <2>9
<1>7. QED BY <1>1, <1>2, <1>3, <1>4, <1>5, <1>6 DEF DamageInv, Marks

LEMMA DrawnDestroyKeeps ==
  ASSUME D!BoundsAssumption, DamageInv, NEW b \in BufferIds, D!Destroy(b)
  PROVE  DamageInv'
<1> USE DEF D!Destroy, D!window, D!backend
<1>1. D!TypeOK'
  BY DEF DamageInv, D!TypeOK
<1>2. SerialsAreOld'
  BY DEF DamageInv, SerialsAreOld
<1>3. ReadersAreLive'
  BY DEF DamageInv, ReadersAreLive, D!Read
<1>4. WindowIsDrawn' /\ UnknownIsAll'
  BY DEF DamageInv, WindowIsDrawn, UnknownIsAll
<1>5. PICK by \in Marks : Sent(by)
  BY DEF DamageInv
<1>6. Sent(by)'
  BY <1>5 DEF Sent, MarksAreOld, BuffersAreNewest, TexturesHold, PatchesSuffice, DamageIsNoted
<1>7. QED BY <1>1, <1>2, <1>3, <1>4, <1>5, <1>6 DEF DamageInv, Marks

-----------------------------------------------------------------------------
(* A commit.                                                               *)

\* What a commit changes of the window's buffer, besides the serial.
LEMMA CommitDraws ==
  ASSUME D!BoundsAssumption, DamageInv, NEW b \in BufferIds, NEW cells \in SUBSET Cells,
         D!Commit(b, cells)
  PROVE  /\ memory'[b] = picture' /\ picture' \in [Cells -> Nat]
         /\ \A x \in BufferIds \ {b} : memory'[x] = memory[x]
         /\ \A c \in Cells : \/ picture'[c] = commits + 1
                             \/ picture'[c] = picture[c] /\ cells # {} /\ c \notin cells
         /\ \A c \in Cells : picture'[c] <= commits + 1
         /\ damage' \in [BufferIds -> SUBSET Cells]
         /\ \A x \in BufferIds \ {b} : damage'[x] = damage[x]
         /\ damage[b] \cup cells \subseteq damage'[b]
         /\ cells = {} => damage'[b] = Cells
<1> USE DEF D!Commit
<1>1. picture' = [c \in Cells |-> IF cells = {} \/ c \in cells THEN commits + 1 ELSE picture[c]]
  OBVIOUS
<1>2. memory' = [memory EXCEPT ![b] = picture']
  OBVIOUS
<1>3. memory'[b] = picture' /\ \A x \in BufferIds \ {b} : memory'[x] = memory[x]
  BY <1>2, PlainTypes
<1>4. \A c \in Cells : picture[c] <= commits /\ picture[c] \in Nat /\ commits \in Nat
  BY PlainTypes DEF DamageInv, WindowIsDrawn
<1>5. picture' \in [Cells -> Nat] /\ \A c \in Cells : picture'[c] <= commits + 1
  BY <1>1, <1>4, PlainTypes
<1>6. damage' = [damage EXCEPT ![b] = IF cells = {} THEN Cells ELSE D!Accumulated(b, cells)]
  OBVIOUS
<1>7. /\ D!Accumulated(b, cells) \in SUBSET Cells
      /\ damage[b] \cup cells \subseteq D!Accumulated(b, cells)
  BY PlainTypes DEF D!Accumulated
<1>8. QED BY <1>1, <1>3, <1>5, <1>6, <1>7, PlainTypes

LEMMA CommitFrame ==
  ASSUME D!NamesAssumption, D!BoundsAssumption, DamageInv,
         NEW b \in BufferIds, NEW cells \in SUBSET Cells, D!Commit(b, cells)
  PROVE  D!TypeOK' /\ SerialsAreOld' /\ ReadersAreLive' /\ WindowIsDrawn' /\ UnknownIsAll'
<1>1. memory'[b] = picture' /\ \A c \in Cells : picture'[c] <= commits + 1
  BY CommitDraws
<1> USE DEF D!Commit, D!backend
<1>2. /\ commits < MaxCommits /\ commits' = commits + 1 /\ created' = created
      /\ nextContent' = nextContent + 1 /\ nextContent = 1 + commits + created
  BY DEF DamageInv, SerialsAreOld
<1>3. commits' \in 0 .. MaxCommits /\ nextContent \in D!Serials
      /\ nextContent' \in D!Serials \cup {MaxCommits + MaxBuffers + 1}
  BY <1>2 DEF DamageInv, D!TypeOK, D!BoundsAssumption, D!Serials
<1>4. picture' \in D!Contents
  <2>1. picture' = [c \in Cells |-> IF cells = {} \/ c \in cells THEN commits + 1 ELSE picture[c]]
    OBVIOUS
  <2>2. QED BY <1>2, <1>3, <2>1 DEF D!Contents, DamageInv, D!TypeOK
<1>5. memory' \in [BufferIds -> D!Contents]
  BY <1>4 DEF DamageInv, D!TypeOK
<1>6. serial' \in [BufferIds -> D!Serials]
  BY <1>3 DEF DamageInv, D!TypeOK
<1>7. damage' \in [BufferIds -> SUBSET Cells]
  BY CommitDraws
<1>8. D!TypeOK'
  BY <1>2, <1>3, <1>4, <1>5, <1>6, <1>7 DEF DamageInv, D!TypeOK
<1>9. SerialsAreOld'
  <2>1. /\ serial'[b] = nextContent
        /\ \A x \in BufferIds \ {b} : serial'[x] = serial[x]
    BY PlainTypes
  <2>2. ASSUME NEW x \in BufferIds
        PROVE  serial'[x] < nextContent' /\ (x \in live' => serial'[x] # 0)
    <3>1. serial[x] \in Nat /\ serial[x] < nextContent /\ (x \in live => serial[x] # 0)
      BY PlainTypes DEF DamageInv, SerialsAreOld
    <3>2. QED BY <1>2, <2>1, <3>1, PlainTypes
  <2>3. nextContent' = 1 + commits' + created'
    BY <1>2, PlainTypes
  <2>4. UNCHANGED <<cache, published, texture>>
    OBVIOUS
  <2>5. QED BY <1>2, <2>2, <2>3, <2>4, OldStaysOld DEF SerialsAreOld
<1>10. ReadersAreLive'
  <2>1. UNCHANGED <<live, published, drawn, texture>>
    OBVIOUS
  <2>2. QED BY <2>1 DEF DamageInv, ReadersAreLive, D!Read
<1>11. WindowIsDrawn'
  <2>1. attached' = b
    OBVIOUS
  <2>2. memory'[b] = picture' /\ \A c \in Cells : picture'[c] <= commits'
    BY <1>2, <1>1
  <2>3. QED BY <2>1, <2>2 DEF WindowIsDrawn
<1>12. UnknownIsAll'
  <2>1. damage' = [damage EXCEPT ![b] = IF cells = {} THEN Cells ELSE D!Accumulated(b, cells)]
    OBVIOUS
  <2>2. ASSUME NEW x \in BufferIds \ known'
        PROVE  damage'[x] = Cells
    <3>1. CASE x = b
      BY <2>1, <2>2, <3>1, PlainTypes DEF D!Accumulated
    <3>2. CASE x # b
      <4>1. x \notin known
        BY <2>2, <3>2
      <4>2. QED BY <3>2, <4>1, CommitDraws DEF DamageInv, UnknownIsAll
    <3>3. QED BY <3>1, <3>2
  <2>3. QED BY <2>2 DEF UnknownIsAll
<1>13. QED BY <1>8, <1>9, <1>10, <1>11, <1>12

\* The window goes on with the buffer it shows: whatever was drawn now is newer
\* than every mark.
LEMMA CommitAgain ==
  ASSUME D!NamesAssumption, D!BoundsAssumption, DamageInv,
         NEW b \in BufferIds, NEW cells \in SUBSET Cells, D!Commit(b, cells), b = attached
  PROVE  \E by \in Marks : Sent(by)'
<1>1. PICK by \in Marks : Sent(by)
  BY DEF DamageInv
<1>2. PICK new \in Marks :
        /\ new[b][nextContent] = commits + 1
        /\ \A x \in BufferIds \ {b} : new[x] = by[x]
        /\ \A s \in Nat \ {nextContent} : new[b][s] = by[b][s]
  <2> DEFINE marks == [by EXCEPT ![b] = [@ EXCEPT ![nextContent] = commits + 1]]
  <2>1. /\ marks \in Marks /\ marks[b][nextContent] = commits + 1
        /\ \A x \in BufferIds \ {b} : marks[x] = by[x]
        /\ \A s \in Nat \ {nextContent} : marks[b][s] = by[b][s]
    BY <1>1, PlainTypes DEF Marks
  <2>2. QED BY <2>1
<1>3. /\ \A x \in BufferIds, s \in Nat : s < nextContent => new[x][s] = by[x][s]
      /\ \A x \in BufferIds, s \in Nat : by[x][s] \in Nat
  <2>1. \A s \in Nat : s < nextContent => s \in Nat \ {nextContent}
    BY PlainTypes
  <2>2. \A x \in BufferIds, s \in Nat : by[x][s] \in Nat
    BY <1>1 DEF Marks
  <2>3. QED BY <1>2, <2>1, <2>2, Zenon
<1>4. /\ UNCHANGED <<live, cache, published, texture>> /\ attached' = b /\ commits' = commits + 1
      /\ serial'[b] = nextContent /\ \A x \in BufferIds \ {b} : serial'[x] = serial[x]
  BY PlainTypes DEF D!Commit, D!backend
<1>5. /\ \A x \in BufferIds \ {b} : memory'[x] = memory[x]
      /\ \A c \in Cells : /\ memory'[b][c] <= commits + 1
                          /\ \/ memory'[b][c] = commits + 1 /\ (c \in cells \/ cells = {})
                             \/ memory'[b][c] = memory[b][c]
      /\ \A x \in BufferIds : memory[x] \in [Cells -> Nat] /\ memory'[x] \in [Cells -> Nat]
  <2>1. memory[b] = picture
    BY DEF DamageInv, WindowIsDrawn, D!NamesAssumption
  <2>2. \A c \in Cells : picture'[c] = IF cells = {} \/ c \in cells THEN commits + 1 ELSE picture[c]
    BY DEF D!Commit
  <2>3. /\ memory'[b] = picture' /\ picture' \in [Cells -> Nat]
        /\ \A x \in BufferIds \ {b} : memory'[x] = memory[x]
        /\ \A c \in Cells : picture'[c] <= commits + 1
    BY CommitDraws
  <2>4. QED BY <2>1, <2>2, <2>3, PlainTypes
\* A cell is as it was or newer than every mark but the newest.
<1>6. \A x \in BufferIds, c \in Cells, s \in Nat :
        memory'[x][c] = memory[x][c] \/ by[x][s] < memory'[x][c]
  <2>1. ASSUME NEW x \in BufferIds, NEW c \in Cells, NEW s \in Nat, memory'[x][c] # memory[x][c]
        PROVE  by[x][s] < memory'[x][c]
    <3>1. x = b /\ memory'[x][c] = commits + 1
      BY <1>5, <2>1
    <3>2. by[x][s] <= commits /\ by[x][s] \in Nat /\ commits \in Nat
      BY <1>1, <1>3, PlainTypes DEF Sent, MarksAreOld
    <3>3. QED BY <3>1, <3>2
  <2>2. QED BY <2>1
<1>7. MarksAreOld(new)'
  <2>1. \A x \in BufferIds, s \in Nat : by[x][s] <= commits
    BY <1>1 DEF Sent, MarksAreOld
  <2>2. ASSUME NEW x \in BufferIds, NEW s \in Nat
        PROVE  new[x][s] <= commits + 1
    <3>1. new[x][s] = by[x][s] \/ new[x][s] = commits + 1
      BY <1>2
    <3>2. by[x][s] <= commits /\ by[x][s] \in Nat /\ commits \in Nat
      BY <1>3, <2>1, PlainTypes
    <3>3. QED BY <3>1, <3>2
  <2>3. QED BY <1>4, <2>2 DEF MarksAreOld
<1>8. BuffersAreNewest(new)'
  <2>1. ASSUME NEW x \in live, NEW c \in Cells
        PROVE  memory'[x][c] <= new[x][serial'[x]]
    <3>1. CASE x = b
      BY <1>2, <1>4, <1>5, <3>1
    <3>2. CASE x # b
      <4>1. x \in BufferIds /\ new[x] = by[x] /\ memory'[x] = memory[x] /\ serial'[x] = serial[x]
        BY <1>2, <1>4, <1>5, <3>2, PlainTypes
      <4>2. QED BY <1>1, <4>1 DEF Sent, BuffersAreNewest
    <3>3. QED BY <3>1, <3>2
  <2>2. QED BY <1>4, <2>1 DEF BuffersAreNewest
<1>9. TexturesHold(new)'
  <2>1. ASSUME NEW x \in BufferIds, NEW c \in Cells, texture[x].serial # 0,
               memory'[x][c] <= new[x][texture[x].serial]
        PROVE  texture[x].cells[c] = memory'[x][c]
    <3>1. /\ texture[x].serial \in Nat /\ texture[x].serial < nextContent
      BY PlainTypes DEF DamageInv, SerialsAreOld
    <3>2. memory'[x][c] <= by[x][texture[x].serial]
      BY <1>3, <2>1, <3>1
    <3>3. memory'[x][c] = memory[x][c]
      BY <1>3, <1>5, <1>6, <3>1, <3>2
    <3>4. QED BY <1>1, <2>1, <3>2, <3>3 DEF Sent, TexturesHold
  <2>2. QED BY <1>4, <2>1 DEF TexturesHold
<1>10. PatchesSuffice(new)'
  <2>1. ASSUME NEW o \in Outputs, published[o] # NoImage, published[o].cells # {}
        PROVE  LET x == published[o].buffer IN
                 /\ published[o].previous # 0
                 /\ \A c \in Cells : /\ new[x][published[o].previous] < memory'[x][c]
                                     /\ memory'[x][c] <= new[x][published[o].serial]
                                     => c \in published[o].cells
    <3> DEFINE x == published[o].buffer
               i == published[o].previous
               j == published[o].serial
    <3>1. x \in BufferIds /\ i \in Nat /\ j \in Nat /\ i < nextContent /\ j < nextContent
      BY <2>1, PlainTypes DEF DamageInv, SerialsAreOld
    <3>2. /\ i # 0
          /\ \A c \in Cells : by[x][i] < memory[x][c] /\ memory[x][c] <= by[x][j]
                                => c \in published[o].cells
      BY <1>1, <2>1 DEF Sent, PatchesSuffice
    <3>3. ASSUME NEW c \in Cells, new[x][i] < memory'[x][c], memory'[x][c] <= new[x][j]
          PROVE  c \in published[o].cells
      <4> HIDE DEF x, i, j
      <4>1. by[x][i] < memory'[x][c] /\ memory'[x][c] <= by[x][j]
        BY <1>3, <3>1, <3>3
      <4>2. memory'[x][c] = memory[x][c]
        BY <1>3, <1>5, <1>6, <3>1, <4>1
      <4>3. QED BY <3>2, <4>1, <4>2
    <3>4. QED BY <3>2, <3>3
  <2>2. QED BY <1>4, <2>1 DEF PatchesSuffice
<1>11. DamageIsNoted(new)'
  <2>1. ASSUME cache[b] # 0, NEW c \in Cells, new[b][cache[b]] < memory'[b][c]
        PROVE  c \in damage'[b]
    <3>1. cache[b] \in Nat /\ cache[b] < nextContent
      BY PlainTypes DEF DamageInv, SerialsAreOld
    <3>2. damage[b] \cup cells \subseteq damage'[b] /\ (cells = {} => damage'[b] = Cells)
      BY CommitDraws
    <3>3. CASE c \in cells \/ cells = {}
      BY <3>2, <3>3
    <3>4. CASE memory'[b][c] = memory[b][c]
      <4>1. by[b][cache[b]] < memory[b][c]
        BY <1>3, <2>1, <3>1, <3>4
      <4>2. attached # NoBuffer
        BY DEF D!NamesAssumption
      <4>3. c \in damage[b]
        BY <1>1, <2>1, <4>1, <4>2 DEF Sent, DamageIsNoted
      <4>4. QED BY <3>2, <4>3
    <3>5. QED BY <1>5, <3>3, <3>4
  <2>2. QED BY <1>4, <2>1 DEF DamageIsNoted
<1>12. Sent(new)'
  BY <1>7, <1>8, <1>9, <1>10, <1>11 DEF Sent
<1>13. QED BY <1>2, <1>12

\* The window takes another buffer, which nobody reads: nothing that was sent of
\* it is left, so its marks begin anew.
LEMMA CommitAnother ==
  ASSUME D!NamesAssumption, D!BoundsAssumption, DamageInv,
         NEW b \in BufferIds, NEW cells \in SUBSET Cells, D!Commit(b, cells), b # attached
  PROVE  \E by \in Marks : Sent(by)'
<1>1. PICK by \in Marks : Sent(by)
  BY DEF DamageInv
<1>2. PICK new \in Marks :
        (\A s \in Nat : new[b][s] = commits + 1) /\ (\A x \in BufferIds \ {b} : new[x] = by[x])
  <2> DEFINE marks == [by EXCEPT ![b] = [s \in Nat |-> commits + 1]]
  <2>1. marks \in Marks /\ \A s \in Nat : marks[b][s] = commits + 1
    BY <1>1, PlainTypes DEF Marks
  <2>2. \A x \in BufferIds \ {b} : marks[x] = by[x]
    BY <1>1 DEF Marks
  <2>3. QED BY <2>1, <2>2
<1>3. /\ UNCHANGED <<live, cache, published, texture>> /\ attached' = b /\ commits' = commits + 1
      /\ serial'[b] = nextContent /\ \A x \in BufferIds \ {b} : serial'[x] = serial[x]
  BY PlainTypes DEF D!Commit, D!backend
<1>4. /\ \A x \in BufferIds \ {b} : memory'[x] = memory[x]
      /\ \A c \in Cells : memory'[b][c] <= commits + 1 /\ memory'[b][c] \in Nat
  BY CommitDraws
<1>5. /\ texture[b].serial = 0
      /\ \A o \in Outputs : published[o] # NoImage => published[o].buffer # b
  BY ReadBy DEF DamageInv, ReadersAreLive, D!Commit
<1>6. MarksAreOld(new)'
  <2>1. \A x \in BufferIds, s \in Nat : by[x][s] <= commits /\ by[x][s] \in Nat
    BY <1>1 DEF Sent, MarksAreOld, Marks
  <2>2. ASSUME NEW x \in BufferIds, NEW s \in Nat
        PROVE  new[x][s] <= commits + 1
    <3>1. new[x][s] = by[x][s] \/ new[x][s] = commits + 1
      BY <1>2
    <3>2. by[x][s] <= commits /\ by[x][s] \in Nat /\ commits \in Nat
      BY <2>1, PlainTypes
    <3>3. QED BY <3>1, <3>2
  <2>3. QED BY <1>3, <2>2 DEF MarksAreOld
<1>7. BuffersAreNewest(new)'
  <2>1. ASSUME NEW x \in live, NEW c \in Cells
        PROVE  memory'[x][c] <= new[x][serial'[x]]
    <3>1. CASE x = b
      BY <1>2, <1>3, <1>4, <3>1, PlainTypes
    <3>2. CASE x # b
      <4>1. x \in BufferIds /\ new[x] = by[x] /\ memory'[x] = memory[x] /\ serial'[x] = serial[x]
        BY <1>2, <1>3, <1>4, <3>2, PlainTypes
      <4>2. QED BY <1>1, <4>1 DEF Sent, BuffersAreNewest
    <3>3. QED BY <3>1, <3>2
  <2>2. QED BY <1>3, <2>1 DEF BuffersAreNewest
<1>8. TexturesHold(new)'
  BY <1>1, <1>2, <1>3, <1>4, <1>5 DEF Sent, TexturesHold
<1>9. PatchesSuffice(new)'
  <2>1. ASSUME NEW o \in Outputs, published[o] # NoImage
        PROVE  LET x == published[o].buffer IN new[x] = by[x] /\ memory'[x] = memory[x]
    BY <1>2, <1>4, <1>5, <2>1, PlainTypes
  <2>2. QED BY <1>1, <1>3, <2>1 DEF Sent, PatchesSuffice
<1>10. DamageIsNoted(new)'
  <2>1. ASSUME NEW c \in Cells PROVE ~ (new[b][cache[b]] < memory'[b][c])
    BY <1>2, <1>4, PlainTypes
  <2>2. QED BY <1>3, <2>1 DEF DamageIsNoted
<1>11. Sent(new)'
  BY <1>6, <1>7, <1>8, <1>9, <1>10 DEF Sent
<1>12. QED BY <1>2, <1>11

LEMMA CommitKeeps ==
  ASSUME D!NamesAssumption, D!BoundsAssumption, DamageInv,
         NEW b \in BufferIds, NEW cells \in SUBSET Cells, D!Commit(b, cells)
  PROVE  DamageInv'
<1>1. (\E by \in Marks : Sent(by)')
  BY CommitAgain, CommitAnother
<1>2. QED BY <1>1, CommitFrame DEF DamageInv, Marks

-----------------------------------------------------------------------------
(* Composing.                                                              *)

\* A new image, of what the window shows: first, or behind the first.
LEMMA ImageTypes ==
  ASSUME D!BoundsAssumption, DamageInv, NEW b \in BufferIds, b \in live,
         NEW sent \in D!Serials, sent < nextContent
  PROVE  LET i == D!Image(b, sent) IN
           /\ i \in D!Images /\ i.buffer = b /\ i.serial = serial[b]
           /\ i.serial < nextContent /\ i.previous < nextContent
           /\ i.cells # {} => /\ i.previous = sent /\ sent # 0 /\ sent # serial[b]
                              /\ i.cells = damage[b]
<1>1. /\ serial[b] \in D!Serials /\ damage[b] \in SUBSET Cells /\ 0 \in D!Serials
      /\ serial[b] < nextContent /\ 0 < nextContent
  BY PlainTypes DEF DamageInv, D!TypeOK, SerialsAreOld, D!Serials, D!BoundsAssumption
<1>2. QED BY <1>1 DEF D!Image, D!Images

\* What publish does, said of what the invariant is about.
Composed(due, first) ==
  /\ due # {} /\ due \subseteq Outputs
  /\ \A b \in BufferIds :
       cache'[b] = IF b = attached THEN serial[b] ELSE IF b \in live THEN cache[b] ELSE 0
  /\ \A o \in Outputs \ due : published'[o] = published[o]
  /\ \A o \in due :
       published'[o] =
         IF attached = NoBuffer THEN NoImage
         ELSE D!Image(attached, IF o = first THEN cache[attached] ELSE serial[attached])

LEMMA PublishComposes ==
  ASSUME D!NamesAssumption, DamageInv, D!Publish
  PROVE  \E due \in SUBSET Outputs, first \in Outputs : Composed(due, first)
<1>1. PICK due \in (SUBSET stale) \ {{}}, first \in Outputs :
        LET on == IF attached = NoBuffer THEN {} ELSE due \cap Outputs IN
          /\ published' = [o \in Outputs |->
               CASE o \in on -> D!Image(attached, IF o = first THEN D!Kept[attached]
                                                  ELSE D!Sent(attached))
                 [] o \in due \ on -> NoImage
                 [] OTHER -> published[o]]
          /\ cache' = [b \in BufferIds |->
               IF on # {} /\ b = attached THEN D!Sent(b) ELSE D!Kept[b]]
  BY DEF D!Publish
<1>2. due \subseteq Outputs /\ due # {}
  <2>1. stale \subseteq Outputs
    BY DEF DamageInv, D!TypeOK
  <2>2. QED BY <2>1
<1>3. /\ NoBuffer \notin BufferIds
      /\ attached # NoBuffer => attached \in live /\ attached \in BufferIds
  BY DEF DamageInv, D!TypeOK, D!NamesAssumption
<1>4. attached # NoBuffer => D!Kept[attached] = cache[attached]
  BY <1>3 DEF D!Kept
<1>5. \A b \in BufferIds : D!Kept[b] = IF b \in live THEN cache[b] ELSE 0
  BY DEF D!Kept
<1>6. Composed(due, first)
  <2>1. CASE attached = NoBuffer
    BY <1>1, <1>2, <1>3, <1>5, <2>1 DEF Composed
  <2>2. CASE attached # NoBuffer
    <3>1. due \cap Outputs = due
      BY <1>2
    <3>2. /\ published' = [o \in Outputs |->
               CASE o \in due -> D!Image(attached, IF o = first THEN cache[attached]
                                                   ELSE serial[attached])
                 [] o \in due \ due -> NoImage
                 [] OTHER -> published[o]]
          /\ cache' = [b \in BufferIds |->
               IF due # {} /\ b = attached THEN serial[b] ELSE D!Kept[b]]
      BY <1>1, <1>4, <2>2, <3>1 DEF D!Sent
    <3>3. QED BY <1>2, <1>5, <2>2, <3>2 DEF Composed
  <2>3. QED BY <2>1, <2>2
<1>7. QED BY <1>2, <1>6

LEMMA PublishKeeps ==
  ASSUME D!NamesAssumption, D!BoundsAssumption, DamageInv, D!Publish
  PROVE  DamageInv'
<1>1. PICK due \in SUBSET Outputs, first \in Outputs : Composed(due, first)
  BY PublishComposes
<1>2. /\ stale' \subseteq stale /\ damage' = [b \in BufferIds |-> {}] /\ known' = BufferIds
      /\ UNCHANGED <<live, memory, serial, nextContent, created, attached, picture, commits,
                     drawn, texture>>
      /\ published' = [o \in Outputs |-> published'[o]]
      /\ cache' = [b \in BufferIds |-> cache'[b]]
  BY DEF D!Publish, D!window, D!backend
<1>3. /\ NoBuffer \notin BufferIds
      /\ attached # NoBuffer => attached \in live /\ attached \in BufferIds
  BY DEF DamageInv, D!TypeOK, D!NamesAssumption
<1>4. ASSUME NEW o \in due, published'[o] # NoImage
      PROVE  LET i == published'[o] IN
               /\ attached # NoBuffer /\ i \in D!Images /\ i.buffer = attached
               /\ i.serial = serial[attached]
               /\ i.serial < nextContent /\ i.previous < nextContent
               /\ i.cells # {} => /\ i.previous = cache[attached] /\ i.previous # 0
                                  /\ i.cells = damage[attached]
  <2>1. attached # NoBuffer /\ attached \in live /\ attached \in BufferIds
    BY <1>1, <1>3, <1>4 DEF Composed
  <2> DEFINE sent == IF o = first THEN cache[attached] ELSE serial[attached]
  <2>2. sent \in D!Serials /\ sent < nextContent
    BY <2>1 DEF DamageInv, D!TypeOK, SerialsAreOld
  <2>3. published'[o] = D!Image(attached, sent)
    BY <1>1, <2>1 DEF Composed
  <2> HIDE DEF sent
  <2>4. published'[o].cells # {} => sent = cache[attached]
    BY <2>1, <2>2, <2>3, ImageTypes DEF sent
  <2>5. QED BY <2>1, <2>2, <2>3, <2>4, ImageTypes
<1>5. ASSUME NEW o \in Outputs \ due PROVE published'[o] = published[o]
  BY <1>1 DEF Composed
<1>6. \A b \in BufferIds : cache'[b] \in D!Serials /\ cache'[b] < nextContent
  <2>1. ASSUME NEW b \in BufferIds PROVE cache'[b] \in {serial[b], cache[b], 0}
    BY <1>1 DEF Composed
  <2>2. \A b \in BufferIds : /\ serial[b] \in D!Serials /\ serial[b] < nextContent
                            /\ cache[b] \in D!Serials /\ cache[b] < nextContent
    BY DEF DamageInv, D!TypeOK, SerialsAreOld
  <2>3. 0 \in D!Serials /\ 0 < nextContent
    BY PlainTypes DEF D!Serials, D!BoundsAssumption
  <2>4. QED BY <2>1, <2>2, <2>3
<1>7. D!TypeOK'
  <2>1. \A o \in Outputs : published'[o] \in D!Images \cup {NoImage}
    BY <1>4, <1>5 DEF DamageInv, D!TypeOK
  <2>2. QED BY <1>2, <1>6, <2>1 DEF DamageInv, D!TypeOK
<1>8. SerialsAreOld'
  BY <1>2, <1>4, <1>5, <1>6 DEF DamageInv, SerialsAreOld
<1>9. ReadersAreLive'
  <2>1. \A o \in Outputs : published'[o] # NoImage => published'[o].buffer \in live
    BY <1>3, <1>4, <1>5, ReadBy DEF DamageInv, ReadersAreLive
  <2>2. \A o \in Outputs : drawn[o] # NoImage => drawn[o].buffer \in live
    BY ReadBy DEF DamageInv, ReadersAreLive
  <2>3. QED BY <1>2, <2>1, <2>2 DEF DamageInv, ReadersAreLive, D!Read
<1>10. WindowIsDrawn' /\ UnknownIsAll'
  BY <1>2 DEF DamageInv, WindowIsDrawn, UnknownIsAll
<1>11. PICK by \in Marks : Sent(by)
  BY DEF DamageInv
<1>12. MarksAreOld(by)' /\ BuffersAreNewest(by)' /\ TexturesHold(by)'
  BY <1>2, <1>11 DEF Sent, MarksAreOld, BuffersAreNewest, TexturesHold
<1>13. PatchesSuffice(by)'
  <2>1. ASSUME NEW o \in Outputs, published'[o] # NoImage, published'[o].cells # {}
        PROVE  /\ published'[o].previous # 0
               /\ \A c \in Cells :
                    LET b == published'[o].buffer IN
                      /\ by[b][published'[o].previous] < memory[b][c]
                      /\ memory[b][c] <= by[b][published'[o].serial]
                      => c \in published'[o].cells
    <3>1. CASE o \in due
      BY <1>4, <1>11, <2>1, <3>1 DEF Sent, DamageIsNoted
    <3>2. CASE o \notin due
      BY <1>5, <1>11, <2>1, <3>2 DEF Sent, PatchesSuffice
    <3>3. QED BY <3>1, <3>2
  <2>2. QED BY <1>2, <2>1 DEF PatchesSuffice
<1>14. DamageIsNoted(by)'
  <2>1. ASSUME attached # NoBuffer, NEW c \in Cells
        PROVE  ~ (by[attached][cache'[attached]] < memory[attached][c])
    <3>1. attached \in live /\ attached \in BufferIds /\ cache'[attached] = serial[attached]
      BY <1>1, <1>3, <2>1 DEF Composed
    <3>2. memory[attached][c] <= by[attached][serial[attached]]
      BY <1>11, <3>1 DEF Sent, BuffersAreNewest
    <3>3. memory[attached][c] \in Nat /\ by[attached][serial[attached]] \in Nat
      BY <3>1, PlainTypes DEF Marks
    <3>4. QED BY <3>1, <3>2, <3>3
  <2>2. QED BY <1>2, <2>1 DEF DamageIsNoted
<1>15. Sent(by)'
  BY <1>12, <1>13, <1>14 DEF Sent
<1>16. QED BY <1>7, <1>8, <1>9, <1>10, <1>15 DEF DamageInv, Marks

LEMMA CollectKeeps ==
  ASSUME D!NamesAssumption, D!BoundsAssumption, DamageInv, D!Collect
  PROVE  DamageInv'
<1>1. /\ UNCHANGED <<live, memory, serial, damage, known, nextContent, created, attached,
                     picture, commits, stale, published, drawn, texture>>
      /\ cache' = [b \in BufferIds |-> IF b \in live THEN cache[b] ELSE 0]
  BY DEF D!Collect, D!Kept, D!buffer, D!window, D!backend
<1>2. cache' \in [BufferIds -> D!Serials] /\ \A b \in BufferIds : cache'[b] < nextContent
  BY <1>1, PlainTypes DEF DamageInv, D!TypeOK, SerialsAreOld, D!Serials, D!BoundsAssumption
<1>3. attached # NoBuffer => cache'[attached] = cache[attached]
  BY <1>1 DEF DamageInv, D!TypeOK
<1>4. D!TypeOK' /\ SerialsAreOld'
  BY <1>1, <1>2 DEF DamageInv, D!TypeOK, SerialsAreOld
<1>5. ReadersAreLive' /\ WindowIsDrawn' /\ UnknownIsAll'
  BY <1>1 DEF DamageInv, ReadersAreLive, WindowIsDrawn, UnknownIsAll, D!Read
<1>6. PICK by \in Marks : Sent(by)
  BY DEF DamageInv
<1>7. Sent(by)'
  BY <1>1, <1>3, <1>6
  DEF Sent, MarksAreOld, BuffersAreNewest, TexturesHold, PatchesSuffice, DamageIsNoted
<1>8. QED BY <1>4, <1>5, <1>7 DEF DamageInv, Marks

-----------------------------------------------------------------------------
(* Drawing.                                                                *)

\* A texture is left, dropped, or made of the image drawn.
Drew(o) ==
  \A b \in BufferIds :
    \/ /\ published[o] # NoImage /\ b = published[o].buffer
       /\ texture'[b] = D!Uploaded(published[o])
    \/ texture'[b] = D!NoTexture
    \/ /\ texture'[b] = texture[b]
       /\ \E x \in Outputs : drawn'[x] # NoImage /\ drawn'[x].buffer = b

LEMMA DrawDraws ==
  ASSUME NEW o \in Outputs, D!Draw(o)
  PROVE  Drew(o) /\ texture' = [b \in BufferIds |-> texture'[b]]
BY DEF D!Draw, Drew

\* What the backend makes of an image: its texture, right where the old one was.
LEMMA UploadedIsRight ==
  ASSUME D!BoundsAssumption, DamageInv, NEW by \in Marks, Sent(by),
         NEW o \in Outputs, published[o] # NoImage
  PROVE  LET b == published[o].buffer
             t == D!Uploaded(published[o])
         IN /\ t \in [serial : D!Serials, cells : D!Contents]
            /\ t.serial < nextContent
            /\ \A c \in Cells : t.serial # 0 /\ memory[b][c] <= by[b][t.serial]
                                  => t.cells[c] = memory[b][c]
<1> DEFINE i == published[o]
           b == i.buffer
           t == D!Uploaded(i)
<1>1. /\ i \in D!Images /\ b \in BufferIds /\ b \in live /\ i.serial \in D!Serials
      /\ i.serial < nextContent
  BY ReadBy DEF DamageInv, D!TypeOK, D!Images, SerialsAreOld, ReadersAreLive
<1>2. /\ texture[b] \in [serial : D!Serials, cells : D!Contents]
      /\ texture[b].serial < nextContent /\ memory[b] \in D!Contents
  BY <1>1 DEF DamageInv, D!TypeOK, SerialsAreOld
<1>3. CASE texture[b].serial = i.serial
  <2>1. t = texture[b]
    BY <1>3 DEF D!Uploaded
  <2>2. QED BY <1>1, <1>2, <2>1 DEF Sent, TexturesHold
<1>4. CASE texture[b].serial # i.serial /\ ~ (i.cells # {} /\ texture[b].serial = i.previous)
  <2>1. t = [serial |-> i.serial, cells |-> memory[b]]
    BY <1>4 DEF D!Uploaded
  <2>2. QED BY <1>1, <1>2, <2>1
<1>5. CASE texture[b].serial # i.serial /\ i.cells # {} /\ texture[b].serial = i.previous
  <2> DEFINE cells == [c \in Cells |-> IF c \in i.cells THEN memory[b][c] ELSE texture[b].cells[c]]
  <2>1. t = [serial |-> i.serial, cells |-> cells]
    BY <1>5 DEF D!Uploaded, D!Patched
  <2>2. cells \in D!Contents
    BY <1>2 DEF D!Contents
  <2>3. ASSUME NEW c \in Cells, memory[b][c] <= by[b][i.serial]
        PROVE  cells[c] = memory[b][c]
    <3>1. CASE c \in i.cells
      BY <3>1
    <3>2. CASE c \notin i.cells
      <4>1. i.previous # 0 /\ ~ (by[b][i.previous] < memory[b][c])
        BY <1>5, <2>3, <3>2 DEF Sent, PatchesSuffice
      <4>2. i.previous \in Nat /\ by[b][i.previous] \in Nat /\ memory[b][c] \in Nat
        BY <1>1, PlainTypes DEF Marks
      <4>3. memory[b][c] <= by[b][texture[b].serial] /\ texture[b].serial # 0
        BY <1>5, <4>1, <4>2
      <4>4. texture[b].cells[c] = memory[b][c]
        BY <1>1, <4>3 DEF Sent, TexturesHold
      <4>5. QED BY <3>2, <4>4
    <3>3. QED BY <3>1, <3>2
  <2> HIDE DEF cells
  <2>4. QED BY <1>1, <2>1, <2>2, <2>3
<1>6. QED BY <1>3, <1>4, <1>5

LEMMA DrawKeeps ==
  ASSUME D!BoundsAssumption, DamageInv, NEW o \in Outputs, D!Draw(o)
  PROVE  DamageInv'
<1>1. /\ UNCHANGED <<live, memory, serial, damage, known, nextContent, created, attached,
                     picture, commits, stale, cache, published>>
      /\ drawn' = [drawn EXCEPT ![o] = published[o]]
  BY DEF D!Draw, D!buffer, D!window
<1>2. PICK by \in Marks : Sent(by)
  BY DEF DamageInv
<1>3. Drew(o) /\ texture' = [b \in BufferIds |-> texture'[b]]
  BY DrawDraws
<1>4. drawn' \in [Outputs -> D!Images \cup {NoImage}] /\ drawn'[o] = published[o]
      /\ \A x \in Outputs \ {o} : drawn'[x] = drawn[x]
  BY <1>1 DEF DamageInv, D!TypeOK
<1>5. ASSUME NEW b \in BufferIds
      PROVE  /\ texture'[b] \in [serial : D!Serials, cells : D!Contents]
             /\ texture'[b].serial < nextContent
             /\ texture'[b].serial # 0 =>
                  \E x \in Outputs : drawn'[x] # NoImage /\ drawn'[x].buffer = b
             /\ \A c \in Cells : texture'[b].serial # 0 /\ memory[b][c] <= by[b][texture'[b].serial]
                                   => texture'[b].cells[c] = memory[b][c]
  <2>1. CASE /\ published[o] # NoImage /\ b = published[o].buffer
             /\ texture'[b] = D!Uploaded(published[o])
    BY <1>2, <1>4, <2>1, UploadedIsRight
  <2>2. CASE texture'[b] = D!NoTexture
    <3>1. D!NoTexture \in [serial : D!Serials, cells : D!Contents] /\ D!NoTexture.serial = 0
      BY DEF D!NoTexture, D!Blank, D!Serials, D!Contents, D!BoundsAssumption
    <3>2. QED BY <2>2, <3>1, PlainTypes
  <2>3. CASE /\ texture'[b] = texture[b]
             /\ \E x \in Outputs : drawn'[x] # NoImage /\ drawn'[x].buffer = b
    BY <1>2, <2>3 DEF Sent, TexturesHold, DamageInv, D!TypeOK, SerialsAreOld
  <2>4. QED BY <1>3, <2>1, <2>2, <2>3 DEF Drew
<1>6. D!TypeOK'
  BY <1>1, <1>3, <1>4, <1>5 DEF DamageInv, D!TypeOK
<1>7. SerialsAreOld'
  BY <1>1, <1>5 DEF DamageInv, SerialsAreOld
<1>8. ReadersAreLive'
  <2>1. \A x \in Outputs : /\ published[x] # NoImage => published[x].buffer \in live
                           /\ drawn[x] # NoImage => drawn[x].buffer \in live
    BY ReadBy DEF DamageInv, ReadersAreLive
  <2>2. \A x \in Outputs : drawn'[x] # NoImage => drawn'[x].buffer \in live
    BY <1>4, <2>1
  <2>3. D!Read' \subseteq live
    BY <1>1, <2>1, <2>2 DEF D!Read
  <2>4. QED BY <1>1, <1>5, <2>3 DEF ReadersAreLive
<1>9. WindowIsDrawn' /\ UnknownIsAll'
  BY <1>1 DEF DamageInv, WindowIsDrawn, UnknownIsAll
<1>10. TexturesHold(by)'
  BY <1>1, <1>5 DEF TexturesHold
<1>11. Sent(by)'
  BY <1>1, <1>2, <1>10 DEF Sent, MarksAreOld, BuffersAreNewest, PatchesSuffice, DamageIsNoted
<1>12. QED BY <1>6, <1>7, <1>8, <1>9, <1>11 DEF DamageInv, Marks

-----------------------------------------------------------------------------
(* The theorems.                                                           *)

LEMMA DamageHolds ==
  ASSUME D!NamesAssumption, D!BoundsAssumption
  PROVE  D!Spec => []DamageInv
<1>1. D!Init => DamageInv
  BY DamageInit
<1>2. DamageInv /\ [D!Next]_(D!vars) => DamageInv'
  <2> SUFFICES ASSUME DamageInv, [D!Next]_(D!vars) PROVE DamageInv'
    OBVIOUS
  <2>1. ASSUME NEW b \in BufferIds, D!Create(b) PROVE DamageInv'
    BY <2>1, DrawnCreateKeeps
  <2>2. ASSUME NEW b \in BufferIds, D!Destroy(b) PROVE DamageInv'
    BY <2>2, DrawnDestroyKeeps
  <2>3. ASSUME NEW b \in BufferIds, NEW cells \in SUBSET Cells, D!Commit(b, cells) PROVE DamageInv'
    BY <2>3, CommitKeeps
  <2>4. CASE D!Publish
    BY <2>4, PublishKeeps
  <2>5. CASE D!Collect
    BY <2>5, CollectKeeps
  <2>6. ASSUME NEW o \in Outputs, D!Draw(o) PROVE DamageInv'
    BY <2>6, DrawKeeps
  <2>7. CASE UNCHANGED D!vars
    <3>1. UNCHANGED <<live, memory, serial, damage, known, nextContent, created, attached,
                      picture, commits, stale, cache, published, drawn, texture>>
      BY <2>7 DEF D!vars, D!buffer, D!window, D!backend
    <3>2. D!TypeOK' /\ SerialsAreOld' /\ ReadersAreLive' /\ WindowIsDrawn' /\ UnknownIsAll'
      BY <3>1 DEF DamageInv, D!TypeOK, SerialsAreOld, ReadersAreLive, WindowIsDrawn,
                  UnknownIsAll, D!Read
    <3>3. PICK by \in Marks : Sent(by)
      BY DEF DamageInv
    <3>4. Sent(by)'
      BY <3>1, <3>3
      DEF Sent, MarksAreOld, BuffersAreNewest, TexturesHold, PatchesSuffice, DamageIsNoted
    <3>5. QED BY <3>2, <3>4 DEF DamageInv, Marks
  <2>8. QED BY <2>1, <2>2, <2>3, <2>4, <2>5, <2>6, <2>7 DEF D!Next
<1>3. QED BY <1>1, <1>2, PTL DEF D!Spec

\* The variables of DamageUpload have their types, for a window on every output.
THEOREM DamageTyped ==
  ASSUME D!NamesAssumption, D!BoundsAssumption
  PROVE  D!Spec => []D!TypeOK
<1>1. DamageInv => D!TypeOK
  BY DEF DamageInv
<1>2. QED BY <1>1, DamageHolds, PTL

\* A texture that says it is of a buffer's present content holds that content in
\* every cell, whatever was patched, skipped, recomposed or drawn late: for a
\* window on every output (ensure_image, mark_buffer_damaged, publish).
THEOREM TexturesAreRight ==
  ASSUME D!NamesAssumption, D!BoundsAssumption
  PROVE  D!Spec => []D!TextureIsTheBuffer
<1>1. ASSUME DamageInv PROVE D!TextureIsTheBuffer
  <2>1. PICK by \in Marks : Sent(by)
    BY <1>1 DEF DamageInv
  <2>2. SUFFICES ASSUME NEW b \in live, texture[b].serial = serial[b]
                 PROVE  texture[b].cells = memory[b]
    BY DEF D!TextureIsTheBuffer
  <2>3. b \in BufferIds /\ serial[b] # 0
    BY <1>1 DEF DamageInv, D!TypeOK, SerialsAreOld
  <2>4. \A c \in Cells : texture[b].cells[c] = memory[b][c]
    BY <2>1, <2>2, <2>3 DEF Sent, BuffersAreNewest, TexturesHold
  <2>5. texture[b].cells \in [Cells -> Nat] /\ memory[b] \in [Cells -> Nat]
    BY <1>1, <2>3, PlainTypes
  <2>6. QED BY <2>4, <2>5
<1>2. QED BY <1>1, DamageHolds, PTL
=============================================================================
