---------------------------- MODULE Popups_proof ----------------------------
(***************************************************************************)
(* Proofs about Positioner, for every positioner and every region, and     *)
(* about Popups, for any popups, root, positioners, output and bounds.     *)
(*                                                                         *)
(* The three adjustments are taken one after the other, each only where    *)
(* the one before left the popup outside, so each is a lemma about an x    *)
(* and a width, and PlacementIsKept is what they come to together.         *)
(*                                                                         *)
(* A popup's place on screen and what is above it are recursive over       *)
(* parents.  That these are defined at all needs parents to be older than  *)
(* their popups (ParentsComeFirst): WalkExists then gives a function for   *)
(* either, and FromTheParents is the induction that says what it is.       *)
(* Menus close from the top because the grabs are a chain of parents       *)
(* (GrabsAreAChain), of which a press and a destroy leave a prefix.        *)
(*                                                                         *)
(* Last, about LayerPanels, for any panels and outputs.  What panels leave *)
(* of an output is a fold in their order, so each fact about it is an      *)
(* induction over sets of panels (SetInduction): that it depends on what   *)
(* is asked alone (SameUsable), that a panel with no zone may be left out  *)
(* (NothingReserved), and that it stays beyond what any one of them has    *)
(* reserved (LaterRoomIsBeyond).                                           *)
(***************************************************************************)
EXTENDS Popups, FiniteSetTheorems, SequenceTheorems, WellFoundedInduction, TLAPS

-----------------------------------------------------------------------------
(* Placing a popup.                                                        *)

\* Where a popup would go is a place, also halfway along a rectangle.
LEMMA ChoicesAreInt ==
  ASSUME NEW pos \in Positioner
  PROVE  first_choice(pos) \in Int /\ flipped(pos) \in Int
<1>1. ASSUME NEW anchor \in Ends PROVE anchor_point(pos, anchor) \in Int
  <2>1. pos.rect \in Int /\ pos.rectWidth \in Int /\ pos.rectWidth \div 2 \in Int
    BY DEF Positioner
  <2>2. QED BY <2>1 DEF anchor_point, Ends
<1>2. ASSUME NEW anchor \in Ends, NEW gravity \in Ends
      PROVE  unconstrained(pos, anchor, gravity) \in Int
  <2>1. pos.offset \in Int /\ pos.width \in Int /\ pos.width \div 2 \in Int
    BY DEF Positioner
  <2>2. QED BY <1>1, <2>1 DEF unconstrained, Ends
<1>3. /\ pos.anchor \in Ends /\ 0 - pos.anchor \in Ends
      /\ pos.gravity \in Ends /\ 0 - pos.gravity \in Ends
  BY DEF Positioner, Ends
<1>4. QED BY <1>2, <1>3 DEF first_choice, flipped

\* Sliding brings a popup inside that is no larger than the region, and starts
\* one that is larger at the near end.
LEMMA SlideFits ==
  ASSUME NEW x \in Int, NEW w \in Nat, NEW r \in Region
  PROVE  /\ slide(x, w, r) \in Int
         /\ w <= r.extent => fits(slide(x, w, r), w, r)
         /\ w > r.extent => slide(x, w, r) = r.origin
<1>1. r.origin \in Int /\ r.extent \in Nat
  BY DEF Region
<1>2. QED BY <1>1 DEF slide, fits

\* What is cut off where the region ends is inside, if it began inside.
LEMMA ShrinkFits ==
  ASSUME NEW x \in Int, NEW w \in Nat, NEW r \in Region,
         r.extent > 0, x < r.origin + r.extent
  PROVE  fits(shrink(x, w, r).x, shrink(x, w, r).width, r)
<1>1. r.origin \in Int /\ r.extent \in Nat
  BY DEF Region
<1>2. CASE x < r.origin
  <2>1. /\ shrink(x, w, r).x = r.origin
        /\ shrink(x, w, r).width \in Int
        /\ shrink(x, w, r).width <= r.extent
    BY <1>1, <1>2 DEF shrink
  <2>2. QED BY <1>1, <2>1 DEF fits
<1>3. CASE x >= r.origin
  <2>1. /\ shrink(x, w, r).x = x
        /\ shrink(x, w, r).width \in Int
        /\ shrink(x, w, r).width <= r.origin + r.extent - x
    BY <1>1, <1>3 DEF shrink
  <2>2. QED BY <1>1, <1>3, <2>1 DEF fits
<1>4. QED BY <1>1, <1>2, <1>3

\* A popup goes where its positioner lets it: the client's own choice when that
\* is on screen, its opposite when only that is, and otherwise on screen
\* whenever sliding, or sliding and shrinking, can bring it there
\* (xdg_positioner::place).
THEOREM PlacementIsKept ==
  \A pos \in Positioner, r \in Region : Kept(pos, r, place(pos, r))
<1> SUFFICES ASSUME NEW pos \in Positioner, NEW r \in Region
             PROVE  Kept(pos, r, place(pos, r))
  OBVIOUS
<1>1. /\ r.origin \in Int /\ r.extent \in Nat
      /\ pos.width \in Nat
      /\ AfterFlip(pos, r) \in Int
  BY ChoicesAreInt DEF Positioner, Region, AfterFlip
<1>2. ASSUME fits(AfterFlip(pos, r), pos.width, r)
      PROVE  place(pos, r) = [x |-> AfterFlip(pos, r), width |-> pos.width]
  BY <1>2 DEF place, AfterSlide
<1>3. AfterSlide(pos, r) \in Int
  BY <1>1, SlideFits DEF AfterSlide
<1>4. ASSUME fits(AfterSlide(pos, r), pos.width, r)
      PROVE  place(pos, r) = [x |-> AfterSlide(pos, r), width |-> pos.width]
  BY <1>4 DEF place
<1>5. ASSUME fits(first_choice(pos), pos.width, r)
      PROVE  place(pos, r) = [x |-> first_choice(pos), width |-> pos.width]
  BY <1>2, <1>5 DEF AfterFlip
<1>6. ASSUME "flip" \in pos.adjust, fits(flipped(pos), pos.width, r)
      PROVE  fits(place(pos, r).x, place(pos, r).width, r)
  <2>1. fits(AfterFlip(pos, r), pos.width, r)
    BY <1>6 DEF AfterFlip
  <2>2. QED BY <1>2, <2>1
<1>7. ASSUME "slide" \in pos.adjust, pos.width <= r.extent
      PROVE  fits(place(pos, r).x, place(pos, r).width, r)
  <2>1. fits(AfterSlide(pos, r), pos.width, r)
    BY <1>1, <1>7, SlideFits DEF AfterSlide
  <2>2. QED BY <1>4, <2>1
<1>8. ASSUME "slide" \in pos.adjust, "resize" \in pos.adjust, r.extent > 0
      PROVE  fits(place(pos, r).x, place(pos, r).width, r)
  <2>1. CASE fits(AfterSlide(pos, r), pos.width, r)
    BY <1>4, <2>1
  <2>2. CASE ~fits(AfterSlide(pos, r), pos.width, r)
    <3>1. AfterSlide(pos, r) = slide(AfterFlip(pos, r), pos.width, r)
      BY <1>8, <2>2 DEF AfterSlide
    <3>2. pos.width > r.extent
      BY <1>1, <2>2, <3>1, SlideFits
    <3>3. AfterSlide(pos, r) = r.origin
      BY <1>1, <3>1, <3>2, SlideFits
    <3>4. AfterSlide(pos, r) < r.origin + r.extent
      BY <1>1, <1>8, <3>3
    <3>5. place(pos, r) = shrink(AfterSlide(pos, r), pos.width, r)
      BY <1>8, <2>2 DEF place
    <3>6. QED BY <1>1, <1>3, <1>8, <3>4, <3>5, ShrinkFits
  <2>3. QED BY <2>1, <2>2
<1>9. QED BY <1>5, <1>6, <1>7, <1>8 DEF Kept

LEMMA PlacesAreTyped ==
  ASSUME NEW pos \in Positioner, NEW r \in Region
  PROVE  place(pos, r) \in Place
<1>1. /\ r.origin \in Int /\ r.extent \in Nat /\ pos.width \in Nat
      /\ AfterFlip(pos, r) \in Int
  BY ChoicesAreInt DEF Positioner, Region, AfterFlip
<1>2. AfterSlide(pos, r) \in Int
  BY <1>1, SlideFits DEF AfterSlide
<1>3. ASSUME NEW x \in Int
      PROVE  shrink(x, pos.width, r) \in Place
  BY <1>1 DEF shrink, Place
<1>4. QED BY <1>1, <1>2, <1>3 DEF place, Place

-----------------------------------------------------------------------------
(* Induction over numbers, in terms of sets.                               *)

LEMMA LeastNumber ==
  ASSUME NEW T \in SUBSET Nat, T # {}
  PROVE  \E n \in T : \A m \in T : n <= m
<1>1. IsWellFoundedOn(OpToRel(<, Nat), Nat)
  BY NatLessThanWellFounded
<1>2. \E n \in T : \A m \in T : ~ (<<m, n>> \in OpToRel(<, Nat))
  BY <1>1, WFMin, Zenon
<1>3. ASSUME NEW n \in Nat, NEW m \in Nat, m < n
      PROVE  <<m, n>> \in OpToRel(<, Nat)
  <2>1. <<m, n>> \in Nat \X Nat
    OBVIOUS
  <2>2. <<m, n>>[1] < <<m, n>>[2]
    BY <1>3
  <2>3. QED BY <2>1, <2>2, Zenon DEF OpToRel
<1>4. \E n \in T : \A m \in T : ~ (m < n)
  BY <1>2, <1>3, Zenon
<1>5. QED BY <1>4

LEMMA Induction ==
  ASSUME NEW T, 0 \in T, \A n \in Nat : n \in T => n + 1 \in T
  PROVE  Nat \subseteq T
<1> SUFFICES ASSUME Nat \ T # {} PROVE FALSE
  OBVIOUS
<1>1. PICK n \in Nat \ T : \A m \in Nat \ T : n <= m
  BY LeastNumber
<1>2. n # 0 /\ n - 1 \in Nat /\ (n - 1) + 1 = n
  BY <1>1
<1>3. n - 1 \in T
  BY <1>1, <1>2
<1>4. QED BY <1>1, <1>2, <1>3

-----------------------------------------------------------------------------
(* Walking up from a popup.                                                *)

\* Parents come before their popups: rank is their age, at most n.
Aged(rank, n) ==
  /\ rank \in [Popups -> 0 .. n]
  /\ \A p \in Popups : parent[p] \in Popups => rank[parent[p]] < rank[p]

ParentsComeFirst == \E n \in Nat : \E rank : Aged(rank, n)

\* A walk has what `here' says where there is no parent, and what `step' makes
\* of the parent's elsewhere.
IsWalk(f, here, step) ==
  \A p \in Popups \cup {Root} :
    f[p] = IF p # Root /\ parent[p] # None THEN step[p][f[parent[p]]] ELSE here[p]

LEMMA WalkExists ==
  ASSUME PopupsAssumption, ParentsComeFirst,
         parent \in [Popups -> Popups \cup {Root, None}],
         NEW V, NEW here \in [Popups \cup {Root} -> V], NEW step \in [Popups -> [V -> V]]
  PROVE  \E f \in [Popups \cup {Root} -> V] : IsWalk(f, here, step)
<1>1. PICK n \in Nat : \E rank : Aged(rank, n)
  BY DEF ParentsComeFirst
<1>2. PICK rank : Aged(rank, n)
  BY <1>1
<1> DEFINE Right(f, p) ==
             f[p] = IF p # Root /\ parent[p] # None THEN step[p][f[parent[p]]] ELSE here[p]
           UpTo(f, m) == Right(f, Root) /\ \A p \in Popups : rank[p] < m => Right(f, p)
           T == {m \in Nat : \E f \in [Popups \cup {Root} -> V] : UpTo(f, m)}
<1>3. Root \notin Popups /\ None \notin Popups \cup {Root}
  BY DEF PopupsAssumption
<1>4. \A p \in Popups : rank[p] \in 0 .. n
  BY <1>2 DEF Aged
<1>5. 0 \in T
  BY <1>4
<1>6. ASSUME NEW m \in Nat, m \in T
      PROVE  m + 1 \in T
  <2>1. PICK f \in [Popups \cup {Root} -> V] : UpTo(f, m)
    BY <1>6
  <2> DEFINE new(p) == IF p # Root /\ parent[p] # None THEN step[p][f[parent[p]]] ELSE here[p]
             g == [p \in Popups \cup {Root} |->
                     IF p # Root /\ rank[p] = m THEN new(p) ELSE f[p]]
  <2>2. ASSUME NEW p \in Popups, parent[p] # None
        PROVE  parent[p] \in Popups \cup {Root} /\ step[p][f[parent[p]]] \in V
    BY <2>2
  <2>3. \A p \in Popups \cup {Root} : new(p) \in V
    BY <2>2
  <2>4. g \in [Popups \cup {Root} -> V]
    BY <2>3
  <2>5. Right(g, Root)
    BY <2>1
  <2>6. ASSUME NEW p \in Popups, rank[p] < m + 1
        PROVE  Right(g, p)
    <3>1. CASE parent[p] = None
      BY <1>3, <1>4, <2>1, <2>6, <3>1
    <3>2. CASE parent[p] = Root
      <4>1. g[Root] = f[Root]
        OBVIOUS
      <4>2. QED BY <1>3, <1>4, <2>1, <2>6, <3>2, <4>1
    <3>3. CASE parent[p] \in Popups
      <4>1. rank[parent[p]] < rank[p] /\ rank[parent[p]] \in Nat /\ rank[p] \in Nat
        BY <1>2, <1>4, <3>3 DEF Aged
      <4>2. rank[parent[p]] # m
        BY <2>6, <4>1
      <4>3. g[parent[p]] = f[parent[p]]
        BY <3>3, <4>2
      <4>4. rank[p] = m \/ rank[p] < m
        BY <2>6, <4>1
      <4>5. CASE rank[p] = m
        <5>1. g[p] = new(p)
          BY <1>3, <4>5
        <5>2. QED BY <1>3, <3>3, <4>3, <5>1
      <4>6. CASE rank[p] < m
        <5>1. g[p] = f[p] /\ Right(f, p)
          BY <1>3, <2>1, <4>1, <4>6
        <5>2. QED BY <1>3, <3>3, <4>3, <5>1
      <4>7. QED BY <4>4, <4>5, <4>6
    <3>4. QED BY <3>1, <3>2, <3>3
  <2> HIDE DEF g, Right
  <2>7. QED BY <2>4, <2>5, <2>6
<1>7. n + 1 \in T
  <2> HIDE DEF T
  <2>1. QED BY <1>1, <1>5, <1>6, Induction
<1>8. PICK f \in [Popups \cup {Root} -> V] : UpTo(f, n + 1)
  BY <1>7
<1>9. \A p \in Popups : rank[p] < n + 1
  BY <1>4
<1>10. QED BY <1>8, <1>9 DEF IsWalk

\* Induction over parents.
LEMMA FromTheParents ==
  ASSUME PopupsAssumption, ParentsComeFirst,
         parent \in [Popups -> Popups \cup {Root, None}],
         NEW T, Root \in T,
         \A p \in Popups : parent[p] = None \/ parent[p] \in T => p \in T
  PROVE  Popups \subseteq T
<1>1. PICK n \in Nat : \E rank : Aged(rank, n)
  BY DEF ParentsComeFirst
<1>2. PICK rank : Aged(rank, n)
  BY <1>1
<1> DEFINE Ages == {rank[p] : p \in Popups \ T}
<1>3. \A p \in Popups : rank[p] \in Nat
  BY <1>2 DEF Aged
<1>4. Ages \in SUBSET Nat
  BY <1>3
<1>5. ASSUME Ages # {}
      PROVE  FALSE
  <2>1. PICK m \in Ages : \A k \in Ages : m <= k
    BY <1>4, <1>5, LeastNumber
  <2>2. PICK p \in Popups \ T : rank[p] = m
    BY <2>1
  <2>3. parent[p] \in Popups \ T
    BY <2>2
  <2>4. rank[parent[p]] \in Ages /\ rank[parent[p]] < rank[p]
    BY <1>2, <2>3 DEF Aged
  <2>5. m <= rank[parent[p]] /\ rank[parent[p]] \in Nat /\ m \in Nat
    BY <1>4, <2>1, <2>4
  <2>6. QED BY <2>2, <2>4, <2>5
<1>6. QED BY <1>5

\* What is above a popup, and where it is on screen, as their recursive
\* definitions say.
LEMMA UpwardsIsAWalk ==
  ASSUME PopupsAssumption, ParentsComeFirst,
         parent \in [Popups -> Popups \cup {Root, None}]
  PROVE  \A p \in Popups \cup {Root} :
           Upwards[p] = {p} \cup IF p = Root \/ parent[p] = None THEN {} ELSE Upwards[parent[p]]
<1> DEFINE V == SUBSET (Popups \cup {Root})
           here == [p \in Popups \cup {Root} |-> {p}]
           step == [p \in Popups |-> [above \in V |-> {p} \cup above]]
           Above(f, p) == {p} \cup IF p = Root \/ parent[p] = None THEN {} ELSE f[parent[p]]
<1>1. here \in [Popups \cup {Root} -> V] /\ step \in [Popups -> [V -> V]]
  OBVIOUS
<1>2. PICK f \in [Popups \cup {Root} -> V] : IsWalk(f, here, step)
  <2> HIDE DEF V, here, step
  <2>1. QED BY <1>1, WalkExists
<1>3. ASSUME NEW p \in Popups \cup {Root}
      PROVE  f[p] = Above(f, p)
  <2>1. CASE p = Root \/ parent[p] = None
    BY <1>2, <2>1 DEF IsWalk
  <2>2. CASE p # Root /\ parent[p] # None
    <3>1. p \in Popups /\ f[parent[p]] \in V
      BY <1>2, <2>2
    <3>2. f[p] = step[p][f[parent[p]]]
      BY <1>2, <2>2 DEF IsWalk
    <3>3. step[p][f[parent[p]]] = {p} \cup f[parent[p]]
      BY <3>1
    <3>4. QED BY <2>2, <3>2, <3>3
  <2>3. QED BY <2>1, <2>2
<1>4. f = [p \in Popups \cup {Root} |-> Above(f, p)]
  <2> HIDE DEF Above
  <2>1. f = [p \in Popups \cup {Root} |-> f[p]]
    BY <1>2
  <2>2. QED BY <1>3, <2>1
<1>5. Upwards = [p \in Popups \cup {Root} |-> Above(Upwards, p)]
  BY <1>4 DEF Upwards
<1>6. QED BY <1>5

LEMMA GlobalXIsANumber ==
  ASSUME PopupsAssumption, ParentsComeFirst, TypeOK
  PROVE  \A p \in Popups \cup {Root} : GlobalX[p] \in Int
<1> DEFINE here == [p \in Popups \cup {Root} |-> IF p = Root THEN windowX ELSE told[p].x]
           step == [p \in Popups |-> [at \in Int |-> told[p].x + at]]
           At(f, p) == IF p = Root THEN windowX
                       ELSE told[p].x + IF parent[p] = None THEN 0 ELSE f[parent[p]]
<1>1. /\ parent \in [Popups -> Popups \cup {Root, None}]
      /\ windowX \in Int /\ \A p \in Popups : told[p].x \in Int
  BY DEF TypeOK, PopupsAssumption, Place
<1>2. here \in [Popups \cup {Root} -> Int] /\ step \in [Popups -> [Int -> Int]]
  BY <1>1
<1>3. PICK f \in [Popups \cup {Root} -> Int] : IsWalk(f, here, step)
  <2> HIDE DEF here, step
  <2>1. QED BY <1>1, <1>2, WalkExists
<1>4. ASSUME NEW p \in Popups \cup {Root}
      PROVE  f[p] = At(f, p)
  <2>1. CASE p = Root
    BY <1>3, <2>1 DEF IsWalk
  <2>2. CASE p # Root /\ parent[p] = None
    <3>1. f[p] = told[p].x
      BY <1>3, <2>2 DEF IsWalk
    <3>2. QED BY <1>1, <2>2, <3>1
  <2>3. CASE p # Root /\ parent[p] # None
    <3>1. p \in Popups /\ f[parent[p]] \in Int
      BY <1>1, <1>3, <2>3
    <3>2. f[p] = step[p][f[parent[p]]]
      BY <1>3, <2>3 DEF IsWalk
    <3>3. step[p][f[parent[p]]] = told[p].x + f[parent[p]]
      BY <3>1
    <3>4. QED BY <2>3, <3>2, <3>3
  <2>4. QED BY <2>1, <2>2, <2>3
<1>5. f = [p \in Popups \cup {Root} |-> At(f, p)]
  <2> HIDE DEF At
  <2>1. f = [p \in Popups \cup {Root} |-> f[p]]
    BY <1>3
  <2>2. QED BY <1>4, <2>1
<1>6. GlobalX = [p \in Popups \cup {Root} |-> At(GlobalX, p)]
  BY <1>5 DEF GlobalX
<1> DEFINE T == {p \in Popups \cup {Root} : GlobalX[p] \in Int}
<1>7. Root \in T
  BY <1>1, <1>6
<1>8. ASSUME NEW p \in Popups, parent[p] = None \/ parent[p] \in T
      PROVE  p \in T
  <2>1. Root \notin Popups /\ GlobalX[p] = told[p].x + IF parent[p] = None THEN 0 ELSE GlobalX[parent[p]]
    BY <1>6 DEF PopupsAssumption
  <2>2. parent[p] = None \/ GlobalX[parent[p]] \in Int
    BY <1>8
  <2>3. QED BY <1>1, <2>1, <2>2
<1>9. Popups \subseteq T
  <2> HIDE DEF T
  <2>1. QED BY <1>1, <1>7, <1>8, FromTheParents
<1>10. QED BY <1>7, <1>9

-----------------------------------------------------------------------------
(* Grabs.                                                                  *)

\* A grab is by a popup of the grab below it, the first by one of the root.
GrabsAreAChain ==
  \A i \in DOMAIN grabbed :
    /\ grabbed[i] \notin done
    /\ parent[grabbed[i]] = IF i = 1 THEN Root ELSE grabbed[i - 1]
    /\ \A j \in DOMAIN grabbed : grabbed[i] = grabbed[j] => i = j

LEMMA LeftIsAPrefix ==
  ASSUME NEW n \in 0 .. Len(grabbed), grabbed \in Seq(popups)
  PROVE  /\ Left(1 .. n) = [i \in 1 .. n |-> grabbed[i]]
         /\ Left(1 .. n) \in Seq(popups)
<1>1. /\ Len(grabbed) \in Nat /\ n \in Nat
      /\ \A i \in 1 .. n : grabbed[i] \in popups
  <2>1. Len(grabbed) \in Nat
    BY LenProperties
  <2>2. \A i \in 1 .. Len(grabbed) : grabbed[i] \in popups
    BY ElementOfSeq
  <2>3. QED BY <2>1, <2>2
<1>2. Cardinality(1 .. n) = n
  BY <1>1, FS_Interval
<1> DEFINE nth(i) == CHOOSE j \in 1 .. n : Cardinality({k \in 1 .. n : k <= j}) = i
<1>3. ASSUME NEW i \in 1 .. n
      PROVE  nth(i) = i
  <2>1. \A j \in 1 .. n : {k \in 1 .. n : k <= j} = 1 .. j
    BY <1>1
  <2>2. \A j \in 1 .. n : Cardinality(1 .. j) = j
    BY <1>1, FS_Interval
  <2>3. \A j \in 1 .. n : Cardinality({k \in 1 .. n : k <= j}) = j
    BY <2>1, <2>2
  <2>4. QED BY <2>3
<1>4. Left(1 .. n) = [i \in 1 .. n |-> grabbed[i]]
  <2>1. Left(1 .. n) = [i \in 1 .. Cardinality(1 .. n) |-> grabbed[nth(i)]]
    BY Zenon DEF Left
  <2> HIDE DEF nth
  <2>2. QED BY <1>2, <1>3, <2>1
<1>5. QED BY <1>1, <1>4

\* What is closed downwards is a prefix.
LEMMA ClosedIsAPrefix ==
  ASSUME NEW n \in Nat, NEW S \in SUBSET (1 .. n),
         \A i \in 1 .. n, j \in S : i <= j => i \in S
  PROVE  \E m \in 0 .. n : S = 1 .. m
<1> DEFINE T == {k \in Nat : k + 1 \notin S}
<1>1. n \in T
  OBVIOUS
<1>2. PICK m \in T : \A k \in T : m <= k
  <2>1. T \in SUBSET Nat /\ T # {}
    BY <1>1
  <2> HIDE DEF T
  <2>2. QED BY <2>1, LeastNumber
<1>3. m \in 0 .. n
  BY <1>1, <1>2
<1>4. ASSUME NEW i \in 1 .. m
      PROVE  i \in S
  <2>1. i - 1 \in Nat /\ i - 1 < m /\ (i - 1) + 1 = i /\ m \in Nat
    BY <1>3, <1>4
  <2>2. i - 1 \notin T
    BY <1>2, <2>1
  <2>3. QED BY <2>1, <2>2
<1>5. ASSUME NEW i \in S
      PROVE  i \in 1 .. m
  <2>1. CASE i <= m
    BY <1>3, <2>1
  <2>2. CASE i > m
    <3>1. m + 1 \in 1 .. n /\ m + 1 <= i
      BY <1>3, <2>2
    <3>2. m + 1 \in S
      BY <3>1
    <3>3. QED BY <1>2, <3>2
  <2>3. QED BY <1>3, <2>1, <2>2
<1>6. QED BY <1>3, <1>4, <1>5

\* A press outside leaves the grabs below the topmost one hit.
LEMMA PressLeavesAPrefix ==
  ASSUME NEW at, grabbed \in Seq(popups)
  PROVE  \E n \in 0 .. Len(grabbed) : Staying(at) = 1 .. n
<1>1. Len(grabbed) \in Nat /\ DOMAIN grabbed = 1 .. Len(grabbed)
  BY LenProperties
<1>2. Staying(at) \in SUBSET (1 .. Len(grabbed))
  BY <1>1 DEF Staying
<1>3. ASSUME NEW i \in 1 .. Len(grabbed), NEW j \in Staying(at), i <= j
      PROVE  i \in Staying(at)
  <2>1. PICK k \in DOMAIN grabbed : Under(grabbed[k], at) /\ j <= k
    BY DEF Staying
  <2>2. i <= k /\ i \in DOMAIN grabbed
    BY <1>1, <1>2, <1>3, <2>1
  <2>3. QED BY <2>1, <2>2 DEF Staying
<1>4. QED BY <1>1, <1>2, <1>3, ClosedIsAPrefix

\* Only the topmost grab can go on its own: the others have popups.
LEMMA DestroyLeavesAPrefix ==
  ASSUME NEW p, grabbed \in Seq(popups), GrabsAreAChain, \A q \in popups : parent[q] # p
  PROVE  \E n \in 0 .. Len(grabbed) :
           /\ {i \in DOMAIN grabbed : grabbed[i] # p} = 1 .. n
           /\ \A i \in 1 .. n : grabbed[i] # p
<1> DEFINE S == {i \in DOMAIN grabbed : grabbed[i] # p}
<1>1. /\ Len(grabbed) \in Nat /\ DOMAIN grabbed = 1 .. Len(grabbed)
      /\ \A i \in 1 .. Len(grabbed) : grabbed[i] \in popups
  <2>1. Len(grabbed) \in Nat /\ DOMAIN grabbed = 1 .. Len(grabbed)
    BY LenProperties
  <2>2. \A i \in 1 .. Len(grabbed) : grabbed[i] \in popups
    BY ElementOfSeq
  <2>3. QED BY <2>1, <2>2
<1>2. ASSUME NEW i \in 1 .. Len(grabbed), i # Len(grabbed)
      PROVE  grabbed[i] # p
  <2>1. i + 1 \in DOMAIN grabbed /\ i + 1 # 1 /\ (i + 1) - 1 = i
    BY <1>1, <1>2
  <2>2. parent[grabbed[i + 1]] = grabbed[i]
    BY <2>1 DEF GrabsAreAChain
  <2>3. QED BY <1>1, <2>1, <2>2
<1>3. S \in SUBSET (1 .. Len(grabbed))
  BY <1>1
<1>4. ASSUME NEW i \in 1 .. Len(grabbed), NEW j \in S, i <= j
      PROVE  i \in S
  <2>1. j \in 1 .. Len(grabbed) /\ grabbed[j] # p
    BY <1>1
  <2>2. CASE i = Len(grabbed)
    <3>1. i = j
      BY <1>1, <1>4, <2>1, <2>2
    <3>2. QED BY <3>1
  <2>3. CASE i # Len(grabbed)
    BY <1>1, <1>2, <2>3
  <2>4. QED BY <2>2, <2>3
<1>5. PICK n \in 0 .. Len(grabbed) : S = 1 .. n
  <2> HIDE DEF S
  <2>1. QED BY <1>1, <1>3, <1>4, ClosedIsAPrefix
<1>6. QED BY <1>5

-----------------------------------------------------------------------------
(* The inductive invariant.                                                *)

\* Only popups there are have a parent, and only they are one.
ParentsAreThere ==
  \A p \in Popups : /\ parent[p] \in popups \cup {Root, None}
                    /\ p \notin popups => parent[p] = None

PopupsInv ==
  /\ TypeOK
  /\ ParentsComeFirst
  /\ ParentsAreThere
  /\ GrabsAreAChain
  /\ PlacedAsAllowed

\* A popup is where what it was placed by lets it be.
IsPlaced(g, at) ==
  g # None =>
    /\ g.pos.parentWidth > 0 =>
         Kept(g.pos, [origin |-> 0, extent |-> g.pos.parentWidth], at)
    /\ g.pos.parentWidth = 0 /\ g.shown =>
         Kept(g.pos, [origin |-> 0 - g.at, extent |-> OutputWidth], at)
    /\ g.pos.parentWidth = 0 /\ ~ g.shown =>
         at = [x |-> first_choice(g.pos), width |-> g.pos.width]

LEMMA PlacedIsPlaced == PlacedAsAllowed <=> \A p \in popups : IsPlaced(given[p], told[p])
BY DEF PlacedAsAllowed, IsPlaced

LEMMA PlacedIsPlacedNext ==
  PlacedAsAllowed' <=> \A p \in popups' : IsPlaced(given'[p], told'[p])
BY DEF PlacedAsAllowed, IsPlaced

LEMMA PlacingKeeps ==
  ASSUME PopupsAssumption, PopupsInv, NEW p \in Popups, NEW par \in Popups \cup {Root},
         place_popup(p, par)
  PROVE  /\ told' \in [Popups -> Place]
         /\ given' \in [Popups -> Given \cup {None}]
         /\ \A q \in Popups \ {p} : told'[q] = told[q] /\ given'[q] = given[q]
         /\ IsPlaced(given'[p], told'[p])
<1>1. /\ told \in [Popups -> Place]
      /\ given \in [Popups -> Given \cup {None}]
      /\ positioner \in Positioner \cup {None}
  BY DEF PopupsInv, TypeOK
<1>2. OutputWidth \in Nat /\ GlobalX[par] \in Int
  BY GlobalXIsANumber DEF PopupsInv, PopupsAssumption
<1>3. CASE positioner = None
  <2>1. [x |-> 0, width |-> 1] \in Place
    BY DEF Place
  <2>2. QED BY <1>1, <1>3, <2>1 DEF place_popup, IsPlaced
<1>4. ASSUME positioner # None
      PROVE  /\ told' \in [Popups -> Place] /\ given' \in [Popups -> Given \cup {None}]
             /\ \A q \in Popups \ {p} : told'[q] = told[q] /\ given'[q] = given[q]
             /\ IsPlaced(given'[p], told'[p])
  <2> DEFINE g == [pos |-> positioner, at |-> GlobalX[par], shown |-> Shown(par)]
  <2>1. /\ given' = [given EXCEPT ![p] = g]
        /\ positioner \in Positioner /\ positioner.parentWidth \in Nat
        /\ \/ /\ Available(par) = {}
              /\ told' = [told EXCEPT ![p] = [x |-> first_choice(positioner),
                                             width |-> positioner.width]]
           \/ \E r \in Available(par) : told' = [told EXCEPT ![p] = place(positioner, r)]
    BY <1>1, <1>4 DEF place_popup, Positioner
  <2>2. g \in Given
    BY <1>2, <2>1 DEF Given, Shown
  <2>3. CASE Available(par) = {}
    <3>1. positioner.parentWidth = 0 /\ ~ Shown(par)
      <4>1. ASSUME positioner.parentWidth > 0 PROVE FALSE
        BY <2>3, <4>1 DEF Available
      <4>2. ~ positioner.parentWidth > 0
        BY <4>1
      <4>3. ~ Shown(par)
        BY <2>3, <4>2, Zenon DEF Available
      <4>4. QED BY <2>1, <4>2, <4>3
    <3>2. PICK at \in Place : /\ at = [x |-> first_choice(positioner), width |-> positioner.width]
                             /\ told' = [told EXCEPT ![p] = at]
      BY <2>1, <2>3, ChoicesAreInt DEF Place, Positioner
    <3>3. IsPlaced(g, at)
      BY <3>1, <3>2 DEF IsPlaced
    <3>4. QED BY <1>1, <2>1, <2>2, <3>2, <3>3
  <2>4. ASSUME NEW r \in Available(par), told' = [told EXCEPT ![p] = place(positioner, r)]
        PROVE  /\ told' \in [Popups -> Place]
               /\ \A q \in Popups \ {p} : told'[q] = told[q]
               /\ IsPlaced(g, told'[p])
    <3>1. /\ positioner.parentWidth > 0 => r = [origin |-> 0, extent |-> positioner.parentWidth]
          /\ positioner.parentWidth = 0 =>
               Shown(par) /\ r = [origin |-> 0 - GlobalX[par], extent |-> OutputWidth]
      BY <2>1, <2>4 DEF Available
    <3>2. r \in Region
      BY <1>2, <2>1, <3>1 DEF Region
    <3>3. PICK at \in Place : at = place(positioner, r) /\ Kept(positioner, r, at)
      BY <2>1, <3>2, PlacesAreTyped, PlacementIsKept
    <3>4. IsPlaced(g, at)
      BY <3>1, <3>3 DEF IsPlaced
    <3>5. QED BY <1>1, <2>4, <3>3, <3>4
  <2>5. QED BY <1>1, <2>1, <2>2, <2>3, <2>4
<1>5. QED BY <1>3, <1>4

LEMMA InitIsRight == PopupsAssumption /\ Init => PopupsInv
<1> SUFFICES ASSUME PopupsAssumption, Init PROVE PopupsInv
  OBVIOUS
<1> USE DEF Init
<1>1. TypeOK
  BY DEF TypeOK, Place, PopupsAssumption
<1>2. ParentsComeFirst
  <2>1. Aged([p \in Popups |-> 0], 0)
    BY DEF Aged, PopupsAssumption
  <2>2. QED BY <2>1 DEF ParentsComeFirst
<1>3. ParentsAreThere /\ GrabsAreAChain /\ PlacedAsAllowed
  BY DEF ParentsAreThere, GrabsAreAChain, PlacedAsAllowed
<1>4. QED BY <1>1, <1>2, <1>3 DEF PopupsInv

LEMMA GetPopupKeeps ==
  ASSUME PopupsAssumption, PopupsInv,
         NEW p \in Popups, NEW par \in Popups \cup {Root, None}, GetPopup(p, par)
  PROVE  PopupsInv'
<1> USE DEF GetPopup
<1>1. /\ TypeOK /\ ParentsAreThere /\ GrabsAreAChain /\ PlacedAsAllowed
      /\ p \notin popups /\ par \in popups \cup {Root, None}
      /\ Root \notin Popups /\ None \notin Popups \cup {Root}
  BY DEF PopupsInv, PopupsAssumption
<1>2. /\ told' \in [Popups -> Place]
      /\ given' \in [Popups -> Given \cup {None}]
      /\ \A q \in Popups \ {p} : told'[q] = told[q] /\ given'[q] = given[q]
      /\ IsPlaced(given'[p], told'[p])
  <2>1. CASE par # None
    BY <2>1, PlacingKeeps
  <2>2. CASE par = None
    <3>1. [x |-> 0, width |-> 1] \in Place
      BY DEF Place
    <3>2. /\ told' = [told EXCEPT ![p] = [x |-> 0, width |-> 1]]
          /\ given' = [given EXCEPT ![p] = None]
      BY <2>2
    <3>3. /\ told \in [Popups -> Place]
          /\ given \in [Popups -> Given \cup {None}]
      BY <1>1 DEF TypeOK
    <3>4. given'[p] = None /\ given' \in [Popups -> Given \cup {None}]
      BY <3>2, <3>3
    <3>5. told' \in [Popups -> Place]
      BY <3>1, <3>2, <3>3
    <3>6. QED BY <3>2, <3>3, <3>4, <3>5 DEF IsPlaced
  <2>3. QED BY <2>1, <2>2
<1>3. TypeOK'
  <2>1. grabbed' \in Seq(popups')
    <3>1. popups \subseteq popups' /\ grabbed \in Seq(popups)
      BY <1>1 DEF TypeOK
    <3>2. QED BY <3>1
  <2>2. 0 \in 0 .. MaxWidth
    BY DEF PopupsAssumption
  <2>3. width' \in [Popups -> 0 .. MaxWidth]
    BY <1>1, <2>2 DEF TypeOK
  <2>4. /\ popups' \subseteq Popups /\ done' \subseteq Popups
        /\ parent' \in [Popups -> Popups \cup {Root, None}]
        /\ named' \in [Popups -> Popups \cup {Root, None}]
        /\ positioner' \in Positioner \cup {None}
        /\ windowX' \in 0 .. MaxWindowX
    BY <1>1 DEF TypeOK
  <2>5. QED BY <1>2, <2>1, <2>3, <2>4 DEF TypeOK
<1>4. ParentsComeFirst'
  <2>1. PICK n \in Nat : \E rank : Aged(rank, n)
    BY DEF PopupsInv, ParentsComeFirst
  <2>2. PICK rank : Aged(rank, n)
    BY <2>1
  <2> DEFINE younger == [rank EXCEPT ![p] = n + 1]
  <2>3. younger \in [Popups -> 0 .. n + 1]
    BY <2>2 DEF Aged
  <2>4. ASSUME NEW q \in Popups, parent'[q] \in Popups
        PROVE  younger[parent'[q]] < younger[q]
    <3>1. parent'[q] # p
      BY <1>1, <2>4 DEF ParentsAreThere, TypeOK
    <3>2. younger[parent'[q]] = rank[parent'[q]] /\ rank[parent'[q]] \in 0 .. n
      BY <2>2, <2>4, <3>1 DEF Aged
    <3>3. CASE q = p
      BY <2>2, <3>2, <3>3 DEF Aged
    <3>4. CASE q # p
      <4>1. parent'[q] = parent[q] /\ younger[q] = rank[q]
        BY <1>1, <2>2, <3>4 DEF Aged, TypeOK
      <4>2. QED BY <2>2, <2>4, <3>2, <4>1 DEF Aged
    <3>5. QED BY <3>3, <3>4
  <2>5. Aged(younger, n + 1)'
    BY <2>3, <2>4 DEF Aged
  <2>6. QED BY <2>5 DEF ParentsComeFirst
<1>5. ParentsAreThere'
  BY <1>1 DEF ParentsAreThere, TypeOK
<1>6. GrabsAreAChain'
  <2>1. \A i \in DOMAIN grabbed : grabbed[i] \in popups
    BY <1>1 DEF TypeOK
  <2>2. QED BY <1>1, <2>1 DEF GrabsAreAChain, TypeOK
<1>7. PlacedAsAllowed'
  BY <1>1, <1>2, PlacedIsPlaced, PlacedIsPlacedNext DEF TypeOK
<1>8. QED BY <1>3, <1>4, <1>5, <1>6, <1>7 DEF PopupsInv

\* A popup placed again, adopted or not.
LEMMA PlacedAgainKeeps ==
  ASSUME PopupsAssumption, PopupsInv,
         NEW p \in Popups, Adopt(p) \/ Reposition(p)
  PROVE  PopupsInv'
<1>1. /\ TypeOK /\ ParentsAreThere /\ GrabsAreAChain /\ PlacedAsAllowed /\ ParentsComeFirst
      /\ Root \notin Popups /\ None \notin Popups \cup {Root}
      /\ p \in popups
  BY DEF PopupsInv, PopupsAssumption, Adopt, Reposition
<1>2. PICK par \in Popups \cup {Root} : place_popup(p, par)
  <2>1. CASE Adopt(p)
    BY <2>1 DEF Adopt
  <2>2. CASE Reposition(p)
    BY <1>1, <2>2 DEF Reposition, TypeOK
  <2>3. QED BY <2>1, <2>2
<1>3. /\ told' \in [Popups -> Place]
      /\ given' \in [Popups -> Given \cup {None}]
      /\ \A q \in Popups \ {p} : told'[q] = told[q] /\ given'[q] = given[q]
      /\ IsPlaced(given'[p], told'[p])
  BY <1>2, PlacingKeeps
<1>4. /\ UNCHANGED << popups, named, positioner, width, windowX, grabbed, done >>
      /\ \/ parent' = parent
         \/ parent[p] = None /\ parent' = [parent EXCEPT ![p] = Root]
  <2>1. CASE Adopt(p)
    BY <2>1 DEF Adopt
  <2>2. CASE Reposition(p)
    BY <2>2 DEF Reposition
  <2>3. QED BY <2>1, <2>2
<1>5. TypeOK'
  <2>1. parent' \in [Popups -> Popups \cup {Root, None}]
    BY <1>1, <1>4 DEF TypeOK
  <2>2. QED BY <1>1, <1>3, <1>4, <2>1 DEF TypeOK
<1>6. ASSUME NEW q \in Popups, parent'[q] # parent[q]
      PROVE  parent'[q] = Root /\ parent[q] = None
  BY <1>1, <1>4, <1>6 DEF TypeOK
<1>7. ParentsComeFirst'
  <2>1. PICK n \in Nat : \E rank : Aged(rank, n)
    BY <1>1 DEF ParentsComeFirst
  <2>2. PICK rank : Aged(rank, n)
    BY <2>1
  <2>3. Aged(rank, n)'
    BY <1>1, <1>6, <2>2 DEF Aged
  <2>4. QED BY <2>3 DEF ParentsComeFirst
<1>8. ParentsAreThere'
  BY <1>1, <1>4, <1>6 DEF ParentsAreThere, TypeOK
<1>9. GrabsAreAChain'
  <2>1. ASSUME NEW i \in DOMAIN grabbed
        PROVE  parent'[grabbed[i]] = parent[grabbed[i]]
    <3>1. /\ grabbed[i] \in Popups
          /\ i # 1 => grabbed[i - 1] \in Popups
      BY <1>1 DEF TypeOK
    <3>2. parent[grabbed[i]] # None
      BY <1>1, <3>1 DEF GrabsAreAChain
    <3>3. QED BY <1>6, <3>1, <3>2
  <2>2. QED BY <1>1, <1>4, <2>1 DEF GrabsAreAChain
<1>10. PlacedAsAllowed'
  BY <1>1, <1>3, <1>4, PlacedIsPlaced, PlacedIsPlacedNext DEF TypeOK
<1>11. QED BY <1>5, <1>7, <1>8, <1>9, <1>10 DEF PopupsInv

LEMMA DestroyPopupKeeps ==
  ASSUME PopupsAssumption, PopupsInv, NEW p \in Popups, DestroyPopup(p)
  PROVE  PopupsInv'
<1> USE DEF DestroyPopup
<1>1. /\ TypeOK /\ ParentsAreThere /\ GrabsAreAChain /\ PlacedAsAllowed /\ ParentsComeFirst
      /\ Root \notin Popups /\ None \notin Popups \cup {Root}
      /\ grabbed \in Seq(popups) /\ p \in popups
  BY DEF PopupsInv, PopupsAssumption, TypeOK
<1>2. PICK n \in 0 .. Len(grabbed) : /\ {i \in DOMAIN grabbed : grabbed[i] # p} = 1 .. n
                                      /\ \A i \in 1 .. n : grabbed[i] # p
  BY <1>1, DestroyLeavesAPrefix
<1>3. grabbed' = [i \in 1 .. n |-> grabbed[i]] /\ grabbed' \in Seq(popups)
  BY <1>1, <1>2, LeftIsAPrefix
<1>4. DOMAIN grabbed = 1 .. Len(grabbed) /\ Len(grabbed) \in Nat /\ n \in Nat /\ n <= Len(grabbed)
  <2>1. DOMAIN grabbed = 1 .. Len(grabbed) /\ Len(grabbed) \in Nat
    BY <1>1, LenProperties
  <2>2. QED BY <2>1
<1>5. DOMAIN grabbed' = 1 .. n /\ \A i \in 1 .. n : grabbed'[i] = grabbed[i] /\ i \in DOMAIN grabbed
  <2>1. DOMAIN grabbed' = 1 .. n /\ \A i \in 1 .. n : grabbed'[i] = grabbed[i]
    BY <1>3
  <2>2. \A i \in 1 .. n : i \in 1 .. Len(grabbed)
    BY <1>4
  <2>3. QED BY <1>4, <2>1, <2>2
<1>6. \A i \in 1 .. n : grabbed[i] \in popups \ {p}
  BY <1>1, <1>2, <1>4, ElementOfSeq
<1>7. TypeOK'
  <2>1. grabbed' \in Seq(popups')
    <3>1. \A i \in 1 .. n : grabbed[i] \in popups'
      BY <1>6
    <3>2. QED BY <1>3, <1>4, <3>1
  <2>2. QED BY <1>1, <2>1 DEF TypeOK
<1>8. \A q \in Popups : parent'[q] = IF q = p THEN None ELSE parent[q]
  BY <1>1 DEF TypeOK
<1>9. ParentsComeFirst'
  <2>1. PICK m \in Nat : \E rank : Aged(rank, m)
    BY <1>1 DEF ParentsComeFirst
  <2>2. PICK rank : Aged(rank, m)
    BY <2>1
  <2>3. Aged(rank, m)'
    BY <1>1, <1>8, <2>2 DEF Aged
  <2>4. QED BY <2>3 DEF ParentsComeFirst
<1>10. ParentsAreThere'
  <2>1. \A q \in Popups : parent[q] # p
    BY <1>1 DEF ParentsAreThere
  <2>2. QED BY <1>1, <1>8, <2>1 DEF ParentsAreThere
<1>11. GrabsAreAChain'
  <2>1. ASSUME NEW i \in 1 .. n
        PROVE  /\ grabbed'[i] \notin done'
               /\ parent'[grabbed'[i]] = IF i = 1 THEN Root ELSE grabbed'[i - 1]
    <3>1. grabbed[i] # p /\ grabbed[i] \in Popups
      BY <1>1, <1>6 DEF TypeOK
    <3>2. i # 1 => i - 1 \in 1 .. n
      BY <1>4
    <3>3. QED BY <1>1, <1>5, <1>8, <3>1, <3>2 DEF GrabsAreAChain
  <2>2. ASSUME NEW i \in 1 .. n, NEW j \in 1 .. n, grabbed'[i] = grabbed'[j]
        PROVE  i = j
    BY <1>1, <1>5, <2>2 DEF GrabsAreAChain
  <2>3. QED BY <1>5, <2>1, <2>2 DEF GrabsAreAChain
<1>12. PlacedAsAllowed'
  BY <1>1 DEF PlacedAsAllowed
<1>13. QED BY <1>7, <1>9, <1>10, <1>11, <1>12 DEF PopupsInv

LEMMA GrabKeeps ==
  ASSUME PopupsAssumption, PopupsInv, NEW p \in Popups, Grab(p)
  PROVE  PopupsInv'
<1> USE DEF Grab
<1>1. /\ TypeOK /\ GrabsAreAChain /\ grabbed \in Seq(popups) /\ p \in popups
      /\ p \notin Range(grabbed) /\ p \notin done
  BY DEF PopupsInv, TypeOK
<1>2. DOMAIN grabbed = 1 .. Len(grabbed) /\ Len(grabbed) \in Nat
  BY <1>1, LenProperties
<1>3. /\ grabbed' \in Seq(popups) /\ DOMAIN grabbed' = 1 .. Len(grabbed) + 1
      /\ grabbed'[Len(grabbed) + 1] = p
      /\ \A i \in 1 .. Len(grabbed) : grabbed'[i] = grabbed[i] /\ grabbed[i] # p
  <2>1. \A i \in 1 .. Len(grabbed) : grabbed[i] # p
    BY <1>1, <1>2 DEF Range
  <2>2. QED BY <1>1, <1>2, <2>1, AppendProperties
<1>4. TypeOK'
  BY <1>1, <1>3 DEF TypeOK
<1>5. parent[p] = IF Len(grabbed) = 0 THEN Root ELSE grabbed[Len(grabbed)]
  <2>1. grabbed = << >> <=> Len(grabbed) = 0
    BY <1>1, EmptySeq
  <2>2. QED BY <2>1 DEF Last
<1>6. GrabsAreAChain'
  <2>1. ASSUME NEW i \in 1 .. Len(grabbed) + 1
        PROVE  /\ grabbed'[i] \notin done'
               /\ parent'[grabbed'[i]] = IF i = 1 THEN Root ELSE grabbed'[i - 1]
    <3>1. CASE i = Len(grabbed) + 1
      <4>1. grabbed'[i] = p /\ parent'[p] = parent[p] /\ done' = done
        BY <1>3, <3>1
      <4>2. CASE i = 1
        <5>1. Len(grabbed) = 0
          BY <1>2, <3>1, <4>2
        <5>2. QED BY <1>1, <1>5, <4>1, <4>2, <5>1
      <4>3. CASE i # 1
        <5>1. Len(grabbed) # 0 /\ i - 1 = Len(grabbed) /\ Len(grabbed) \in 1 .. Len(grabbed)
          BY <1>2, <3>1, <4>3
        <5>2. QED BY <1>1, <1>3, <1>5, <4>1, <4>3, <5>1
      <4>4. QED BY <4>2, <4>3
    <3>2. CASE i \in 1 .. Len(grabbed)
      <4>1. i # 1 => i - 1 \in 1 .. Len(grabbed)
        BY <1>2, <3>2
      <4>2. QED BY <1>1, <1>2, <1>3, <3>2, <4>1 DEF GrabsAreAChain
    <3>3. QED BY <1>2, <3>1, <3>2
  <2>2. ASSUME NEW i \in 1 .. Len(grabbed) + 1, NEW j \in 1 .. Len(grabbed) + 1,
               grabbed'[i] = grabbed'[j]
        PROVE  i = j
    <3>1. \A k \in 1 .. Len(grabbed) + 1 : k = Len(grabbed) + 1 \/ k \in 1 .. Len(grabbed)
      BY <1>2
    <3>2. QED BY <1>1, <1>2, <1>3, <2>2, <3>1 DEF GrabsAreAChain
  <2>3. QED BY <1>3, <2>1, <2>2 DEF GrabsAreAChain
<1>7. ParentsComeFirst' /\ ParentsAreThere' /\ PlacedAsAllowed'
  BY DEF PopupsInv, ParentsComeFirst, Aged, ParentsAreThere, PlacedAsAllowed
<1>8. QED BY <1>4, <1>6, <1>7 DEF PopupsInv

LEMMA PressKeeps ==
  ASSUME PopupsAssumption, PopupsInv, NEW at, Press(at)
  PROVE  PopupsInv'
<1> USE DEF Press
<1>1. /\ TypeOK /\ GrabsAreAChain /\ grabbed \in Seq(popups) /\ popups \subseteq Popups
      /\ done \subseteq Popups
  BY DEF PopupsInv, TypeOK
<1>2. PICK n \in 0 .. Len(grabbed) : Staying(at) = 1 .. n
  BY <1>1, PressLeavesAPrefix
<1>3. grabbed' = [i \in 1 .. n |-> grabbed[i]] /\ grabbed' \in Seq(popups)
  BY <1>1, <1>2, LeftIsAPrefix
<1>4. DOMAIN grabbed = 1 .. Len(grabbed) /\ Len(grabbed) \in Nat
  BY <1>1, LenProperties
<1>5. n \in Nat /\ \A i \in 1 .. n : i \in DOMAIN grabbed
  <2>1. n \in Nat /\ n <= Len(grabbed)
    BY <1>4
  <2>2. QED BY <1>4, <2>1
<1>6. DOMAIN grabbed' = 1 .. n /\ \A i \in 1 .. n : grabbed'[i] = grabbed[i]
  BY <1>3
<1>7. done' = done \cup {grabbed[i] : i \in DOMAIN grabbed \ (1 .. n)}
  BY <1>2
<1>8. TypeOK'
  <2>1. \A i \in DOMAIN grabbed : grabbed[i] \in popups
    BY <1>1, <1>4, ElementOfSeq
  <2>2. done' \subseteq Popups
    BY <1>1, <1>7, <2>1
  <2>3. QED BY <1>1, <1>3, <2>2 DEF TypeOK
<1>9. GrabsAreAChain'
  <2>1. ASSUME NEW i \in 1 .. n
        PROVE  grabbed[i] \notin done'
    BY <1>1, <1>5, <1>7 DEF GrabsAreAChain
  <2>2. ASSUME NEW i \in 1 .. n
        PROVE  parent[grabbed[i]] = IF i = 1 THEN Root ELSE grabbed'[i - 1]
    <3>1. i # 1 => i - 1 \in 1 .. n
      BY <1>5
    <3>2. QED BY <1>1, <1>5, <1>6, <3>1 DEF GrabsAreAChain
  <2>3. ASSUME NEW i \in 1 .. n, NEW j \in 1 .. n, grabbed[i] = grabbed[j]
        PROVE  i = j
    BY <1>1, <1>5, <2>3 DEF GrabsAreAChain
  <2>4. QED BY <1>6, <2>1, <2>2, <2>3 DEF GrabsAreAChain
<1>10. ParentsComeFirst' /\ ParentsAreThere' /\ PlacedAsAllowed'
  BY DEF PopupsInv, ParentsComeFirst, Aged, ParentsAreThere, PlacedAsAllowed
<1>11. QED BY <1>8, <1>9, <1>10 DEF PopupsInv

LEMMA StepKeeps ==
  ASSUME PopupsAssumption, PopupsInv, [Next]_vars
  PROVE  PopupsInv'
<1>1. ASSUME UNCHANGED << popups, parent, told, given, grabbed, done >>, TypeOK'
      PROVE  PopupsInv'
  BY <1>1 DEF PopupsInv, ParentsComeFirst, Aged, ParentsAreThere, GrabsAreAChain, PlacedAsAllowed
<1>2. ASSUME NEW pos \in Positioners \cup {None}, SetPositioner(pos)
      PROVE  PopupsInv'
  BY <1>1, <1>2 DEF SetPositioner, PopupsInv, TypeOK, PopupsAssumption
<1>3. ASSUME NEW p \in Popups, NEW n \in 0 .. MaxWidth, Commit(p, n)
      PROVE  PopupsInv'
  BY <1>1, <1>3 DEF Commit, PopupsInv, TypeOK
<1>4. ASSUME NEW x \in 0 .. MaxWindowX, MoveWindow(x)
      PROVE  PopupsInv'
  BY <1>1, <1>4 DEF MoveWindow, PopupsInv, TypeOK
<1>5. ASSUME UNCHANGED vars
      PROVE  PopupsInv'
  BY <1>1, <1>5 DEF vars, PopupsInv, TypeOK
<1>6. QED
  BY <1>2, <1>3, <1>4, <1>5, GetPopupKeeps, PlacedAgainKeeps, DestroyPopupKeeps, GrabKeeps,
     PressKeeps DEF Next

LEMMA Invariance == PopupsAssumption /\ Spec => []PopupsInv
<1> SUFFICES ASSUME PopupsAssumption PROVE Spec => []PopupsInv
  OBVIOUS
<1>1. Init => PopupsInv
  BY InitIsRight
<1>2. PopupsInv /\ [Next]_vars => PopupsInv'
  BY StepKeeps
<1>3. QED BY <1>1, <1>2, PTL DEF Spec

\* Every variable has its type; that a popup is at some number on screen needs
\* that its parents end.
THEOREM TypeCorrect == ASSUME PopupsAssumption PROVE Spec => []TypeOK
<1>1. PopupsInv => TypeOK
  BY DEF PopupsInv
<1>2. QED BY <1>1, Invariance, PTL

\* A popup was put where its client's positioner allows, inside the size its
\* parent is to have or on screen, whoever named its parent and wherever
\* everything was then (place_popup, get_popup of a window, of a panel,
\* reposition, set_parent_size).
THEOREM PlacedRight == ASSUME PopupsAssumption PROVE Spec => []PlacedAsAllowed
<1>1. PopupsInv => PlacedAsAllowed
  BY DEF PopupsInv
<1>2. QED BY <1>1, Invariance, PTL

\* No menu is dismissed or gone while a submenu of it has the grab
\* (dismiss_popups_outside_click, xdg_popup.destroy).
THEOREM MenusCloseFromTheTop == ASSUME PopupsAssumption PROVE Spec => []ClosedFromTheTop
<1>1. ASSUME PopupsInv
      PROVE  ClosedFromTheTop
  <2> DEFINE T == {p \in Popups \cup {Root} :
                     p \in Range(grabbed) => Upwards[p] \subseteq Range(grabbed) \cup {Root}}
  <2>1. /\ TypeOK /\ ParentsComeFirst /\ GrabsAreAChain /\ Root \notin Popups
        /\ parent \in [Popups -> Popups \cup {Root, None}]
        /\ grabbed \in Seq(popups) /\ popups \subseteq Popups /\ done \subseteq Popups
    BY <1>1 DEF PopupsInv, TypeOK, PopupsAssumption
  <2>2. DOMAIN grabbed = 1 .. Len(grabbed) /\ Len(grabbed) \in Nat
    BY <2>1, LenProperties
  <2>3. Range(grabbed) \subseteq popups \ done
    <3>1. \A i \in DOMAIN grabbed : grabbed[i] \in popups
      BY <2>1, <2>2, ElementOfSeq
    <3>2. QED BY <2>1, <3>1 DEF GrabsAreAChain, Range
  <2>4. ASSUME NEW p \in Range(grabbed)
        PROVE  parent[p] = Root \/ parent[p] \in Range(grabbed)
    <3>1. PICK i \in DOMAIN grabbed : grabbed[i] = p
      BY DEF Range
    <3>2. i # 1 => i - 1 \in DOMAIN grabbed
      BY <2>2
    <3>3. QED BY <2>1, <3>1, <3>2 DEF GrabsAreAChain, Range
  <2>5. Upwards[Root] = {Root}
    BY <2>1, UpwardsIsAWalk
  <2>6. Root \in T
    BY <2>1, <2>3
  <2>7. ASSUME NEW p \in Popups, parent[p] = None \/ parent[p] \in T
        PROVE  p \in T
    <3> SUFFICES ASSUME p \in Range(grabbed)
                 PROVE  Upwards[p] \subseteq Range(grabbed) \cup {Root}
      OBVIOUS
    <3>1. Upwards[p] \subseteq {p} \cup Upwards[parent[p]]
      BY <2>1, <2>4, UpwardsIsAWalk
    <3>2. parent[p] \in Popups \cup {Root} /\ parent[p] # None
      BY <2>1, <2>3, <2>4 DEF PopupsAssumption
    <3>3. QED BY <2>4, <2>5, <2>7, <3>1, <3>2
  <2>8. Popups \subseteq T
    <3> HIDE DEF T
    <3>1. QED BY <2>1, <2>6, <2>7, FromTheParents
  <2>9. \A p \in Range(grabbed) : Upwards[p] \subseteq Range(grabbed) \cup {Root}
    BY <2>1, <2>3, <2>8
  <2>10. QED BY <2>1, <2>3, <2>9 DEF ClosedFromTheTop
<1>2. QED BY <1>1, Invariance, PTL

-----------------------------------------------------------------------------
(* Panels (module LayerPanels), for any panels, outputs and requests.      *)

CONSTANTS Panels, Outputs, Areas, Requests, MaxUnanswered
VARIABLES outputs, output, pending, current, position, sizeTold, unanswered,
          configured, unsettled

L == INSTANCE LayerPanels WITH told <- sizeTold

\* Induction over the subsets of a finite set.
LEMMA SetInduction ==
  ASSUME NEW S, IsFiniteSet(S), NEW Q,
         \A T \in SUBSET S : (\A x \in T : T \ {x} \in Q) => T \in Q
  PROVE  SUBSET S \subseteq Q
<1> DEFINE N == {n \in Nat : \A T \in SUBSET S : Cardinality(T) = n => T \in Q}
<1>1. \A T \in SUBSET S : IsFiniteSet(T) /\ Cardinality(T) \in Nat
  BY FS_Subset, FS_CardinalityType
<1>2. 0 \in N
  <2>1. ASSUME NEW T \in SUBSET S, Cardinality(T) = 0 PROVE T \in Q
    BY <1>1, <2>1, FS_EmptySet
  <2>2. QED BY <2>1
<1>3. ASSUME NEW n \in Nat, n \in N PROVE n + 1 \in N
  <2>1. ASSUME NEW T \in SUBSET S, Cardinality(T) = n + 1 PROVE T \in Q
    <3>1. ASSUME NEW x \in T PROVE T \ {x} \in Q
      <4>1. Cardinality(T \ {x}) = Cardinality(T) - 1
        BY <1>1, FS_RemoveElement
      <4>2. T \ {x} \in SUBSET S /\ Cardinality(T \ {x}) = n
        BY <2>1, <4>1
      <4>3. QED BY <1>3, <4>2
    <3>2. QED BY <3>1
  <2>2. QED BY <2>1
<1>4. Nat \subseteq N
  <2> HIDE DEF N
  <2>1. QED BY <1>2, <1>3, Induction
<1>5. QED BY <1>1, <1>4

-----------------------------------------------------------------------------
(* The order panels are arranged in.                                       *)

\* Finitely many panels that have asked for something.
Asking(c, S) ==
  IsFiniteSet(S) /\ S \subseteq Panels /\ \A p \in S : c[p] \in L!LayerSurfaceStatePending

LEMMA FewerAsking ==
  ASSUME NEW c, NEW S, Asking(c, S), NEW T \in SUBSET S
  PROVE  Asking(c, T)
BY FS_Subset DEF Asking

\* Of two panels one comes before the other.
LEMMA PanelsAreOrdered ==
  ASSUME L!PanelsAssumption, NEW c, NEW S, Asking(c, S)
  PROVE  /\ \A p, q \in S : L!Before(c, p, q) => ~ L!Before(c, q, p)
         /\ \A p, q \in S : p # q => L!Before(c, p, q) \/ L!Before(c, q, p)
         /\ \A p, q, r \in S : L!Before(c, p, q) /\ L!Before(c, q, r) => L!Before(c, p, r)
<1>1. Panels \subseteq Int
  BY DEF L!PanelsAssumption
<1>2. \A r \in L!LayerSurfaceStatePending : r.layer \in Int
  BY DEF L!LayerSurfaceStatePending, L!LayerKind
<1>3. \A p \in S : p \in Int /\ c[p].layer \in Int
  BY <1>1, <1>2 DEF Asking
<1>4. QED BY <1>3 DEF L!Before

\* The one that comes last, which last is.
IsLast(c, S, p) == p \in S /\ \A q \in S \ {p} : L!Before(c, q, p)

LEMMA OneIsLast ==
  ASSUME L!PanelsAssumption, NEW c, NEW S, Asking(c, S)
  PROVE  /\ S # {} => IsLast(c, S, L!last(c, S))
         /\ \A p : IsLast(c, S, p) => p = L!last(c, S)
<1> DEFINE Q == {T \in SUBSET S : T = {} \/ \E p \in T : IsLast(c, T, p)}
<1>1. ASSUME NEW T \in SUBSET S, \A x \in T : T \ {x} \in Q PROVE T \in Q
  <2>1. CASE T = {}
    BY <2>1
  <2>2. CASE T # {}
    <3>1. PICK x \in T : TRUE
      BY <2>2
    <3>2. CASE T \ {x} = {}
      BY <3>1, <3>2 DEF IsLast
    <3>3. CASE T \ {x} # {}
      <4>1. PICK p \in T \ {x} : IsLast(c, T \ {x}, p)
        BY <1>1, <3>1, <3>3
      <4>2. CASE L!Before(c, x, p)
        <5>1. IsLast(c, T, p)
          BY <4>1, <4>2 DEF IsLast
        <5>2. QED BY <4>1, <5>1
      <4>3. CASE L!Before(c, p, x)
        <5>1. IsLast(c, T, x)
          BY <3>1, <4>1, <4>3, PanelsAreOrdered DEF IsLast
        <5>2. QED BY <3>1, <5>1
      <4>4. QED BY <3>1, <4>1, <4>2, <4>3, PanelsAreOrdered
    <3>4. QED BY <3>2, <3>3
  <2>3. QED BY <2>1, <2>2
<1>2. S \in Q
  <2>1. IsFiniteSet(S)
    BY DEF Asking
  <2> HIDE DEF Q
  <2>2. QED BY <1>1, <2>1, SetInduction
<1>3. ASSUME S # {} PROVE IsLast(c, S, L!last(c, S))
  BY <1>2, <1>3 DEF IsLast, L!last
<1>4. ASSUME NEW p, IsLast(c, S, p) PROVE p = L!last(c, S)
  <2>1. S # {}
    BY <1>4 DEF IsLast
  <2>2. QED BY <1>3, <1>4, <2>1, PanelsAreOrdered DEF IsLast
<1>5. QED BY <1>3, <1>4

-----------------------------------------------------------------------------
(* What panels leave of an area.                                           *)

Rects == [x : Int, y : Int, w : Nat, h : Nat]

\* What p leaves of what was left for it.
After(c, p, left) ==
  IF c[p].zone > 0 THEN L!shrink(left, c[p].anchor, c[p].zone) ELSE left

LEMMA AfterIsRect ==
  ASSUME NEW c, NEW S, Asking(c, S), NEW p \in S, NEW r \in Rects
  PROVE  After(c, p, r) \in Rects
<1>1. c[p].zone \in Int
  BY DEF Asking, L!LayerSurfaceStatePending
<1>2. ASSUME NEW z \in Nat, NEW anchor PROVE L!shrink(r, anchor, z) \in Rects
  <2>1. /\ r.x + z \in Int /\ r.y + z \in Int
        /\ L!NotBelowZero(r.w - z) \in Nat /\ L!NotBelowZero(r.h - z) \in Nat
    BY DEF Rects, L!NotBelowZero
  <2>2. /\ [r EXCEPT !.y = @ + z, !.h = L!NotBelowZero(@ - z)] \in Rects
        /\ [r EXCEPT !.h = L!NotBelowZero(@ - z)] \in Rects
        /\ [r EXCEPT !.x = @ + z, !.w = L!NotBelowZero(@ - z)] \in Rects
        /\ [r EXCEPT !.w = L!NotBelowZero(@ - z)] \in Rects
    BY <2>1 DEF Rects
  <2>3. QED BY <2>2, Zenon DEF L!shrink
<1>3. c[p].zone > 0 => c[p].zone \in Nat
  BY <1>1
<1>4. QED BY <1>2, <1>3 DEF After

\* f says what the panels T leave of an area, or what each set of them does.
IsLeft(f, c, area, T) ==
  f[T] = IF T = {} THEN area ELSE After(c, L!last(c, T), f[T \ {L!last(c, T)}])

AllLeft(f, c, area, S) == \A T \in SUBSET S : IsLeft(f, c, area, T)

LEMMA LeftExists ==
  ASSUME L!PanelsAssumption, NEW c, NEW S, Asking(c, S), NEW area \in Rects
  PROVE  \E f \in [SUBSET S -> Rects] : AllLeft(f, c, area, S)
<1> DEFINE UpTo(f, n) == \A T \in SUBSET S : Cardinality(T) < n => IsLeft(f, c, area, T)
           N == {n \in Nat : \E f \in [SUBSET S -> Rects] : UpTo(f, n)}
<1>0. \A T \in SUBSET S : IsFiniteSet(T) /\ Cardinality(T) \in Nat
  BY FS_Subset, FS_CardinalityType DEF Asking
<1>1. ASSUME NEW T \in SUBSET S, T # {}
      PROVE  /\ L!last(c, T) \in T
             /\ Cardinality(T \ {L!last(c, T)}) = Cardinality(T) - 1
  <2>1. L!last(c, T) \in T
    BY <1>1, FewerAsking, OneIsLast DEF IsLast
  <2>2. QED BY <1>0, <2>1, FS_RemoveElement
<1>2. 0 \in N
  <2>1. [T \in SUBSET S |-> area] \in [SUBSET S -> Rects]
    OBVIOUS
  <2>2. UpTo([T \in SUBSET S |-> area], 0)
    BY <1>0
  <2>3. QED BY <2>1, <2>2
<1>3. ASSUME NEW n \in Nat, n \in N PROVE n + 1 \in N
  <2>1. PICK f \in [SUBSET S -> Rects] : UpTo(f, n)
    BY <1>3
  <2> DEFINE new(T) == IF T = {} THEN area ELSE After(c, L!last(c, T), f[T \ {L!last(c, T)}])
             g == [T \in SUBSET S |-> IF Cardinality(T) = n THEN new(T) ELSE f[T]]
  <2>2. \A T \in SUBSET S : new(T) \in Rects
    BY <1>1, AfterIsRect
  <2>3. g \in [SUBSET S -> Rects]
    BY <2>2
  <2>4. ASSUME NEW T \in SUBSET S, Cardinality(T) < n + 1 PROVE IsLeft(g, c, area, T)
    <3>1. PICK R : R = T \ {L!last(c, T)}
      OBVIOUS
    <3>2. ASSUME T # {} PROVE g[R] = f[R]
      <4>1. R \in SUBSET S /\ Cardinality(R) = Cardinality(T) - 1
        BY <1>1, <3>1, <3>2
      <4>2. Cardinality(R) # n
        BY <1>0, <2>4, <4>1
      <4>3. QED BY <4>1, <4>2
    <3>3. CASE Cardinality(T) = n
      BY <3>1, <3>2, <3>3 DEF IsLeft
    <3>4. CASE Cardinality(T) # n
      <4>1. IsLeft(f, c, area, T) /\ g[T] = f[T]
        <5>1. Cardinality(T) < n
          BY <1>0, <2>4, <3>4
        <5>2. QED BY <2>1, <3>4, <5>1
      <4>2. QED BY <3>1, <3>2, <4>1 DEF IsLeft
    <3>5. QED BY <3>3, <3>4
  <2> HIDE DEF g
  <2>5. QED BY <2>3, <2>4
<1>4. Nat \subseteq N
  <2> HIDE DEF N
  <2>1. QED BY <1>2, <1>3, Induction
<1>5. Cardinality(S) \in Nat /\ Cardinality(S) + 1 \in N
  <2>1. S \in SUBSET S
    OBVIOUS
  <2>2. Cardinality(S) \in Nat
    BY <1>0, <2>1
  <2> HIDE DEF N
  <2>3. QED BY <1>4, <2>2
<1>6. PICK f \in [SUBSET S -> Rects] : UpTo(f, Cardinality(S) + 1)
  BY <1>5
<1>7. ASSUME NEW T \in SUBSET S PROVE Cardinality(T) < Cardinality(S) + 1
  <2>1. Cardinality(T) <= Cardinality(S)
    BY FS_Subset DEF Asking
  <2>2. QED BY <1>0, <1>5, <2>1
<1>8. QED BY <1>6, <1>7 DEF AllLeft

Alike(c, d, S) == \A p \in S : c[p] = d[p]

\* What is left depends on what is asked alone.
LEMMA LeftAgrees ==
  ASSUME L!PanelsAssumption, NEW c, NEW d, NEW S, Asking(c, S), NEW area,
         Alike(c, d, S), NEW f, NEW g, AllLeft(f, c, area, S), AllLeft(g, d, area, S)
  PROVE  f[S] = g[S]
<1> DEFINE Q == {T \in SUBSET S : f[T] = g[T]}
<1>1. ASSUME NEW T \in SUBSET S, \A x \in T : T \ {x} \in Q PROVE T \in Q
  <2>1. CASE T = {}
    BY <2>1 DEF AllLeft, IsLeft
  <2>2. CASE T # {}
    <3>1. Asking(c, T) /\ Asking(d, T)
      BY FewerAsking DEF Asking, Alike
    <3>2. PICK l : l = L!last(c, T)
      OBVIOUS
    <3>3. IsLast(c, T, l)
      BY <2>2, <3>1, <3>2, OneIsLast
    <3>4. IsLast(d, T, l)
      BY <3>3 DEF IsLast, L!Before, Alike
    <3>5. l = L!last(d, T)
      BY <3>1, <3>4, OneIsLast
    <3>6. l \in T /\ c[l] = d[l] /\ f[T \ {l}] = g[T \ {l}]
      BY <1>1, <3>3 DEF IsLast, Alike
    <3>7. f[T] = After(c, l, f[T \ {l}]) /\ g[T] = After(d, l, g[T \ {l}])
      BY <2>2, <3>2, <3>5 DEF AllLeft, IsLeft
    <3>8. f[T] = g[T]
      BY <3>6, <3>7 DEF After
    <3>9. QED BY <3>8
  <2>3. QED BY <2>1, <2>2
<1>2. S \in Q
  <2>1. IsFiniteSet(S)
    BY DEF Asking
  <2> HIDE DEF Q
  <2>2. QED BY <1>1, <2>1, SetInduction
<1>3. QED BY <1>2

\* usable is such an f.
LEMMA UsableIsLeft ==
  ASSUME L!PanelsAssumption, NEW c, NEW S, Asking(c, S), NEW area \in Rects
  PROVE  \E f \in [SUBSET S -> Rects] : /\ AllLeft(f, c, area, S)
                                        /\ L!usable(c, area, S) = f[S]
<1> DEFINE Makes(f) == [T \in SUBSET S |->
                          IF T = {} THEN area ELSE After(c, L!last(c, T), f[T \ {L!last(c, T)}])]
           F == CHOOSE f : f = Makes(f)
<1>1. PICK f \in [SUBSET S -> Rects] : AllLeft(f, c, area, S)
  BY LeftExists
<1>2. f = Makes(f)
  <2>1. f = [T \in SUBSET S |-> f[T]]
    BY <1>1
  <2>2. QED BY <1>1, <2>1 DEF AllLeft, IsLeft
<1>3. F = Makes(F)
  <2> HIDE DEF Makes
  <2>1. QED BY <1>2
<1>4. L!usable(c, area, S) = F[S]
  BY DEF L!usable, L!MapThenFoldSet, After
<1> HIDE DEF F
<1>5. ASSUME NEW T \in SUBSET S PROVE IsLeft(F, c, area, T)
  BY <1>3 DEF IsLeft
<1>6. ASSUME NEW T \in SUBSET S PROVE f[T] = F[T]
  <2>1. AllLeft(f, c, area, T) /\ AllLeft(F, c, area, T)
    BY <1>1, <1>5 DEF AllLeft
  <2>2. Asking(c, T) /\ Alike(c, c, T)
    BY FewerAsking DEF Alike
  <2>3. QED BY <2>1, <2>2, LeftAgrees
<1>7. F = f
  <2>1. F = [T \in SUBSET S |-> F[T]]
    BY <1>3
  <2>2. QED BY <1>1, <1>6, <2>1
<1>8. QED BY <1>1, <1>4, <1>7

\* The reservations are taken in order, the last one from what the others left.
LEMMA UsableStep ==
  ASSUME L!PanelsAssumption, NEW c, NEW S, Asking(c, S), NEW area \in Rects
  PROVE  /\ L!usable(c, area, S) \in Rects
         /\ S = {} => L!usable(c, area, S) = area
         /\ \A l \in S : IsLast(c, S, l) =>
              L!usable(c, area, S) = After(c, l, L!usable(c, area, S \ {l}))
<1>1. PICK f \in [SUBSET S -> Rects] : /\ AllLeft(f, c, area, S)
                                       /\ L!usable(c, area, S) = f[S]
  BY UsableIsLeft
<1>2. ASSUME NEW l \in S, IsLast(c, S, l)
      PROVE  L!usable(c, area, S) = After(c, l, L!usable(c, area, S \ {l}))
  <2>1. PICK R : R = S \ {l}
    OBVIOUS
  <2>2. Asking(c, R) /\ Alike(c, c, R)
    BY <2>1, FewerAsking DEF Alike
  <2>3. PICK g \in [SUBSET R -> Rects] : /\ AllLeft(g, c, area, R)
                                         /\ L!usable(c, area, R) = g[R]
    BY <2>2, UsableIsLeft
  <2>4. f[R] = g[R]
    <3>1. AllLeft(f, c, area, R) /\ AllLeft(g, c, area, R)
      BY <1>1, <2>1, <2>3 DEF AllLeft
    <3>2. QED BY <2>2, <3>1, LeftAgrees
  <2>5. l = L!last(c, S)
    BY <1>2, OneIsLast
  <2>6. QED BY <1>1, <2>1, <2>3, <2>4, <2>5 DEF AllLeft, IsLeft
<1>3. QED BY <1>1, <1>2 DEF AllLeft, IsLeft

LEMMA SameUsable ==
  ASSUME L!PanelsAssumption, NEW c, NEW d, NEW S, Asking(c, S), NEW area \in Rects,
         Alike(c, d, S)
  PROVE  L!usable(c, area, S) = L!usable(d, area, S)
<1>1. Asking(d, S)
  BY DEF Asking, Alike
<1>2. PICK f \in [SUBSET S -> Rects] : /\ AllLeft(f, c, area, S)
                                       /\ L!usable(c, area, S) = f[S]
  BY UsableIsLeft
<1>3. PICK g \in [SUBSET S -> Rects] : /\ AllLeft(g, d, area, S)
                                       /\ L!usable(d, area, S) = g[S]
  BY <1>1, UsableIsLeft
<1>5. f[S] = g[S]
  BY <1>2, <1>3, LeftAgrees
<1>6. QED BY <1>2, <1>3, <1>5

Reserves(c, p) == c[p].zone > 0

\* A panel that reserves nothing makes no difference.
LEMMA NothingReserved ==
  ASSUME L!PanelsAssumption, NEW c, NEW S, Asking(c, S), NEW area \in Rects,
         NEW p \in S, ~ Reserves(c, p)
  PROVE  L!usable(c, area, S) = L!usable(c, area, S \ {p})
<1> DEFINE Q == {T \in SUBSET S : L!usable(c, area, T) = L!usable(c, area, T \ {p})}
<1>1. ASSUME NEW T \in SUBSET S, \A x \in T : T \ {x} \in Q PROVE T \in Q
  <2>1. CASE p \notin T
    <3>1. T \ {p} = T
      BY <2>1
    <3>2. QED BY <3>1
  <2>2. CASE p \in T
    <3>1. Asking(c, T) /\ Asking(c, T \ {p})
      BY FewerAsking
    <3>2. PICK l \in T : IsLast(c, T, l)
      BY <2>2, <3>1, OneIsLast DEF IsLast
    <3>3. L!usable(c, area, T) = After(c, l, L!usable(c, area, T \ {l}))
      BY <3>1, <3>2, UsableStep
    <3>4. CASE l = p
      BY <3>3, <3>4 DEF After, Reserves
    <3>5. CASE l # p
      <4>1. PICK R : R = T \ {p}
        OBVIOUS
      <4>2. l \in R /\ IsLast(c, R, l)
        BY <3>2, <3>5, <4>1 DEF IsLast
      <4>3. L!usable(c, area, R) = After(c, l, L!usable(c, area, R \ {l}))
        BY <3>1, <4>1, <4>2, UsableStep
      <4>4. R \ {l} = (T \ {l}) \ {p}
        BY <4>1
      <4>5. L!usable(c, area, T \ {l}) = L!usable(c, area, (T \ {l}) \ {p})
        BY <1>1, <3>2
      <4>6. QED BY <3>3, <4>1, <4>3, <4>4, <4>5
    <3>6. QED BY <3>4, <3>5
  <2>3. QED BY <2>1, <2>2
<1>2. S \in Q
  <2>1. IsFiniteSet(S)
    BY DEF Asking
  <2> HIDE DEF Q
  <2>2. QED BY <1>1, <2>1, SetInduction
<1>3. QED BY <1>2

-----------------------------------------------------------------------------
(* Placing a panel in the room it has.                                     *)

LEMMA HalfIsANumber ==
  ASSUME NEW n \in Int
  PROVE  /\ L!Half(n) \in Int
         /\ n >= 0 => 0 <= L!Half(n) /\ L!Half(n) <= n
         /\ n < 0 => n <= L!Half(n) + L!Half(n) /\ L!Half(n) <= 0
<1>1. n \div 2 \in Int /\ (-n) \div 2 \in Int
  OBVIOUS
<1>2. CASE n >= 0
  BY <1>1, <1>2 DEF L!Half
<1>3. CASE n < 0
  BY <1>1, <1>3 DEF L!Half
<1>4. QED BY <1>2, <1>3

\* What along makes of an axis with the edges e and f.
AlongAxis(start, length, at, room, e, f, r, size) ==
  <<start, length>> = L!along(at, room, e \in r.anchor, f \in r.anchor, r.margin, size)

\* A panel is as long as it asked for at the one edge it is anchored to, and stays
\* in its room if it fits there.
OnAxis(start, length, at, room, e, f, r, size) ==
  /\ start \in Int /\ length \in Nat
  /\ e \in r.anchor /\ f \notin r.anchor => start = at + r.margin /\ length = size
  /\ f \in r.anchor /\ e \notin r.anchor =>
       start = at + room - r.margin - size /\ length = size
  /\ r.margin >= 0 /\ length + r.margin <= room => at <= start /\ start + length <= at + room

LEMMA AlongOneAxis ==
  ASSUME NEW at \in Int, NEW room \in Nat, NEW e, NEW f, NEW r, r.margin \in Int,
         NEW size \in Nat, NEW start, NEW length,
         AlongAxis(start, length, at, room, e, f, r, size)
  PROVE  OnAxis(start, length, at, room, e, f, r, size)
<1> DEFINE from == at + (IF e \in r.anchor THEN r.margin ELSE 0)
           to == at + room - (IF f \in r.anchor THEN r.margin ELSE 0)
           span == L!NotBelowZero(to - from)
<1>1. from \in Int /\ to \in Int /\ span \in Nat
  BY DEF L!NotBelowZero
<1>2. length = IF size > 0 THEN size ELSE IF e \in r.anchor /\ f \in r.anchor THEN span ELSE 0
  BY DEF L!along, AlongAxis
<1>3. start = CASE e \in r.anchor /\ f \notin r.anchor -> from
                [] f \in r.anchor /\ e \notin r.anchor -> to - length
                [] OTHER -> from + L!Half(span - length)
  BY <1>2 DEF L!along, AlongAxis
<1>4. length \in Nat
  BY <1>1, <1>2
<1>5. CASE e \in r.anchor /\ f \notin r.anchor
  BY <1>1, <1>2, <1>3, <1>5 DEF OnAxis
<1>6. CASE f \in r.anchor /\ e \notin r.anchor
  BY <1>1, <1>2, <1>3, <1>6 DEF OnAxis
<1>7. CASE (e \in r.anchor /\ f \in r.anchor) \/ (e \notin r.anchor /\ f \notin r.anchor)
  <2>1. start = from + L!Half(span - length)
    BY <1>3, <1>7
  <2>2. PICK half \in Int : half = L!Half(span - length)
    BY <1>1, <1>4, HalfIsANumber
  <2>3. /\ span - length >= 0 => 0 <= half /\ half <= span - length
        /\ span - length < 0 => span - length <= half + half /\ half <= 0
    BY <1>1, <1>4, <2>2, HalfIsANumber
  <2>4. /\ to - from >= 0 => span = to - from
        /\ to - from < 0 => span = 0
    BY <1>1 DEF L!NotBelowZero
  <2> HIDE DEF span
  <2>5. QED BY <1>1, <1>4, <1>7, <2>1, <2>2, <2>3, <2>4 DEF OnAxis
<1>8. QED BY <1>5, <1>6, <1>7

Inside(b, a) ==
  /\ a.x <= b.x /\ b.x + b.w <= a.x + a.w
  /\ a.y <= b.y /\ b.y + b.h <= a.y + a.h

LEMMA PlaceGives ==
  ASSUME NEW area \in Rects, NEW r \in L!LayerSurfaceStatePending, NEW is, is = L!place(area, r)
  PROVE  /\ is \in Rects
         /\ "top" \in r.anchor /\ "bottom" \notin r.anchor =>
              is.y = area.y + r.margin /\ is.h = r.size[2]
         /\ "bottom" \in r.anchor /\ "top" \notin r.anchor =>
              is.y = area.y + area.h - r.margin - r.size[2] /\ is.h = r.size[2]
         /\ "left" \in r.anchor /\ "right" \notin r.anchor =>
              is.x = area.x + r.margin /\ is.w = r.size[1]
         /\ "right" \in r.anchor /\ "left" \notin r.anchor =>
              is.x = area.x + area.w - r.margin - r.size[1] /\ is.w = r.size[1]
         /\ r.margin >= 0 /\ is.w + r.margin <= area.w /\ is.h + r.margin <= area.h =>
              Inside(is, area)
<1>1. /\ area.x \in Int /\ area.y \in Int /\ area.w \in Nat /\ area.h \in Nat
      /\ r.size[1] \in Nat /\ r.size[2] \in Nat /\ r.margin \in Int
  BY DEF Rects, L!LayerSurfaceStatePending
<1>3. PICK across : across = L!along(area.x, area.w, "left" \in r.anchor, "right" \in r.anchor,
                                       r.margin, r.size[1])
  OBVIOUS
<1>4. PICK down : down = L!along(area.y, area.h, "top" \in r.anchor, "bottom" \in r.anchor,
                                   r.margin, r.size[2])
  OBVIOUS
<1>5. is = [x |-> across[1], w |-> across[2], y |-> down[1], h |-> down[2]]
  BY <1>3, <1>4 DEF L!place
<1>6. across = <<across[1], across[2]>> /\ down = <<down[1], down[2]>>
  BY <1>3, <1>4 DEF L!along
<1>7. PICK x, w : x = across[1] /\ w = across[2] /\ <<x, w>> = across
  BY <1>6
<1>8. PICK y, h : y = down[1] /\ h = down[2] /\ <<y, h>> = down
  BY <1>6
<1>9. OnAxis(x, w, area.x, area.w, "left", "right", r, r.size[1])
  <2>1. AlongAxis(x, w, area.x, area.w, "left", "right", r, r.size[1])
    BY <1>3, <1>7 DEF AlongAxis
  <2>2. QED BY <1>1, <2>1, AlongOneAxis
<1>10. OnAxis(y, h, area.y, area.h, "top", "bottom", r, r.size[2])
  <2>1. AlongAxis(y, h, area.y, area.h, "top", "bottom", r, r.size[2])
    BY <1>4, <1>8 DEF AlongAxis
  <2>2. QED BY <1>1, <2>1, AlongOneAxis
<1>11. is.x = x /\ is.w = w /\ is.y = y /\ is.h = h /\ is = [x |-> x, w |-> w, y |-> y, h |-> h]
  BY <1>5, <1>7, <1>8
<1>12. is \in Rects
  BY <1>9, <1>10, <1>11 DEF Rects, OnAxis
<1>13. QED BY <1>9, <1>10, <1>11, <1>12 DEF Inside, OnAxis

-----------------------------------------------------------------------------
(* What is reserved is clear.                                              *)

\* The anchors that reserve a strip, at the edge e.
Across(e) == {"left", "right", e}
Upright(e) == {"top", "bottom", e}

\* An area that does not reach to where a panel is that reserves a strip of it.
Beyond(anchor, k, a) ==
  /\ anchor = Across("top") => k.y + k.h <= a.y
  /\ anchor = Across("bottom") => a.h = 0 \/ a.y + a.h <= k.y
  /\ anchor = Upright("left") => k.x + k.w <= a.x
  /\ anchor = Upright("right") => a.w = 0 \/ a.x + a.w <= k.x

LEMMA AnchorsDiffer ==
  /\ Across("top") # Across("bottom") /\ Across("top") # Upright("left")
  /\ Across("top") # Upright("right") /\ Across("bottom") # Upright("left")
  /\ Across("bottom") # Upright("right") /\ Upright("left") # Upright("right")
<1>1. /\ "top" \in Across("top") /\ "bottom" \notin Across("top")
      /\ "top" \notin Across("bottom") /\ "bottom" \in Across("bottom")
      /\ \A e \in {"left", "right"} : {"top", "bottom"} \subseteq Upright(e)
      /\ "left" \in Upright("left") /\ "left" \notin Upright("right")
  BY DEF Across, Upright
<1>2. QED BY <1>1

LEMMA ShrinkGives ==
  ASSUME NEW a \in Rects, NEW anchor, NEW z \in Nat, NEW b, b = L!shrink(a, anchor, z)
  PROVE  /\ b \in Rects
         /\ \/ anchor = Across("top") /\ b.x = a.x /\ b.w = a.w
                                      /\ b.y = a.y + z /\ b.h = L!NotBelowZero(a.h - z)
            \/ anchor = Across("bottom") /\ b.x = a.x /\ b.w = a.w
                                         /\ b.y = a.y /\ b.h = L!NotBelowZero(a.h - z)
            \/ anchor = Upright("left") /\ b.y = a.y /\ b.h = a.h
                                        /\ b.x = a.x + z /\ b.w = L!NotBelowZero(a.w - z)
            \/ anchor = Upright("right") /\ b.y = a.y /\ b.h = a.h
                                         /\ b.x = a.x /\ b.w = L!NotBelowZero(a.w - z)
            \/ /\ b = a
               /\ anchor \notin {Across("top"), Across("bottom"), Upright("left"), Upright("right")}
<1>1. /\ a.x + z \in Int /\ a.y + z \in Int
      /\ L!NotBelowZero(a.w - z) \in Nat /\ L!NotBelowZero(a.h - z) \in Nat
  BY DEF Rects, L!NotBelowZero
<1>2. CASE anchor = Across("top")
  <2>1. b = [a EXCEPT !.y = @ + z, !.h = L!NotBelowZero(@ - z)]
    BY <1>2, AnchorsDiffer DEF L!shrink, Across, Upright
  <2>2. QED BY <1>1, <1>2, <2>1 DEF Rects
<1>3. CASE anchor = Across("bottom")
  <2>1. b = [a EXCEPT !.h = L!NotBelowZero(@ - z)]
    BY <1>3, AnchorsDiffer DEF L!shrink, Across, Upright
  <2>2. QED BY <1>1, <1>3, <2>1 DEF Rects
<1>4. CASE anchor = Upright("left")
  <2>1. b = [a EXCEPT !.x = @ + z, !.w = L!NotBelowZero(@ - z)]
    BY <1>4, AnchorsDiffer DEF L!shrink, Across, Upright
  <2>2. QED BY <1>1, <1>4, <2>1 DEF Rects
<1>5. CASE anchor = Upright("right")
  <2>1. b = [a EXCEPT !.w = L!NotBelowZero(@ - z)]
    BY <1>5, AnchorsDiffer DEF L!shrink, Across, Upright
  <2>2. QED BY <1>1, <1>5, <2>1 DEF Rects
<1>6. CASE anchor \notin {Across("top"), Across("bottom"), Upright("left"), Upright("right")}
  <2>1. b = a
    BY <1>6 DEF L!shrink, Across, Upright
  <2>2. QED BY <1>6, <2>1
<1>7. QED BY <1>2, <1>3, <1>4, <1>5, <1>6

\* What a panel leaves does not reach to it.
LEMMA BeyondAtFirst ==
  ASSUME NEW room \in Rects, NEW r \in L!LayerSurfaceStatePending, r.zone > 0, L!FitsItsZone(r)
  PROVE  Beyond(r.anchor, L!place(room, r), L!shrink(room, r.anchor, r.zone))
<1>1. PICK k : k = L!place(room, r)
  OBVIOUS
<1>2. PICK a : a = L!shrink(room, r.anchor, r.zone)
  OBVIOUS
<1>3. /\ r.size[1] \in Nat /\ r.size[2] \in Nat /\ r.margin \in Int /\ r.zone \in Nat
      /\ room.x \in Int /\ room.y \in Int /\ room.w \in Nat /\ room.h \in Nat
  BY DEF L!LayerSurfaceStatePending, Rects
<1>4. k \in Rects /\ a \in Rects
  BY <1>1, <1>2, <1>3, PlaceGives, ShrinkGives
<1>5. CASE r.anchor = Across("top")
  <2>1. "top" \in r.anchor /\ "bottom" \notin r.anchor
    BY <1>5 DEF Across
  <2>2. k.y = room.y + r.margin /\ k.h = r.size[2]
    BY <1>1, <2>1, PlaceGives
  <2>3. r.size[2] + r.margin <= r.zone
    BY <1>5, AnchorsDiffer DEF L!FitsItsZone, Across, Upright
  <2>4. a.y = room.y + r.zone
    BY <1>2, <1>3, <1>5, AnchorsDiffer, ShrinkGives
  <2>5. k.y + k.h <= a.y
    BY <1>3, <2>2, <2>3, <2>4
  <2>6. QED BY <1>1, <1>2, <1>5, <2>5, AnchorsDiffer DEF Beyond
<1>6. CASE r.anchor = Across("bottom")
  <2>1. "bottom" \in r.anchor /\ "top" \notin r.anchor
    BY <1>6 DEF Across
  <2>2. k.y = room.y + room.h - r.margin - r.size[2]
    BY <1>1, <2>1, PlaceGives
  <2>3. r.size[2] + r.margin <= r.zone
    BY <1>6, AnchorsDiffer DEF L!FitsItsZone, Across, Upright
  <2>4. a.y = room.y /\ a.h = L!NotBelowZero(room.h - r.zone)
    BY <1>2, <1>3, <1>6, AnchorsDiffer, ShrinkGives
  <2>5. a.h = 0 \/ a.y + a.h <= k.y
    BY <1>3, <2>2, <2>3, <2>4 DEF L!NotBelowZero
  <2>6. QED BY <1>1, <1>2, <1>6, <2>5, AnchorsDiffer DEF Beyond
<1>7. CASE r.anchor = Upright("left")
  <2>1. "left" \in r.anchor /\ "right" \notin r.anchor
    BY <1>7 DEF Upright
  <2>2. k.x = room.x + r.margin /\ k.w = r.size[1]
    BY <1>1, <2>1, PlaceGives
  <2>3. r.size[1] + r.margin <= r.zone
    BY <1>7, AnchorsDiffer DEF L!FitsItsZone, Across, Upright
  <2>4. a.x = room.x + r.zone
    BY <1>2, <1>3, <1>7, AnchorsDiffer, ShrinkGives
  <2>5. k.x + k.w <= a.x
    BY <1>3, <2>2, <2>3, <2>4
  <2>6. QED BY <1>1, <1>2, <1>7, <2>5, AnchorsDiffer DEF Beyond
<1>8. CASE r.anchor = Upright("right")
  <2>1. "right" \in r.anchor /\ "left" \notin r.anchor
    BY <1>8 DEF Upright
  <2>2. k.x = room.x + room.w - r.margin - r.size[1]
    BY <1>1, <2>1, PlaceGives
  <2>3. r.size[1] + r.margin <= r.zone
    BY <1>8, AnchorsDiffer DEF L!FitsItsZone, Across, Upright
  <2>4. a.x = room.x /\ a.w = L!NotBelowZero(room.w - r.zone)
    BY <1>2, <1>3, <1>8, AnchorsDiffer, ShrinkGives
  <2>5. a.w = 0 \/ a.x + a.w <= k.x
    BY <1>3, <2>2, <2>3, <2>4 DEF L!NotBelowZero
  <2>6. QED BY <1>1, <1>2, <1>8, <2>5, AnchorsDiffer DEF Beyond
<1>9. CASE r.anchor \notin {Across("top"), Across("bottom"), Upright("left"), Upright("right")}
  BY <1>9 DEF Beyond
<1>10. QED BY <1>5, <1>6, <1>7, <1>8, <1>9

\* Nor does what others leave of that.
LEMMA BeyondStays ==
  ASSUME NEW a \in Rects, NEW k \in Rects, NEW anchor, Beyond(anchor, k, a),
         NEW edges, NEW z \in Nat
  PROVE  Beyond(anchor, k, L!shrink(a, edges, z))
<1>1. PICK b : b = L!shrink(a, edges, z)
  OBVIOUS
<1>2. /\ a.x \in Int /\ a.y \in Int /\ a.w \in Nat /\ a.h \in Nat
      /\ k.x \in Int /\ k.y \in Int /\ k.w \in Nat /\ k.h \in Nat
  BY DEF Rects
<1>3. /\ a.y <= b.y /\ a.x <= b.x
      /\ b.h = 0 \/ b.y + b.h <= a.y + a.h
      /\ b.w = 0 \/ b.x + b.w <= a.x + a.w
      /\ a.h = 0 => b.h = 0
      /\ a.w = 0 => b.w = 0
      /\ b.x \in Int /\ b.y \in Int /\ b.w \in Nat /\ b.h \in Nat
  <2>1. b \in Rects
    BY <1>1, ShrinkGives
  <2>2. QED BY <1>1, <1>2, <2>1, ShrinkGives DEF L!NotBelowZero, Rects
<1>4. QED BY <1>1, <1>2, <1>3 DEF Beyond

LEMMA BeyondIsClear ==
  ASSUME NEW a \in Rects, NEW k \in Rects, NEW b \in Rects,
         NEW anchor \in {Across("top"), Across("bottom"), Upright("left"), Upright("right")},
         Beyond(anchor, k, a), Inside(b, a)
  PROVE  ~ L!Overlap(k, b)
<1>1. /\ a.x \in Int /\ a.y \in Int /\ a.w \in Nat /\ a.h \in Nat
      /\ k.x \in Int /\ k.y \in Int /\ k.w \in Nat /\ k.h \in Nat
      /\ b.x \in Int /\ b.y \in Int /\ b.w \in Nat /\ b.h \in Nat
  BY DEF Rects
<1>2. \/ k.y + k.h <= a.y
      \/ a.h = 0 \/ a.y + a.h <= k.y
      \/ k.x + k.w <= a.x
      \/ a.w = 0 \/ a.x + a.w <= k.x
  BY DEF Beyond
<1>3. QED BY <1>1, <1>2 DEF Inside, L!Overlap

-----------------------------------------------------------------------------
(* Panels on outputs, as constants, so as to speak of two states.          *)

\* full, earlier, within and geometry, of outputs os, each panel's output ou and
\* what is asked c.
Full(os, o) == [x |-> 0, y |-> 0, w |-> os[o].w, h |-> os[o].h]

Earlier(ou, c, p) == {q \in Panels : ou[q] = ou[p] /\ L!Before(c, q, p)}

Within(os, ou, c, p) ==
  IF c[p].zone < 0 THEN Full(os, ou[p])
  ELSE L!usable(c, Full(os, ou[p]), Earlier(ou, c, p))

Geometry(os, ou, c, p) == L!place(Within(os, ou, c, p), c[p])

LEMMA StatesAgree ==
  /\ \A c, p : L!within(c, p) = Within(outputs, output, c, p)
  /\ \A c, p : L!geometry(c, p) = Geometry(outputs, output, c, p)
BY DEF L!within, L!geometry, L!full, L!earlier, Within, Geometry, Full, Earlier

LEMMA StatesAgreeNext ==
  \A p : L!geometry(current, p)' = Geometry(outputs', output', current', p)
BY DEF L!within, L!geometry, L!full, L!earlier, Within, Geometry, Full, Earlier

\* The panels on an output, those that are there, and those that are drawn.
On(ou, o) == {p \in Panels : ou[p] = o}

There(ou) == {p \in Panels : ou[p] # None}

Drawn(os, ou, p) == p \in Panels /\ ou[p] # None /\ os[ou[p]] # None

Arrangement(os, ou, c) ==
  /\ os \in [Outputs -> Areas \cup {None}] /\ ou \in [Panels -> Outputs \cup {None}]
  /\ Asking(c, There(ou))

LEMMA DrawnInRects ==
  ASSUME L!PanelsAssumption, NEW os, NEW ou, NEW c, Arrangement(os, ou, c),
         NEW p, Drawn(os, ou, p)
  PROVE  /\ Full(os, ou[p]) \in Rects
         /\ c[p] \in L!LayerSurfaceStatePending
         /\ Asking(c, On(ou, ou[p])) /\ Earlier(ou, c, p) \subseteq On(ou, ou[p])
         /\ Asking(c, Earlier(ou, c, p))
         /\ Within(os, ou, c, p) \in Rects
         /\ Geometry(os, ou, c, p) \in Rects
<1>1. p \in Panels /\ ou[p] \in Outputs /\ os[ou[p]] \in Areas
  BY DEF Drawn, Arrangement
<1>2. os[ou[p]].w \in Nat /\ os[ou[p]].h \in Nat
  BY <1>1 DEF L!PanelsAssumption
<1>3. Full(os, ou[p]) \in Rects
  BY <1>2 DEF Full, Rects
<1>4. On(ou, ou[p]) \subseteq There(ou) /\ p \in There(ou)
  BY DEF On, There, Drawn
<1>5. c[p] \in L!LayerSurfaceStatePending /\ Asking(c, On(ou, ou[p]))
  <2>1. Asking(c, There(ou))
    BY DEF Arrangement
  <2>2. QED BY <1>4, <2>1, FewerAsking DEF Asking
<1>6. Earlier(ou, c, p) \subseteq On(ou, ou[p])
  BY DEF Earlier, On
<1>7. Asking(c, Earlier(ou, c, p))
  BY <1>5, <1>6, FewerAsking
<1>8. Within(os, ou, c, p) \in Rects
  BY <1>3, <1>7, UsableStep DEF Within
<1>9. Geometry(os, ou, c, p) \in Rects
  <2>1. PICK is : is = Geometry(os, ou, c, p)
    OBVIOUS
  <2>2. QED BY <1>5, <1>8, <2>1, PlaceGives DEF Geometry
<1>10. QED BY <1>3, <1>5, <1>6, <1>7, <1>8, <1>9

\* Where a panel is drawn depends on its output and on what is asked there.
LEMMA SameGeometry ==
  ASSUME L!PanelsAssumption, NEW os, NEW ou, NEW c, Arrangement(os, ou, c),
         NEW ps, NEW pu, NEW d, Arrangement(ps, pu, d),
         NEW q, Drawn(os, ou, q), pu[q] = ou[q], ps[pu[q]] = os[ou[q]],
         On(pu, pu[q]) = On(ou, ou[q]), Alike(c, d, On(ou, ou[q]))
  PROVE  Geometry(ps, pu, d, q) = Geometry(os, ou, c, q)
<1>1. q \in On(ou, ou[q]) /\ d[q] = c[q] /\ Full(ps, pu[q]) = Full(os, ou[q])
  BY DEF On, Drawn, Full, Alike
<1>2. Earlier(pu, d, q) = Earlier(ou, c, q)
  BY <1>1 DEF Earlier, On, Alike, L!Before
<1>3. Alike(c, d, Earlier(ou, c, q))
  BY DEF Alike, Earlier, On
<1>4. L!usable(c, Full(os, ou[q]), Earlier(ou, c, q))
        = L!usable(d, Full(os, ou[q]), Earlier(ou, c, q))
  BY <1>3, DrawnInRects, SameUsable
<1>5. QED BY <1>1, <1>2, <1>4 DEF Geometry, Within

Comes(ou, c, pu, d, p, o, layer) ==
  /\ ou[p] = None /\ pu = [ou EXCEPT ![p] = o]
  /\ DOMAIN c = Panels /\ d = [c EXCEPT ![p] = L!Default(layer)]

\* A panel that is new moves nobody: it has reserved nothing yet.
LEMMA NewPanelMovesNobody ==
  ASSUME L!PanelsAssumption, NEW os, NEW ou, NEW c, Arrangement(os, ou, c),
         NEW pu, NEW d, Arrangement(os, pu, d),
         NEW p, NEW o, NEW layer, Comes(ou, c, pu, d, p, o, layer),
         NEW q, Drawn(os, ou, q)
  PROVE  Geometry(os, pu, d, q) = Geometry(os, ou, c, q)
<1>1. q # p /\ pu[q] = ou[q] /\ d[q] = c[q] /\ DOMAIN ou = Panels
  BY DEF Drawn, Arrangement, Comes
<1>2. PICK E : E = Earlier(ou, c, q)
  OBVIOUS
<1>3. PICK E2 : E2 = Earlier(pu, d, q)
  OBVIOUS
<1>4. ASSUME NEW r \in Panels, r # p PROVE r \in E <=> r \in E2
  BY <1>1, <1>2, <1>3, <1>4 DEF Earlier, L!Before, Comes
<1>5. p \notin E /\ E \subseteq Panels /\ E2 \subseteq Panels
  BY <1>2, <1>3 DEF Earlier, Drawn, Comes
<1>6. E = E2 \/ (p \in E2 /\ E = E2 \ {p})
  BY <1>4, <1>5
<1>7. Alike(c, d, E)
  BY <1>5 DEF Alike, Comes
<1>8. PICK full \in Rects : full = Full(os, ou[q])
  BY DrawnInRects
<1>9. Asking(c, E) /\ Asking(d, E2)
  <2>1. Drawn(os, pu, q)
    BY <1>1 DEF Drawn
  <2>2. QED BY <1>2, <1>3, <2>1, DrawnInRects
<1>10. L!usable(d, full, E2) = L!usable(d, full, E)
  <2>1. CASE p \in E2 /\ E = E2 \ {p}
    <3>1. p \in Panels
      BY <1>5, <2>1
    <3>2. ~ Reserves(d, p)
      BY <3>1 DEF Reserves, L!Default, Comes
    <3>3. L!usable(d, full, E2) = L!usable(d, full, E2 \ {p})
      BY <1>8, <1>9, <2>1, <3>2, NothingReserved
    <3>4. QED BY <2>1, <3>3
  <2>2. QED BY <1>6, <2>1
<1>11. L!usable(c, full, E) = L!usable(d, full, E)
  BY <1>7, <1>9, SameUsable
<1>12. QED BY <1>1, <1>2, <1>3, <1>8, <1>10, <1>11 DEF Geometry, Within

\* What is left after p, and after any of the panels that follow it.
LEMMA LaterRoomIsBeyond ==
  ASSUME L!PanelsAssumption, NEW os, NEW ou, NEW c, Arrangement(os, ou, c),
         NEW p, Drawn(os, ou, p), c[p].zone > 0, L!FitsItsZone(c[p]),
         NEW S \in SUBSET On(ou, ou[p]), p \in S, Earlier(ou, c, p) \subseteq S
  PROVE  Beyond(c[p].anchor, Geometry(os, ou, c, p), L!usable(c, Full(os, ou[p]), S))
<1>1. PICK o : o = ou[p]
  OBVIOUS
<1>2. PICK E : E = Earlier(ou, c, p)
  OBVIOUS
<1>3. PICK full \in Rects : full = Full(os, o)
  BY <1>1, DrawnInRects
<1>4. PICK k : k = Geometry(os, ou, c, p)
  OBVIOUS
<1>5. k \in Rects /\ c[p] \in L!LayerSurfaceStatePending /\ Asking(c, On(ou, o)) /\ Asking(c, S)
  BY <1>1, <1>4, DrawnInRects, FewerAsking
<1>6. p \notin E /\ \A q \in On(ou, o) : q \in E <=> L!Before(c, q, p)
  <2>1. p \in On(ou, o)
    BY <1>1 DEF On, Drawn
  <2>2. ~ L!Before(c, p, p)
    BY <1>5, <2>1, PanelsAreOrdered
  <2>3. QED BY <1>1, <1>2, <2>2 DEF Earlier, On
<1> DEFINE Q == {T \in SUBSET S : p \in T /\ E \subseteq T =>
                   Beyond(c[p].anchor, k, L!usable(c, full, T))}
<1>7. ASSUME NEW T \in SUBSET S, \A x \in T : T \ {x} \in Q, p \in T, E \subseteq T
      PROVE  Beyond(c[p].anchor, k, L!usable(c, full, T))
  <2>1. Asking(c, T)
    BY <1>5, FewerAsking
  <2>2. PICK l \in T : IsLast(c, T, l)
    BY <1>7, <2>1, OneIsLast DEF IsLast
  <2>3. L!usable(c, full, T) = After(c, l, L!usable(c, full, T \ {l}))
    BY <2>1, <2>2, UsableStep
  <2>4. CASE l = p
    <3>1. T \ {p} = E
      <4>1. ASSUME NEW q \in T \ {p} PROVE q \in E
        BY <1>1, <1>6, <2>2, <2>4 DEF IsLast
      <4>2. QED BY <1>6, <1>7, <4>1
    <3>2. Within(os, ou, c, p) = L!usable(c, full, E)
      <4>1. ~ (c[p].zone < 0)
        BY <1>5 DEF L!LayerSurfaceStatePending
      <4>2. QED BY <1>1, <1>2, <1>3, <4>1 DEF Within
    <3>3. PICK room \in Rects : room = Within(os, ou, c, p)
      BY DrawnInRects
    <3>4. L!usable(c, full, T) = L!shrink(room, c[p].anchor, c[p].zone)
      BY <2>3, <2>4, <3>1, <3>2, <3>3 DEF After
    <3>5. k = L!place(room, c[p])
      BY <1>4, <3>3 DEF Geometry
    <3>6. QED BY <1>5, <3>3, <3>4, <3>5, BeyondAtFirst
  <2>5. CASE l # p
    <3>1. l \notin E
      <4>1. L!Before(c, p, l) /\ l \in On(ou, o) /\ p \in On(ou, o)
        BY <1>1, <1>7, <2>2, <2>5 DEF IsLast
      <4>2. ~ L!Before(c, l, p)
        BY <1>5, <4>1, PanelsAreOrdered
      <4>3. QED BY <1>6, <4>1, <4>2
    <3>2. PICK a : a = L!usable(c, full, T \ {l})
      OBVIOUS
    <3>3. Beyond(c[p].anchor, k, a)
      BY <1>7, <2>2, <2>5, <3>1, <3>2
    <3>4. a \in Rects
      <4>1. Asking(c, T \ {l})
        BY <2>1, FewerAsking
      <4>2. QED BY <3>2, <4>1, UsableStep
    <3>5. CASE c[l].zone > 0
      <4>1. c[l].zone \in Nat
        BY <2>1, <3>5 DEF Asking, L!LayerSurfaceStatePending
      <4>2. Beyond(c[p].anchor, k, L!shrink(a, c[l].anchor, c[l].zone))
        BY <1>5, <3>3, <3>4, <4>1, BeyondStays
      <4>3. QED BY <2>3, <3>2, <3>5, <4>2 DEF After
    <3>6. CASE ~ (c[l].zone > 0)
      BY <2>3, <3>2, <3>3, <3>6 DEF After
    <3>7. QED BY <3>5, <3>6
  <2>6. QED BY <2>4, <2>5
<1>8. S \in Q
  <2>1. IsFiniteSet(S)
    BY <1>5 DEF Asking
  <2>2. ASSUME NEW T \in SUBSET S, \A x \in T : T \ {x} \in Q PROVE T \in Q
    BY <1>7, <2>2
  <2> HIDE DEF Q
  <2>3. QED BY <2>1, <2>2, SetInduction
<1>9. QED BY <1>1, <1>2, <1>3, <1>4, <1>8

-----------------------------------------------------------------------------
(* The invariant.                                                          *)

\* A panel that is there has asked, and only such a panel was placed or told.
Asked(ou, pe, po, to) ==
  \A p \in Panels : /\ ou[p] # None => pe[p] # None
                    /\ ou[p] = None => po[p] = None /\ to[p] = None

\* A panel's client has the size, and its surface the place, that it is drawn with.
Knows(os, ou, c, p, size, at) ==
  /\ size = <<Geometry(os, ou, c, p).w, Geometry(os, ou, c, p).h>>
  /\ at # None => at = <<Geometry(os, ou, c, p).x, Geometry(os, ou, c, p).y>>

AllKnow(os, ou, c, po, to, un) ==
  \A p \in Panels : Drawn(os, ou, p) /\ ou[p] \notin un /\ to[p] # None =>
                      Knows(os, ou, c, p, to[p], po[p])

PanelsInv ==
  /\ L!TypeOK
  /\ Arrangement(outputs, output, current)
  /\ Asked(output, pending, position, sizeTold)
  /\ AllKnow(outputs, output, current, position, sizeTold, unsettled)

LEMMA KnowingAgrees ==
  L!PanelsKnowTheirPlace <=> AllKnow(outputs, output, current, position, sizeTold, unsettled)
<1>1. \A p \in Panels : L!Arranged(p) <=> Drawn(outputs, output, p)
  BY DEF L!Arranged, Drawn
<1>2. \A p : L!geometry(current, p) = Geometry(outputs, output, current, p)
  BY StatesAgree
<1>3. QED BY <1>1, <1>2 DEF L!PanelsKnowTheirPlace, AllKnow, Knows, L!Size

LEMMA InvNext ==
  /\ L!TypeOK' /\ Arrangement(outputs', output', current')
  /\ Asked(output', pending', position', sizeTold')
  /\ AllKnow(outputs', output', current', position', sizeTold', unsettled')
  => PanelsInv'
BY DEF PanelsInv

LEMMA DefaultIsPending ==
  ASSUME NEW layer \in L!LayerKind
  PROVE  L!Default(layer) \in L!LayerSurfaceStatePending /\ L!Default(layer).zone = 0
<1>1. {} \in SUBSET {"left", "right", "top", "bottom"} /\ <<0, 0>> \in Nat \X Nat /\ 0 \in Int
  OBVIOUS
<1>2. QED BY <1>1 DEF L!Default, L!LayerSurfaceStatePending

\* Who is drawn in the same state knows as much.
LEMMA StillKnows ==
  ASSUME L!PanelsAssumption, NEW os, NEW ou, NEW c, Arrangement(os, ou, c),
         NEW ps, NEW pu, NEW d, Arrangement(ps, pu, d),
         NEW q, NEW size, NEW at, NEW at2,
         Drawn(os, ou, q), Geometry(ps, pu, d, q) = Geometry(os, ou, c, q),
         Knows(os, ou, c, q, size, at), at2 \in {at, None}
  PROVE  Knows(ps, pu, d, q, size, at2)
BY DEF Knows

LEMMA InitKnows == L!PanelsAssumption /\ L!Init => PanelsInv
<1> SUFFICES ASSUME L!PanelsAssumption, L!Init PROVE PanelsInv
  OBVIOUS
<1>1. L!TypeOK
  BY DEF L!Init, L!TypeOK, L!PanelsAssumption
<1>2. There(output) = {} /\ \A p \in Panels : output[p] = None
  BY DEF There, L!Init
<1>3. Arrangement(outputs, output, current)
  BY <1>1, <1>2, FS_EmptySet DEF Arrangement, Asking, L!TypeOK
<1>4. Asked(output, pending, position, sizeTold)
  BY <1>2 DEF Asked, L!Init
<1>5. AllKnow(outputs, output, current, position, sizeTold, unsettled)
  BY <1>2 DEF AllKnow, Drawn
<1>6. QED BY <1>1, <1>3, <1>4, <1>5 DEF PanelsInv

\* A panel comes: it is told nothing, and moves nobody.
LEMMA GetLayerSurfaceKeeps ==
  ASSUME L!PanelsAssumption, PanelsInv, NEW p \in Panels, NEW o \in Outputs,
         NEW layer \in L!LayerKind, L!GetLayerSurface(p, o, layer)
  PROVE  PanelsInv'
<1>1. /\ output[p] = None /\ o # None
      /\ outputs' = outputs /\ sizeTold' = sizeTold /\ unsettled' = unsettled
      /\ output' = [output EXCEPT ![p] = o]
      /\ pending' = [pending EXCEPT ![p] = L!Default(layer)]
      /\ current' = [current EXCEPT ![p] = L!Default(layer)]
      /\ position' = [position EXCEPT ![p] = <<0, 0>>]
      /\ unanswered' = unanswered /\ configured' = configured
  BY DEF L!GetLayerSurface, L!PanelsAssumption
<1>2. /\ L!TypeOK /\ Arrangement(outputs, output, current)
      /\ Asked(output, pending, position, sizeTold)
      /\ AllKnow(outputs, output, current, position, sizeTold, unsettled)
  BY DEF PanelsInv
<1>3. L!Default(layer) \in L!LayerSurfaceStatePending /\ L!Default(layer) # None
  BY DefaultIsPending DEF L!PanelsAssumption
<1>4. L!TypeOK'
  BY <1>1, <1>2, <1>3 DEF L!TypeOK
<1>5. PICK ou, c : ou = output' /\ c = current'
  OBVIOUS
<1>6. Arrangement(outputs, ou, c)
  <2>1. There(ou) = There(output) \cup {p}
    BY <1>1, <1>2, <1>5 DEF There, L!TypeOK
  <2>2. IsFiniteSet(There(ou)) /\ There(ou) \subseteq Panels
    BY <1>2, <2>1, FS_AddElement DEF Arrangement, Asking
  <2>3. \A q \in There(ou) : c[q] \in L!LayerSurfaceStatePending
    BY <1>1, <1>2, <1>3, <1>5, <2>1 DEF Arrangement, Asking, L!TypeOK
  <2>4. QED BY <1>1, <1>2, <1>5, <2>2, <2>3 DEF Arrangement, Asking
<1>7. Asked(output', pending', position', sizeTold')
  BY <1>1, <1>2, <1>3 DEF Asked, L!TypeOK
<1>8. ASSUME NEW q \in Panels, Drawn(outputs, ou, q), ou[q] \notin unsettled, sizeTold[q] # None
      PROVE  Knows(outputs, ou, c, q, sizeTold[q], position'[q])
  <2>1. q # p
    BY <1>1, <1>2, <1>8 DEF Asked
  <2>2. ou[q] = output[q] /\ position'[q] = position[q] /\ Drawn(outputs, output, q)
    BY <1>1, <1>2, <1>5, <1>8, <2>1 DEF Drawn, L!TypeOK
  <2>3. Knows(outputs, output, current, q, sizeTold[q], position[q])
    BY <1>2, <1>8, <2>2 DEF AllKnow
  <2>4. DOMAIN current = Panels
    BY <1>2 DEF L!TypeOK
  <2>5. Geometry(outputs, ou, c, q) = Geometry(outputs, output, current, q)
    <3>1. Comes(output, current, ou, c, p, o, layer)
      BY <1>1, <1>5, <2>4 DEF Comes
    <3>2. QED BY <1>2, <1>6, <2>2, <3>1, NewPanelMovesNobody
  <2>6. QED BY <1>2, <1>6, <2>2, <2>3, <2>5, StillKnows
<1>9. AllKnow(outputs, ou, c, position', sizeTold', unsettled')
  BY <1>1, <1>8 DEF AllKnow
<1>10. QED BY <1>1, <1>4, <1>5, <1>6, <1>7, <1>9, InvNext

\* Whoever is on an output where nothing changes knows as much as before.
LEMMA ElsewhereKnows ==
  ASSUME L!PanelsAssumption, NEW os, NEW ou, NEW c, Arrangement(os, ou, c),
         NEW ps, NEW pu, NEW d, Arrangement(ps, pu, d),
         NEW po, NEW to, NEW un, AllKnow(os, ou, c, po, to, un),
         NEW q \in Panels, Drawn(ps, pu, q), pu[q] \notin un, to[q] # None,
         ps[pu[q]] = os[pu[q]], On(pu, pu[q]) = On(ou, pu[q]), Alike(c, d, On(ou, pu[q])),
         NEW at \in {po[q], None}
  PROVE  Knows(ps, pu, d, q, to[q], at)
<1>1. q \in On(ou, pu[q]) /\ ou[q] = pu[q]
  BY DEF On
<1>2. Drawn(os, ou, q)
  BY <1>1 DEF Drawn
<1>3. Knows(os, ou, c, q, to[q], po[q])
  BY <1>1, <1>2 DEF AllKnow
<1>4. Geometry(ps, pu, d, q) = Geometry(os, ou, c, q)
  BY <1>1, <1>2, SameGeometry
<1>5. QED BY <1>2, <1>3, <1>4, StillKnows

\* A commit places everybody on its output again.
LEMMA CommitKeeps ==
  ASSUME L!PanelsAssumption, PanelsInv, NEW p \in Panels, L!Commit(p)
  PROVE  PanelsInv'
<1>1. /\ output[p] # None /\ position[p] # None
      /\ outputs' = outputs /\ output' = output /\ pending' = pending /\ configured' = configured
      /\ current' = [current EXCEPT ![p] = pending[p]]
  BY DEF L!Commit
<1>2. /\ L!TypeOK /\ Arrangement(outputs, output, current)
      /\ Asked(output, pending, position, sizeTold)
      /\ AllKnow(outputs, output, current, position, sizeTold, unsettled)
  BY DEF PanelsInv
<1>3. PICK c : c = current'
  OBVIOUS
<1>4. pending[p] \in L!LayerSurfaceStatePending
  BY <1>1, <1>2 DEF Asked, L!TypeOK
<1>5. /\ c \in [Panels -> L!LayerSurfaceStatePending \cup {None}]
      /\ c[p] = pending[p] /\ \A q \in Panels \ {p} : c[q] = current[q]
  BY <1>1, <1>2, <1>3, <1>4 DEF L!TypeOK
<1>6. Arrangement(outputs, output, c)
  BY <1>2, <1>4, <1>5 DEF Arrangement, Asking
<1>7. ASSUME NEW q \in Panels, output[q] # output[p]
      PROVE  Alike(current, c, On(output, output[q]))
  BY <1>5, <1>7 DEF Alike, On
<1>8. CASE outputs[output[p]] = None
  <2>1. /\ position' = position /\ sizeTold' = sizeTold /\ unanswered' = unanswered
        /\ unsettled' = unsettled
    BY <1>8 DEF L!Commit
  <2>2. L!TypeOK'
    BY <1>1, <1>2, <1>3, <1>5, <2>1 DEF L!TypeOK
  <2>3. ASSUME NEW q \in Panels, Drawn(outputs, output, q), output[q] \notin unsettled,
               sizeTold[q] # None
        PROVE  Knows(outputs, output, c, q, sizeTold[q], position[q])
    <3>1. output[q] # output[p]
      BY <1>8, <2>3 DEF Drawn
    <3>2. Alike(current, c, On(output, output[q]))
      BY <1>7, <3>1
    <3>3. QED BY <1>2, <1>6, <2>3, <3>2, ElsewhereKnows
  <2>4. AllKnow(outputs', output', c, position', sizeTold', unsettled')
    BY <1>1, <2>1, <2>3 DEF AllKnow
  <2>5. QED BY <1>1, <1>2, <1>3, <1>6, <2>1, <2>2, <2>4, InvNext
<1>9. CASE outputs[output[p]] # None
  <2> DEFINE new(q) == L!geometry(c, q)
             ps == {q \in Panels : output[q] = output[p]}
  <2>1. /\ position' = [q \in Panels |-> IF q \in ps /\ position[q] # None
                                         THEN <<new(q).x, new(q).y>> ELSE position[q]]
        /\ sizeTold' = [q \in Panels |-> IF q \in ps THEN <<new(q).w, new(q).h>> ELSE sizeTold[q]]
        /\ unanswered' = [q \in Panels |-> IF q \in ps /\ sizeTold[q] # <<new(q).w, new(q).h>>
                                           THEN unanswered[q] + 1 ELSE unanswered[q]]
        /\ \A q \in Panels : unanswered'[q] <= MaxUnanswered
        /\ unsettled' = unsettled \ {output[p]}
    BY <1>3, <1>9 DEF L!Commit, L!configure, L!reconfigured, L!Size
  <2>2. ASSUME NEW q \in ps
        PROVE  /\ Drawn(outputs, output, q) /\ new(q) = Geometry(outputs, output, c, q)
               /\ new(q).x \in Int /\ new(q).y \in Int /\ new(q).w \in Nat /\ new(q).h \in Nat
    <3>1. Drawn(outputs, output, q)
      BY <1>1, <1>9 DEF Drawn
    <3>2. new(q) = Geometry(outputs, output, c, q)
      BY StatesAgree
    <3>3. Geometry(outputs, output, c, q) \in Rects
      BY <1>6, <3>1, DrawnInRects
    <3>4. QED BY <3>1, <3>2, <3>3 DEF Rects
  <2> HIDE DEF new
  <2>3. L!TypeOK'
    <3>1. position' \in [Panels -> (Int \X Int) \cup {None}]
      BY <1>2, <2>1, <2>2 DEF L!TypeOK
    <3>2. sizeTold' \in [Panels -> (Nat \X Nat) \cup {None}]
      BY <1>2, <2>1, <2>2 DEF L!TypeOK
    <3>3. unanswered' \in [Panels -> 0 .. MaxUnanswered]
      <4>1. ASSUME NEW q \in Panels PROVE unanswered'[q] \in 0 .. MaxUnanswered
        <5>1. unanswered[q] \in Nat /\ MaxUnanswered \in Nat /\ unanswered'[q] <= MaxUnanswered
          BY <1>2, <2>1 DEF L!TypeOK, L!PanelsAssumption
        <5>2. unanswered'[q] = unanswered[q] + 1 \/ unanswered'[q] = unanswered[q]
          BY <2>1
        <5>3. QED BY <5>1, <5>2
      <4>2. unanswered' = [q \in Panels |-> unanswered'[q]]
        BY <2>1
      <4>3. QED BY <4>1, <4>2
    <3>4. current' \in [Panels -> L!LayerSurfaceStatePending \cup {None}]
      BY <1>3, <1>5
    <3>5. unsettled' \subseteq Outputs
      BY <1>2, <2>1 DEF L!TypeOK
    <3>6. /\ outputs \in [Outputs -> Areas \cup {None}]
          /\ output \in [Panels -> Outputs \cup {None}]
          /\ pending \in [Panels -> L!LayerSurfaceStatePending \cup {None}]
          /\ configured \in [Panels -> BOOLEAN]
      BY <1>2 DEF L!TypeOK
    <3>7. QED BY <1>1, <3>1, <3>2, <3>3, <3>4, <3>5, <3>6 DEF L!TypeOK
  <2>4. Asked(output', pending', position', sizeTold')
    <3>1. ASSUME NEW q \in Panels, output[q] = None
          PROVE  position'[q] = None /\ sizeTold'[q] = None
      BY <1>1, <1>2, <2>1, <3>1 DEF Asked
    <3>2. QED BY <1>1, <1>2, <3>1 DEF Asked
  <2>5. ASSUME NEW q \in Panels, Drawn(outputs, output, q), output[q] \notin unsettled',
               sizeTold'[q] # None
        PROVE  Knows(outputs, output, c, q, sizeTold'[q], position'[q])
    <3>1. CASE q \in ps
      <4>1. sizeTold'[q] = <<new(q).w, new(q).h>>
        BY <2>1, <3>1
      <4>2. position'[q] # None => position'[q] = <<new(q).x, new(q).y>>
        BY <2>1, <3>1
      <4>3. new(q) = Geometry(outputs, output, c, q)
        BY <2>2, <3>1
      <4>4. QED BY <4>1, <4>2, <4>3 DEF Knows
    <3>2. CASE q \notin ps
      <4>1. output[q] # output[p] /\ output[q] \notin unsettled
        BY <2>1, <2>5, <3>2
      <4>2. sizeTold'[q] = sizeTold[q] /\ position'[q] = position[q]
        BY <2>1, <3>2
      <4>3. Alike(current, c, On(output, output[q]))
        BY <1>7, <4>1
      <4>4. Knows(outputs, output, c, q, sizeTold[q], position[q])
        BY <1>2, <1>6, <2>5, <4>1, <4>2, <4>3, ElsewhereKnows
      <4>5. QED BY <4>2, <4>4
    <3>3. QED BY <3>1, <3>2
  <2>6. AllKnow(outputs', output', c, position', sizeTold', unsettled')
    BY <1>1, <2>5 DEF AllKnow
  <2>7. QED BY <1>1, <1>3, <1>6, <2>3, <2>4, <2>6, InvNext
<1>10. QED BY <1>8, <1>9

\* Asking, answering and a surface that goes leave everybody where he is.
LEMMA NobodyMoves ==
  ASSUME L!PanelsAssumption, PanelsInv, L!TypeOK',
         outputs' = outputs, output' = output, current' = current, sizeTold' = sizeTold,
         unsettled' = unsettled, Asked(output, pending', position', sizeTold),
         \A q \in Panels : position'[q] \in {position[q], None}
  PROVE  PanelsInv'
<1>1. /\ Arrangement(outputs, output, current)
      /\ AllKnow(outputs, output, current, position, sizeTold, unsettled)
  BY DEF PanelsInv
<1>2. AllKnow(outputs, output, current, position', sizeTold, unsettled)
  BY <1>1 DEF AllKnow, Knows
<1>3. QED BY <1>1, <1>2, InvNext

LEMMA SmallStepsKeep ==
  ASSUME L!PanelsAssumption, PanelsInv, NEW p \in Panels,
         \/ \E r \in Requests : L!Ask(p, r)
         \/ \E n \in 1 .. MaxUnanswered : L!AckConfigure(p, n)
         \/ L!DestroySurface(p)
  PROVE  PanelsInv'
<1>1. /\ L!TypeOK /\ Asked(output, pending, position, sizeTold)
  BY DEF PanelsInv
<1>2. ASSUME NEW r \in Requests, L!Ask(p, r) PROVE PanelsInv'
  <2>1. r \in L!LayerSurfaceStatePending /\ r # None
    BY DEF L!PanelsAssumption
  <2>2. L!TypeOK'
    BY <1>1, <1>2, <2>1 DEF L!Ask, L!TypeOK
  <2>3. Asked(output, pending', position', sizeTold)
    BY <1>1, <1>2, <2>1 DEF L!Ask, Asked, L!TypeOK
  <2>4. QED BY <1>2, <2>2, <2>3, NobodyMoves DEF L!Ask
<1>3. ASSUME NEW n \in 1 .. MaxUnanswered, L!AckConfigure(p, n) PROVE PanelsInv'
  <2>1. unanswered[p] - n \in 0 .. MaxUnanswered
    <3>1. /\ n \in Nat /\ n <= unanswered[p]
          /\ unanswered[p] \in 0 .. MaxUnanswered /\ MaxUnanswered \in Nat
      BY <1>1, <1>3 DEF L!AckConfigure, L!TypeOK, L!PanelsAssumption
    <3>2. QED BY <3>1
  <2>2. L!TypeOK'
    BY <1>1, <1>3, <2>1 DEF L!AckConfigure, L!TypeOK
  <2>3. Asked(output, pending', position', sizeTold)
    BY <1>1, <1>3 DEF L!AckConfigure
  <2>4. QED BY <1>3, <2>2, <2>3, NobodyMoves DEF L!AckConfigure
<1>4. ASSUME L!DestroySurface(p) PROVE PanelsInv'
  <2>1. L!TypeOK'
    BY <1>1, <1>4 DEF L!DestroySurface, L!TypeOK
  <2>2. \A q \in Panels : position'[q] \in {position[q], None}
    BY <1>1, <1>4 DEF L!DestroySurface, L!TypeOK
  <2>3. Asked(output, pending', position', sizeTold)
    BY <1>1, <1>4, <2>2 DEF L!DestroySurface, Asked
  <2>4. QED BY <1>4, <2>1, <2>2, <2>3, NobodyMoves DEF L!DestroySurface
<1>5. QED BY <1>2, <1>3, <1>4

\* A panel goes, and its output waits to be arranged.
LEMMA DestroyKeeps ==
  ASSUME L!PanelsAssumption, PanelsInv, NEW p \in Panels, L!Destroy(p)
  PROVE  PanelsInv'
<1>1. /\ output[p] # None /\ outputs' = outputs /\ unsettled' = unsettled \cup {output[p]}
      /\ output' = [output EXCEPT ![p] = None]
      /\ pending' = [pending EXCEPT ![p] = None] /\ current' = [current EXCEPT ![p] = None]
      /\ position' = [position EXCEPT ![p] = None] /\ sizeTold' = [sizeTold EXCEPT ![p] = None]
      /\ unanswered' = [unanswered EXCEPT ![p] = 0]
      /\ configured' = [configured EXCEPT ![p] = FALSE]
  BY DEF L!Destroy
<1>2. /\ L!TypeOK /\ Arrangement(outputs, output, current)
      /\ Asked(output, pending, position, sizeTold)
      /\ AllKnow(outputs, output, current, position, sizeTold, unsettled)
  BY DEF PanelsInv
<1>3. L!TypeOK'
  <2>1. 0 \in 0 .. MaxUnanswered /\ output[p] \in Outputs
    BY <1>1, <1>2 DEF L!TypeOK, L!PanelsAssumption
  <2>2. QED BY <1>1, <1>2, <2>1 DEF L!TypeOK
<1>4. PICK ou, c : ou = output' /\ c = current'
  OBVIOUS
<1>5. /\ ou[p] = None /\ \A q \in Panels \ {p} : ou[q] = output[q] /\ c[q] = current[q]
      /\ sizeTold'[p] = None /\ position'[p] = None /\ pending'[p] = None
      /\ \A q \in Panels \ {p} : /\ sizeTold'[q] = sizeTold[q] /\ position'[q] = position[q]
                                 /\ pending'[q] = pending[q]
  BY <1>1, <1>2, <1>4 DEF L!TypeOK
<1>6. Arrangement(outputs, ou, c)
  <2>1. There(ou) \subseteq There(output) \ {p}
    BY <1>5 DEF There
  <2>2. Asking(current, There(ou))
    BY <1>2, <2>1, FewerAsking DEF Arrangement
  <2>3. Asking(c, There(ou))
    BY <1>5, <2>1, <2>2 DEF Asking
  <2>4. QED BY <1>1, <1>2, <1>3, <1>4, <2>3 DEF Arrangement, L!TypeOK
<1>7. Asked(ou, pending', position', sizeTold')
  BY <1>2, <1>5 DEF Asked
<1>8. ASSUME NEW q \in Panels, Drawn(outputs, ou, q), ou[q] \notin unsettled', sizeTold'[q] # None
      PROVE  Knows(outputs, ou, c, q, sizeTold'[q], position'[q])
  <2>1. q # p /\ ou[q] = output[q] /\ output[q] # output[p] /\ output[q] \notin unsettled
    BY <1>1, <1>5, <1>8 DEF Drawn
  <2>2. On(ou, ou[q]) = On(output, ou[q]) /\ Alike(current, c, On(output, ou[q]))
    BY <1>5, <1>8, <2>1 DEF On, Alike, Drawn
  <2>3. sizeTold'[q] = sizeTold[q] /\ position'[q] = position[q]
    BY <1>5, <2>1
  <2>4. Knows(outputs, ou, c, q, sizeTold[q], position[q])
    BY <1>2, <1>6, <1>8, <2>1, <2>2, <2>3, ElsewhereKnows
  <2>5. QED BY <2>3, <2>4
<1>9. AllKnow(outputs', ou, c, position', sizeTold', unsettled')
  BY <1>1, <1>8 DEF AllKnow
<1>10. QED BY <1>1, <1>3, <1>4, <1>6, <1>7, <1>9, InvNext

\* An output comes, goes or changes its size, and waits to be arranged.
LEMMA SetOutputKeeps ==
  ASSUME L!PanelsAssumption, PanelsInv, NEW o \in Outputs, NEW area \in Areas \cup {None},
         L!SetOutput(o, area)
  PROVE  PanelsInv'
<1>1. /\ outputs' = [outputs EXCEPT ![o] = area] /\ unsettled' = unsettled \cup {o}
      /\ output' = output /\ pending' = pending /\ current' = current /\ position' = position
      /\ sizeTold' = sizeTold /\ unanswered' = unanswered /\ configured' = configured
  BY DEF L!SetOutput
<1>2. /\ L!TypeOK /\ Arrangement(outputs, output, current)
      /\ Asked(output, pending, position, sizeTold)
      /\ AllKnow(outputs, output, current, position, sizeTold, unsettled)
  BY DEF PanelsInv
<1>3. L!TypeOK'
  BY <1>1, <1>2 DEF L!TypeOK
<1>4. PICK os : os = outputs'
  OBVIOUS
<1>5. Arrangement(os, output, current)
  BY <1>1, <1>2, <1>3, <1>4 DEF Arrangement, L!TypeOK
<1>6. ASSUME NEW q \in Panels, Drawn(os, output, q), output[q] \notin unsettled', sizeTold[q] # None
      PROVE  Knows(os, output, current, q, sizeTold[q], position[q])
  <2>1. /\ output[q] \in Outputs \ {o} /\ output[q] \notin unsettled
        /\ os[output[q]] = outputs[output[q]]
    BY <1>1, <1>2, <1>4, <1>6 DEF L!TypeOK, Drawn
  <2>2. Alike(current, current, On(output, output[q]))
    BY DEF Alike
  <2>3. QED BY <1>2, <1>5, <1>6, <2>1, <2>2, ElsewhereKnows
<1>7. AllKnow(os, output, current, position, sizeTold, unsettled')
  BY <1>6 DEF AllKnow
<1>8. QED BY <1>1, <1>2, <1>3, <1>4, <1>5, <1>7, InvNext

LEMMA PanelsStep == L!PanelsAssumption /\ PanelsInv /\ [L!Next]_(L!vars) => PanelsInv'
<1> SUFFICES ASSUME L!PanelsAssumption, PanelsInv, [L!Next]_(L!vars) PROVE PanelsInv'
  OBVIOUS
<1>1. CASE UNCHANGED L!vars
  <2>1. /\ outputs' = outputs /\ output' = output /\ pending' = pending /\ current' = current
        /\ position' = position /\ sizeTold' = sizeTold /\ unanswered' = unanswered
        /\ configured' = configured /\ unsettled' = unsettled
    BY <1>1 DEF L!vars
  <2>2. L!TypeOK'
    BY <2>1 DEF PanelsInv, L!TypeOK
  <2>3. QED BY <2>1, <2>2, InvNext DEF PanelsInv
<1>2. CASE L!Next
  <2>1. \A l \in {r.layer : r \in Requests} : l \in L!LayerKind
    BY DEF L!PanelsAssumption, L!LayerSurfaceStatePending
  <2>2. CASE \E p \in Panels, o \in Outputs, l \in {r.layer : r \in Requests} :
               L!GetLayerSurface(p, o, l)
    BY <2>1, <2>2, GetLayerSurfaceKeeps
  <2>3. CASE \E p \in Panels : \/ \E r \in Requests : L!Ask(p, r)
                               \/ \E n \in 1 .. MaxUnanswered : L!AckConfigure(p, n)
                               \/ L!DestroySurface(p)
    BY <2>3, SmallStepsKeep
  <2>4. CASE \E p \in Panels : L!Commit(p) \/ L!Destroy(p)
    BY <2>4, CommitKeeps, DestroyKeeps
  <2>5. CASE \E o \in Outputs, area \in Areas \cup {None} : L!SetOutput(o, area)
    BY <2>5, SetOutputKeeps
  <2>6. QED BY <1>2, <2>2, <2>3, <2>4, <2>5 DEF L!Next
<1>3. QED BY <1>1, <1>2

LEMMA PanelsInvariance == L!PanelsAssumption /\ L!Spec => []PanelsInv
<1> SUFFICES ASSUME L!PanelsAssumption PROVE L!Spec => []PanelsInv
  OBVIOUS
<1>1. L!Init => PanelsInv
  BY InitKnows
<1>2. PanelsInv /\ [L!Next]_(L!vars) => PanelsInv'
  BY PanelsStep
<1>3. QED BY <1>1, <1>2, PTL DEF L!Spec

\* Every variable has its type: wherever a panel is put, it has a place and a size
\* that is none below zero.
THEOREM PanelsTyped ==
  ASSUME L!PanelsAssumption
  PROVE  L!Spec => []L!TypeOK
<1>1. PanelsInv => L!TypeOK
  BY DEF PanelsInv
<1>2. QED BY <1>1, PanelsInvariance, PTL

\* Each panel's menus hang from where it is drawn, and its client was last sent the
\* size it is drawn at, however many panels come, change their zones and share an
\* output, as long as none has gone and the output is as it was since somebody on it
\* last committed; a panel that only comes moves nobody (reconfigure_output_layers,
\* configure, handle_get_layer_surface).
THEOREM PanelsAreTold ==
  ASSUME L!PanelsAssumption
  PROVE  L!Spec => []L!PanelsKnowTheirPlace
<1>1. PanelsInv => L!PanelsKnowTheirPlace
  BY KnowingAgrees DEF PanelsInv
<1>2. QED BY <1>1, PanelsInvariance, PTL

\* All of it is in how panels are arranged: every state of the right types has it.
LEMMA NothingReachesIn == L!PanelsAssumption /\ PanelsInv => L!ReservedIsClear
<1> SUFFICES ASSUME L!PanelsAssumption, PanelsInv, NEW p \in Panels,
                    L!Arranged(p), current[p].zone > 0, L!FitsItsZone(current[p])
             PROVE  LET here == {q \in Panels : output[q] = output[p]}
                    IN  /\ ~ L!Overlap(L!geometry(current, p),
                                       L!usable(current, L!full(output[p]), here))
                        /\ \A q \in here :
                             (p \in L!earlier(current, q) /\ current[q].zone >= 0 /\ L!Fits(q)) =>
                               ~ L!Overlap(L!geometry(current, p), L!geometry(current, q))
  BY DEF L!ReservedIsClear
<1>1. PICK os, ou, c : os = outputs /\ ou = output /\ c = current
  OBVIOUS
<1>2. Arrangement(os, ou, c) /\ Drawn(os, ou, p)
  BY <1>1 DEF PanelsInv, L!Arranged, Drawn
<1>3. PICK k : k = Geometry(os, ou, c, p)
  OBVIOUS
<1>4. PICK full : full = Full(os, ou[p])
  OBVIOUS
<1>5. PICK here : here = On(ou, ou[p])
  OBVIOUS
<1>6. /\ k = L!geometry(current, p) /\ full = L!full(output[p])
      /\ here = {q \in Panels : output[q] = output[p]}
  BY <1>1, <1>3, <1>4, <1>5, StatesAgree DEF L!full, Full, On
<1>7. /\ k \in Rects /\ full \in Rects /\ Asking(c, here) /\ Earlier(ou, c, p) \subseteq here
      /\ c[p] \in L!LayerSurfaceStatePending /\ p \in here
  BY <1>2, <1>3, <1>4, <1>5, DrawnInRects DEF Drawn, On
<1>8. /\ c[p].zone > 0 /\ L!FitsItsZone(c[p])
      /\ c[p].anchor \in {Across("top"), Across("bottom"), Upright("left"), Upright("right")}
  BY <1>1 DEF L!FitsItsZone, Across, Upright
<1>9. ~ L!Overlap(k, L!usable(c, full, here))
  <2>1. PICK a : a = L!usable(c, full, here)
    OBVIOUS
  <2>2. a \in Rects
    BY <1>7, <2>1, UsableStep
  <2>3. Beyond(c[p].anchor, k, a)
    BY <1>2, <1>3, <1>4, <1>5, <1>7, <1>8, <2>1, LaterRoomIsBeyond
  <2>4. Inside(a, a)
    BY <2>2 DEF Inside, Rects
  <2>5. QED BY <1>7, <1>8, <2>1, <2>2, <2>3, <2>4, BeyondIsClear
<1>10. ASSUME NEW q \in here, p \in L!earlier(current, q), current[q].zone >= 0, L!Fits(q)
       PROVE  ~ L!Overlap(k, L!geometry(current, q))
  <2>1. Drawn(os, ou, q) /\ ou[q] = ou[p]
    BY <1>2, <1>5 DEF Drawn, On
  <2>2. PICK E : E = Earlier(ou, c, q)
    OBVIOUS
  <2>3. p \in E /\ E \subseteq here
    BY <1>1, <1>5, <1>10, <2>1, <2>2 DEF L!earlier, Earlier, On
  <2>4. Earlier(ou, c, p) \subseteq E
    <3>1. ASSUME NEW r \in Earlier(ou, c, p) PROVE r \in E
      <4>1. r \in here /\ L!Before(c, r, p) /\ L!Before(c, p, q)
        BY <1>7, <2>2, <2>3 DEF Earlier
      <4>2. L!Before(c, r, q)
        BY <1>7, <1>10, <4>1, PanelsAreOrdered
      <4>3. QED BY <1>5, <2>1, <2>2, <4>1, <4>2 DEF Earlier, On
    <3>2. QED BY <3>1
  <2>5. PICK room : room = Within(os, ou, c, q)
    OBVIOUS
  <2>6. /\ room \in Rects /\ c[q] \in L!LayerSurfaceStatePending
        /\ room = L!usable(c, full, E)
    <3>1. ~ (c[q].zone < 0)
      <4>1. c[q].zone \in Int
        BY <1>2, <2>1, DrawnInRects DEF L!LayerSurfaceStatePending
      <4>2. QED BY <1>1, <1>10, <4>1
    <3>2. QED BY <1>2, <1>4, <2>1, <2>2, <2>5, <3>1, DrawnInRects DEF Within
  <2>7. Beyond(c[p].anchor, k, room)
    <3>1. E \in SUBSET On(ou, ou[p])
      BY <1>5, <2>3
    <3>2. QED BY <1>2, <1>3, <1>4, <1>8, <2>3, <2>4, <2>6, <3>1, LaterRoomIsBeyond
  <2>8. PICK is : is = L!geometry(current, q)
    OBVIOUS
  <2>9. is = L!place(room, c[q])
    BY <1>1, <2>5, <2>8, StatesAgree DEF Geometry
  <2>10. /\ c[q].margin >= 0 /\ is.w + c[q].margin <= room.w /\ is.h + c[q].margin <= room.h
    BY <1>1, <1>10, <2>5, <2>8, StatesAgree DEF L!Fits
  <2>11. is \in Rects /\ Inside(is, room)
    BY <2>6, <2>9, <2>10, PlaceGives
  <2>12. QED BY <1>7, <1>8, <2>6, <2>7, <2>8, <2>11, BeyondIsClear
<1>11. QED BY <1>1, <1>6, <1>9, <1>10

\* Nothing that is arranged after a panel and fits the room it is given, nor a
\* maximised window, reaches into what the panel reserved, whatever zones, layers,
\* anchors and margins are asked for and however many strips come between (arrange,
\* shrink, place).
THEOREM ReservedStaysClear ==
  ASSUME L!PanelsAssumption
  PROVE  L!Spec => []L!ReservedIsClear
<1>1. PanelsInv => L!ReservedIsClear
  BY NothingReachesIn
<1>2. QED BY <1>1, PanelsInvariance, PTL
=============================================================================
