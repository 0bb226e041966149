------------------------- MODULE SurfaceTree_proof -------------------------
(***************************************************************************)
(* Proofs about SurfaceTree, for any finite set of surfaces, and any       *)
(* screens and bounds.                                                     *)
(*                                                                         *)
(* The walks over the tree are recursive functions over the number of      *)
(* steps taken; ReachableIsLeast says once what such a walk comes to, by   *)
(* induction over the steps, and the rest of the module only uses that.    *)
(*                                                                         *)
(* None of the properties is inductive by itself:                          *)
(*   - that the links agree needs ListedAgree, a surface is listed only    *)
(*     while it has a wl_subsurface object, and holds only for a client    *)
(*     that never has two objects for one surface (run tree_relink shows   *)
(*     what happens otherwise);                                            *)
(*   - that walks down end follows from it and from NoRing, that walks up  *)
(*     end, which needs no such client;                                    *)
(*   - that commits land in order needs OrderKept, what is cached with     *)
(*     nothing to apply it has been noted in leftBehind;                   *)
(*   - that a tree lands together is proved of each step, from what        *)
(*     apply_surface_state visits after the links have changed.            *)
(***************************************************************************)
EXTENDS SurfaceTree, SequenceTheorems, FiniteSetTheorems, WellFoundedInduction, TLAPS

-----------------------------------------------------------------------------
(* Induction, over a set of numbers: what the walks and the lists need.    *)

LEMMA LeastNumber ==
  ASSUME NEW T \in SUBSET Nat, T # {}
  PROVE  \E n \in T : \A m \in T : n <= m
<1>1. IsWellFoundedOn(OpToRel(<, Nat), Nat)
  BY NatLessThanWellFounded
<1>2. \E n \in T : \A m \in T : ~ (<<m, n>> \in OpToRel(<, Nat))
  BY <1>1, WFMin, Zenon
<1>3. ASSUME NEW n \in Nat, NEW m \in Nat, m < n
      PROVE  <<m, n>> \in OpToRel(<, Nat)
  <2>1. <<m, n>> \in Nat \X Nat
    OBVIOUS
  <2>2. <<m, n>>[1] < <<m, n>>[2]
    BY <1>3
  <2>3. QED BY <2>1, <2>2, Zenon DEF OpToRel
<1>4. \E n \in T : \A m \in T : ~ (m < n)
  BY <1>2, <1>3, Zenon
<1>5. QED BY <1>4

LEMMA Induction ==
  ASSUME NEW T, 0 \in T, \A n \in Nat : n \in T => n + 1 \in T
  PROVE  Nat \subseteq T
<1> SUFFICES ASSUME Nat \ T # {} PROVE FALSE
  OBVIOUS
<1>1. PICK n \in Nat \ T : \A m \in Nat \ T : n <= m
  BY LeastNumber
<1>2. n # 0 /\ n - 1 \in Nat /\ (n - 1) + 1 = n
  BY <1>1
<1>3. n - 1 \in T
  BY <1>1, <1>2
<1>4. QED BY <1>1, <1>2, <1>3

-----------------------------------------------------------------------------
(* A walk over the surfaces comes to the least set that contains its start *)
(* and all that `next' leads to from there: the bound on its steps, which  *)
(* is the code's, never cuts it short.                                     *)

IsWithin(f, start, next, last) ==
  f = [n \in 0 .. last |->
        IF n = 0 THEN start
        ELSE f[n - 1] \cup UNION {next[x] : x \in f[n - 1]}]

LEMMA WithinExists ==
  ASSUME NEW start, NEW next, NEW last \in Nat
  PROVE  \E f : IsWithin(f, start, next, last)
<1> DEFINE T == {n \in Nat : \E f : IsWithin(f, start, next, n)}
<1>1. 0 \in T
  <2>1. IsWithin([n \in 0 .. 0 |-> start], start, next, 0)
    BY DEF IsWithin
  <2>2. QED BY <2>1
<1>2. ASSUME NEW n \in Nat, n \in T
      PROVE  n + 1 \in T
  <2>1. PICK f : IsWithin(f, start, next, n)
    BY <1>2
  <2> DEFINE g == [m \in 0 .. (n + 1) |->
                    IF m = n + 1 THEN f[n] \cup UNION {next[x] : x \in f[n]} ELSE f[m]]
  <2>2. \A m \in 0 .. n : g[m] = f[m]
    OBVIOUS
  <2>3. g[n + 1] = f[n] \cup UNION {next[x] : x \in f[n]}
    OBVIOUS
  <2>4. \A m \in 0 .. n : f[m] = IF m = 0 THEN start
                                  ELSE f[m - 1] \cup UNION {next[x] : x \in f[m - 1]}
    BY <2>1 DEF IsWithin
  <2>5. g = [m \in 0 .. (n + 1) |-> g[m]]
    OBVIOUS
  <2> HIDE DEF g
  <2>6. \A m \in 0 .. (n + 1) :
          g[m] = IF m = 0 THEN start ELSE g[m - 1] \cup UNION {next[x] : x \in g[m - 1]}
    <3> SUFFICES ASSUME NEW m \in 0 .. (n + 1)
                 PROVE  g[m] = IF m = 0 THEN start
                               ELSE g[m - 1] \cup UNION {next[x] : x \in g[m - 1]}
      OBVIOUS
    <3>1. CASE m = n + 1
      <4>1. m # 0 /\ m - 1 = n /\ g[m - 1] = f[n]
        BY <2>2, <3>1
      <4>2. QED BY <2>3, <3>1, <4>1
    <3>2. CASE m \in 0 .. n
      <4>1. m # 0 => m - 1 \in 0 .. n
        BY <3>2
      <4>2. QED BY <2>2, <2>4, <3>2, <4>1
    <3>3. QED BY <3>1, <3>2
  <2>7. IsWithin(g, start, next, n + 1)
    BY <2>5, <2>6 DEF IsWithin
  <2>8. QED BY <2>7
<1> HIDE DEF T
<1>3. Nat \subseteq T
  BY <1>1, <1>2, Induction
<1>4. QED BY <1>3 DEF T

LEMMA ReachableIsWithin ==
  ASSUME NEW start, NEW next
  PROVE  \E f : IsWithin(f, start, next, Steps) /\ Reachable(start, next) = f[Steps]
<1>1. Steps \in Nat
  BY SurfacesAssumption, FS_CardinalityType DEF Steps
<1>2. \E f : IsWithin(f, start, next, Steps)
  BY <1>1, WithinExists
<1>3. QED BY <1>2 DEF IsWithin, Reachable

LEMMA ReachableIsLeast ==
  ASSUME NEW start \in SUBSET Surfaces, NEW next \in [Surfaces -> SUBSET Surfaces]
  PROVE  /\ start \subseteq Reachable(start, next)
         /\ Reachable(start, next) \subseteq Surfaces
         /\ \A x \in Reachable(start, next) : next[x] \subseteq Reachable(start, next)
         /\ \A T : start \subseteq T /\ (\A x \in T \cap Surfaces : next[x] \subseteq T)
              => Reachable(start, next) \subseteq T
<1>1. Steps \in Nat /\ IsFiniteSet(Surfaces) /\ Cardinality(Surfaces) < Steps
  BY SurfacesAssumption, FS_CardinalityType DEF Steps
<1>2. PICK f : IsWithin(f, start, next, Steps) /\ Reachable(start, next) = f[Steps]
  BY ReachableIsWithin
<1>3. f[0] = start
  BY <1>1, <1>2 DEF IsWithin
<1>4. ASSUME NEW n \in Nat, n + 1 <= Steps
      PROVE  f[n + 1] = f[n] \cup UNION {next[x] : x \in f[n]}
  <2>1. n + 1 \in 0 .. Steps /\ n + 1 # 0 /\ (n + 1) - 1 = n
    BY <1>1, <1>4
  <2>2. \A m \in 0 .. Steps : f[m] = IF m = 0 THEN start
                                     ELSE f[m - 1] \cup UNION {next[x] : x \in f[m - 1]}
    BY <1>2 DEF IsWithin
  <2>3. QED BY <2>1, <2>2
<1> DEFINE Closed(X) == \A x \in X : next[x] \subseteq X
           Fine(X, n) == /\ start \subseteq X /\ X \subseteq Surfaces
                         /\ Closed(X) \/ Cardinality(X) >= n
                         /\ \A T : start \subseteq T /\ (\A x \in T \cap Surfaces : next[x] \subseteq T)
                              => X \subseteq T
           T == {n \in Nat : n <= Steps => Fine(f[n], n)}
<1>5. 0 \in T
  <2>1. IsFiniteSet(start)
    BY <1>1, FS_Subset
  <2>2. Cardinality(start) >= 0
    BY <2>1, FS_CardinalityType
  <2>3. QED BY <1>3, <2>2
<1>6. ASSUME NEW n \in Nat, n \in T
      PROVE  n + 1 \in T
  <2> SUFFICES ASSUME n + 1 <= Steps PROVE Fine(f[n + 1], n + 1)
    OBVIOUS
  <2>1. Fine(f[n], n)
    BY <1>1, <1>6
  <2>2. f[n + 1] = f[n] \cup UNION {next[x] : x \in f[n]}
    BY <1>4
  <2>3. start \subseteq f[n + 1] /\ f[n + 1] \subseteq Surfaces /\ f[n] \subseteq f[n + 1]
    BY <2>1, <2>2
  <2>4. Closed(f[n + 1]) \/ Cardinality(f[n + 1]) >= n + 1
    <3>1. CASE Closed(f[n])
      <4>1. f[n + 1] = f[n]
        BY <2>2, <3>1
      <4>2. QED BY <3>1, <4>1
    <3>2. CASE ~ Closed(f[n])
      <4>1. f[n + 1] # f[n]
        BY <2>2, <3>2
      <4>2. IsFiniteSet(f[n + 1]) /\ Cardinality(f[n + 1]) \in Nat
        BY <1>1, <2>3, FS_Subset, FS_CardinalityType
      <4>3. /\ Cardinality(f[n]) <= Cardinality(f[n + 1])
            /\ Cardinality(f[n]) # Cardinality(f[n + 1])
            /\ Cardinality(f[n]) \in Nat
        BY <2>3, <4>1, <4>2, FS_Subset, FS_CardinalityType
      <4>4. Cardinality(f[n]) >= n
        BY <2>1, <3>2
      <4>5. QED BY <4>2, <4>3, <4>4
    <3>3. QED BY <3>1, <3>2
  <2>5. ASSUME NEW U, start \subseteq U, \A x \in U \cap Surfaces : next[x] \subseteq U
        PROVE  f[n + 1] \subseteq U
    <3>1. f[n] \subseteq U /\ f[n] \subseteq Surfaces
      BY <2>1, <2>5
    <3>2. QED BY <2>2, <2>5, <3>1
  <2>6. QED BY <2>3, <2>4, <2>5
<1>7. Fine(f[Steps], Steps)
  <2> HIDE DEF T, Fine
  <2>1. Nat \subseteq T
    BY <1>5, <1>6, Induction
  <2>2. QED BY <1>1, <2>1 DEF T
<1>8. Closed(f[Steps])
  <2>1. Cardinality(f[Steps]) <= Cardinality(Surfaces) /\ Cardinality(f[Steps]) \in Nat
        /\ Cardinality(Surfaces) \in Nat
    BY <1>1, <1>7, FS_Subset, FS_CardinalityType
  <2>2. QED BY <1>1, <1>7, <2>1
<1>9. QED BY <1>2, <1>7, <1>8

-----------------------------------------------------------------------------
(* Lists without one of their members.                                     *)

IsKept(k, list, s, last) ==
  k = [n \in 0 .. last |->
        IF n = 0 THEN << >>
        ELSE IF list[n] = s THEN k[n - 1] ELSE Append(k[n - 1], list[n])]

LEMMA KeptExists ==
  ASSUME NEW list, NEW s, NEW last \in Nat
  PROVE  \E k : IsKept(k, list, s, last)
<1> DEFINE T == {n \in Nat : \E k : IsKept(k, list, s, n)}
<1>1. 0 \in T
  <2>1. IsKept([n \in 0 .. 0 |-> << >>], list, s, 0)
    BY DEF IsKept
  <2>2. QED BY <2>1
<1>2. ASSUME NEW n \in Nat, n \in T
      PROVE  n + 1 \in T
  <2>1. PICK k : IsKept(k, list, s, n)
    BY <1>2
  <2> DEFINE next == IF list[n + 1] = s THEN k[n] ELSE Append(k[n], list[n + 1])
             g == [m \in 0 .. (n + 1) |-> IF m = n + 1 THEN next ELSE k[m]]
  <2>2. g[n + 1] = next /\ \A m \in 0 .. n : g[m] = k[m]
    OBVIOUS
  <2>3. \A m \in 0 .. n : k[m] = IF m = 0 THEN << >>
                                 ELSE IF list[m] = s THEN k[m - 1] ELSE Append(k[m - 1], list[m])
    BY <2>1 DEF IsKept
  <2>4. g = [m \in 0 .. (n + 1) |-> g[m]]
    OBVIOUS
  <2> HIDE DEF g
  <2>5. ASSUME NEW m \in 0 .. (n + 1)
        PROVE  g[m] = IF m = 0 THEN << >>
                      ELSE IF list[m] = s THEN g[m - 1] ELSE Append(g[m - 1], list[m])
    <3>1. CASE m = n + 1
      <4>1. m # 0 /\ m - 1 = n /\ g[m - 1] = k[n]
        BY <2>2, <3>1
      <4>2. QED BY <2>2, <3>1, <4>1
    <3>2. CASE m \in 0 .. n
      <4>1. m # 0 => m - 1 \in 0 .. n
        BY <3>2
      <4>2. QED BY <2>2, <2>3, <3>2, <4>1
    <3>3. QED BY <3>1, <3>2
  <2>6. IsKept(g, list, s, n + 1)
    BY <2>4, <2>5 DEF IsKept
  <2>7. QED BY <2>6
<1> HIDE DEF T
<1>3. Nat \subseteq T
  BY <1>1, <1>2, Induction
<1>4. QED BY <1>3 DEF T

\* Nothing in the list twice.
Once(list) == \A i, j \in DOMAIN list : list[i] = list[j] => i = j

LEMMA AppendToList ==
  ASSUME NEW S, NEW list \in Seq(S), NEW x \in S
  PROVE  /\ Append(list, x) \in Seq(S)
         /\ Range(Append(list, x)) = Range(list) \cup {x}
         /\ Once(list) /\ x \notin Range(list) => Once(Append(list, x))
<1>1. /\ Append(list, x) \in Seq(S)
      /\ DOMAIN Append(list, x) = 1 .. (Len(list) + 1)
      /\ DOMAIN list = 1 .. Len(list) /\ Len(list) \in Nat
      /\ Append(list, x)[Len(list) + 1] = x
      /\ \A i \in 1 .. Len(list) : Append(list, x)[i] = list[i]
  BY AppendProperties, LenProperties
<1>2. Range(Append(list, x)) = Range(list) \cup {x}
  BY <1>1 DEF Range
<1>3. ASSUME Once(list), x \notin Range(list)
      PROVE  Once(Append(list, x))
  BY <1>1, <1>3 DEF Once, Range
<1>4. QED BY <1>1, <1>2, <1>3

LEMMA WithoutKeeps ==
  ASSUME NEW S, NEW list \in Seq(S), NEW s
  PROVE  /\ Without(list, s) \in Seq(S)
         /\ Range(Without(list, s)) = Range(list) \ {s}
         /\ Once(list) => Once(Without(list, s))
<1>1. Len(list) \in Nat /\ DOMAIN list = 1 .. Len(list) /\ \A i \in 1 .. Len(list) : list[i] \in S
  BY LenProperties
<1>2. PICK k : IsKept(k, list, s, Len(list)) /\ Without(list, s) = k[Len(list)]
  <2>1. \E k : IsKept(k, list, s, Len(list))
    BY <1>1, KeptExists
  <2>2. QED BY <2>1 DEF IsKept, Without
<1> DEFINE Gone(n) == {list[i] : i \in 1 .. n} \ {s}
           Fine(r, n) == /\ r \in Seq(S) /\ Range(r) = Gone(n)
                         /\ Once(list) => Once(r)
           T == {n \in Nat : n <= Len(list) => Fine(k[n], n)}
<1>3. \A n \in 0 .. Len(list) :
        k[n] = IF n = 0 THEN << >>
               ELSE IF list[n] = s THEN k[n - 1] ELSE Append(k[n - 1], list[n])
  BY <1>2 DEF IsKept
<1>4. 0 \in T
  <2>1. k[0] = << >>
    BY <1>1, <1>3
  <2>2. << >> \in Seq(S) /\ Range(<< >>) = {} /\ Once(<< >>)
    BY EmptySeq DEF Range, Once
  <2>3. Gone(0) = {}
    OBVIOUS
  <2>4. QED BY <2>1, <2>2, <2>3
<1>5. ASSUME NEW n \in Nat, n \in T
      PROVE  n + 1 \in T
  <2> SUFFICES ASSUME n + 1 <= Len(list) PROVE Fine(k[n + 1], n + 1)
    OBVIOUS
  <2>1. Fine(k[n], n)
    BY <1>1, <1>5
  <2>2. k[n + 1] = IF list[n + 1] = s THEN k[n] ELSE Append(k[n], list[n + 1])
    <3>1. n + 1 \in 0 .. Len(list) /\ n + 1 # 0 /\ (n + 1) - 1 = n
      BY <1>1
    <3>2. QED BY <1>3, <3>1
  <2>3. 1 .. (n + 1) = (1 .. n) \cup {n + 1}
    OBVIOUS
  <2>4. CASE list[n + 1] = s
    <3>1. Gone(n + 1) = Gone(n)
      BY <2>3, <2>4
    <3>2. QED BY <2>1, <2>2, <2>4, <3>1
  <2>5. CASE list[n + 1] # s
    <3>1. Gone(n + 1) = Gone(n) \cup {list[n + 1]}
      BY <2>3, <2>5
    <3>2. list[n + 1] \in S
      BY <1>1
    <3>3. Once(list) => list[n + 1] \notin Gone(n)
      BY <1>1 DEF Once
    <3> HIDE DEF Gone
    <3>4. k[n] \in Seq(S) /\ Range(k[n]) = Gone(n) /\ (Once(list) => Once(k[n]))
      BY <2>1
    <3>5. /\ Append(k[n], list[n + 1]) \in Seq(S)
          /\ Range(Append(k[n], list[n + 1])) = Gone(n) \cup {list[n + 1]}
          /\ Once(k[n]) /\ list[n + 1] \notin Gone(n) => Once(Append(k[n], list[n + 1]))
      BY <3>2, <3>4, AppendToList
    <3>6. k[n + 1] = Append(k[n], list[n + 1])
      BY <2>2, <2>5
    <3>7. QED BY <3>1, <3>3, <3>4, <3>5, <3>6
  <2>6. QED BY <2>4, <2>5
<1>6. Fine(k[Len(list)], Len(list))
  <2> HIDE DEF T, Fine
  <2>1. Nat \subseteq T
    BY <1>4, <1>5, Induction
  <2>2. QED BY <1>1, <2>1 DEF T
<1>7. Gone(Len(list)) = Range(list) \ {s}
  BY <1>1 DEF Range
<1>8. QED BY <1>2, <1>6, <1>7

LEMMA ConcatOnce ==
  ASSUME NEW S, NEW a \in Seq(S), NEW b \in Seq(S)
  PROVE  Once(a \o b) <=> Once(a) /\ Once(b) /\ Range(a) \cap Range(b) = {}
<1>1. /\ DOMAIN a = 1 .. Len(a) /\ DOMAIN b = 1 .. Len(b) /\ Len(a) \in Nat /\ Len(b) \in Nat
      /\ DOMAIN (a \o b) = 1 .. (Len(a) + Len(b))
  BY LenProperties, ConcatProperties
<1>2. /\ \A i \in DOMAIN a : i \in DOMAIN (a \o b) /\ (a \o b)[i] = a[i]
      /\ \A i \in DOMAIN b : Len(a) + i \in DOMAIN (a \o b) /\ (a \o b)[Len(a) + i] = b[i]
  BY <1>1, ConcatProperties
<1>3. \A i \in DOMAIN (a \o b) :
        \/ i \in DOMAIN a
        \/ i \notin DOMAIN a /\ i - Len(a) \in DOMAIN b /\ i = Len(a) + (i - Len(a))
  BY <1>1
<1>4. ASSUME Once(a \o b)
      PROVE  Once(a) /\ Once(b) /\ Range(a) \cap Range(b) = {}
  <2>1. Once(a)
    BY <1>2, <1>4 DEF Once
  <2>2. Once(b)
    <3>1. \A i, j \in DOMAIN b : Len(a) + i = Len(a) + j => i = j
      BY <1>1
    <3>2. QED BY <1>2, <1>4, <3>1 DEF Once
  <2>3. \A i \in DOMAIN a, j \in DOMAIN b : a[i] # b[j]
    <3>1. \A i \in DOMAIN a, j \in DOMAIN b : i # Len(a) + j
      BY <1>1
    <3>2. QED BY <1>2, <1>4, <3>1 DEF Once
  <2>4. QED BY <2>1, <2>2, <2>3 DEF Range
<1>5. ASSUME Once(a), Once(b), Range(a) \cap Range(b) = {}
      PROVE  Once(a \o b)
  <2>1. \A i \in DOMAIN a, j \in DOMAIN b : a[i] # b[j]
    BY <1>5 DEF Range
  <2>2. ASSUME NEW i \in DOMAIN (a \o b), NEW j \in DOMAIN (a \o b), (a \o b)[i] = (a \o b)[j]
        PROVE  i = j
    <3>1. CASE i \in DOMAIN a /\ j \in DOMAIN a
      BY <1>2, <1>5, <2>2, <3>1 DEF Once
    <3>2. CASE i \in DOMAIN a /\ j \notin DOMAIN a
      <4>1. (a \o b)[i] = a[i] /\ j - Len(a) \in DOMAIN b /\ (a \o b)[j] = b[j - Len(a)]
        BY <1>2, <1>3, <3>2
      <4>2. QED BY <2>1, <2>2, <3>2, <4>1
    <3>3. CASE i \notin DOMAIN a /\ j \in DOMAIN a
      <4>1. (a \o b)[j] = a[j] /\ i - Len(a) \in DOMAIN b /\ (a \o b)[i] = b[i - Len(a)]
        BY <1>2, <1>3, <3>3
      <4>2. QED BY <2>1, <2>2, <3>3, <4>1
    <3>4. CASE i \notin DOMAIN a /\ j \notin DOMAIN a
      <4>1. /\ i - Len(a) \in DOMAIN b /\ (a \o b)[i] = b[i - Len(a)]
            /\ j - Len(a) \in DOMAIN b /\ (a \o b)[j] = b[j - Len(a)]
            /\ i = Len(a) + (i - Len(a)) /\ j = Len(a) + (j - Len(a))
        BY <1>2, <1>3, <3>4
      <4>2. i - Len(a) = j - Len(a)
        BY <1>5, <2>2, <4>1 DEF Once
      <4>3. QED BY <4>1, <4>2
    <3>5. QED BY <3>1, <3>2, <3>3, <3>4
  <2>3. QED BY <2>2 DEF Once
<1>6. QED BY <1>4, <1>5

LEMMA ConcatLists ==
  ASSUME NEW S, NEW a \in Seq(S), NEW b \in Seq(S)
  PROVE  /\ a \o b \in Seq(S)
         /\ Range(a \o b) = Range(a) \cup Range(b)
         /\ Once(a \o b) <=> (Once(a) /\ Once(b) /\ Range(a) \cap Range(b) = {})
<1>1. a \o b \in Seq(S)
  BY ConcatProperties
<1>2. Range(a \o b) = Range(a) \cup Range(b)
  BY RangeConcatenation
<1>3. QED BY <1>1, <1>2, ConcatOnce

LEMMA Singleton ==
  ASSUME NEW S, NEW s \in S
  PROVE  /\ <<s>> \in Seq(S) /\ Len(<<s>>) = 1
         /\ Range(<<s>>) = {s} /\ Once(<<s>>)
<1>1. <<s>> \in Seq(S) /\ Len(<<s>>) = 1 /\ DOMAIN <<s>> = 1 .. 1 /\ <<s>>[1] = s
  OBVIOUS
<1>2. Range(<<s>>) = {s}
  BY <1>1 DEF Range
<1>3. Once(<<s>>)
  BY <1>1 DEF Once
<1>4. QED BY <1>1, <1>2, <1>3

LEMMA InsertIntoList ==
  ASSUME NEW S, NEW list \in Seq(S), NEW i \in 1 .. (Len(list) + 1), NEW s \in S
  PROVE  /\ InsertedAt(list, i, s) \in Seq(S)
         /\ Range(InsertedAt(list, i, s)) = Range(list) \cup {s}
         /\ Once(list) /\ s \notin Range(list) => Once(InsertedAt(list, i, s))
<1> DEFINE a == SubSeq(list, 1, i - 1)
           b == SubSeq(list, i, Len(list))
<1>1. Len(list) \in Nat /\ \A j \in 1 .. Len(list) : list[j] \in S
  BY LenProperties
<1>2. a \in Seq(S)
  <2>1. \A j \in 1 .. (i - 1) : list[j] \in S
    BY <1>1
  <2>2. QED BY <2>1, SubSeqProperties
<1>3. b \in Seq(S)
  <2>1. \A j \in i .. Len(list) : list[j] \in S
    BY <1>1
  <2>2. QED BY <1>1, <2>1, SubSeqProperties
<1>4. a \o b = list
  <2>1. 1 \in 1 .. Len(list) + 1 /\ i - 1 \in 1 - 1 .. Len(list) /\ Len(list) \in i - 1 .. Len(list)
        /\ (i - 1) + 1 = i
    BY <1>1
  <2>2. a \o b = SubSeq(list, 1, Len(list))
    BY <2>1, ConcatAdjacentSubSeq
  <2>3. QED BY <2>2, SubSeqFull
<1> HIDE DEF a, b
<1>5. /\ <<s>> \in Seq(S) /\ Range(<<s>>) = {s} /\ Once(<<s>>)
  BY Singleton
<1>6. /\ a \o <<s>> \in Seq(S) /\ Range(a \o <<s>>) = Range(a) \cup {s}
      /\ Once(a \o <<s>>) <=> (Once(a) /\ Range(a) \cap {s} = {})
  BY <1>2, <1>5, ConcatLists
<1>7. /\ (a \o <<s>>) \o b \in Seq(S)
      /\ Range((a \o <<s>>) \o b) = Range(a) \cup {s} \cup Range(b)
      /\ Once((a \o <<s>>) \o b)
           <=> (Once(a \o <<s>>) /\ Once(b) /\ (Range(a) \cup {s}) \cap Range(b) = {})
  <2> DEFINE as == a \o <<s>>
  <2>1. as \in Seq(S) /\ Range(as) = Range(a) \cup {s}
    BY <1>6
  <2> HIDE DEF as
  <2>2. /\ as \o b \in Seq(S)
        /\ Range(as \o b) = Range(as) \cup Range(b)
        /\ Once(as \o b) <=> (Once(as) /\ Once(b) /\ Range(as) \cap Range(b) = {})
    BY <1>3, <2>1, ConcatLists
  <2>3. QED BY <2>1, <2>2 DEF as
<1>8. /\ Range(list) = Range(a) \cup Range(b)
      /\ Once(list) <=> (Once(a) /\ Once(b) /\ Range(a) \cap Range(b) = {})
  <2>1. /\ Range(a \o b) = Range(a) \cup Range(b)
        /\ Once(a \o b) <=> (Once(a) /\ Once(b) /\ Range(a) \cap Range(b) = {})
    BY <1>2, <1>3, ConcatLists
  <2>2. QED BY <1>4, <2>1
<1>9. InsertedAt(list, i, s) = (a \o <<s>>) \o b
  BY DEF InsertedAt, a, b
<1>10. QED BY <1>6, <1>7, <1>8, <1>9

LEMMA PrependToList ==
  ASSUME NEW S, NEW list \in Seq(S), NEW s \in S
  PROVE  /\ <<s>> \o list \in Seq(S)
         /\ Range(<<s>> \o list) = Range(list) \cup {s}
         /\ Once(list) /\ s \notin Range(list) => Once(<<s>> \o list)
<1>1. /\ <<s>> \in Seq(S) /\ Range(<<s>>) = {s} /\ Once(<<s>>)
  BY Singleton
<1>2. /\ <<s>> \o list \in Seq(S) /\ Range(<<s>> \o list) = {s} \cup Range(list)
      /\ Once(<<s>> \o list) <=> (Once(list) /\ {s} \cap Range(list) = {})
  <2>1. /\ <<s>> \o list \in Seq(S)
        /\ Range(<<s>> \o list) = Range(<<s>>) \cup Range(list)
        /\ Once(<<s>> \o list)
             <=> (Once(<<s>>) /\ Once(list) /\ Range(<<s>>) \cap Range(list) = {})
    BY <1>1, ConcatLists
  <2>2. QED BY <1>1, <2>1
<1>3. QED BY <1>2

-----------------------------------------------------------------------------
(* Type correctness.                                                       *)

\* No surface has made more commits than there have been.
CommitsCounted == \A s \in Surfaces : committed[s] <= total

LEMMA ApplyGives ==
  ASSUME TypeOK, NEW s \in Surfaces, NEW these, NEW left, Apply(s, these, left)
  PROVE  /\ cached' = [x \in Surfaces |-> cached'[x]]
         /\ callbacks' = [x \in Surfaces |-> callbacks'[x]]
         /\ content' = [x \in Surfaces |-> content'[x]]
         /\ \A x \in Surfaces :
              \/ /\ x = s /\ cached'[x] = left
                 /\ callbacks'[x] = callbacks[x] \o these /\ content'[x] = Latest(content[x], these)
              \/ /\ x # s /\ x \in Cascade(s)' /\ cached'[x] = << >>
                 /\ callbacks'[x] = callbacks[x] \o cached[x]
                 /\ content'[x] = Latest(content[x], cached[x])
              \/ /\ x # s /\ x \notin Cascade(s)'
                 /\ cached'[x] = cached[x] /\ callbacks'[x] = callbacks[x]
                 /\ content'[x] = content[x]
<1> DEFINE reached == Cascade(s)'
           gained == [x \in Surfaces |-> CASE x = s -> these
                                           [] x \in reached \ {s} -> cached[x]
                                           [] OTHER -> << >>]
<1>1. /\ cached' = [x \in Surfaces |-> CASE x = s -> left
                                         [] x \in reached \ {s} -> << >>
                                         [] OTHER -> cached[x]]
      /\ callbacks' = [x \in Surfaces |-> callbacks[x] \o gained[x]]
      /\ content' = [x \in Surfaces |-> Latest(content[x], gained[x])]
  BY DEF Apply
<1> HIDE DEF reached
<1>2. ASSUME NEW x \in Surfaces
      PROVE  \/ x = s /\ gained[x] = these /\ cached'[x] = left
             \/ x # s /\ x \in reached /\ gained[x] = cached[x] /\ cached'[x] = << >>
             \/ x # s /\ x \notin reached /\ gained[x] = << >> /\ cached'[x] = cached[x]
  BY <1>1
<1> HIDE DEF gained
<1>3. ASSUME NEW x \in Surfaces
      PROVE  /\ callbacks'[x] = callbacks[x] \o gained[x]
             /\ content'[x] = Latest(content[x], gained[x])
             /\ callbacks[x] \o << >> = callbacks[x]
             /\ Latest(content[x], << >>) = content[x]
  <2>1. callbacks[x] \in Seq(Count)
    BY DEF TypeOK
  <2>2. callbacks[x] \o << >> = callbacks[x]
    BY <2>1, ConcatEmptySeq
  <2>3. QED BY <1>1, <2>2 DEF Latest
<1>4. \A x \in Surfaces :
        \/ /\ x = s /\ cached'[x] = left
           /\ callbacks'[x] = callbacks[x] \o these /\ content'[x] = Latest(content[x], these)
        \/ /\ x # s /\ x \in reached /\ cached'[x] = << >>
           /\ callbacks'[x] = callbacks[x] \o cached[x]
           /\ content'[x] = Latest(content[x], cached[x])
        \/ /\ x # s /\ x \notin reached
           /\ cached'[x] = cached[x] /\ callbacks'[x] = callbacks[x] /\ content'[x] = content[x]
  BY <1>2, <1>3
<1>5. QED BY <1>1, <1>4 DEF reached

LEMMA ApplyTypes ==
  ASSUME TypeOK, NEW s \in Surfaces, NEW these \in Seq(Count), NEW left \in Seq(Count),
         Apply(s, these, left)
  PROVE  /\ cached' \in [Surfaces -> Seq(Count)]
         /\ content' \in [Surfaces -> Count]
         /\ callbacks' \in [Surfaces -> Seq(Count)]
<1>1. << >> \in Seq(Count)
  BY EmptySeq
<1>2. ASSUME NEW x \in Surfaces, NEW gained \in Seq(Count)
      PROVE  callbacks[x] \o gained \in Seq(Count) /\ Latest(content[x], gained) \in Count
  <2>1. callbacks[x] \o gained \in Seq(Count)
    BY ConcatProperties DEF TypeOK
  <2>2. gained # << >> => gained[Len(gained)] \in Count
    <3>1. gained # << >> => Len(gained) \in 1 .. Len(gained)
      BY EmptySeq
    <3>2. QED BY <3>1, ElementOfSeq
  <2>3. QED BY <2>1, <2>2 DEF Latest, TypeOK
<1>3. ASSUME NEW x \in Surfaces
      PROVE  cached'[x] \in Seq(Count) /\ callbacks'[x] \in Seq(Count) /\ content'[x] \in Count
  <2>1. cached[x] \in Seq(Count) /\ callbacks[x] \in Seq(Count) /\ content[x] \in Count
    BY DEF TypeOK
  <2>2. \/ /\ x = s /\ cached'[x] = left
           /\ callbacks'[x] = callbacks[x] \o these /\ content'[x] = Latest(content[x], these)
        \/ /\ x # s /\ x \in Cascade(s)' /\ cached'[x] = << >>
           /\ callbacks'[x] = callbacks[x] \o cached[x]
           /\ content'[x] = Latest(content[x], cached[x])
        \/ /\ x # s /\ x \notin Cascade(s)'
           /\ cached'[x] = cached[x] /\ callbacks'[x] = callbacks[x] /\ content'[x] = content[x]
    BY ApplyGives
  <2>3. QED BY <1>1, <1>2, <2>1, <2>2
<1>4. QED BY <1>3, ApplyGives

LEMMA ChildLeftType ==
  ASSUME TypeOK, NEW p, NEW s
  PROVE  ChildLeft(p, s) \in [Surfaces -> Seq(Surfaces)]
<1>1. CASE p \in alive
  <2>1. p \in Surfaces /\ children[p] \in Seq(Surfaces)
    BY <1>1 DEF TypeOK
  <2>2. Without(children[p], s) \in Seq(Surfaces)
    BY <2>1, WithoutKeeps
  <2>3. QED BY <1>1, <2>2 DEF ChildLeft, TypeOK
<1>2. CASE p \notin alive
  BY <1>2 DEF ChildLeft, TypeOK
<1>3. QED BY <1>1, <1>2

\* The list that place_above or place_below makes of the parent's.
LEMMA PlaceGives ==
  ASSUME TypeOK, NEW s \in Surfaces, NEW sibling, NEW above \in BOOLEAN,
         Place(s, sibling, above)
  PROVE  \E list \in Seq(Surfaces) :
           /\ children' = [children EXCEPT ![parent[s]] = list]
           /\ Range(list) = (Range(children[parent[s]]) \ {s}) \cup {s}
           /\ Once(children[parent[s]]) => Once(list)
<1> DEFINE rest == Without(children[parent[s]], s)
           at == {i \in DOMAIN rest : rest[i] = sibling}
<1>1. parent[s] \in alive /\ parent[s] \in Surfaces /\ children[parent[s]] \in Seq(Surfaces)
  BY DEF Place, TypeOK
<1>2. /\ rest \in Seq(Surfaces)
      /\ Range(rest) = Range(children[parent[s]]) \ {s}
      /\ Once(children[parent[s]]) => Once(rest)
  BY <1>1, WithoutKeeps
<1>3. CASE children' = [children EXCEPT ![parent[s]] =
                          IF above THEN Append(rest, s) ELSE <<s>> \o rest]
  <2> HIDE DEF rest
  <2>1. /\ Append(rest, s) \in Seq(Surfaces) /\ Range(Append(rest, s)) = Range(rest) \cup {s}
        /\ Once(rest) /\ s \notin Range(rest) => Once(Append(rest, s))
    BY <1>2, AppendToList
  <2>2. /\ <<s>> \o rest \in Seq(Surfaces) /\ Range(<<s>> \o rest) = Range(rest) \cup {s}
        /\ Once(rest) /\ s \notin Range(rest) => Once(<<s>> \o rest)
    BY <1>2, PrependToList
  <2>3. QED BY <1>2, <1>3, <2>1, <2>2
<1>4. CASE \E i \in at :
             /\ \A j \in at : i <= j
             /\ children' = [children EXCEPT ![parent[s]] =
                               InsertedAt(rest, IF above THEN i + 1 ELSE i, s)]
  <2>1. PICK i \in at : children' = [children EXCEPT ![parent[s]] =
                                       InsertedAt(rest, IF above THEN i + 1 ELSE i, s)]
    BY <1>4
  <2>2. i \in DOMAIN rest
    OBVIOUS
  <2> HIDE DEF rest
  <2> DEFINE k == IF above THEN i + 1 ELSE i
  <2>3. k \in 1 .. (Len(rest) + 1)
    BY <1>2, <2>2, LenProperties
  <2> HIDE DEF k
  <2>4. /\ InsertedAt(rest, k, s) \in Seq(Surfaces)
        /\ Range(InsertedAt(rest, k, s)) = Range(rest) \cup {s}
        /\ Once(rest) /\ s \notin Range(rest) => Once(InsertedAt(rest, k, s))
    BY <1>2, <2>3, InsertIntoList
  <2>5. children' = [children EXCEPT ![parent[s]] = InsertedAt(rest, k, s)]
    BY <2>1 DEF k
  <2>6. QED BY <1>2, <2>4, <2>5
<1>5. QED BY <1>3, <1>4 DEF Place

\* Types but for leftBehind, which every step sets alike.
StepOK ==
  /\ alive \subseteq Surfaces
  /\ parent \in [Surfaces -> Surfaces \cup {NoSurface}]
  /\ children \in [Surfaces -> Seq(Surfaces)]
  /\ isSub \subseteq Surfaces
  /\ sync \subseteq Surfaces
  /\ objects \in [Surfaces -> 0 .. MaxObjects]
  /\ committed \in [Surfaces -> Count]
  /\ cached \in [Surfaces -> Seq(Count)]
  /\ content \in [Surfaces -> Count]
  /\ callbacks \in [Surfaces -> Seq(Count)]
  /\ answered \in [Surfaces -> Seq(Count)]
  /\ visible \subseteq Surfaces
  /\ total \in Count
  /\ CommitsCounted

LEMMA CommitTypes ==
  ASSUME TypeOK, CommitsCounted, NEW s \in Surfaces, Commit(s)
  PROVE  StepOK'
<1> DEFINE this == <<committed[s] + 1>>
<1>1. /\ total \in Nat /\ total' = total + 1 /\ total' \in Count
      /\ committed[s] \in Nat /\ committed[s] + 1 \in Count /\ committed[s] + 1 <= total'
  BY BoundsAssumption DEF Commit, TypeOK, CommitsCounted, Count
<1>2. this \in Seq(Count)
  BY <1>1
<1>3. committed' \in [Surfaces -> Count] /\ CommitsCounted'
  <2>1. /\ committed \in [Surfaces -> Count]
        /\ committed' = [committed EXCEPT ![s] = committed[s] + 1]
    BY DEF Commit, TypeOK
  <2>2. committed' \in [Surfaces -> Count]
    BY <1>1, <2>1
  <2>3. CommitsCounted'
    BY <1>1, <2>1 DEF CommitsCounted, Count
  <2>4. QED BY <2>2, <2>3
<1>4. cached' \in [Surfaces -> Seq(Count)] /\ content' \in [Surfaces -> Count]
      /\ callbacks' \in [Surfaces -> Seq(Count)]
  <2>1. cached[s] \in Seq(Count)
    BY DEF TypeOK
  <2>2. CASE cached' = [cached EXCEPT ![s] = Merge(@, this)] /\ UNCHANGED <<content, callbacks>>
    <3>1. Merge(cached[s], this) \in Seq(Count)
      BY <1>2, <2>1, ConcatProperties DEF Merge
    <3> HIDE DEF this
    <3>2. QED BY <2>2, <3>1 DEF TypeOK
  <2>3. CASE Apply(s, this, cached[s])
    <3> HIDE DEF this
    <3>1. QED BY <1>2, <2>1, <2>3, ApplyTypes
  <2>4. QED BY <2>2, <2>3 DEF Commit
<1>5. QED BY <1>1, <1>3, <1>4 DEF Commit, StepOK, TypeOK, links

LEMMA TreeStepTypes ==
  ASSUME TypeOK, CommitsCounted, NEW s \in Surfaces,
         \/ CreateSurface(s) \/ DestroySurface(s) \/ Commit(s)
         \/ SetSync(s) \/ SetDesync(s) \/ DestroySubsurface(s)
         \/ \E p \in Surfaces : GetSubsurface(s, p)
         \/ \E sibling \in Surfaces, above \in BOOLEAN : Place(s, sibling, above)
  PROVE  StepOK'
<1>1. << >> \in Seq(Count) /\ << >> \in Seq(Surfaces) /\ 0 \in Count
  BY EmptySeq, BoundsAssumption DEF Count
<1>2. CASE CreateSurface(s)
  <2>1. CommitsCounted'
    BY <1>2 DEF CreateSurface, CommitsCounted, TypeOK, Count
  <2>2. QED BY <1>1, <1>2, <2>1 DEF CreateSurface, StepOK, TypeOK
<1>3. CASE DestroySurface(s)
  <2>1. CommitsCounted'
    BY <1>3 DEF DestroySurface, CommitsCounted, commits
  <2>2. QED BY <1>3, <2>1, ChildLeftType DEF DestroySurface, StepOK, TypeOK, commits
<1>4. CASE Commit(s)
  BY <1>4, CommitTypes
<1>5. CASE SetSync(s)
  <2>1. CommitsCounted'
    BY <1>5 DEF SetSync, CommitsCounted, commits
  <2>2. QED BY <1>5, <2>1 DEF SetSync, StepOK, TypeOK, commits
<1>6. CASE SetDesync(s)
  <2>1. CommitsCounted'
    BY <1>6 DEF SetDesync, CommitsCounted
  <2>2. cached' \in [Surfaces -> Seq(Count)] /\ content' \in [Surfaces -> Count]
        /\ callbacks' \in [Surfaces -> Seq(Count)]
    <3>1. CASE UNCHANGED <<cached, content, callbacks>>
      BY <3>1 DEF TypeOK
    <3>2. CASE Apply(s, cached[s], << >>)
      <4>1. cached[s] \in Seq(Count)
        BY DEF TypeOK
      <4>2. QED BY <1>1, <3>2, <4>1, ApplyTypes
    <3>3. QED BY <1>6, <3>1, <3>2 DEF SetDesync
  <2>3. QED BY <1>6, <2>1, <2>2 DEF SetDesync, StepOK, TypeOK
<1>7. CASE DestroySubsurface(s)
  <2>1. CommitsCounted'
    BY <1>7 DEF DestroySubsurface, CommitsCounted
  <2>2. objects' \in [Surfaces -> 0 .. MaxObjects]
    BY <1>7, BoundsAssumption DEF DestroySubsurface, HasObject, TypeOK
  <2>3. UNCHANGED <<alive, committed, answered, visible, total>>
    BY <1>7 DEF DestroySubsurface
  <2>4. CASE /\ s \in alive
             /\ parent' = [parent EXCEPT ![s] = NoSurface]
             /\ isSub' = isSub \ {s}
             /\ sync' = sync \ {s}
             /\ children' = ChildLeft(parent[s], s)
             /\ Apply(s, cached[s], << >>)
    <3>1. cached[s] \in Seq(Count)
      BY DEF TypeOK
    <3>2. cached' \in [Surfaces -> Seq(Count)] /\ content' \in [Surfaces -> Count]
          /\ callbacks' \in [Surfaces -> Seq(Count)]
      BY <1>1, <2>4, <3>1, ApplyTypes
    <3>3. QED BY <2>1, <2>2, <2>3, <2>4, <3>2, ChildLeftType DEF StepOK, TypeOK
  <2>5. CASE UNCHANGED <<links, cached, content, callbacks>>
    BY <2>1, <2>2, <2>3, <2>5 DEF StepOK, TypeOK, links
  <2>6. QED BY <1>7, <2>4, <2>5 DEF DestroySubsurface
<1>8. ASSUME NEW p \in Surfaces, GetSubsurface(s, p) PROVE StepOK'
  <2>1. CommitsCounted'
    BY <1>8 DEF GetSubsurface, CommitsCounted, commits
  <2>2. children[p] \in Seq(Surfaces)
    BY DEF TypeOK
  <2>3. Append(children[p], s) \in Seq(Surfaces)
    BY <2>2, AppendToList
  <2>4. objects' \in [Surfaces -> 0 .. MaxObjects]
    <3>1. /\ objects \in [Surfaces -> 0 .. MaxObjects] /\ objects[s] < MaxObjects
          /\ objects' = [objects EXCEPT ![s] = objects[s] + 1]
      BY <1>8 DEF GetSubsurface, TypeOK
    <3>2. objects[s] + 1 \in 0 .. MaxObjects
      BY <3>1, BoundsAssumption
    <3>3. QED BY <3>1, <3>2
  <2>5. QED BY <1>8, <2>1, <2>3, <2>4 DEF GetSubsurface, StepOK, TypeOK, commits
<1>9. ASSUME NEW sibling \in Surfaces, NEW above \in BOOLEAN, Place(s, sibling, above)
      PROVE  StepOK'
  <2>1. CommitsCounted'
    BY <1>9 DEF Place, CommitsCounted, commits
  <2>2. PICK list \in Seq(Surfaces) : children' = [children EXCEPT ![parent[s]] = list]
    BY <1>9, PlaceGives
  <2>3. children' \in [Surfaces -> Seq(Surfaces)]
    BY <2>2 DEF TypeOK
  <2>4. QED BY <1>9, <2>1, <2>3 DEF Place, StepOK, TypeOK, commits
<1>10. QED BY <1>2, <1>3, <1>4, <1>5, <1>6, <1>7, <1>8, <1>9

LEMMA FireTypes ==
  ASSUME TypeOK, CommitsCounted, NEW covered, Fire(covered), visible' \subseteq Surfaces
  PROVE  StepOK'
<1>1. ASSUME NEW s \in Surfaces
      PROVE  answered[s] \o callbacks[s] \in Seq(Count) /\ << >> \in Seq(Count)
  BY ConcatProperties, EmptySeq DEF TypeOK
<1>2. answered' \in [Surfaces -> Seq(Count)] /\ callbacks' \in [Surfaces -> Seq(Count)]
  BY <1>1 DEF Fire, TypeOK
<1>3. QED BY <1>2 DEF Fire, StepOK, TypeOK, CommitsCounted, links

LEMMA StepTypes == TypeOK /\ CommitsCounted /\ [Next]_vars => (TypeOK /\ CommitsCounted)'
<1> SUFFICES ASSUME TypeOK, CommitsCounted, [Next]_vars PROVE (TypeOK /\ CommitsCounted)'
  OBVIOUS
<1>1. CASE Next
  <2>1. StepOK'
    <3>1. CASE Presented
      BY <3>1, FireTypes DEF Presented, TypeOK
    <3>2. CASE Housekeeping
      <4>1. PICK screen \in Screens : visible' = screen \cap alive /\ Fire(Offscreen(visible'))
        BY <3>2 DEF Housekeeping
      <4>2. visible' \subseteq Surfaces
        BY <4>1 DEF TypeOK
      <4>3. QED BY <4>1, <4>2, FireTypes
    <3>3. CASE OutputGone
      BY <3>3 DEF OutputGone, StepOK, TypeOK, CommitsCounted, links, commits
    <3>4. QED BY <1>1, <3>1, <3>2, <3>3, TreeStepTypes DEF Next, Noting, Step
  <2>2. leftBehind' = (leftBehind \cap alive') \cup Stranded'
    BY <1>1 DEF Next, Noting
  <2>3. Stranded' \subseteq alive'
    BY DEF Stranded
  <2>4. QED BY <2>1, <2>2, <2>3 DEF StepOK, TypeOK
<1>2. CASE UNCHANGED vars
  BY <1>2 DEF vars, TypeOK, CommitsCounted, links, commits
<1>3. QED BY <1>1, <1>2

LEMMA InitTypes == Init => TypeOK /\ CommitsCounted
<1> SUFFICES ASSUME Init PROVE TypeOK /\ CommitsCounted
  OBVIOUS
<1>1. 0 \in Count /\ 0 \in 0 .. MaxObjects /\ << >> \in Seq(Count) /\ << >> \in Seq(Surfaces)
  BY BoundsAssumption, EmptySeq DEF Count
<1>2. QED BY <1>1 DEF Init, TypeOK, CommitsCounted

LEMMA TypesHold == Spec => [](TypeOK /\ CommitsCounted)
BY InitTypes, StepTypes, PTL DEF Spec

\* Every value stays of its type; in particular a surface never loses more
\* wl_subsurface objects than it was given.
THEOREM TypeCorrect == Spec => []TypeOK
BY TypesHold, PTL

-----------------------------------------------------------------------------
(* The two links agree.                                                    *)

\* A surface is listed only while a wl_subsurface object names it, so none is
\* given a second parent while the first still lists it.
ListedAgree ==
  \A p \in alive :
    /\ Once(children[p])
    /\ \A c \in Range(children[p]) : c \in alive /\ parent[c] = p /\ objects[c] > 0

LEMMA ListedIsLinked == ListedAgree => LinksAgree
BY DEF ListedAgree, LinksAgree, Once, Range

LEMMA ChildLeftLists ==
  ASSUME TypeOK, NEW p, NEW s, NEW q \in alive
  PROVE  /\ Range(ChildLeft(p, s)[q]) = Range(children[q]) \ (IF q = p THEN {s} ELSE {})
         /\ Once(children[q]) => Once(ChildLeft(p, s)[q])
<1>1. CASE q = p
  <2>1. q \in Surfaces /\ children[q] \in Seq(Surfaces)
    BY DEF TypeOK
  <2>2. ChildLeft(p, s)[q] = Without(children[q], s)
    BY <1>1, <2>1 DEF ChildLeft, TypeOK
  <2>3. QED BY <1>1, <2>1, <2>2, WithoutKeeps
<1>2. CASE q # p
  BY <1>2 DEF ChildLeft, TypeOK
<1>3. QED BY <1>1, <1>2

LEMMA TreeStepListed ==
  ASSUME MaxObjects <= 1, TypeOK, ListedAgree, NEW s \in Surfaces,
         \/ CreateSurface(s) \/ DestroySurface(s) \/ Commit(s)
         \/ SetSync(s) \/ SetDesync(s) \/ DestroySubsurface(s)
         \/ \E p \in Surfaces : GetSubsurface(s, p)
         \/ \E sibling \in Surfaces, above \in BOOLEAN : Place(s, sibling, above)
  PROVE  ListedAgree'
<1>1. CASE CreateSurface(s)
  <2>1. /\ s \notin alive /\ alive' = alive \cup {s} /\ objects' = objects
        /\ children'[s] = << >>
        /\ \A p \in alive : children'[p] = children[p] /\ parent'[p] = parent[p]
    BY <1>1 DEF CreateSurface, TypeOK
  <2>2. Range(<< >>) = {} /\ Once(<< >>)
    BY DEF Range, Once
  <2> HIDE DEF CreateSurface
  <2>3. QED BY <2>1, <2>2 DEF ListedAgree
<1>2. CASE DestroySurface(s)
  <2>1. /\ alive' = alive \ {s} /\ UNCHANGED <<parent, objects>>
        /\ children' = ChildLeft(parent[s], s)
    BY <1>2 DEF DestroySurface
  <2>2. ASSUME NEW p \in alive
        PROVE  /\ s \notin Range(children'[p])
               /\ Range(children'[p]) \subseteq Range(children[p])
               /\ Once(children'[p])
    <3>1. /\ Range(children'[p]) = Range(children[p]) \ (IF p = parent[s] THEN {s} ELSE {})
          /\ Once(children[p]) => Once(children'[p])
      BY <2>1, ChildLeftLists
    <3>2. p # parent[s] => s \notin Range(children[p])
      BY DEF ListedAgree
    <3>3. Once(children[p])
      BY DEF ListedAgree
    <3>4. QED BY <3>1, <3>2, <3>3
  <2>3. QED BY <2>1, <2>2 DEF ListedAgree
<1>3. CASE Commit(s) \/ SetSync(s) \/ SetDesync(s)
  BY <1>3 DEF Commit, SetSync, SetDesync, ListedAgree, links
<1>4. CASE DestroySubsurface(s)
  <2>1. /\ alive' = alive
        /\ \A c \in alive : c # s => objects'[c] = objects[c]
    BY <1>4 DEF DestroySubsurface, TypeOK
  <2>2. CASE /\ s \in alive
             /\ parent' = [parent EXCEPT ![s] = NoSurface]
             /\ children' = ChildLeft(parent[s], s)
    <3>1. ASSUME NEW p \in alive
          PROVE  /\ s \notin Range(children'[p])
                 /\ Range(children'[p]) \subseteq Range(children[p])
                 /\ Once(children'[p])
      BY <2>2, ChildLeftLists DEF ListedAgree
    <3>2. \A c \in alive : c # s => parent'[c] = parent[c]
      BY <2>2 DEF TypeOK
    <3>3. QED BY <2>1, <3>1, <3>2 DEF ListedAgree
  <2>3. CASE s \notin alive /\ UNCHANGED links
    BY <2>1, <2>3 DEF ListedAgree, links
  <2>4. QED BY <1>4, <2>2, <2>3 DEF DestroySubsurface
<1>5. ASSUME NEW p \in Surfaces, GetSubsurface(s, p) PROVE ListedAgree'
  <2>1. objects[s] = 0
    BY <1>5, BoundsAssumption DEF GetSubsurface, TypeOK
  <2>2. \A q \in alive : s \notin Range(children[q])
    BY <2>1 DEF ListedAgree
  <2>3. /\ s \in alive /\ p \in alive /\ alive' = alive
        /\ parent'[s] = p /\ objects'[s] = 1
        /\ \A c \in alive : c # s => parent'[c] = parent[c] /\ objects'[c] = objects[c]
        /\ children'[p] = Append(children[p], s)
        /\ \A q \in alive : q # p => children'[q] = children[q]
    BY <1>5, <2>1 DEF GetSubsurface, TypeOK
  <2>4. children[p] \in Seq(Surfaces)
    BY DEF TypeOK
  <2>5. /\ Range(children'[p]) = Range(children[p]) \cup {s}
        /\ Once(children'[p])
    BY <2>2, <2>3, <2>4, AppendToList DEF ListedAgree
  <2>6. ASSUME NEW q \in alive
        PROVE  /\ Once(children'[q])
               /\ \A c \in Range(children'[q]) : c \in alive /\ parent'[c] = q /\ objects'[c] > 0
    <3>1. CASE q = p
      <4>1. \A c \in Range(children[p]) :
              c \in alive /\ c # s /\ parent[c] = p /\ objects[c] > 0
        BY <2>2, <2>3 DEF ListedAgree
      <4>2. \A c \in Range(children'[p]) : c \in alive /\ parent'[c] = p /\ objects'[c] > 0
        <5> SUFFICES ASSUME NEW c \in Range(children'[p])
                     PROVE  c \in alive /\ parent'[c] = p /\ objects'[c] > 0
          OBVIOUS
        <5>1. CASE c = s
          BY <2>3, <5>1
        <5>2. CASE c \in Range(children[p])
          BY <2>3, <4>1, <5>2
        <5>3. QED BY <2>5, <5>1, <5>2
      <4>3. QED BY <2>5, <3>1, <4>2
    <3>2. CASE q # p
      BY <2>2, <2>3, <3>2 DEF ListedAgree
    <3>3. QED BY <3>1, <3>2
  <2>7. QED BY <2>3, <2>6 DEF ListedAgree
<1>6. ASSUME NEW sibling \in Surfaces, NEW above \in BOOLEAN, Place(s, sibling, above)
      PROVE  ListedAgree'
  <2>1. /\ s \in alive /\ parent[s] \in alive /\ objects[s] > 0
        /\ UNCHANGED <<alive, parent, objects>>
    BY <1>6 DEF Place, HasObject
  <2>2. PICK list \in Seq(Surfaces) :
          /\ children' = [children EXCEPT ![parent[s]] = list]
          /\ Range(list) = (Range(children[parent[s]]) \ {s}) \cup {s}
          /\ Once(children[parent[s]]) => Once(list)
    BY <1>6, PlaceGives
  <2>3. /\ children'[parent[s]] = list
        /\ \A p \in alive : p # parent[s] => children'[p] = children[p]
    BY <2>1, <2>2 DEF TypeOK
  <2>4. /\ Range(list) = Range(children[parent[s]]) \cup {s}
        /\ Once(list)
    BY <2>1, <2>2 DEF ListedAgree
  <2>5. ASSUME NEW p \in alive
        PROVE  /\ Once(children'[p])
               /\ \A c \in Range(children'[p]) : c \in alive /\ parent[c] = p /\ objects[c] > 0
    <3>1. CASE p = parent[s]
      BY <2>1, <2>3, <2>4, <3>1 DEF ListedAgree
    <3>2. CASE p # parent[s]
      BY <2>3, <3>2 DEF ListedAgree
    <3>3. QED BY <3>1, <3>2
  <2>6. QED BY <2>1, <2>5 DEF ListedAgree
<1>7. QED BY <1>1, <1>2, <1>3, <1>4, <1>5, <1>6

LEMMA ListedHolds ==
  ASSUME MaxObjects <= 1
  PROVE  Spec => []ListedAgree
<1>1. Init => ListedAgree
  BY DEF Init, ListedAgree
<1>2. TypeOK /\ ListedAgree /\ [Next]_vars => ListedAgree'
  <2> SUFFICES ASSUME TypeOK, ListedAgree, [Next]_vars PROVE ListedAgree'
    OBVIOUS
  <2>1. CASE Presented \/ Housekeeping \/ OutputGone \/ UNCHANGED vars
    <3>1. alive' = alive /\ parent' = parent /\ children' = children /\ objects' = objects
      BY <2>1 DEF Presented, Housekeeping, OutputGone, Fire, vars, links
    <3>2. QED BY <3>1 DEF ListedAgree
  <2>2. QED BY <2>1, TreeStepListed DEF Next, Noting, Step
<1>3. QED BY <1>1, <1>2, TypesHold, PTL DEF Spec

\* For a client that gives a surface the role once at a time, both links agree
\* through every order of destroying surfaces and their wl_subsurface objects,
\* ids used again, and restacking under a parent whose id is a new surface's.
THEOREM LinksHold ==
  ASSUME MaxObjects <= 1
  PROVE  Spec => []LinksAgree
BY ListedHolds, ListedIsLinked, PTL

-----------------------------------------------------------------------------
(* Commits land in order.                                                  *)

Joined(a, b, c) == a \o b \o c

Extends(long, short, more) == long = short \o more

LEMMA JoinedProperties ==
  ASSUME NEW S, NEW a \in Seq(S), NEW b \in Seq(S), NEW c \in Seq(S), NEW d \in Seq(S)
  PROVE  /\ Joined(a, b, c) \in Seq(S)
         /\ Extends(Joined(a, b, c \o d), Joined(a, b, c), d)
         /\ Extends(Joined(a, b \o d, << >>), Joined(a, b, << >>), d)
         /\ Joined(a, b \o c, << >>) = Joined(a, b, c)
         /\ Joined(a \o b, << >>, c) = Joined(a, b, c)
         /\ Len(c \o d) = Len(c) + Len(d)
<1>1. PICK ab \in Seq(S) : ab = a \o b
  BY ConcatProperties
<1>2. ab \o c \in Seq(S) /\ Len(c \o d) = Len(c) + Len(d)
  BY ConcatProperties
<1>3. (ab \o c) \o d = ab \o (c \o d)
  BY ConcatAssociative
<1>4. ab \o << >> = ab
  BY ConcatEmptySeq
<1>5. a \o (b \o d) = ab \o d /\ a \o (b \o c) = ab \o c
  <2>1. (a \o b) \o d = a \o (b \o d)
    BY ConcatAssociative, SMTT(20)
  <2>2. (a \o b) \o c = a \o (b \o c)
    BY ConcatAssociative, SMTT(20)
  <2>3. QED BY <1>1, <2>1, <2>2
<1>6. (ab \o d) \o << >> = ab \o d /\ (ab \o c) \o << >> = ab \o c
  <2>1. ab \o d \in Seq(S)
    BY ConcatProperties
  <2>2. QED BY <1>2, <2>1, ConcatEmptySeq
<1>7. QED BY <1>1, <1>2, <1>3, <1>4, <1>5, <1>6 DEF Joined, Extends

\* `told', `waiting' and `held' are what became of the first n commits, and
\* `shown' is the newest that is not held.
InOrder(told, waiting, held, shown, n) ==
  Joined(told, waiting, held) = FirstCommits(n) /\ shown = n - Len(held)

LEMMA NoCommits == InOrder(<< >>, << >>, << >>, 0, 0)
<1>1. PICK none \in Seq(Nat) : none = << >>
  BY EmptySeq
<1>2. Len(none) = 0
  BY <1>1, EmptySeq
<1>3. none \o none \o none = none
  BY <1>1, ConcatEmptySeq
<1>4. FirstCommits(0) = none
  <2>1. FirstCommits(0) \in Seq(Nat) /\ Len(FirstCommits(0)) = 0
    BY DEF FirstCommits
  <2>2. QED BY <1>1, <2>1, EmptySeq
<1>5. 0 = 0 - Len(none)
  BY <1>2
<1>6. InOrder(none, none, none, 0, 0)
  BY <1>3, <1>4, <1>5 DEF InOrder, Joined
<1>7. QED BY <1>1, <1>6

LEMMA OneMore ==
  ASSUME NEW n \in Nat
  PROVE  FirstCommits(n) \o <<n + 1>> = FirstCommits(n + 1)
<1>1. /\ FirstCommits(n) \in Seq(Nat) /\ Len(FirstCommits(n)) = n
      /\ FirstCommits(n + 1) \in Seq(Nat) /\ Len(FirstCommits(n + 1)) = n + 1
      /\ \A i \in 1 .. (n + 1) : FirstCommits(n + 1)[i] = i
      /\ \A i \in 1 .. n : FirstCommits(n)[i] = i
  BY DEF FirstCommits
<1>2. <<n + 1>> \in Seq(Nat) /\ Len(<<n + 1>>) = 1 /\ <<n + 1>>[1] = n + 1
  OBVIOUS
<1> DEFINE both == FirstCommits(n) \o <<n + 1>>
<1>3. /\ both \in Seq(Nat) /\ Len(both) = n + 1
      /\ \A i \in 1 .. (n + 1) : both[i] = IF i <= n THEN FirstCommits(n)[i] ELSE <<n + 1>>[i - n]
  BY <1>1, <1>2, ConcatProperties
<1> HIDE DEF both
<1>4. \A i \in 1 .. (n + 1) : both[i] = i
  <2>1. ASSUME NEW i \in 1 .. (n + 1)
        PROVE  both[i] = i
    <3>1. CASE i <= n
      BY <1>1, <1>3, <3>1
    <3>2. CASE i = n + 1
      <4>1. i - n = 1 /\ ~ (i <= n)
        BY <3>2
      <4>2. QED BY <1>2, <1>3, <3>2, <4>1
    <3>3. QED BY <3>1, <3>2
  <2>2. QED BY <2>1
<1>5. both = FirstCommits(n + 1)
  BY <1>1, <1>3, <1>4, SeqEqual
<1>6. QED BY <1>5 DEF both

\* `this' is what comes after the first n commits.
Follows(this, n) == Len(this) = 1 /\ Extends(FirstCommits(n + 1), FirstCommits(n), this)

\* A commit that is held, or that lands when nothing is held.
LEMMA CommitKeepsOrder ==
  ASSUME NEW S, NEW told \in Seq(S), NEW waiting \in Seq(S), NEW held \in Seq(S),
         NEW shown, NEW n \in Nat, InOrder(told, waiting, held, shown, n),
         NEW this \in Seq(S), Follows(this, n)
  PROVE  /\ InOrder(told, waiting, held \o this, shown, n + 1)
         /\ held = << >> => InOrder(told, waiting \o this, held, n + 1, n + 1)
<1>1. Joined(told, waiting, held) = FirstCommits(n) /\ shown = n - Len(held)
  BY DEF InOrder
<1>2. /\ Extends(Joined(told, waiting, held \o this), Joined(told, waiting, held), this)
      /\ Extends(Joined(told, waiting \o this, << >>), Joined(told, waiting, << >>), this)
      /\ Len(held \o this) = Len(held) + Len(this)
  BY JoinedProperties
<1>3. InOrder(told, waiting, held \o this, shown, n + 1)
  <2>1. n - Len(held) = (n + 1) - (Len(held) + Len(this))
    BY LenProperties DEF Follows
  <2>2. QED BY <1>1, <1>2, <2>1, Zenon DEF InOrder, Follows, Extends
<1>4. ASSUME held = << >>
      PROVE  InOrder(told, waiting \o this, held, n + 1, n + 1)
  <2>1. Len(held) = 0
    BY <1>4, EmptySeq
  <2>2. n + 1 = (n + 1) - Len(held)
    BY <2>1
  <2>3. QED BY <1>1, <1>2, <1>4, <2>2, Zenon DEF InOrder, Follows, Extends
<1>5. QED BY <1>3, <1>4

\* What is held lands.
LEMMA LandingKeepsOrder ==
  ASSUME NEW S, NEW told \in Seq(S), NEW waiting \in Seq(S), NEW held \in Seq(S),
         NEW shown, NEW n \in Nat, InOrder(told, waiting, held, shown, n)
  PROVE  InOrder(told, waiting \o held, << >>, Latest(shown, held), n)
<1>1. Joined(told, waiting, held) = FirstCommits(n) /\ shown = n - Len(held)
  BY DEF InOrder
<1>2. Joined(told, waiting \o held, << >>) = FirstCommits(n)
  BY <1>1, JoinedProperties
<1>3. Latest(shown, held) = n
  <2>1. CASE held = << >>
    <3>1. Len(held) = 0
      BY <2>1, EmptySeq
    <3>2. QED BY <1>1, <2>1, <3>1 DEF Latest
  <2>2. CASE held # << >>
    <3>1. PICK a \in Seq(S) : a = told \o waiting
      BY ConcatProperties
    <3>2. a \o held = FirstCommits(n)
      BY <1>1, <3>1 DEF Joined
    <3>3. Len(held) \in Nat \ {0} /\ Len(a) \in Nat
      BY <2>2, EmptySeq, LenProperties
    <3>4. /\ Len(FirstCommits(n)) = n
          /\ \A i \in 1 .. n : FirstCommits(n)[i] = i
      BY DEF FirstCommits
    <3>5. /\ Len(a \o held) = Len(a) + Len(held)
          /\ \A i \in 1 .. (Len(a) + Len(held)) :
               (a \o held)[i] = IF i <= Len(a) THEN a[i] ELSE held[i - Len(a)]
      BY ConcatProperties
    <3>6. Len(a) + Len(held) = n
      BY <3>2, <3>4, <3>5
    <3>7. (a \o held)[n] = held[Len(held)]
      BY <3>3, <3>5, <3>6
    <3>8. held[Len(held)] = n
      BY <3>2, <3>3, <3>4, <3>6, <3>7
    <3>9. QED BY <2>2, <3>8 DEF Latest
  <2>3. QED BY <2>1, <2>2
<1>4. PICK none : none = << >> /\ Len(none) = 0
  BY EmptySeq
<1>5. n = n - Len(none)
  BY <1>4
<1>6. QED BY <1>2, <1>3, <1>4, <1>5, Zenon DEF InOrder

\* What waits is told.
LEMMA TellingKeepsOrder ==
  ASSUME NEW S, NEW told \in Seq(S), NEW waiting \in Seq(S), NEW held \in Seq(S),
         NEW shown, NEW n, InOrder(told, waiting, held, shown, n)
  PROVE  InOrder(told \o waiting, << >>, held, shown, n)
BY JoinedProperties DEF InOrder

Ordered(s) == InOrder(answered[s], callbacks[s], cached[s], content[s], committed[s])

LEMMA ThisFollows ==
  ASSUME TypeOK, CommitsCounted, total < MaxCommits, NEW s \in Surfaces
  PROVE  /\ <<committed[s] + 1>> \in Seq(Count)
         /\ Follows(<<committed[s] + 1>>, committed[s])
         /\ Latest(content[s], <<committed[s] + 1>>) = committed[s] + 1
<1>1. committed[s] \in Nat /\ committed[s] + 1 \in Count
  BY BoundsAssumption DEF TypeOK, CommitsCounted, Count
<1>2. ASSUME NEW c \in Count
      PROVE  /\ <<c>> \in Seq(Count) /\ Len(<<c>>) = 1 /\ <<c>>[1] = c
             /\ Latest(content[s], <<c>>) = c
  <2>1. <<c>> \in Seq(Count) /\ Len(<<c>>) = 1 /\ <<c>>[1] = c
    OBVIOUS
  <2>2. <<c>> # << >>
    OBVIOUS
  <2>3. QED BY <2>1, <2>2 DEF Latest
<1>3. FirstCommits(committed[s]) \o <<committed[s] + 1>> = FirstCommits(committed[s] + 1)
  BY <1>1, OneMore
<1>4. QED BY <1>1, <1>2, <1>3 DEF Follows, Extends

LEMMA ApplyAt ==
  ASSUME TypeOK, NEW s \in Surfaces, NEW these, NEW left, Apply(s, these, left)
  PROVE  /\ cached'[s] = left /\ callbacks'[s] = callbacks[s] \o these
         /\ content'[s] = Latest(content[s], these)
<1>1. \/ /\ s = s /\ cached'[s] = left
         /\ callbacks'[s] = callbacks[s] \o these /\ content'[s] = Latest(content[s], these)
      \/ s # s
  BY ApplyGives
<1>2. QED BY <1>1

LEMMA ApplyElsewhere ==
  ASSUME TypeOK, NEW s \in Surfaces, NEW these, NEW left, Apply(s, these, left),
         NEW x \in Surfaces, x # s
  PROVE  \/ /\ cached'[x] = << >> /\ callbacks'[x] = callbacks[x] \o cached[x]
            /\ content'[x] = Latest(content[x], cached[x])
         \/ cached'[x] = cached[x] /\ callbacks'[x] = callbacks[x] /\ content'[x] = content[x]
BY ApplyGives

\* What apply_surface_state does to a surface it visits with what is cached
\* there, or does not visit.
LEMMA ApplyKeepsOrder ==
  ASSUME TypeOK, NEW s \in Surfaces, NEW these, NEW left, Apply(s, these, left),
         UNCHANGED <<answered, committed>>, NEW x \in Surfaces, Ordered(x),
         x = s => these = cached[s] /\ left = << >>
  PROVE  Ordered(x)'
<1>1. /\ answered[x] \in Seq(Count) /\ callbacks[x] \in Seq(Count) /\ cached[x] \in Seq(Count)
      /\ committed[x] \in Nat
  BY BoundsAssumption DEF TypeOK, Count
<1>2. InOrder(answered[x], callbacks[x], cached[x], content[x], committed[x])
  BY DEF Ordered
<1>3. InOrder(answered[x], callbacks[x] \o cached[x], << >>, Latest(content[x], cached[x]),
              committed[x])
  BY <1>1, <1>2, LandingKeepsOrder
<1>4. answered'[x] = answered[x] /\ committed'[x] = committed[x]
  OBVIOUS
<1>5. \/ /\ cached'[x] = << >> /\ callbacks'[x] = callbacks[x] \o cached[x]
         /\ content'[x] = Latest(content[x], cached[x])
      \/ cached'[x] = cached[x] /\ callbacks'[x] = callbacks[x] /\ content'[x] = content[x]
  <2>1. CASE x = s
    BY <2>1, ApplyAt
  <2>2. CASE x # s
    BY <2>2, ApplyElsewhere
  <2>3. QED BY <2>1, <2>2
<1>6. QED BY <1>2, <1>3, <1>4, <1>5, Zenon DEF Ordered

LEMMA CommitOrdered ==
  ASSUME TypeOK, CommitsCounted, NEW s \in Surfaces, Commit(s),
         NEW x \in alive, Ordered(x), x \notin Stranded
  PROVE  Ordered(x)'
<1>1. /\ x \in Surfaces
      /\ answered[x] \in Seq(Count) /\ callbacks[x] \in Seq(Count) /\ cached[x] \in Seq(Count)
      /\ committed[x] \in Nat /\ committed'[x] = IF x = s THEN committed[x] + 1 ELSE committed[x]
      /\ answered' = answered
  BY BoundsAssumption DEF Commit, TypeOK, Count
<1>2. PICK this : /\ this = <<committed[s] + 1>>
                  /\ this \in Seq(Count) /\ Follows(this, committed[s])
                  /\ Latest(content[s], this) = committed[s] + 1
  BY ThisFollows DEF Commit
<1>3. InOrder(answered[x], callbacks[x], cached[x], content[x], committed[x])
  BY DEF Ordered
<1>4. CASE x # s
  <2>1. CASE cached' = [cached EXCEPT ![s] = Merge(@, this)] /\ UNCHANGED <<content, callbacks>>
    BY <1>1, <1>3, <1>4, <2>1, Zenon DEF Ordered, TypeOK
  <2>2. CASE Apply(s, this, cached[s])
    <3>1. \/ /\ cached'[x] = << >> /\ callbacks'[x] = callbacks[x] \o cached[x]
             /\ content'[x] = Latest(content[x], cached[x])
          \/ cached'[x] = cached[x] /\ callbacks'[x] = callbacks[x] /\ content'[x] = content[x]
      BY <1>1, <1>4, <2>2, ApplyElsewhere
    <3>2. InOrder(answered[x], callbacks[x] \o cached[x], << >>, Latest(content[x], cached[x]),
                  committed[x])
      BY <1>1, <1>3, LandingKeepsOrder
    <3>3. answered'[x] = answered[x] /\ committed'[x] = committed[x]
      BY <1>1, <1>4
    <3>4. QED BY <1>3, <3>1, <3>2, <3>3, Zenon DEF Ordered
  <2>3. QED BY <1>2, <2>1, <2>2 DEF Commit
<1>5. CASE x = s
  <2>1. /\ InOrder(answered[s], callbacks[s], cached[s] \o this, content[s], committed[s] + 1)
        /\ cached[s] = << >> =>
             InOrder(answered[s], callbacks[s] \o this, cached[s], committed[s] + 1, committed[s] + 1)
    BY <1>1, <1>2, <1>3, <1>5, CommitKeepsOrder
  <2>2. answered'[s] = answered[s] /\ committed'[s] = committed[s] + 1
    BY <1>1, <1>5
  <2>3. CASE cached' = [cached EXCEPT ![s] = Merge(@, this)] /\ UNCHANGED <<content, callbacks>>
    <3>1. /\ cached'[s] = cached[s] \o this
          /\ content'[s] = content[s] /\ callbacks'[s] = callbacks[s]
      BY <2>3 DEF Merge, TypeOK
    <3>2. QED BY <1>5, <2>1, <2>2, <3>1, Zenon DEF Ordered
  <2>4. CASE ~ EffectivelySynced(s) /\ Apply(s, this, cached[s])
    <3>1. cached[s] = << >>
      BY <1>5, <2>4 DEF Stranded
    <3>2. /\ cached'[s] = cached[s] /\ callbacks'[s] = callbacks[s] \o this
          /\ content'[s] = Latest(content[s], this)
      BY <2>4, ApplyAt
    <3>3. QED BY <1>2, <1>5, <2>1, <2>2, <3>1, <3>2, Zenon DEF Ordered
  <2>5. QED BY <1>2, <2>3, <2>4 DEF Commit
<1>6. QED BY <1>4, <1>5

LEMMA TreeStepOrdered ==
  ASSUME TypeOK, CommitsCounted, NEW s \in Surfaces,
         \/ CreateSurface(s) \/ DestroySurface(s) \/ Commit(s)
         \/ SetSync(s) \/ SetDesync(s) \/ DestroySubsurface(s)
         \/ \E p \in Surfaces : GetSubsurface(s, p)
         \/ \E sibling \in Surfaces, above \in BOOLEAN : Place(s, sibling, above),
         NEW x \in alive', x \in alive => Ordered(x) /\ x \notin Stranded
  PROVE  Ordered(x)'
<1>1. CASE CreateSurface(s)
  <2>1. CASE x = s
    <3>1. /\ answered'[s] = << >> /\ callbacks'[s] = << >> /\ cached'[s] = << >>
          /\ content'[s] = 0 /\ committed'[s] = 0
      BY <1>1 DEF CreateSurface, TypeOK
    <3>2. QED BY <2>1, <3>1, NoCommits, Zenon DEF Ordered
  <2>2. CASE x # s
    <3>1. x \in alive
      BY <1>1, <2>2 DEF CreateSurface
    <3>2. /\ answered'[x] = answered[x] /\ callbacks'[x] = callbacks[x] /\ cached'[x] = cached[x]
          /\ content'[x] = content[x] /\ committed'[x] = committed[x]
      BY <1>1, <2>2, <3>1 DEF CreateSurface, TypeOK
    <3>3. QED BY <3>1, <3>2, Zenon DEF Ordered
  <2>3. QED BY <2>1, <2>2
<1>2. CASE Commit(s)
  <2>1. x \in alive
    BY <1>2 DEF Commit
  <2>2. QED BY <1>2, <2>1, CommitOrdered
<1>3. CASE SetDesync(s) \/ DestroySubsurface(s)
  <2>1. /\ x \in alive /\ x \in Surfaces /\ Ordered(x)
        /\ UNCHANGED <<answered, committed>>
    BY <1>3 DEF SetDesync, DestroySubsurface, TypeOK
  <2>2. CASE Apply(s, cached[s], << >>)
    BY <2>1, <2>2, ApplyKeepsOrder
  <2>3. CASE UNCHANGED <<cached, content, callbacks>>
    BY <2>1, <2>3, Zenon DEF Ordered
  <2>4. QED BY <1>3, <2>2, <2>3 DEF SetDesync, DestroySubsurface
<1>4. CASE \/ DestroySurface(s) \/ SetSync(s) \/ \E p \in Surfaces : GetSubsurface(s, p)
           \/ \E sibling \in Surfaces, above \in BOOLEAN : Place(s, sibling, above)
  <2>1. x \in alive /\ UNCHANGED <<commits, answered>>
    BY <1>4 DEF DestroySurface, SetSync, GetSubsurface, Place
  <2>2. QED BY <2>1, Zenon DEF Ordered, commits
<1>5. QED BY <1>1, <1>2, <1>3, <1>4

LEMMA FireOrdered ==
  ASSUME TypeOK, NEW covered, Fire(covered), NEW x \in alive', Ordered(x)
  PROVE  Ordered(x)'
<1>1. /\ x \in Surfaces
      /\ answered[x] \in Seq(Count) /\ callbacks[x] \in Seq(Count) /\ cached[x] \in Seq(Count)
      /\ cached' = cached /\ content' = content /\ committed' = committed
  BY DEF Fire, TypeOK
<1>2. InOrder(answered[x], callbacks[x], cached[x], content[x], committed[x])
  BY DEF Ordered
<1>3. InOrder(answered[x] \o callbacks[x], << >>, cached[x], content[x], committed[x])
  BY <1>1, <1>2, TellingKeepsOrder
<1>4. \/ answered'[x] = answered[x] \o callbacks[x] /\ callbacks'[x] = << >>
      \/ answered'[x] = answered[x] /\ callbacks'[x] = callbacks[x]
  BY <1>1 DEF Fire
<1>5. QED BY <1>1, <1>2, <1>3, <1>4, Zenon DEF Ordered

\* A surface that nothing synchronises and that still has something cached has
\* been noted: a commit of any other finds its own cache empty, and lands
\* behind nothing.
OrderKept == Stranded \subseteq leftBehind /\ \A s \in alive \ leftBehind : Ordered(s)

LEMMA StepOrdered ==
  TypeOK /\ CommitsCounted /\ OrderKept /\ [Next]_vars => OrderKept'
<1> SUFFICES ASSUME TypeOK, CommitsCounted, OrderKept, [Next]_vars PROVE OrderKept'
  OBVIOUS
<1>1. CASE Next
  <2>1. leftBehind' = (leftBehind \cap alive') \cup Stranded'
    BY <1>1 DEF Next, Noting
  <2>2. ASSUME NEW x \in alive', x \notin leftBehind'
        PROVE  Ordered(x)'
    <3>1. x \in alive => Ordered(x) /\ x \notin Stranded
      BY <2>1, <2>2 DEF OrderKept
    <3>2. CASE Presented \/ Housekeeping
      <4>1. PICK covered : Fire(covered)
        BY <3>2 DEF Presented, Housekeeping
      <4>2. Ordered(x)
        BY <3>1, <4>1 DEF Fire
      <4>3. QED BY <4>1, <4>2, FireOrdered
    <3>3. CASE OutputGone
      <4>1. alive' = alive /\ UNCHANGED <<commits, answered>>
        BY <3>3 DEF OutputGone
      <4>2. QED BY <3>1, <4>1, Zenon DEF Ordered, commits
    <3>4. QED BY <1>1, <3>1, <3>2, <3>3, TreeStepOrdered DEF Next, Noting, Step
  <2>3. QED BY <2>1, <2>2 DEF OrderKept
<1>2. CASE UNCHANGED vars
  <2>1. /\ UNCHANGED <<alive, parent, children, isSub, sync, committed, cached, content,
                       callbacks, answered, leftBehind>>
    BY <1>2 DEF vars, links, commits
  <2>2. Stranded' = Stranded
    BY <2>1 DEF Stranded, EffectivelySynced, Upwards
  <2>3. \A s : Ordered(s)' <=> Ordered(s)
    BY <2>1, Zenon DEF Ordered
  <2>4. QED BY <2>1, <2>2, <2>3 DEF OrderKept
<1>3. QED BY <1>1, <1>2

\* Every frame callback of a surface is answered once, in the order it was
\* committed, and the newest commit not cached is the one shown, however
\* commits, set_sync, set_desync, role changes and ids used again interleave
\* and however often wl_subsurface objects are made for one surface: unless its
\* cache was once left with nothing to apply it.
THEOREM CommitsInOrder == Spec => []CommitsLandInOrder
<1>1. Init => OrderKept
  BY DEF Init, OrderKept, Stranded
<1>2. OrderKept => CommitsLandInOrder
  <2> SUFFICES ASSUME OrderKept, NEW s \in alive, s \notin leftBehind
               PROVE  /\ answered[s] \o callbacks[s] \o cached[s] = FirstCommits(committed[s])
                      /\ content[s] = committed[s] - Len(cached[s])
    BY DEF CommitsLandInOrder
  <2>1. InOrder(answered[s], callbacks[s], cached[s], content[s], committed[s])
    BY DEF OrderKept, Ordered
  <2>2. QED BY <2>1, Zenon DEF InOrder, Joined
<1>3. QED BY <1>1, <1>2, StepOrdered, TypesHold, PTL DEF Spec

-----------------------------------------------------------------------------
(* No walk over the tree comes back to where it has been.                  *)

\* Whichever surfaces are looked at, one of them has its parent elsewhere.
NoRing == \A T \in SUBSET alive : T # {} => \E x \in T : parent[x] \notin T

LEMMA UpwardsType == TypeOK => Upwards \in [Surfaces -> SUBSET Surfaces]
BY DEF Upwards, TypeOK

\* get_subsurface closes no ring: the part of one above the new parent would
\* have been one before.
LEMMA LinkingClosesNoRing ==
  ASSUME TypeOK, NoRing, NEW s \in Surfaces, NEW p \in Surfaces, GetSubsurface(s, p)
  PROVE  NoRing'
<1>1. /\ s \in alive /\ p \in alive /\ alive' = alive
      /\ ~ IsAncestor(s, p)
      /\ \A x \in alive : parent'[x] = IF x = s THEN p ELSE parent[x]
  BY DEF GetSubsurface, TypeOK
<1> SUFFICES ASSUME NEW T \in SUBSET alive, T # {}, \A x \in T : parent'[x] \in T
             PROVE  FALSE
  BY <1>1 DEF NoRing
<1>2. CASE s \notin T
  <2>1. \A x \in T : parent[x] \in T
    BY <1>1, <1>2
  <2>2. QED BY <2>1 DEF NoRing
<1>3. CASE s \in T
  <2> DEFINE above == Reachable({p}, Upwards)
  <2>1. /\ p \in above
        /\ \A x \in above : Upwards[x] \subseteq above
    BY UpwardsType, ReachableIsLeast
  <2>2. s \notin above
    BY <1>1 DEF IsAncestor
  <2> HIDE DEF above
  <2>3. p \in T
    BY <1>1, <1>3
  <2>4. ASSUME NEW x \in T \cap above
        PROVE  parent[x] \in T \cap above
    <3>1. x # s
      BY <2>2
    <3>2. parent[x] \in T
      BY <1>1, <3>1
    <3>3. parent[x] \in Upwards[x]
      BY <3>2, SurfacesAssumption DEF Upwards, TypeOK
    <3>4. QED BY <2>1, <3>2, <3>3
  <2>5. T \cap above \in SUBSET alive /\ T \cap above # {}
    BY <2>1, <2>3
  <2>6. QED BY <2>4, <2>5 DEF NoRing
<1>4. QED BY <1>2, <1>3

LEMMA StepNoRing == TypeOK /\ NoRing /\ [Next]_vars => NoRing'
<1> SUFFICES ASSUME TypeOK, NoRing, [Next]_vars PROVE NoRing'
  OBVIOUS
<1>1. ASSUME alive' \subseteq alive, \A x \in alive' : parent'[x] \in {parent[x], NoSurface}
      PROVE  NoRing'
  <2> SUFFICES ASSUME NEW T \in SUBSET alive', T # {}
               PROVE  \E x \in T : parent'[x] \notin T
    BY DEF NoRing
  <2>1. PICK x \in T : parent[x] \notin T
    BY <1>1 DEF NoRing
  <2>2. NoSurface \notin T
    BY <1>1, SurfacesAssumption DEF TypeOK
  <2>3. QED BY <1>1, <2>1, <2>2
<1>2. ASSUME NEW s \in Surfaces, CreateSurface(s)
      PROVE  NoRing'
  <2>1. /\ s \notin alive /\ alive' = alive \cup {s} /\ parent'[s] = NoSurface
        /\ \A x \in alive : parent'[x] = parent[x]
    BY <1>2 DEF CreateSurface, TypeOK
  <2> SUFFICES ASSUME NEW T \in SUBSET alive', T # {}
               PROVE  \E x \in T : parent'[x] \notin T
    BY DEF NoRing
  <2>2. CASE s \in T
    <3>1. NoSurface \notin T
      BY <2>1, SurfacesAssumption DEF TypeOK
    <3>2. QED BY <2>1, <2>2, <3>1
  <2>3. CASE s \notin T
    <3>1. PICK x \in T : parent[x] \notin T
      BY <2>1, <2>3 DEF NoRing
    <3>2. QED BY <2>1, <2>3, <3>1
  <2>4. QED BY <2>2, <2>3
<1>3. ASSUME NEW s \in Surfaces,
             \/ DestroySurface(s) \/ Commit(s) \/ SetSync(s) \/ SetDesync(s) \/ DestroySubsurface(s)
             \/ \E sibling \in Surfaces, above \in BOOLEAN : Place(s, sibling, above)
      PROVE  NoRing'
  <2>1. alive' \subseteq alive
    BY <1>3 DEF DestroySurface, Commit, SetSync, SetDesync, DestroySubsurface, Place
  <2>2. parent' = parent \/ parent' = [parent EXCEPT ![s] = NoSurface]
    BY <1>3 DEF DestroySurface, Commit, SetSync, SetDesync, DestroySubsurface, Place, links
  <2>3. \A x \in alive' : parent'[x] \in {parent[x], NoSurface}
    BY <2>1, <2>2 DEF TypeOK
  <2>4. QED BY <1>1, <2>1, <2>3
<1>4. CASE Presented \/ Housekeeping \/ OutputGone \/ UNCHANGED vars
  <2>1. alive' = alive /\ parent' = parent
    BY <1>4 DEF Presented, Housekeeping, OutputGone, Fire, vars, links
  <2>2. QED BY <1>1, <2>1
<1>5. QED BY <1>2, <1>3, <1>4, LinkingClosesNoRing DEF Next, Noting, Step

\* The parents of surfaces never form a ring, however often wl_subsurface
\* objects are made for a surface: is_ancestor and is_effectively_synced come
\* to an end by themselves.
THEOREM WalksUpEnd == Spec => []NoRing
<1>1. Init => NoRing
  BY DEF Init, NoRing
<1>2. QED BY <1>1, StepNoRing, TypesHold, PTL DEF Spec

LEMMA BelowIsAcyclic == TypeOK /\ ListedAgree /\ NoRing => DownwardAcyclic
<1> DEFINE downwards == [x \in Surfaces |-> Range(children[x])]
           below(s) == Reachable(Range(children[s]), downwards)
<1> SUFFICES ASSUME TypeOK, ListedAgree, NoRing, NEW s \in alive, s \in below(s)
             PROVE  FALSE
  BY DEF DownwardAcyclic
<1>1. \A x \in Surfaces : Range(children[x]) \subseteq Surfaces
  <2>1. ASSUME NEW x \in Surfaces
        PROVE  Range(children[x]) \subseteq Surfaces
    <3>1. children[x] \in Seq(Surfaces)
      BY DEF TypeOK
    <3>2. QED BY <3>1, LenProperties DEF Range
  <2>2. QED BY <2>1
<1>2. downwards \in [Surfaces -> SUBSET Surfaces] /\ s \in Surfaces
  BY <1>1 DEF TypeOK
<1>3. Range(children[s]) \in SUBSET Surfaces
  BY <1>1, <1>2
<1> DEFINE B == below(s)
           U == {x \in B \cap alive : parent[x] \in B}
<1>4. /\ Range(children[s]) \subseteq B
      /\ \A x \in B : downwards[x] \subseteq B
      /\ \A T : Range(children[s]) \subseteq T /\ (\A x \in T \cap Surfaces : downwards[x] \subseteq T)
           => B \subseteq T
  <2> HIDE DEF downwards
  <2>1. QED BY <1>2, <1>3, ReachableIsLeast
<1>5. \A x \in Surfaces : downwards[x] = Range(children[x])
  OBVIOUS
<1>6. s \in B
  OBVIOUS
<1> HIDE DEF B, downwards
<1>7. Range(children[s]) \subseteq U
  BY <1>4, <1>6 DEF ListedAgree
<1>8. ASSUME NEW x \in U \cap Surfaces
      PROVE  downwards[x] \subseteq U
  <2>1. downwards[x] = Range(children[x]) /\ downwards[x] \subseteq B /\ x \in alive /\ x \in B
    BY <1>4, <1>5
  <2>2. QED BY <2>1 DEF ListedAgree
<1>9. B \subseteq U
  BY <1>4, <1>7, <1>8
<1>10. B \in SUBSET alive /\ B # {} /\ \A x \in B : parent[x] \in B
  BY <1>6, <1>9
<1>11. QED BY <1>10 DEF NoRing

\* For a client that gives a surface the role once at a time, the tree of
\* children has no ring either: composing, hit testing and applying a commit
\* end.
THEOREM WalksDownEnd ==
  ASSUME MaxObjects <= 1
  PROVE  Spec => []DownwardAcyclic
BY BelowIsAcyclic, ListedHolds, TypesHold, WalksUpEnd, PTL

-----------------------------------------------------------------------------
(* What waits for a surface lands with it.                                 *)

LEMMA CascadeIsLeast ==
  ASSUME TypeOK, NEW s \in Surfaces
  PROVE  /\ s \in Cascade(s)
         /\ \A x \in Cascade(s) : x \in Surfaces /\ SyncedChildren(x) \subseteq Cascade(s)
         /\ \A T : s \in T /\ (\A x \in T \cap Surfaces : SyncedChildren(x) \subseteq T)
              => Cascade(s) \subseteq T
<1> DEFINE down == [x \in Surfaces |-> SyncedChildren(x)]
<1>1. \A x \in Surfaces : SyncedChildren(x) \subseteq Surfaces
  <2>1. ASSUME NEW x \in Surfaces
        PROVE  SyncedChildren(x) \subseteq Surfaces
    <3>1. children[x] \in Seq(Surfaces)
      BY DEF TypeOK
    <3>2. QED BY <3>1, LenProperties DEF SyncedChildren, Range
  <2>2. QED BY <2>1
<1>2. down \in [Surfaces -> SUBSET Surfaces] /\ \A x \in Surfaces : down[x] = SyncedChildren(x)
  BY <1>1
<1>3. Cascade(s) = Reachable({s}, down)
  BY DEF Cascade
<1>4. {s} \in SUBSET Surfaces
  OBVIOUS
<1> HIDE DEF down
<1>5. /\ {s} \subseteq Reachable({s}, down)
      /\ Reachable({s}, down) \subseteq Surfaces
      /\ \A x \in Reachable({s}, down) : down[x] \subseteq Reachable({s}, down)
      /\ \A T : {s} \subseteq T /\ (\A x \in T \cap Surfaces : down[x] \subseteq T)
           => Reachable({s}, down) \subseteq T
  BY <1>2, <1>4, ReachableIsLeast
<1>6. s \in Cascade(s) /\ \A x \in Cascade(s) : x \in Surfaces /\ SyncedChildren(x) \subseteq Cascade(s)
  <2>1. s \in Cascade(s) /\ Cascade(s) \subseteq Surfaces
    BY <1>3, <1>5
  <2>2. \A x \in Cascade(s) : down[x] \subseteq Cascade(s)
    BY <1>3, <1>5, Zenon
  <2>3. QED BY <1>2, <2>1, <2>2
<1>7. ASSUME NEW T, s \in T, \A x \in T \cap Surfaces : SyncedChildren(x) \subseteq T
      PROVE  Cascade(s) \subseteq T
  <2>1. {s} \subseteq T /\ \A x \in T \cap Surfaces : down[x] \subseteq T
    BY <1>2, <1>7
  <2>2. QED BY <1>3, <1>5, <2>1
<1>8. QED BY <1>6, <1>7

LEMMA CascadesNest ==
  ASSUME TypeOK, NEW s \in Surfaces, NEW x \in Cascade(s)
  PROVE  Cascade(x) \subseteq Cascade(s)
<1>1. x \in Surfaces
  BY CascadeIsLeast
<1>2. QED BY <1>1, CascadeIsLeast

\* A surface that waits for x is in the cascade of every surface x is in.
LEMMA WaitersAreReached ==
  TypeOK => \A s, x, d \in Surfaces : x \in Cascade(s) /\ WaitsFor(d, x) => d \in Cascade(s)
<1> SUFFICES ASSUME TypeOK, NEW s \in Surfaces, NEW x \in Surfaces, NEW d \in Surfaces,
                    x \in Cascade(s), WaitsFor(d, x)
             PROVE  d \in Cascade(s)
  OBVIOUS
<1> DEFINE waiting == {y \in alive : /\ EffectivelySynced(y)
                                     /\ parent[y] \in alive /\ y \in Range(children[parent[y]])}
           upWaiting == [y \in Surfaces |-> IF y \in waiting THEN {parent[y]} ELSE {}]
           T == {w \in Surfaces : d \in Cascade(w)}
<1>1. d \in waiting /\ x \in Reachable({parent[d]}, upWaiting)
  BY DEF WaitsFor
<1>2. upWaiting \in [Surfaces -> SUBSET Surfaces]
      /\ \A y \in Surfaces : upWaiting[y] = IF y \in waiting THEN {parent[y]} ELSE {}
  BY DEF TypeOK
<1>3. \A y \in waiting : parent[y] \in Surfaces /\ y \in SyncedChildren(parent[y])
  BY DEF SyncedChildren, TypeOK
<1> HIDE DEF waiting, upWaiting
<1>4. \A y \in waiting : y \in Cascade(parent[y])
  BY <1>3, CascadeIsLeast
<1>5. {parent[d]} \in SUBSET Surfaces /\ {parent[d]} \subseteq T
  BY <1>1, <1>3, <1>4
<1>6. ASSUME NEW w \in T \cap Surfaces
      PROVE  upWaiting[w] \subseteq T
  <2>1. CASE w \in waiting
    <3>1. parent[w] \in Surfaces /\ w \in Cascade(parent[w])
      BY <1>3, <1>4, <2>1
    <3>2. Cascade(w) \subseteq Cascade(parent[w])
      BY <3>1, CascadesNest
    <3>3. QED BY <1>2, <2>1, <3>1, <3>2
  <2>2. CASE w \notin waiting
    BY <1>2, <2>2
  <2>3. QED BY <2>1, <2>2
<1>7. Reachable({parent[d]}, upWaiting) \subseteq T
  <2> HIDE DEF T
  <2>1. QED BY <1>2, <1>5, <1>6, ReachableIsLeast
<1>8. d \in Cascade(x)
  BY <1>1, <1>7
<1>9. QED BY <1>8, CascadesNest

LEMMA WaitersAreReachedNext ==
  TypeOK' => \A s, x, d \in Surfaces : x \in Cascade(s)' /\ WaitsFor(d, x)' => d \in Cascade(s)'
<1>1. TypeOK' => (\A s, x, d \in Surfaces :
                    x \in Cascade(s) /\ WaitsFor(d, x) => d \in Cascade(s))'
  BY WaitersAreReached, PTL
<1>2. QED BY <1>1

LEMMA OwnCascadeNext == TypeOK' => \A s \in Surfaces : s \in Cascade(s)'
<1>1. TypeOK => \A s \in Surfaces : s \in Cascade(s)
  BY CascadeIsLeast
<1>2. TypeOK' => (\A s \in Surfaces : s \in Cascade(s))'
  BY <1>1, PTL
<1>3. QED BY <1>2

\* A surface without the role is not synchronised.
LEMMA OnlySubsAreSynced == TypeOK => \A s \in Surfaces \ isSub : ~ EffectivelySynced(s)
<1> SUFFICES ASSUME TypeOK, NEW s \in Surfaces \ isSub PROVE ~ EffectivelySynced(s)
  OBVIOUS
<1> DEFINE upSubs == [x \in Surfaces |-> IF x \in isSub THEN Upwards[x] ELSE {}]
<1>1. upSubs \in [Surfaces -> SUBSET Surfaces] /\ upSubs[s] = {}
  BY UpwardsType
<1>2. EffectivelySynced(s) <=> Reachable({s}, upSubs) \cap alive \cap isSub \cap sync # {}
  BY DEF EffectivelySynced
<1> HIDE DEF upSubs
<1>3. Reachable({s}, upSubs) \subseteq {s}
  <2>1. \A x \in {s} \cap Surfaces : upSubs[x] \subseteq {s}
    BY <1>1
  <2>2. {s} \in SUBSET Surfaces
    OBVIOUS
  <2>3. QED BY <1>1, <2>1, <2>2, ReachableIsLeast
<1>4. QED BY <1>2, <1>3

LEMMA OnlySubsAreSyncedNext == TypeOK' => \A s \in Surfaces \ isSub' : ~ EffectivelySynced(s)'
<1>1. TypeOK' => (\A s \in Surfaces \ isSub : ~ EffectivelySynced(s))'
  BY OnlySubsAreSynced, PTL
<1>2. QED BY <1>1

\* When apply_surface_state starts at s, what waited for a surface it changed
\* is among those it visits, unless s itself is still held back.
LEMMA ApplyLandsTogether ==
  ASSUME TypeOK, TypeOK', NEW s \in Surfaces, NEW these, NEW left, Apply(s, these, left),
         ~ EffectivelySynced(s)', NEW x \in Surfaces, content'[x] # content[x],
         NEW d \in Surfaces, WaitsFor(d, x)'
  PROVE  cached'[d] = << >>
<1>1. x \in Cascade(s)'
  <2>1. CASE x = s
    BY <2>1, OwnCascadeNext
  <2>2. CASE x # s
    BY <2>2, ApplyGives
  <2>3. QED BY <2>1, <2>2
<1>2. d \in Cascade(s)'
  BY <1>1, WaitersAreReachedNext
<1>3. d # s
  BY DEF WaitsFor
<1>4. QED BY <1>2, <1>3, ApplyGives

LEMMA StepLandsTogether ==
  ASSUME TypeOK, TypeOK', [Next]_vars, NEW x \in alive \cap alive', content'[x] # content[x],
         NEW d \in Surfaces, WaitsFor(d, x)'
  PROVE  cached'[d] = << >>
<1>1. x \in Surfaces
  BY DEF TypeOK
<1>2. ASSUME NEW s \in Surfaces, NEW these, NEW left, Apply(s, these, left),
             ~ EffectivelySynced(s)'
      PROVE  cached'[d] = << >>
  BY <1>1, <1>2, ApplyLandsTogether
<1>3. ASSUME NEW s \in Surfaces, Commit(s)
      PROVE  cached'[d] = << >>
  <2>1. ~ EffectivelySynced(s) /\ Apply(s, <<committed[s] + 1>>, cached[s])
    BY <1>3 DEF Commit
  <2>2. EffectivelySynced(s)' <=> EffectivelySynced(s)
    BY <1>3 DEF Commit, links, EffectivelySynced, Upwards
  <2>3. QED BY <1>2, <2>1, <2>2
<1>4. ASSUME NEW s \in Surfaces, SetDesync(s)
      PROVE  cached'[d] = << >>
  <2>1. ~ EffectivelySynced(s)' /\ Apply(s, cached[s], << >>)
    BY <1>4 DEF SetDesync
  <2>2. QED BY <1>2, <2>1
<1>5. ASSUME NEW s \in Surfaces, DestroySubsurface(s)
      PROVE  cached'[d] = << >>
  <2>1. s \notin isSub' /\ Apply(s, cached[s], << >>)
    BY <1>5 DEF DestroySubsurface
  <2>2. ~ EffectivelySynced(s)'
    BY <2>1, OnlySubsAreSyncedNext
  <2>3. QED BY <1>2, <2>1, <2>2
<1>6. ASSUME NEW s \in Surfaces, CreateSurface(s)
      PROVE  FALSE
  <2>1. x # s /\ content' = [content EXCEPT ![s] = 0]
    BY <1>6 DEF CreateSurface
  <2>2. QED BY <1>1, <2>1 DEF TypeOK
<1>7. ASSUME content' = content
      PROVE  FALSE
  BY <1>7
<1>8. CASE Presented \/ Housekeeping \/ OutputGone \/ UNCHANGED vars
  <2>1. content' = content
    BY <1>8 DEF Presented, Housekeeping, OutputGone, Fire, vars, commits
  <2>2. QED BY <1>7, <2>1
<1>9. ASSUME NEW s \in Surfaces,
             \/ DestroySurface(s) \/ SetSync(s) \/ \E p \in Surfaces : GetSubsurface(s, p)
             \/ \E sibling \in Surfaces, above \in BOOLEAN : Place(s, sibling, above)
      PROVE  FALSE
  <2>1. content' = content
    BY <1>9 DEF DestroySurface, SetSync, GetSubsurface, Place, commits
  <2>2. QED BY <1>7, <2>1
<1>10. QED BY <1>3, <1>4, <1>5, <1>6, <1>8, <1>9 DEF Next, Noting, Step

\* A window and the subsurfaces synchronised to it update in one piece, at
\* whatever depth, and however often roles are given: when new contents of a
\* surface become current, no surface waiting for it keeps anything cached.
THEOREM TreesLandTogether == Spec => TreeLandsTogether
<1>1. TypeOK /\ TypeOK' /\ [Next]_vars
        => [\A s \in alive \cap alive' :
              content'[s] # content[s]
                => \A d \in Surfaces : WaitsFor(d, s)' => cached'[d] = << >>]_vars
  BY StepLandsTogether
<1>2. QED BY <1>1, TypesHold, PTL DEF Spec, TreeLandsTogether
=============================================================================
