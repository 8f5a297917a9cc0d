---------------------------- MODULE WalkerProofs ----------------------------
(***************************************************************************)
(* What holds of every walk, whatever the volume, the root, the options    *)
(* and the moves of other programs: the types; that the table read has no  *)
(* cycle and gives paths the files had; and that a file that stays where   *)
(* it is is found once.                                                    *)
(***************************************************************************)
EXTENDS Walker, FiniteSetTheorems, WellFoundedInduction, TLAPS

-----------------------------------------------------------------------------
(* Induction, stated for sets: a set of numbers that is not empty has a    *)
(* least member, so that one that has 0 and the successor of each of its   *)
(* members up to n has all the numbers up to n.                            *)
LEMMA LeastNumber ==
  ASSUME NEW U, U \subseteq Nat, U # {}
  PROVE  \E x \in U : \A y \in U : x <= y
<1> DEFINE R == OpToRel(<, Nat)
<1>1. IsWellFoundedOn(R, Nat)
  BY NatLessThanWellFounded
<1>2. \A x, y \in Nat : y < x => <<y, x>> \in R
  BY DEF OpToRel
<1> HIDE DEF R
<1>3. PICK x \in U : \A y \in U : <<y, x>> \notin R
  BY <1>1, WFMin, Zenon
<1>4. ASSUME NEW y \in U PROVE x <= y
  <2>1. x \in Nat /\ y \in Nat /\ <<y, x>> \notin R
    BY <1>3
  <2>2. ~(y < x)
    BY <2>1, <1>2, Zenon
  <2> QED
    BY <2>1, <2>2
<1> QED
  BY <1>4

LEMMA UpTo ==
  ASSUME NEW n \in Nat, NEW U, 0 \in U,
         \A k \in 1..n : k - 1 \in U => k \in U
  PROVE  0..n \subseteq U
<1> DEFINE Bad == {k \in 0..n : k \notin U}
<1> SUFFICES ASSUME Bad # {} PROVE FALSE
  OBVIOUS
<1>1. PICK x \in Bad : \A y \in Bad : x <= y
  <2>1. Bad \subseteq Nat
    OBVIOUS
  <2> HIDE DEF Bad
  <2> QED
    BY <2>1, LeastNumber
<1>2. x \in 1..n
  BY <1>1
<1>3. x - 1 \in 0..n /\ x - 1 \notin Bad
  BY <1>1, <1>2
<1> QED
  BY <1>2, <1>3

(* A function defined by recursion over 0..n, whose step is a function g   *)
(* of the number and the value before, exists and has values in S.         *)
Recursive(F, n, a, g) == F = [k \in 0..n |-> IF k = 0 THEN a ELSE g[k][F[k - 1]]]

LEMMA RecursiveExists ==
  ASSUME NEW n \in Nat, NEW S, NEW a \in S, NEW g \in [1..n -> [S -> S]]
  PROVE  \E F \in [0..n -> S] : Recursive(F, n, a, g)
<1> DEFINE U == {m \in 0..n : \E F \in [0..m -> S] : Recursive(F, m, a, g)}
<1>1. 0 \in U
  <2> DEFINE F == [k \in 0..0 |-> a]
  <2>1. F = [k \in 0..0 |-> IF k = 0 THEN a ELSE g[k][F[k - 1]]]
    OBVIOUS
  <2>2. F \in [0..0 -> S] /\ Recursive(F, 0, a, g)
    BY <2>1 DEF Recursive
  <2> QED
    BY <2>2
<1>2. ASSUME NEW m \in 1..n, m - 1 \in U PROVE m \in U
  <2>1. PICK F \in [0..m - 1 -> S] : Recursive(F, m - 1, a, g)
    BY <1>2
  <2> DEFINE G == [k \in 0..m |-> IF k < m THEN F[k] ELSE g[m][F[m - 1]]]
  <2>2. m \in Nat /\ m > 0 /\ m - 1 \in 0..m - 1 /\ F[m - 1] \in S
    BY <2>1
  <2>3. g[m][F[m - 1]] \in S
    BY <2>2
  <2>4. G \in [0..m -> S]
    BY <2>1, <2>2, <2>3
  <2>5. ASSUME NEW k \in 0..m
        PROVE  G[k] = IF k = 0 THEN a ELSE g[k][G[k - 1]]
    <3>1. CASE k = m
      BY <2>2, <3>1
    <3>2. CASE k # m
      <4>1. k \in 0..m - 1 /\ k < m
        BY <2>2, <3>2
      <4>2. F[k] = IF k = 0 THEN a ELSE g[k][F[k - 1]]
        BY <2>1, <4>1 DEF Recursive
      <4>3. k # 0 => k - 1 \in 0..m /\ k - 1 < m
        BY <4>1
      <4> QED
        BY <4>1, <4>2, <4>3
    <3> QED
      BY <3>1, <3>2
  <2>6. Recursive(G, m, a, g)
    BY <2>5, Zenon DEF Recursive
  <2> QED
    BY <2>2, <2>4, <2>6
<1>3. 0..n \subseteq U
  <2> HIDE DEF U
  <2> QED
    BY <1>1, <1>2, UpTo
<1> QED
  BY <1>3

-----------------------------------------------------------------------------
(* Above(up, n) is the least set that has n and, with each node, the one   *)
(* above it.                                                               *)
ClosedUp(up, S) == \A m \in S \cap DOMAIN up : up[m] \in S

LEMMA AboveLeast ==
  ASSUME NEW up, IsFiniteSet(DOMAIN up), NEW n
  PROVE  /\ n \in Above(up, n)
         /\ ClosedUp(up, Above(up, n))
         /\ \A S : n \in S /\ ClosedUp(up, S) => Above(up, n) \subseteq S
<1> DEFINE N == Cardinality(DOMAIN up)
           U == {n} \cup {up[m] : m \in DOMAIN up}
           More(r) == r \cup {up[m] : m \in r \cap DOMAIN up}
           g == [k \in 1..N |-> [r \in SUBSET U |-> More(r)]]
           Right(F) == F = [k \in 0..N |-> IF k = 0 THEN {n} ELSE More(F[k - 1])]
           Reach == CHOOSE F : Right(F)
<1>1. N \in Nat
  BY FS_CardinalityType
<1>2. PICK F \in [0..N -> SUBSET U] : Recursive(F, N, {n}, g)
  <2>1. g \in [1..N -> [SUBSET U -> SUBSET U]]
    OBVIOUS
  <2>2. {n} \in SUBSET U
    OBVIOUS
  <2> HIDE DEF g, N, U
  <2> QED
    BY <1>1, <2>1, <2>2, RecursiveExists
<1>3. Right(F)
  <2>1. ASSUME NEW k \in 0..N PROVE F[k] = IF k = 0 THEN {n} ELSE More(F[k - 1])
    <3>1. CASE k = 0
      BY <1>2, <3>1 DEF Recursive
    <3>2. CASE k # 0
      <4>1. k \in 1..N /\ k - 1 \in 0..N
        BY <1>1, <3>2
      <4>2. F[k - 1] \in SUBSET U
        BY <1>2, <4>1
      <4>3. F[k] = g[k][F[k - 1]]
        BY <1>2, <3>2 DEF Recursive
      <4> QED
        BY <3>2, <4>1, <4>2, <4>3
    <3> QED
      BY <3>1, <3>2
  <2> QED
    BY <1>2, <2>1
<1>4. Right(Reach)
  BY <1>3
<1>5. Above(up, n) = Reach[N]
  BY DEF Above
<1> HIDE DEF Reach
<1>6. Reach[0] = {n} /\ \A k \in 1..N : Reach[k] = More(Reach[k - 1])
  <2>1. \A k \in 0..N : Reach[k] = IF k = 0 THEN {n} ELSE More(Reach[k - 1])
    BY <1>4
  <2>2. 0 \in 0..N /\ \A k \in 1..N : k \in 0..N /\ k # 0
    BY <1>1
  <2> HIDE DEF N, More
  <2> QED
    BY <2>1, <2>2
<1>7. n \in Reach[N]
  <2> DEFINE Have == {k \in 0..N : n \in Reach[k]}
  <2>1. 0 \in Have
    BY <1>1, <1>6
  <2>2. ASSUME NEW k \in 1..N, k - 1 \in Have PROVE k \in Have
    BY <1>6, <2>2
  <2> HIDE DEF Have
  <2>3. 0..N \subseteq Have
    BY <1>1, <2>1, <2>2, UpTo
  <2>4. N \in 0..N
    BY <1>1
  <2> QED
    BY <2>3, <2>4 DEF Have
<1>8. ASSUME NEW S, n \in S, ClosedUp(up, S) PROVE Reach[N] \subseteq S
  <2> DEFINE Have == {k \in 0..N : Reach[k] \subseteq S}
  <2>1. 0 \in Have
    BY <1>1, <1>6, <1>8
  <2>2. ASSUME NEW k \in 1..N, k - 1 \in Have PROVE k \in Have
    <3>1. Reach[k - 1] \subseteq S
      BY <2>2
    <3>2. Reach[k] \subseteq S
      BY <1>6, <1>8, <3>1 DEF ClosedUp
    <3> QED
      BY <3>2
  <2> HIDE DEF Have
  <2>3. 0..N \subseteq Have
    BY <1>1, <2>1, <2>2, UpTo
  <2>4. N \in 0..N
    BY <1>1
  <2> QED
    BY <2>3, <2>4 DEF Have
<1>9. ClosedUp(up, Reach[N])
  <2> DEFINE In(k) == Reach[k] \cap DOMAIN up
             Have == {k \in 0..N : Cardinality(In(k)) > k \/ ClosedUp(up, Reach[k])}
  <2>1. \A k : IsFiniteSet(In(k)) /\ Cardinality(In(k)) \in Nat /\ Cardinality(In(k)) <= N
    BY FS_Subset, FS_CardinalityType
  <2>2. 0 \in Have
    <3>1. CASE n \in DOMAIN up
      <4>1. In(0) # {}
        BY <1>6, <3>1
      <4>2. Cardinality(In(0)) # 0
        BY <2>1, <4>1, FS_EmptySet
      <4> HIDE DEF In
      <4> QED
        BY <1>1, <2>1, <4>2
    <3>2. CASE n \notin DOMAIN up
      BY <1>1, <1>6, <3>2 DEF ClosedUp
    <3> QED
      BY <3>1, <3>2
  <2>3. ASSUME NEW k \in 1..N, k - 1 \in Have PROVE k \in Have
    <3>1. Reach[k] = More(Reach[k - 1])
      BY <1>6
    <3>2. CASE ClosedUp(up, Reach[k - 1])
      <4>1. Reach[k] = Reach[k - 1]
        BY <3>1, <3>2 DEF ClosedUp
      <4> QED
        BY <3>2, <4>1
    <3>3. CASE In(k) = In(k - 1)
      <4>1. ClosedUp(up, Reach[k])
        BY <3>1, <3>3 DEF ClosedUp
      <4> QED
        BY <4>1
    <3>4. CASE Cardinality(In(k - 1)) > k - 1 /\ In(k) # In(k - 1)
      <4>1. In(k - 1) \in SUBSET In(k)
        BY <3>1
      <4> HIDE DEF In
      <4>2. Cardinality(In(k - 1)) <= Cardinality(In(k))
            /\ Cardinality(In(k - 1)) # Cardinality(In(k))
        BY <2>1, <3>4, <4>1, FS_Subset
      <4>3. Cardinality(In(k)) > k
        BY <1>1, <2>1, <3>4, <4>2
      <4> QED
        BY <4>3
    <3> QED
      BY <2>3, <3>2, <3>3, <3>4
  <2>4. N \in Have
    <3>1. N \in 0..N
      BY <1>1
    <3> HIDE DEF Have
    <3> QED
      BY <1>1, <2>2, <2>3, <3>1, UpTo
  <2> HIDE DEF In
  <2> QED
    BY <1>1, <2>1, <2>4
<1> QED
  BY <1>5, <1>7, <1>8, <1>9

LEMMA AboveStep ==
  ASSUME NEW up, IsFiniteSet(DOMAIN up), NEW n \in DOMAIN up
  PROVE  Above(up, n) = {n} \cup Above(up, up[n])
<1>1. Above(up, up[n]) \subseteq Above(up, n)
  BY AboveLeast DEF ClosedUp
<1>2. ClosedUp(up, {n} \cup Above(up, up[n]))
  BY AboveLeast DEF ClosedUp
<1> QED
  BY <1>1, <1>2, AboveLeast

LEMMA AboveAgain ==
  ASSUME NEW up, IsFiniteSet(DOMAIN up), NEW n, NEW m \in Above(up, n)
  PROVE  Above(up, m) \subseteq Above(up, n)
BY AboveLeast

-----------------------------------------------------------------------------
(* The volume as it was is a tree.                                         *)
Up(n) == Above(T.parent, n)

LEMMA Volumes ==
  ASSUME tree \in DOMAIN Trees
  PROVE  /\ IsFiniteSet(Nodes) /\ Cardinality(Nodes) \in Nat
         /\ Nodes = 1..Cardinality(Nodes) /\ Volume \in Nodes
         /\ T.parent \in [Nodes -> T.isDir \ Links] /\ T.parent[Volume] = Volume
         /\ T.isDir \subseteq Nodes /\ Links \subseteq Nodes
         /\ \A l \in Links : T.link[l] \in Nodes
         /\ DOMAIN T.name = Nodes /\ T.lcn \in [Nodes -> Nat]
         /\ NoPath \notin Seq(Range(T.name)) /\ T.root \in Seq(Range(T.root))
         /\ \A n \in Nodes : Volume \in Up(n)
         /\ \A m, n \in Nodes \ {Volume} :
              T.parent[m] = T.parent[n] /\ T.name[m].text = T.name[n].text => m = n
<1> DEFINE t == Trees[tree]
<1>1. /\ t.parent \in Seq(t.isDir \ DOMAIN t.link)
      /\ Volume \in DOMAIN t.parent /\ t.parent[Volume] = Volume
      /\ t.isDir \subseteq DOMAIN t.parent
      /\ t.link \in [DOMAIN t.link -> DOMAIN t.parent] /\ DOMAIN t.link \subseteq DOMAIN t.parent
      /\ DOMAIN t.name = DOMAIN t.parent /\ t.lcn \in [DOMAIN t.parent -> Nat]
      /\ NoPath \notin Seq(Range(t.name)) /\ t.root \in Seq(Range(t.root))
      /\ \A n \in DOMAIN t.parent : Volume \in Above(t.parent, n)
      /\ \A m, n \in DOMAIN t.parent \ {Volume} :
           t.parent[m] = t.parent[n] /\ t.name[m].text = t.name[n].text => m = n
  BY WalkerAssumption, Zenon DEF WalkerAssumption
<1>2. T = t /\ Nodes = DOMAIN t.parent /\ Links = DOMAIN t.link
  BY DEF T, Nodes, Links
<1> HIDE DEF t
<1>3. Len(t.parent) \in Nat /\ DOMAIN t.parent = 1..Len(t.parent)
      /\ t.parent \in [DOMAIN t.parent -> t.isDir \ DOMAIN t.link]
  <2> DEFINE p == t.parent
             X == t.isDir \ DOMAIN t.link
  <2>1. p \in Seq(X)
    BY <1>1
  <2> HIDE DEF p, X
  <2>2. Len(p) \in Nat /\ DOMAIN p = 1..Len(p) /\ p \in [DOMAIN p -> X]
    BY ONLY <2>1
  <2> QED
    BY <2>2 DEF p, X
<1>4. IsFiniteSet(Nodes) /\ Cardinality(Nodes) = Len(t.parent)
  BY <1>2, <1>3, FS_Interval
<1>5. \A l \in DOMAIN t.link : t.link[l] \in DOMAIN t.parent
  BY <1>1
<1> QED
  BY <1>1, <1>2, <1>3, <1>4, <1>5, Zenon DEF Up

LEMMA Climbing ==
  ASSUME tree \in DOMAIN Trees
  PROVE  /\ \A n \in Nodes :
              /\ n \in Up(n) /\ Volume \in Up(n) /\ Up(n) \subseteq Nodes
              /\ IsFiniteSet(Up(n)) /\ Cardinality(Up(n)) \in Nat
              /\ T.parent[n] \in Nodes /\ Up(n) = {n} \cup Up(T.parent[n])
              /\ \A m \in Up(n) : Up(m) \subseteq Up(n)
         /\ Up(Volume) = {Volume}
         /\ \A n \in Nodes \ {Volume} :
              /\ n \notin Up(T.parent[n])
              /\ Cardinality(Up(n)) = Cardinality(Up(T.parent[n])) + 1
         /\ Cardinality(Up(Volume)) = 1
<1> DEFINE P == T.parent
<1>1. /\ IsFiniteSet(Nodes) /\ Nodes = DOMAIN P /\ P \in [Nodes -> Nodes]
      /\ Volume \in Nodes /\ P[Volume] = Volume
      /\ \A n \in Nodes : Volume \in Up(n)
  BY Volumes DEF Nodes
<1>2. \A n : n \in Up(n) /\ ClosedUp(P, Up(n))
             /\ \A S : n \in S /\ ClosedUp(P, S) => Up(n) \subseteq S
  BY <1>1, AboveLeast DEF Up
<1>3. \A n \in Nodes : Up(n) = {n} \cup Up(P[n])
  BY <1>1, AboveStep DEF Up
<1>4. \A n : \A m \in Up(n) : Up(m) \subseteq Up(n)
  BY <1>1, AboveAgain DEF Up
<1> HIDE DEF P
<1>5. \A n \in Nodes : Up(n) \subseteq Nodes
  <2>1. ClosedUp(P, Nodes)
    BY <1>1 DEF ClosedUp
  <2> QED
    BY <1>2, <2>1
<1>6. \A n \in Nodes : IsFiniteSet(Up(n)) /\ Cardinality(Up(n)) \in Nat
  BY <1>1, <1>5, FS_Subset, FS_CardinalityType
<1>7. Up(Volume) = {Volume}
  <2>1. ClosedUp(P, {Volume})
    BY <1>1 DEF ClosedUp
  <2> QED
    BY <1>2, <2>1
<1>8. ASSUME NEW n \in Nodes \ {Volume} PROVE n \notin Up(P[n])
  <2> SUFFICES ASSUME n \in Up(P[n]) PROVE FALSE
    OBVIOUS
  <2> DEFINE Under == {m \in Nodes : n \in Up(m)}
  <2>1. ClosedUp(P, Under)
    <3>1. ASSUME NEW m \in Under PROVE P[m] \in Under
      BY <1>1, <1>3, <3>1
    <3> QED
      BY <3>1 DEF ClosedUp
  <2>2. n \in Under
    BY <1>2
  <2> HIDE DEF Under
  <2>3. Volume \in Under
    BY <1>1, <1>2, <2>1, <2>2
  <2> QED
    BY <1>7, <2>3 DEF Under
<1>9. ASSUME NEW n \in Nodes \ {Volume}
      PROVE  Cardinality(Up(n)) = Cardinality(Up(P[n])) + 1
  <2>1. P[n] \in Nodes /\ Up(n) = Up(P[n]) \cup {n}
    BY <1>1, <1>3
  <2> QED
    BY <1>6, <1>8, <2>1, FS_AddElement
<1>10. Cardinality(Up(Volume)) = 1
  BY <1>7, FS_Singleton
<1> QED
  BY <1>1, <1>2, <1>3, <1>4, <1>5, <1>6, <1>7, <1>8, <1>9, <1>10 DEF P

(* What holds of the top, and of a node when it does of the one above it,  *)
(* holds of all.                                                           *)
LEMMA FromTheTop ==
  ASSUME tree \in DOMAIN Trees, NEW S, Volume \in S,
         \A n \in Nodes \ {Volume} : T.parent[n] \in S => n \in S
  PROVE  Nodes \subseteq S
<1> SUFFICES ASSUME NEW n \in Nodes, n \notin S PROVE FALSE
  OBVIOUS
<1>1. ClosedUp(T.parent, Nodes \ S)
  BY Climbing DEF ClosedUp, Nodes
<1>2. Up(n) \subseteq Nodes \ S
  <2>1. \A R : n \in R /\ ClosedUp(T.parent, R) => Up(n) \subseteq R
    BY Volumes, AboveLeast DEF Up, Nodes
  <2> QED
    BY <1>1, <2>1
<1> QED
  BY <1>2, Climbing

LEMMA InLine ==
  ASSUME tree \in DOMAIN Trees, NEW f \in Nodes
  PROVE  /\ \A a, b \in Up(f) : a \in Up(b) \/ b \in Up(a)
         /\ \A a, b \in Up(f) \ {Volume} : T.parent[a] = T.parent[b] => a = b
         /\ \A a, b \in Up(f) : Cardinality(Up(a)) = Cardinality(Up(b)) => a = b
<1> DEFINE Straight == {n \in Nodes : \A a, b \in Up(n) : a \in Up(b) \/ b \in Up(a)}
<1>1. Nodes \subseteq Straight
  <2>1. Volume \in Straight
    BY Volumes, Climbing
  <2>2. ASSUME NEW n \in Nodes \ {Volume}, T.parent[n] \in Straight PROVE n \in Straight
    <3>1. Up(n) = {n} \cup Up(T.parent[n])
      BY Climbing
    <3> QED
      BY <2>2, <3>1
  <2> HIDE DEF Straight
  <2> QED
    BY <2>1, <2>2, FromTheTop
<1>2. \A a, b \in Up(f) : a \in Up(b) \/ b \in Up(a)
  BY <1>1
<1>3. Up(f) \subseteq Nodes
  BY Climbing
<1>4. ASSUME NEW a \in Up(f), NEW b \in Up(f), a \in Up(b), a # b
      PROVE  b # Volume /\ a \in Up(T.parent[b]) /\ T.parent[b] \in Nodes
             /\ Cardinality(Up(a)) < Cardinality(Up(b))
             /\ (a # Volume => T.parent[a] # T.parent[b])
  <2>1. a \in Nodes /\ b \in Nodes
    BY <1>3
  <2>2. b # Volume /\ a \in Up(T.parent[b]) /\ T.parent[b] \in Nodes
    BY <1>4, <2>1, Climbing
  <2>3. Up(a) \in SUBSET Up(T.parent[b]) /\ IsFiniteSet(Up(T.parent[b]))
    BY <2>2, Climbing
  <2>4. Cardinality(Up(a)) <= Cardinality(Up(T.parent[b]))
    BY <2>3, FS_Subset
  <2>5. Cardinality(Up(b)) = Cardinality(Up(T.parent[b])) + 1
        /\ Cardinality(Up(T.parent[b])) \in Nat /\ Cardinality(Up(a)) \in Nat
    BY <2>1, <2>2, Climbing
  <2>6. a # Volume => T.parent[a] # T.parent[b]
    BY <2>1, <2>2, Climbing
  <2> QED
    BY <2>2, <2>4, <2>5, <2>6
<1>5. \A a, b \in Up(f) : a # b => Cardinality(Up(a)) # Cardinality(Up(b))
  <2>1. \A a \in Up(f) : Cardinality(Up(a)) \in Nat
    BY <1>3, Climbing
  <2> QED
    BY <1>2, <1>4, <2>1
<1>6. \A a, b \in Up(f) \ {Volume} : a # b => T.parent[a] # T.parent[b]
  BY <1>2, <1>4
<1> QED
  BY <1>2, <1>5, <1>6

-----------------------------------------------------------------------------
(* A path is looked up name by name.                                       *)
Into(up, S, text) ==
  {n \in UNION {Children(up, Through(d)) : d \in S} : T.name[n].text = text}

ByName(up, path, F) ==
  F = [k \in 0..Len(path) |-> IF k = 0 THEN {Volume} ELSE Into(up, F[k - 1], path[k].text)]

LEMMA LookupByName ==
  ASSUME NEW up, NEW path, Len(path) \in Nat
  PROVE  \E F : ByName(up, path, F) /\ Lookup(up, path) = F[Len(path)]
<1> DEFINE N == Len(path)
           U == Nodes \cup {Volume}
           g == [k \in 1..N |-> [S \in SUBSET U |-> Into(up, S, path[k].text)]]
           At == CHOOSE F : ByName(up, path, F)
<1>1. PICK F \in [0..N -> SUBSET U] : Recursive(F, N, {Volume}, g)
  <2>1. g \in [1..N -> [SUBSET U -> SUBSET U]]
    BY DEF Into, Children
  <2>2. {Volume} \in SUBSET U /\ N \in Nat
    OBVIOUS
  <2> HIDE DEF g, N, U
  <2> QED
    BY <2>1, <2>2, RecursiveExists
<1>2. ByName(up, path, F)
  <2>1. ASSUME NEW k \in 0..N
        PROVE  F[k] = IF k = 0 THEN {Volume} ELSE Into(up, F[k - 1], path[k].text)
    <3>1. CASE k = 0
      BY <1>1, <3>1 DEF Recursive
    <3>2. CASE k # 0
      <4>1. k \in 1..N /\ F[k - 1] \in SUBSET U
        BY <1>1, <3>2
      <4>2. F[k] = g[k][F[k - 1]]
        BY <1>1, <3>2 DEF Recursive
      <4> QED
        BY <3>2, <4>1, <4>2
    <3> QED
      BY <3>1, <3>2
  <2> QED
    BY <1>1, <2>1 DEF ByName
<1>3. ByName(up, path, At)
  BY <1>2
<1>4. Lookup(up, path) = At[Len(path)]
  BY DEF Lookup, ByName, Into
<1> HIDE DEF At
<1> QED
  BY <1>3, <1>4

LEMMA LookupTop ==
  ASSUME NEW up, NEW path, path = <<>>
  PROVE  Lookup(up, path) = {Volume}
<1>1. Len(path) = 0 /\ Len(path) \in Nat
  OBVIOUS
<1> QED
  BY <1>1, LookupByName DEF ByName

LEMMA LookupNext ==
  ASSUME NEW up, NEW S, NEW path \in Seq(S), NEW x \in S
  PROVE  Lookup(up, Append(path, x)) = Into(up, Lookup(up, path), x.text)
<1> DEFINE q == Append(path, x)
           N == Len(path)
<1>1. /\ N \in Nat /\ Len(q) = N + 1 /\ q[N + 1] = x
      /\ \A k \in 1..N : q[k] = path[k]
  OBVIOUS
<1> HIDE DEF q, N
<1>2. PICK F : ByName(up, q, F) /\ Lookup(up, q) = F[N + 1]
  BY <1>1, LookupByName
<1>3. PICK G : ByName(up, path, G) /\ Lookup(up, path) = G[N]
  BY <1>1, LookupByName DEF N
<1>4. /\ F[0] = {Volume}
      /\ \A k \in 1..N + 1 : F[k] = Into(up, F[k - 1], q[k].text)
  <2>1. \A k \in 0..N + 1 :
          F[k] = IF k = 0 THEN {Volume} ELSE Into(up, F[k - 1], q[k].text)
    BY <1>1, <1>2 DEF ByName
  <2> QED
    BY <1>1, <2>1
<1>5. /\ G[0] = {Volume}
      /\ \A k \in 1..N : G[k] = Into(up, G[k - 1], path[k].text)
  <2>1. \A k \in 0..N :
          G[k] = IF k = 0 THEN {Volume} ELSE Into(up, G[k - 1], path[k].text)
    BY <1>1, <1>3 DEF ByName, N
  <2> QED
    BY <1>1, <2>1
<1> DEFINE Same == {k \in 0..N : F[k] = G[k]}
<1>6. N \in Same
  <2>1. 0 \in Same
    <3>1. 0 \in 0..N /\ F[0] = G[0]
      BY <1>1, <1>4, <1>5
    <3> QED
      BY <3>1
  <2>2. ASSUME NEW k \in 1..N, k - 1 \in Same PROVE k \in Same
    BY <1>1, <1>4, <1>5, <2>2
  <2>3. N \in 0..N
    BY <1>1
  <2> HIDE DEF Same
  <2> QED
    BY <1>1, <2>1, <2>2, <2>3, UpTo
<1>7. F[N + 1] = Into(up, F[N], x.text)
  BY <1>1, <1>4
<1> QED
  BY <1>2, <1>3, <1>6, <1>7 DEF q

(* What holds of the empty path, and of a path when it does of the one     *)
(* without its last name, holds of all.                                    *)
LEMMA NameByName ==
  ASSUME NEW S, NEW Paths, NEW path \in Seq(S),
         \A e : e = <<>> => e \in Paths,
         \A p \in Seq(S), x \in S : p \in Paths => Append(p, x) \in Paths
  PROVE  path \in Paths
<1> DEFINE N == Len(path)
           Have == {k \in 0..N : SubSeq(path, 1, k) \in Paths}
<1>1. N \in Nat
  OBVIOUS
<1>2. 0 \in Have
  <2> DEFINE none == SubSeq(path, 1, 0)
  <2>1. none = <<>>
    OBVIOUS
  <2> HIDE DEF none
  <2>2. none \in Paths
    BY <2>1
  <2>3. 0 \in 0..N
    BY <1>1
  <2> QED
    BY <2>2, <2>3 DEF none
<1>3. ASSUME NEW k \in 1..N, k - 1 \in Have PROVE k \in Have
  <2>1. /\ SubSeq(path, 1, k - 1) \in Seq(S) /\ path[k] \in S
        /\ SubSeq(path, 1, k) = Append(SubSeq(path, 1, k - 1), path[k])
    OBVIOUS
  <2>2. SubSeq(path, 1, k - 1) \in Paths /\ k \in 0..N
    BY <1>1, <1>3
  <2>3. SubSeq(path, 1, k) \in Paths
    BY <2>1, <2>2, Zenon
  <2> QED
    BY <2>2, <2>3
<1>4. N \in 0..N /\ SubSeq(path, 1, N) = path
  BY <1>1
<1> HIDE DEF N
<1>5. 0..N \subseteq Have
  <2> HIDE DEF Have
  <2> QED
    BY <1>1, <1>2, <1>3, UpTo
<1> QED
  BY <1>4, <1>5

-----------------------------------------------------------------------------
(* The table has parents as they were, and getPath gives a path if and     *)
(* only if all records above are there: it is then the path the node had.  *)
Table ==
  /\ DOMAIN mft \subseteq Nodes
  /\ \A n \in DOMAIN mft : mft[n] = T.parent[n]

IsPath(p, n) ==
  /\ p \in Seq(Range(T.name)) /\ Len(p) = Depth(n)
  /\ \A m \in Up(n) \ {Volume} : p[Depth(m)] = T.name[m]

LEMMA Depths ==
  ASSUME tree \in DOMAIN Trees
  PROVE  /\ \A n \in Nodes : Depth(n) \in Nat /\ \A m \in Up(n) : Depth(m) <= Depth(n)
         /\ Depth(Volume) = 0
         /\ \A n \in Nodes \ {Volume} : Depth(n) = Depth(T.parent[n]) + 1
         /\ \A n \in Nodes \ {Volume} : \A m \in Up(T.parent[n]) : Depth(m) < Depth(n)
<1>1. \A n : Depth(n) = Cardinality(Up(n)) - 1
  BY DEF Depth, Up
<1>2. ASSUME NEW n \in Nodes PROVE Cardinality(Up(n)) \in Nat /\ Cardinality(Up(n)) # 0
  BY Climbing, FS_EmptySet
<1>3. ASSUME NEW n \in Nodes, NEW m \in Up(n)
      PROVE  Cardinality(Up(m)) <= Cardinality(Up(n)) /\ m \in Nodes
  <2>1. Up(m) \in SUBSET Up(n) /\ IsFiniteSet(Up(n)) /\ m \in Nodes
    BY Climbing
  <2> QED
    BY <2>1, FS_Subset
<1>4. \A n \in Nodes : Depth(n) \in Nat
  BY <1>1, <1>2
<1>5. \A n \in Nodes : \A m \in Up(n) : Depth(m) <= Depth(n) /\ m \in Nodes
  BY <1>1, <1>2, <1>3
<1>6. Depth(Volume) = 0
  BY <1>1, Climbing
<1>7. ASSUME NEW n \in Nodes \ {Volume}
      PROVE  Depth(n) = Depth(T.parent[n]) + 1 /\ T.parent[n] \in Nodes
  <2>1. /\ Cardinality(Up(n)) = Cardinality(Up(T.parent[n])) + 1
        /\ T.parent[n] \in Nodes
    BY Climbing
  <2> QED
    BY <1>1, <1>2, <2>1
<1>8. \A n \in Nodes \ {Volume} : \A m \in Up(T.parent[n]) : Depth(m) < Depth(n)
  BY <1>4, <1>5, <1>7
<1> QED
  BY <1>4, <1>5, <1>6, <1>7, <1>8

LEMMA PathNext ==
  ASSUME tree \in DOMAIN Trees, NEW n \in Nodes \ {Volume},
         NEW p, IsPath(p, T.parent[n])
  PROVE  IsPath(Append(p, T.name[n]), n)
<1> DEFINE X == Range(T.name)
           x == T.name[n]
           d == Depth(T.parent[n])
           q == Append(p, x)
<1>1. p \in Seq(X) /\ Len(p) = d
  BY DEF IsPath
<1>2. x \in X
  BY Volumes DEF Range
<1>3. d \in Nat /\ Depth(n) = d + 1
  BY Depths, Climbing
<1>4. \A m \in Up(T.parent[n]) \ {Volume} : p[Depth(m)] = T.name[m]
  BY DEF IsPath
<1> HIDE DEF x, d
<1>5. /\ q \in Seq(X) /\ Len(q) = d + 1 /\ q[d + 1] = x
      /\ \A k \in 1..d : q[k] = p[k]
  <2> HIDE DEF X
  <2> QED
    BY ONLY <1>1, <1>2, <1>3
<1> HIDE DEF q
<1>6. ASSUME NEW m \in Up(n) \ {Volume} PROVE q[Depth(m)] = T.name[m]
  <2>1. CASE m = n
    BY <1>3, <1>5, <2>1 DEF x
  <2>2. CASE m # n
    <3>1. m \in Up(T.parent[n]) /\ m \in Nodes
      BY <2>2, Climbing
    <3>2. Depth(m) <= d /\ Depth(m) \in Nat /\ Depth(m) # 0
      <4>1. Depth(m) = Depth(T.parent[m]) + 1 /\ Depth(T.parent[m]) \in Nat
        BY <3>1, Depths, Climbing
      <4>2. Depth(m) <= d
        BY <3>1, Depths, Climbing DEF d
      <4> QED
        BY <4>1, <4>2
    <3>3. Depth(m) \in 1..d
      BY <1>3, <3>2
    <3> QED
      BY <1>4, <1>5, <3>1, <3>3
  <2> QED
    BY <2>1, <2>2
<1> QED
  BY <1>3, <1>5, <1>6 DEF IsPath, q, x

LEMMA PathOfVolume ==
  ASSUME tree \in DOMAIN Trees, NEW e, e = <<>>
  PROVE  IsPath(e, Volume)
<1>1. e \in Seq(Range(T.name)) /\ Len(e) = 0
  OBVIOUS
<1>2. Up(Volume) \ {Volume} = {} /\ Depth(Volume) = 0
  BY Climbing, Depths
<1> QED
  BY <1>1, <1>2 DEF IsPath

LEMMA PathsOf ==
  ASSUME tree \in DOMAIN Trees, Table, NEW ref \in Nodes
  PROVE  /\ getPath(ref) # NoPath <=> Up(ref) \subseteq DOMAIN mft
         /\ getPath(ref) # NoPath => IsPath(getPath(ref), ref)
<1> DEFINE D == DOMAIN mft
           N == Cardinality(D)
           Paths == Seq(Range(T.name)) \cup {NoPath}
           Higher(G, n) == IF n \notin D THEN NoPath
                           ELSE IF mft[n] = n THEN <<>>
                           ELSE IF G[mft[n]] = NoPath THEN NoPath
                           ELSE Append(G[mft[n]], T.name[n])
           none == [n \in Nodes |-> NoPath]
           g == [k \in 1..N |-> [G \in [Nodes -> Paths] |-> [n \in Nodes |-> Higher(G, n)]]]
           Right(F) == F = [k \in 0..N |-> [n \in Nodes |->
                              IF k = 0 \/ n \notin D THEN NoPath
                              ELSE IF mft[n] = n THEN <<>>
                              ELSE IF F[k - 1][mft[n]] = NoPath THEN NoPath
                              ELSE Append(F[k - 1][mft[n]], T.name[n])]]
           self == CHOOSE F : Right(F)
<1>1. /\ D \subseteq Nodes /\ IsFiniteSet(D) /\ N \in Nat
      /\ \A n \in D : mft[n] = T.parent[n] /\ mft[n] \in Nodes
  BY Volumes, Climbing, FS_Subset, FS_CardinalityType DEF Table
<1>2. \A n \in Nodes : T.name[n] \in Range(T.name)
  BY Volumes DEF Range
<1>3. ASSUME NEW G \in [Nodes -> Paths], NEW n \in Nodes PROVE Higher(G, n) \in Paths
  <2>1. ASSUME n \in D, mft[n] # n, G[mft[n]] # NoPath
        PROVE  Append(G[mft[n]], T.name[n]) \in Paths
    <3> DEFINE X == Range(T.name)
               p == G[mft[n]]
    <3>1. p \in Seq(X) /\ T.name[n] \in X
      BY <1>1, <1>2, <2>1
    <3> HIDE DEF X, p
    <3>2. Append(p, T.name[n]) \in Seq(X)
      BY ONLY <3>1
    <3> QED
      BY <3>2 DEF X, p
  <2> QED
    BY <2>1
<1>4. PICK F \in [0..N -> [Nodes -> Paths]] : Recursive(F, N, none, g)
  <2>1. g \in [1..N -> [[Nodes -> Paths] -> [Nodes -> Paths]]]
    <3> HIDE DEF Higher, Paths, N
    <3> QED
      BY <1>3
  <2>2. none \in [Nodes -> Paths]
    OBVIOUS
  <2> HIDE DEF g, none, N, Paths
  <2> QED
    BY <1>1, <2>1, <2>2, RecursiveExists
<1>5. Right(F)
  <2>1. ASSUME NEW k \in 0..N
        PROVE  F[k] = [n \in Nodes |-> IF k = 0 THEN NoPath ELSE Higher(F[k - 1], n)]
    <3>1. CASE k = 0
      BY <1>4, <3>1 DEF Recursive
    <3>2. CASE k # 0
      <4>1. k \in 1..N /\ F[k - 1] \in [Nodes -> Paths]
        <5> HIDE DEF Paths
        <5> QED
          BY <1>1, <1>4, <3>2
      <4>2. F[k] = g[k][F[k - 1]]
        BY <1>4, <3>2 DEF Recursive
      <4> HIDE DEF Higher, Paths
      <4> QED
        BY <3>2, <4>1, <4>2
    <3> QED
      BY <3>1, <3>2
  <2>2. ASSUME NEW k \in 0..N
        PROVE  F[k] = [n \in Nodes |->
                              IF k = 0 \/ n \notin D THEN NoPath
                              ELSE IF mft[n] = n THEN <<>>
                              ELSE IF F[k - 1][mft[n]] = NoPath THEN NoPath
                              ELSE Append(F[k - 1][mft[n]], T.name[n])]
    BY <2>1
  <2> QED
    BY <1>4, <2>2
<1>6. Right(self)
  BY <1>5, Zenon
<1>7. getPath(ref) = self[N][ref]
  BY DEF getPath
<1> HIDE DEF self
<1>8. \A k \in 0..N, n \in Nodes :
        self[k][n] = IF k = 0 THEN NoPath ELSE Higher(self[k - 1], n)
  <2> DEFINE Cell(k, n) == IF k = 0 \/ n \notin D THEN NoPath
                           ELSE IF mft[n] = n THEN <<>>
                           ELSE IF self[k - 1][mft[n]] = NoPath THEN NoPath
                           ELSE Append(self[k - 1][mft[n]], T.name[n])
             Row(k) == [n \in Nodes |-> Cell(k, n)]
  <2>1. \A k \in 0..N : self[k] = Row(k)
    <3> HIDE DEF N, D
    <3> QED
      BY ONLY <1>6
  <2>2. ASSUME NEW k \in 0..N, NEW n \in Nodes
        PROVE  self[k][n] = IF k = 0 THEN NoPath ELSE Higher(self[k - 1], n)
    <3>1. Row(k)[n] = Cell(k, n)
      <4> HIDE DEF Cell
      <4> QED
        OBVIOUS
    <3>2. self[k] = Row(k)
      BY <2>1
    <3> HIDE DEF Row
    <3>3. self[k][n] = Cell(k, n)
      BY <3>1, <3>2
    <3> QED
      BY <3>3
  <2> QED
    BY <2>2
<1> DEFINE Found(k, n) == Up(n) \subseteq D /\ Depth(n) < k
           Have == {k \in 0..N : \A n \in Nodes :
                      IF Found(k, n) THEN IsPath(self[k][n], n) ELSE self[k][n] = NoPath}
<1>9. \A p, n : IsPath(p, n) => p # NoPath
  BY Volumes DEF IsPath
<1>10. 0 \in Have
  <2>1. 0 \in 0..N /\ \A n \in Nodes : ~Found(0, n) /\ self[0][n] = NoPath
    BY <1>1, <1>8, Depths
  <2> QED
    BY <2>1
<1>11. ASSUME NEW k \in 1..N, k - 1 \in Have PROVE k \in Have
  <2>1. k \in 0..N /\ k - 1 \in 0..N /\ k # 0
    BY <1>1
  <2> SUFFICES ASSUME NEW n \in Nodes
               PROVE  IF Found(k, n) THEN IsPath(self[k][n], n) ELSE self[k][n] = NoPath
    BY <2>1
  <2>2. self[k][n] = Higher(self[k - 1], n)
    BY <1>8, <2>1
  <2>3. n \in Up(n) /\ Depth(n) \in Nat
    BY Climbing, Depths
  <2>4. CASE n \notin D
    BY <2>2, <2>3, <2>4
  <2>5. CASE n \in D /\ n = Volume
    <3>1. self[k][n] = <<>>
      BY <1>1, <2>2, <2>5, Volumes
    <3>2. Found(k, n)
      BY <2>1, <2>5, Climbing, Depths
    <3> HIDE DEF Found
    <3> QED
      BY <2>5, <3>1, <3>2, PathOfVolume
  <2>6. CASE n \in D /\ n # Volume
    <3> DEFINE p == self[k - 1][mft[n]]
    <3>1. mft[n] = T.parent[n] /\ mft[n] \in Nodes /\ mft[n] # n
      BY <1>1, <2>6, Climbing
    <3>2. self[k][n] = IF p = NoPath THEN NoPath ELSE Append(p, T.name[n])
      BY <2>2, <2>6, <3>1
    <3>3. IF Found(k - 1, mft[n]) THEN IsPath(p, mft[n]) ELSE p = NoPath
      BY <1>11, <3>1
    <3>4. Found(k, n) <=> Found(k - 1, mft[n])
      <4>1. Up(n) = {n} \cup Up(mft[n]) /\ Depth(n) = Depth(mft[n]) + 1
            /\ Depth(mft[n]) \in Nat
        BY <2>6, <3>1, Climbing, Depths
      <4> QED
        BY <2>1, <2>6, <4>1
    <3> HIDE DEF Found, p
    <3> QED
      BY <1>9, <2>6, <3>1, <3>2, <3>3, <3>4, PathNext
  <2> QED
    BY <2>4, <2>5, <2>6
<1>12. N \in Have
  <2>1. N \in 0..N
    BY <1>1
  <2> HIDE DEF Have, N
  <2> QED
    BY <1>1, <1>10, <1>11, <2>1, UpTo
<1>13. Up(ref) \subseteq D => Depth(ref) < N
  <2>1. ASSUME Up(ref) \subseteq D PROVE Cardinality(Up(ref)) <= N
    BY <1>1, <2>1, FS_Subset
  <2>2. Depth(ref) = Cardinality(Up(ref)) - 1 /\ Cardinality(Up(ref)) \in Nat
    BY Climbing DEF Depth, Up
  <2> HIDE DEF N
  <2> QED
    BY <1>1, <2>1, <2>2
<1>14. IF Up(ref) \subseteq D THEN IsPath(getPath(ref), ref) ELSE getPath(ref) = NoPath
  BY <1>7, <1>12, <1>13
<1> QED
  BY <1>9, <1>14

-----------------------------------------------------------------------------
(* Sequences of the members of a finite set, and sorted sequences: no      *)
(* entry is lost and none comes twice.                                     *)
LEMMA Enumerated ==
  ASSUME NEW S, IsFiniteSet(S)
  PROVE  /\ SetToSeq(S) \in Seq(S)
         /\ \A x \in S : \E i \in DOMAIN SetToSeq(S) : SetToSeq(S)[i] = x
         /\ \A i, j \in DOMAIN SetToSeq(S) : SetToSeq(S)[i] = SetToSeq(S)[j] => i = j
<1> DEFINE N == Cardinality(S)
           s == SetToSeq(S)
<1>1. N \in Nat /\ ExistsBijection(1..N, S)
  BY FS_CardinalityType
<1>2. PICK f \in [1..N -> S] : IsInjective(f)
  BY <1>1 DEF ExistsBijection, Bijection, Injection
<1>3. s \in [1..N -> S] /\ IsInjective(s)
  BY <1>2 DEF SetToSeq
<1>4. s \in Injection(1..N, S)
  BY <1>3 DEF Injection
<1>5. IsFiniteSet(1..N) /\ Cardinality(1..N) = N
  BY <1>1, FS_Interval
<1> HIDE DEF s
<1>6. s \in Surjection(1..N, S)
  BY <1>4, <1>5, FS_Injection
<1>7. s \in Seq(S)
  <2> HIDE DEF N
  <2> QED
    BY <1>1, <1>3
<1>8. DOMAIN s = 1..N
  BY <1>3
<1> HIDE DEF N
<1>9. \A x \in S : \E i \in DOMAIN s : s[i] = x
  BY <1>6, <1>8 DEF Surjection
<1>10. \A i, j \in DOMAIN s : s[i] = s[j] => i = j
  BY <1>3 DEF IsInjective
<1> QED
  BY <1>7, <1>9, <1>10 DEF s

Permuted(t, s) ==
  \E h \in [DOMAIN s -> DOMAIN s] :
    /\ \A m, n \in DOMAIN s : h[m] = h[n] => m = n
    /\ \A k \in DOMAIN s : \E n \in DOMAIN s : h[n] = k
    /\ DOMAIN t = DOMAIN s
    /\ \A n \in DOMAIN s : t[n] = s[h[n]]

LEMMA SortedEntries ==
  ASSUME NEW S, \A x \in S : x.lcn \in Nat /\ x.ref \in Nat, NEW s \in Seq(S)
  PROVE  Sorted(s) \in Seq(S) /\ Permuted(Sorted(s), s)
<1> DEFINE D == DOMAIN s
           First(k) == {j \in D : Before(s[j], s[k]) \/ (~Before(s[k], s[j]) /\ j <= k)}
           h == [n \in D |-> CHOOSE k \in D : Place(s, k) = n]
<1>1. Len(s) \in Nat /\ D = 1..Len(s)
  OBVIOUS
<1>2. IsFiniteSet(D) /\ Cardinality(D) = Len(s)
  BY <1>1, FS_Interval
<1>3. \A k : Place(s, k) = Cardinality(First(k)) /\ First(k) \subseteq D
  BY Zenon DEF Place
<1>4. \A k : Place(s, k) \in Nat /\ Place(s, k) <= Len(s) /\ IsFiniteSet(First(k))
  BY <1>2, <1>3, FS_Subset, FS_CardinalityType
<1>5. \A k \in D : s[k].lcn \in Nat /\ s[k].ref \in Nat
  <2>1. \A k \in D : s[k] \in S
    OBVIOUS
  <2> QED
    BY <2>1
<1>6. ASSUME NEW k \in D PROVE k \in First(k) /\ Place(s, k) \in D
  <2>1. k \in First(k)
    BY <1>1, <1>5 DEF Before
  <2>2. Place(s, k) # 0
    BY <1>3, <1>4, <2>1, FS_EmptySet
  <2> DEFINE P == Place(s, k)
             L == Len(s)
  <2>3. P \in Nat /\ P <= L /\ P # 0 /\ L \in Nat
    BY <1>1, <1>4, <2>2
  <2>4. D = 1..L
    BY <1>1
  <2> HIDE DEF First, P, L, D
  <2>5. P \in D
    BY ONLY <2>3, <2>4
  <2> QED
    BY <2>1, <2>5 DEF P
<1>7. ASSUME NEW j \in D, NEW k \in D, j \in First(k), j # k
      PROVE  Place(s, j) # Place(s, k)
  <2>1. ASSUME NEW m \in First(j) PROVE m \in First(k)
    <3>1. m \in D /\ m \in Nat /\ j \in Nat /\ k \in Nat
      BY <1>1
    <3>2. s[m].lcn \in Nat /\ s[m].ref \in Nat /\ s[j].lcn \in Nat /\ s[j].ref \in Nat
          /\ s[k].lcn \in Nat /\ s[k].ref \in Nat
      BY <1>5, <3>1
    <3>3. Before(s[m], s[j]) \/ (~Before(s[j], s[m]) /\ m <= j)
      BY <2>1
    <3>4. Before(s[j], s[k]) \/ (~Before(s[k], s[j]) /\ j <= k)
      BY <1>7
    <3>5. Before(s[m], s[k]) \/ (~Before(s[k], s[m]) /\ m <= k)
      BY ONLY <3>1, <3>2, <3>3, <3>4 DEF Before
    <3> QED
      BY <3>1, <3>5
  <2>2. k \notin First(j)
    BY <1>1, <1>5, <1>7 DEF Before
  <2>3. First(j) \in SUBSET First(k) /\ First(j) # First(k)
    BY <1>6, <2>1, <2>2
  <2> HIDE DEF First
  <2> QED
    BY <1>3, <1>4, <2>3, FS_Subset
<1>8. ASSUME NEW j \in D, NEW k \in D, j # k PROVE Place(s, j) # Place(s, k)
  <2>1. j \in First(k) \/ k \in First(j)
    BY <1>1, <1>5 DEF Before
  <2> QED
    BY <1>7, <1>8, <2>1
<1>9. \A n \in D : \E k \in D : Place(s, k) = n
  <2> DEFINE f == [k \in D |-> Place(s, k)]
  <2>1. f \in Injection(D, D)
    BY <1>6, <1>8 DEF Injection, IsInjective
  <2>2. f \in Surjection(D, D)
    BY <1>2, <2>1, FS_Injection
  <2> QED
    BY <2>2 DEF Surjection
<1>10. \A n \in D : h[n] \in D /\ Place(s, h[n]) = n
  BY <1>9
<1>11. h \in [D -> D] /\ \A k \in D : Place(s, k) \in D /\ h[Place(s, k)] = k
  <2>1. h \in [D -> D]
    BY <1>10
  <2>2. ASSUME NEW k \in D PROVE h[Place(s, k)] = k
    <3>1. h[Place(s, k)] \in D /\ Place(s, h[Place(s, k)]) = Place(s, k)
      BY <1>6, <1>10
    <3> QED
      BY <1>8, <3>1
  <2> QED
    BY <1>6, <2>1, <2>2
<1>12. Sorted(s) = [n \in D |-> s[h[n]]]
  BY DEF Sorted
<1> HIDE DEF h
<1>13. Sorted(s) \in Seq(S)
  <2>1. \A n \in D : s[h[n]] \in S
    BY <1>11
  <2> QED
    BY <1>1, <1>12, <2>1
<1>14. /\ \A m, n \in D : h[m] = h[n] => m = n
       /\ \A k \in D : \E n \in D : h[n] = k
  BY <1>10, <1>11
<1>15. DOMAIN Sorted(s) = D /\ \A n \in D : Sorted(s)[n] = s[h[n]]
  BY <1>12
<1>16. h \in [D -> D]
  BY <1>11
<1> HIDE DEF First
<1>17. Permuted(Sorted(s), s)
  BY ONLY <1>14, <1>15, <1>16 DEF Permuted
<1> QED
  BY <1>13, <1>17

LEMMA Joined ==
  ASSUME NEW S, NEW s \in Seq(S), NEW t \in Seq(S)
  PROVE  /\ s \o t \in Seq(S)
         /\ \A k \in DOMAIN (s \o t) :
              \/ k \in DOMAIN s /\ (s \o t)[k] = s[k]
              \/ k - Len(s) \in DOMAIN t /\ (s \o t)[k] = t[k - Len(s)] /\ k \notin DOMAIN s
         /\ \A k \in DOMAIN s : k \in DOMAIN (s \o t) /\ (s \o t)[k] = s[k]
         /\ \A k \in DOMAIN t : k + Len(s) \in DOMAIN (s \o t) /\ (s \o t)[k + Len(s)] = t[k]
OBVIOUS

LEMMA Popped ==
  ASSUME NEW S, NEW s \in Seq(S), s # <<>>
  PROVE  /\ Front(s) \in Seq(S) /\ Last(s) \in S
         /\ DOMAIN Front(s) = 1..Len(s) - 1 /\ Len(s) \in DOMAIN s /\ Last(s) = s[Len(s)]
         /\ \A k \in DOMAIN Front(s) : k \in DOMAIN s /\ k # Len(s) /\ Front(s)[k] = s[k]
         /\ \A k \in DOMAIN s : k = Len(s) \/ k \in DOMAIN Front(s)
<1>1. Len(s) \in Nat /\ Len(s) > 0
  OBVIOUS
<1>2. Front(s) = SubSeq(s, 1, Len(s) - 1) /\ Last(s) = s[Len(s)]
  BY DEF Front, Last
<1> QED
  BY <1>1, <1>2


LEMMA FiniteRange ==
  ASSUME NEW e, IsFiniteSet(DOMAIN e)
  PROVE  IsFiniteSet({e[n] : n \in DOMAIN e})
<1> DEFINE D == DOMAIN e
           R == {e[n] : n \in D}
           f == [n \in D |-> e[n]]
<1>1. f \in Surjection(D, R)
  BY DEF Surjection
<1> HIDE DEF R, f
<1>2. IsFiniteSet(R)
  BY <1>1, FS_Surjection
<1> QED
  BY <1>2 DEF R

(* One entry for each node of a set.                                       *)
EntryOfEach(e, S, M) ==
  /\ \A n \in DOMAIN e : e[n].node = n /\ e[n] \in S
  /\ \A x : x \in M <=> \E n \in DOMAIN e : x = e[n]

Listing(s, e, S) ==
  /\ s \in Seq(S)
  /\ \A i \in DOMAIN s : s[i].node \in DOMAIN e /\ s[i] = e[s[i].node]
  /\ \A n \in DOMAIN e : \E i \in DOMAIN s : s[i].node = n
  /\ \A i, j \in DOMAIN s : s[i].node = s[j].node => i = j

LEMMA Entries ==
  ASSUME NEW e, IsFiniteSet(DOMAIN e), NEW S, NEW M, EntryOfEach(e, S, M),
         NEW s, s = SetToSeq(M)
  PROVE  Listing(s, e, S)
<1> USE DEF EntryOfEach
<1>1. IsFiniteSet(M)
  <2>1. M = {e[n] : n \in DOMAIN e}
    OBVIOUS
  <2> QED
    BY <2>1, FiniteRange
<1>2. \A x \in M : x.node \in DOMAIN e /\ x = e[x.node] /\ x \in S
  OBVIOUS
<1>3. \A n \in DOMAIN e : e[n] \in M
  OBVIOUS
<1>4. /\ s \in Seq(M)
      /\ \A x \in M : \E i \in DOMAIN s : s[i] = x
      /\ \A i, j \in DOMAIN s : s[i] = s[j] => i = j
  <2>1. /\ SetToSeq(M) \in Seq(M)
        /\ \A x \in M : \E i \in DOMAIN SetToSeq(M) : SetToSeq(M)[i] = x
        /\ \A i, j \in DOMAIN SetToSeq(M) : SetToSeq(M)[i] = SetToSeq(M)[j] => i = j
    BY <1>1, Enumerated
  <2> QED
    BY <2>1, Zenon
<1>5. s \in Seq(S) /\ \A i \in DOMAIN s : s[i] \in M
  <2>1. \A x \in M : x \in S
    BY <1>2
  <2>2. s \in Seq(M)
    BY <1>4
  <2> QED
    BY ONLY <2>1, <2>2
<1>6. ASSUME NEW n \in DOMAIN e PROVE \E i \in DOMAIN s : s[i].node = n
  <2>1. PICK i \in DOMAIN s : s[i] = e[n]
    BY <1>3, <1>4
  <2> QED
    BY <2>1
<1>7. \A i, j \in DOMAIN s : s[i].node = s[j].node => i = j
  <2> SUFFICES ASSUME NEW i \in DOMAIN s, NEW j \in DOMAIN s, s[i].node = s[j].node
               PROVE  i = j
    OBVIOUS
  <2>1. s[i] = s[j]
    BY <1>2, <1>5
  <2> QED
    BY <1>4, <2>1
<1> QED
  BY <1>2, <1>5, <1>6, <1>7 DEF Listing

-----------------------------------------------------------------------------
(* The volume scanned, and what is derived from it alone, stay what they   *)
(* are.                                                                    *)
LEMMA LookupAlways ==
  \A up, path : Len(path) \in Nat =>
    \E F : ByName(up, path, F) /\ Lookup(up, path) = F[Len(path)]
BY LookupByName

LEMMA LookupNextState ==
  (\A up, path : Len(path) \in Nat =>
     \E F : ByName(up, path, F) /\ Lookup(up, path) = F[Len(path)])'
BY LookupAlways, PTL

LEMMA SameNodes ==
  ASSUME tree' = tree
  PROVE  /\ T' = T /\ Nodes' = Nodes /\ Links' = Links /\ Files' = Files
         /\ Names' = Names /\ FileContexts' = FileContexts
         /\ \A n : Up(n)' = Up(n) /\ Depth(n)' = Depth(n) /\ Through(n)' = Through(n)
<1>1. T' = T
  BY DEF T
<1>2. Nodes' = Nodes /\ Links' = Links
  BY <1>1 DEF Nodes, Links
<1>3. Files' = Files /\ Names' = Names
  BY <1>1, <1>2 DEF Files, Names
<1>4. FileContexts' = FileContexts
  BY <1>3 DEF FileContexts
<1>5. \A n : Up(n)' = Up(n) /\ Depth(n)' = Depth(n) /\ Through(n)' = Through(n)
  BY <1>1, <1>2 DEF Up, Depth, Through
<1> QED
  BY <1>1, <1>2, <1>3, <1>4, <1>5

LEMMA SameLookup ==
  ASSUME tree' = tree, NEW up, NEW path, Len(path) \in Nat
  PROVE  Lookup(up, path)' = Lookup(up, path)
<1> DEFINE N == Len(path)
<1>1. PICK F : ByName(up, path, F)' /\ Lookup(up, path)' = F[N]
  BY LookupNextState
<1>2. PICK G : ByName(up, path, G) /\ Lookup(up, path) = G[N]
  BY LookupAlways
<1>3. \A S, text : Into(up, S, text)' = Into(up, S, text)
  BY SameNodes DEF Into, Children
<1>4. F = [k \in 0..N |-> IF k = 0 THEN {Volume} ELSE Into(up, F[k - 1], path[k].text)']
  BY <1>1 DEF ByName
<1>5. \A k \in 0..N : F[k] = IF k = 0 THEN {Volume} ELSE Into(up, F[k - 1], path[k].text)
  BY <1>3, <1>4
<1>6. \A k \in 0..N : G[k] = IF k = 0 THEN {Volume} ELSE Into(up, G[k - 1], path[k].text)
  BY <1>2 DEF ByName
<1> DEFINE Same == {k \in 0..N : F[k] = G[k]}
<1> HIDE DEF N
<1>7. 0 \in 0..N /\ N \in 0..N
  BY DEF N
<1>8. 0 \in Same
  BY <1>5, <1>6, <1>7
<1>9. ASSUME NEW k \in 1..N, k - 1 \in Same PROVE k \in Same
  <2>1. k \in 0..N /\ k # 0 /\ F[k - 1] = G[k - 1]
    BY <1>9
  <2>2. F[k] = G[k]
    BY <1>5, <1>6, <2>1
  <2> QED
    BY <2>1, <2>2
<1>10. N \in Same
  <2> HIDE DEF Same
  <2>1. 0..N \subseteq Same
    BY <1>8, <1>9, UpTo DEF N
  <2> QED
    BY <1>7, <2>1
<1> QED
  BY <1>1, <1>2, <1>10


-----------------------------------------------------------------------------
(* The types, and what a walk keeps to.  The nodes not moved are where     *)
(* they were, and no directory gets two entries of one name; the table     *)
(* read so far has all records up to nextRef of nodes not moved, with      *)
(* their first parents; and each phase has its own variables.              *)
Kept ==
  /\ Volume \notin touched
  /\ \A n \in Nodes \ touched : parent[n] = T.parent[n]
  /\ \A m, n \in Nodes \ {Volume} :
       parent[m] = parent[n] /\ T.name[m].text = T.name[n].text => m = n

Read == \A n \in Nodes : n < nextRef /\ n \notin touched => n \in DOMAIN mft

Phases ==
  /\ pc \in {"start", "mft"} => dirs = <<>> /\ allFiles = <<>>
  /\ pc = "start" => DOMAIN mft = {} /\ nextRef = 1
  /\ pc = "walk" => DOMAIN mft = {}
  /\ pc # "done" => emitted = <<>>
  /\ pc \in {"emit", "done"} => DOMAIN mft = {} \/ nextRef \notin Nodes
  /\ pc \in {"emit", "done"} => DOMAIN mft # {} \/ dirs = <<>>
  /\ pc = "done" => allFiles = <<>>

Inv == TypeOK /\ Kept /\ Table /\ Read /\ Phases

LEMMA LookupTypes ==
  ASSUME tree \in DOMAIN Trees, NEW up, NEW S, NEW path \in Seq(S)
  PROVE  Lookup(up, path) \subseteq Nodes
<1> DEFINE Paths == {p \in Seq(S) : Lookup(up, p) \subseteq Nodes}
<1>1. ASSUME NEW e, e = <<>> PROVE e \in Paths
  <2>1. e \in Seq(S) /\ Lookup(up, e) = {Volume}
    BY <1>1, LookupTop
  <2> QED
    BY <2>1, Volumes
<1>2. ASSUME NEW p \in Seq(S), NEW x \in S, p \in Paths PROVE Append(p, x) \in Paths
  <2>1. Lookup(up, Append(p, x)) = Into(up, Lookup(up, p), x.text)
    BY LookupNext
  <2>2. \A R, t : Into(up, R, t) \subseteq Nodes
    BY DEF Into, Children
  <2>3. Append(p, x) \in Seq(S)
    OBVIOUS
  <2> QED
    BY <2>1, <2>2, <2>3
<1>3. path \in Paths
  <2> HIDE DEF Paths
  <2> QED
    BY <1>1, <1>2, NameByName
<1> QED
  BY <1>3

LEMMA OpenTypes ==
  ASSUME tree \in DOMAIN Trees, NEW S, NEW path \in Seq(S)
  PROVE  Opens(path) \subseteq Nodes
BY LookupTypes DEF Opens

LEMMA Numbers ==
  ASSUME tree \in DOMAIN Trees, NEW found \in SUBSET Nodes
  PROVE  /\ Lcn(found) \in Nat
         /\ found # {} => (CHOOSE n \in found : TRUE) \in found
         /\ Nodes \subseteq Nat /\ \A n \in Nodes : Through(n) \in Nodes
<1>1. found # {} => (CHOOSE n \in found : TRUE) \in found
  OBVIOUS
<1>2. T.lcn \in [Nodes -> Nat] /\ Nodes \subseteq Nat /\ \A l \in Links : T.link[l] \in Nodes
  BY Volumes
<1>3. Lcn(found) \in Nat
  <2> DEFINE c == CHOOSE n \in found : TRUE
  <2>1. found # {} => T.lcn[c] \in Nat
    BY <1>1, <1>2
  <2>2. Lcn(found) = IF T.physicalOrder /\ found # {} THEN T.lcn[c] ELSE 0
    BY DEF Lcn
  <2> HIDE DEF c
  <2> QED
    BY <2>1, <2>2
<1>4. \A n \in Nodes : Through(n) \in Nodes
  BY <1>2 DEF Through
<1> QED
  BY <1>1, <1>2, <1>3, <1>4

LEMMA InitInv == Init => Inv
<1> SUFFICES ASSUME Init PROVE Inv
  OBVIOUS
<1> USE DEF Init
<1>1. tree \in DOMAIN Trees
  OBVIOUS
<1>2. /\ T.parent \in [Nodes -> T.isDir \ Links] /\ Volume \in Nodes
      /\ Nodes = 1..Cardinality(Nodes) /\ Cardinality(Nodes) \in Nat
      /\ \A m, n \in Nodes \ {Volume} :
           T.parent[m] = T.parent[n] /\ T.name[m].text = T.name[n].text => m = n
  BY <1>1, Volumes
<1>3. DOMAIN mft = {}
  OBVIOUS
<1>4. TypeOK
  <2>1. nextRef \in 1..Cardinality(Nodes) + 1
    BY <1>2
  <2>2. dirs \in Seq(Seq(Names)) /\ allFiles \in Seq(FileContexts)
        /\ emitted \in Seq(FileContexts)
    OBVIOUS
  <2> QED
    BY <1>1, <1>2, <1>3, <2>1, <2>2 DEF TypeOK
<1>5. Kept
  BY <1>2 DEF Kept, Volume
<1>6. Table /\ Read
  <2>1. \A n \in Nodes : ~(n < 1)
    BY <1>2
  <2> QED
    BY <1>3, <2>1 DEF Table, Read
<1>7. Phases
  BY <1>3 DEF Phases
<1> QED
  BY <1>4, <1>5, <1>6, <1>7 DEF Inv

LEMMA Ranges ==
  ASSUME tree \in DOMAIN Trees
  PROVE  /\ T.root \in Seq(Names)
         /\ \A n \in Nodes : T.name[n] \in Names
         /\ \A p : p \in Seq(Range(T.name)) => p \in Seq(Names)
<1>1. T.root \in Seq(Range(T.root)) /\ \A n \in Nodes : T.name[n] \in Range(T.name)
  BY Volumes DEF Range
<1>2. Range(T.root) \subseteq Names /\ Range(T.name) \subseteq Names
  BY DEF Names
<1>3. ASSUME NEW X, NEW Y, X \subseteq Y, NEW s \in Seq(X) PROVE s \in Seq(Y)
  BY ONLY <1>3
<1> QED
  BY <1>1, <1>2, <1>3

LEMMA StartInv == Inv /\ Start => Inv'
<1> SUFFICES ASSUME Inv, Start PROVE Inv'
  OBVIOUS
<1> USE DEF Start
<1>1. tree \in DOMAIN Trees /\ tree' = tree /\ TypeOK
  BY DEF Inv, TypeOK
<1> USE <1>1, SameNodes
<1>2. TypeOK'
  <2>1. <<T.root>> \in Seq(Seq(Names))
    BY Ranges
  <2>2. dirs \in Seq(Seq(Names)) /\ (dirs' = dirs \/ dirs' = <<T.root>>)
    BY DEF TypeOK
  <2>3. dirs' \in Seq(Seq(Names))
    BY <2>1, <2>2
  <2> QED
    BY <2>3 DEF TypeOK
<1>3. Kept' /\ Table' /\ Read'
  BY DEF Inv, Kept, Table, Read
<1>4. Phases'
  BY DEF Inv, Phases
<1> QED
  BY <1>2, <1>3, <1>4 DEF Inv

LEMMA ReadRecordInv == Inv /\ ReadRecord => Inv'
<1> SUFFICES ASSUME Inv, ReadRecord PROVE Inv'
  OBVIOUS
<1>1. tree \in DOMAIN Trees /\ tree' = tree /\ TypeOK
  BY DEF Inv, TypeOK, ReadRecord
<1> USE <1>1, SameNodes
<1>2. /\ Nodes = 1..Cardinality(Nodes) /\ Cardinality(Nodes) \in Nat
      /\ nextRef \in Nodes /\ nextRef' = nextRef + 1
  BY Volumes DEF ReadRecord
<1>3. CASE nextRef \notin touched
  <2>1. mft' = [n \in DOMAIN mft \cup {nextRef} |-> IF n = nextRef THEN parent[n] ELSE mft[n]]
    BY <1>3 DEF ReadRecord, Returned
  <2>2. DOMAIN mft' = DOMAIN mft \cup {nextRef}
    BY <2>1
  <2>3. parent[nextRef] = T.parent[nextRef] /\ parent[nextRef] \in T.isDir
    BY <1>2, <1>3 DEF Inv, Kept, TypeOK
  <2>4. \A n \in DOMAIN mft' : mft'[n] = IF n = nextRef THEN parent[n] ELSE mft[n]
    BY <2>1
  <2> QED
    <3>1. DOMAIN mft' \subseteq 1..nextRef' - 1
      BY <1>2, <2>2 DEF TypeOK
    <3>2. \A n \in DOMAIN mft' : mft'[n] \in T.isDir /\ mft'[n] = T.parent[n]
      BY <2>2, <2>3, <2>4 DEF Inv, Table, TypeOK
    <3>3. \A n \in Nodes : n < nextRef' /\ n \notin touched => n \in DOMAIN mft'
      BY <1>2, <2>2 DEF Inv, Read
    <3>4. nextRef' \in 1..Cardinality(Nodes) + 1
      BY <1>2
    <3>5. TypeOK'
      BY <3>1, <3>2, <3>4 DEF TypeOK, ReadRecord
    <3>6. Kept' /\ Table' /\ Read'
      BY <1>2, <2>2, <3>2, <3>3 DEF Inv, Kept, Table, Read, ReadRecord
    <3>7. Phases'
      BY DEF Inv, Phases, ReadRecord
    <3> QED
      BY <3>5, <3>6, <3>7 DEF Inv
<1>4. CASE nextRef \in touched
  <2>1. mft' = mft
    BY <1>4 DEF ReadRecord, Returned
  <2>2. DOMAIN mft \subseteq 1..nextRef' - 1 /\ nextRef' \in 1..Cardinality(Nodes) + 1
    BY <1>2 DEF TypeOK
  <2>3. TypeOK'
    BY <2>1, <2>2 DEF TypeOK, ReadRecord
  <2>4. \A n \in Nodes : n < nextRef' /\ n \notin touched => n \in DOMAIN mft
    BY <1>2, <1>4 DEF Inv, Read
  <2>5. Kept' /\ Table' /\ Read'
    BY <2>1, <2>4 DEF Inv, Kept, Table, Read, ReadRecord
  <2>6. Phases'
    BY <2>1 DEF Inv, Phases, ReadRecord
  <2> QED
    BY <2>3, <2>5, <2>6 DEF Inv
<1> QED
  BY <1>3, <1>4

(* What the end of the enumeration finds: an entry for each record that    *)
(* passes the filter, with the path the file had.                          *)
LEMMA Enumeration ==
  ASSUME Inv, EndEnumeration, DOMAIN mft # {}
  PROVE  /\ allFiles' \in Seq(FileContexts)
         /\ \A i \in DOMAIN allFiles' :
              /\ IsPath(allFiles'[i].path, allFiles'[i].node)
              /\ allFiles'[i].node \in DOMAIN mft /\ Passes(allFiles'[i].node)
         /\ \A n \in DOMAIN mft : Passes(n) => \E i \in DOMAIN allFiles' : allFiles'[i].node = n
         /\ \A i, j \in DOMAIN allFiles' : allFiles'[i].node = allFiles'[j].node => i = j
<1>1. tree \in DOMAIN Trees /\ Table
  BY DEF Inv, TypeOK
<1> DEFINE P == {m \in DOMAIN mft : Passes(m)}
           Entry(n) == [node |-> n, path |-> getPath(n), ref |-> n,
                        lcn |-> Lcn(Opens(getPath(n)))]
           e == [n \in P |-> Entry(n)]
<1>2. allFiles' = SetToSeq({Entry(n) : n \in P})
  BY DEF EndEnumeration
<1>3. DOMAIN e = P /\ \A n \in P : e[n] = Entry(n)
  OBVIOUS
<1>4. IsFiniteSet(P) /\ P \subseteq Nodes
  BY <1>1, Volumes, FS_Subset DEF Table
<1>5. ASSUME NEW n \in P PROVE IsPath(getPath(n), n) /\ n \in Files
  BY <1>1, <1>4, PathsOf DEF Passes, Files
<1>6. ASSUME NEW n \in P PROVE Entry(n) \in FileContexts
  <2>1. getPath(n) \in Seq(Names)
    BY <1>1, <1>5, Ranges DEF IsPath
  <2>2. Lcn(Opens(getPath(n))) \in Nat
    BY <1>1, <2>1, OpenTypes, Numbers
  <2>3. n \in Nat /\ n \in Files
    BY <1>1, <1>4, <1>5, Numbers
  <2> QED
    BY <2>1, <2>2, <2>3 DEF FileContexts
<1>7. \A n \in P : Entry(n).node = n /\ Entry(n).path = getPath(n)
  OBVIOUS
<1> DEFINE M == {Entry(n) : n \in P}
           s == allFiles'
<1> HIDE DEF P, Entry
<1>8. EntryOfEach(e, FileContexts, M)
  BY <1>3, <1>6, <1>7 DEF EntryOfEach
<1>9. s = SetToSeq(M) /\ IsFiniteSet(DOMAIN e)
  BY <1>2, <1>3, <1>4
<1> HIDE DEF e, M, s
<1>10. Listing(s, e, FileContexts)
  BY <1>8, <1>9, Entries, Zenon
<1>11. /\ s \in Seq(FileContexts)
       /\ \A i \in DOMAIN s : s[i].node \in DOMAIN e /\ s[i] = e[s[i].node]
       /\ \A n \in DOMAIN e : \E i \in DOMAIN s : s[i].node = n
       /\ \A i, j \in DOMAIN s : s[i].node = s[j].node => i = j
  BY <1>10, Zenon DEF Listing
<1>12. ASSUME NEW i \in DOMAIN s
       PROVE  IsPath(s[i].path, s[i].node) /\ s[i].node \in P
  <2>1. s[i].node \in P /\ s[i].path = getPath(s[i].node)
    BY <1>3, <1>7, <1>11
  <2> QED
    BY <1>5, <2>1
<1>13. \A n : n \in P <=> n \in DOMAIN mft /\ Passes(n)
  BY DEF P
<1> QED
  BY <1>3, <1>11, <1>12, <1>13 DEF s

LEMMA EndEnumerationInv == Inv /\ EndEnumeration => Inv'
<1> SUFFICES ASSUME Inv, EndEnumeration PROVE Inv'
  OBVIOUS
<1>1. tree \in DOMAIN Trees /\ tree' = tree /\ TypeOK
  BY DEF Inv, TypeOK, EndEnumeration
<1> USE <1>1, SameNodes
<1>2. <<T.root>> \in Seq(Seq(Names))
  BY Ranges
<1>3. TypeOK'
  <2>1. CASE DOMAIN mft = {}
    BY <1>2, <2>1 DEF TypeOK, EndEnumeration
  <2>2. CASE DOMAIN mft # {}
    BY <2>2, Enumeration DEF TypeOK, EndEnumeration
  <2> QED
    BY <2>1, <2>2
<1>4. Kept' /\ Table' /\ Read'
  BY DEF Inv, Kept, Table, Read, EndEnumeration
<1>5. Phases'
  BY DEF Inv, Phases, EndEnumeration
<1> QED
  BY <1>3, <1>4, <1>5 DEF Inv

(* What a step of the listing adds: the directories and the files that the *)
(* one listed has, each once.                                              *)
Chosen(dir) == {n \in Listed(dir) : n \in Links => T.followLinks}
ChosenDirs(dir) == Chosen(dir) \cap T.isDir
ChosenFiles(dir) == {n \in Chosen(dir) \ T.isDir : ~IsExcludedFile(T.name[n])}

NewDirs(more, dir) ==
  /\ more \in Seq(Seq(Names))
  /\ \A i \in DOMAIN more : \E n \in ChosenDirs(dir) : more[i] = Append(dir, T.name[n])
  /\ \A n \in ChosenDirs(dir) : \E i \in DOMAIN more : more[i] = Append(dir, T.name[n])
  /\ \A i, j \in DOMAIN more : more[i] = more[j] => i = j

NewFiles(found, dir) ==
  /\ found \in Seq(FileContexts)
  /\ \A i \in DOMAIN found : /\ found[i].node \in ChosenFiles(dir)
                             /\ found[i].path = Append(dir, T.name[found[i].node])
  /\ \A n \in ChosenFiles(dir) : \E i \in DOMAIN found : found[i].node = n
  /\ \A i, j \in DOMAIN found : found[i].node = found[j].node => i = j

LEMMA ListedTypes ==
  ASSUME tree \in DOMAIN Trees, NEW dir
  PROVE  /\ Chosen(dir) \subseteq Nodes /\ ChosenDirs(dir) \subseteq Nodes
         /\ ChosenFiles(dir) \subseteq Files
         /\ IsFiniteSet(ChosenDirs(dir)) /\ IsFiniteSet(ChosenFiles(dir))
<1>1. Listed(dir) \subseteq Nodes
  BY DEF Listed, Children
<1>2. Chosen(dir) \subseteq Nodes
  BY <1>1 DEF Chosen
<1>3. ChosenDirs(dir) \subseteq Nodes /\ ChosenFiles(dir) \subseteq Files
      /\ Files \subseteq Nodes
  BY <1>2 DEF ChosenDirs, ChosenFiles, Files
<1>4. IsFiniteSet(Nodes) /\ ChosenFiles(dir) \subseteq Nodes
  BY <1>3, Volumes
<1> QED
  BY <1>2, <1>3, <1>4, FS_Subset

LEMMA ListDirFinds ==
  ASSUME Inv, ListDir
  PROVE  \E more, found :
           /\ NewDirs(more, Last(dirs)) /\ NewFiles(found, Last(dirs))
           /\ dirs' = Front(dirs) \o more /\ allFiles' = allFiles \o found
<1> DEFINE dir == Last(dirs)
           Path(n) == Append(dir, T.name[n])
           D == ChosenDirs(dir)
           F == ChosenFiles(dir)
           SD == {Path(n) : n \in D}
           Entry(n) == [node |-> n, path |-> Path(n), ref |-> 0, lcn |-> 0]
           SF == {Entry(n) : n \in F}
           p == [n \in D |-> Path(n)]
           e == [n \in F |-> Entry(n)]
           more == SetToSeq(SD)
           found == SetToSeq(SF)
<1>1. tree \in DOMAIN Trees /\ dirs \in Seq(Seq(Names)) /\ dirs # <<>>
  BY DEF Inv, TypeOK, ListDir
<1>2. dir \in Seq(Names)
  BY <1>1, Popped
<1>3. /\ D \subseteq Nodes /\ F \subseteq Files /\ F \subseteq Nodes
      /\ IsFiniteSet(D) /\ IsFiniteSet(F)
  BY <1>1, ListedTypes DEF Files
<1>4. dirs' = Front(dirs) \o more /\ allFiles' = allFiles \o found
  BY Zenon DEF ListDir, ChosenDirs, ChosenFiles, Chosen
<1>5. ASSUME NEW n \in Nodes PROVE Path(n) \in Seq(Names)
  <2>1. T.name[n] \in Names
    BY <1>1, Ranges
  <2> HIDE DEF dir
  <2> QED
    BY <1>2, <2>1
<1> HIDE DEF dir
<1>6. NewDirs(more, dir)
  <2>1. DOMAIN p = D /\ \A n \in D : p[n] = Path(n)
    OBVIOUS
  <2>2. IsFiniteSet(SD)
    <3>1. SD = {p[n] : n \in DOMAIN p}
      BY <2>1
    <3>2. IsFiniteSet({p[n] : n \in DOMAIN p})
      <4> HIDE DEF p
      <4> QED
        BY <1>3, <2>1, FiniteRange
    <3> QED
      BY <3>1, <3>2
  <2>3. \A x \in SD : x \in Seq(Names)
    BY <1>3, <1>5
  <2>4. /\ \A x : x \in SD => \E n \in D : x = Path(n)
        /\ \A n \in D : Path(n) \in SD
    OBVIOUS
  <2> HIDE DEF SD, D
  <2>5. /\ more \in Seq(SD)
        /\ \A x \in SD : \E i \in DOMAIN more : more[i] = x
        /\ \A i, j \in DOMAIN more : more[i] = more[j] => i = j
    BY <2>2, Enumerated
  <2> HIDE DEF more
  <2>6. more \in Seq(Seq(Names)) /\ \A i \in DOMAIN more : more[i] \in SD
    <3> DEFINE X == Seq(Names)
    <3> HIDE DEF X
    <3>1. \A x \in SD : x \in X
      BY <2>3 DEF X
    <3>2. more \in Seq(X) /\ \A i \in DOMAIN more : more[i] \in SD
      BY ONLY <2>5, <3>1
    <3> QED
      BY <3>2 DEF X
  <2> QED
    BY <2>4, <2>5, <2>6 DEF NewDirs, D
<1>7. NewFiles(found, dir)
  <2>1. DOMAIN e = F /\ \A n \in F : e[n] = Entry(n)
    OBVIOUS
  <2>2. \A n \in F : Entry(n).node = n /\ Entry(n).path = Path(n)
    OBVIOUS
  <2>3. ASSUME NEW n \in F PROVE Entry(n) \in FileContexts
    <3>1. Path(n) \in Seq(Names) /\ n \in Files
      BY <1>3, <1>5
    <3> HIDE DEF Path
    <3> QED
      BY <3>1 DEF FileContexts
  <2> HIDE DEF Entry, F, Path
  <2>4. EntryOfEach(e, FileContexts, SF)
    BY <2>1, <2>2, <2>3 DEF EntryOfEach
  <2>5. IsFiniteSet(DOMAIN e)
    BY <1>3, <2>1
  <2> HIDE DEF e, SF
  <2>6. Listing(found, e, FileContexts)
    BY <2>4, <2>5, Entries, Zenon
  <2> HIDE DEF found
  <2> QED
    BY <2>1, <2>2, <2>6 DEF Listing, NewFiles, F, Path
<1> QED
  BY <1>4, <1>6, <1>7 DEF dir

LEMMA ListDirInv == Inv /\ ListDir => Inv'
<1> SUFFICES ASSUME Inv, ListDir PROVE Inv'
  OBVIOUS
<1>1. tree \in DOMAIN Trees /\ tree' = tree /\ TypeOK
  BY DEF Inv, TypeOK, ListDir
<1> USE <1>1, SameNodes
<1>2. PICK more, found : /\ NewDirs(more, Last(dirs)) /\ NewFiles(found, Last(dirs))
                         /\ dirs' = Front(dirs) \o more /\ allFiles' = allFiles \o found
  BY ListDirFinds
<1>3. dirs' \in Seq(Seq(Names))
  <2> DEFINE X == Seq(Names)
  <2>1. dirs \in Seq(X) /\ dirs # <<>> /\ more \in Seq(X)
    BY <1>2 DEF TypeOK, ListDir, NewDirs
  <2> HIDE DEF X
  <2>2. Front(dirs) \in Seq(X)
    BY <2>1, Popped
  <2>3. Front(dirs) \o more \in Seq(X)
    BY <2>1, <2>2, Joined
  <2> QED
    BY <1>2, <2>3 DEF X
<1>4. allFiles' \in Seq(FileContexts)
  BY <1>2, Joined DEF TypeOK, NewFiles
<1>5. TypeOK'
  BY <1>3, <1>4 DEF TypeOK, ListDir
<1>6. Kept' /\ Table' /\ Read'
  BY DEF Inv, Kept, Table, Read, ListDir
<1>7. Phases'
  BY DEF Inv, Phases, ListDir
<1> QED
  BY <1>5, <1>6, <1>7 DEF Inv

LEMMA EndWalkKeeps ==
  ASSUME Inv, EndWalk
  PROVE  /\ allFiles' \in Seq(FileContexts) /\ DOMAIN allFiles' = DOMAIN allFiles
         /\ \A i \in DOMAIN allFiles : allFiles'[i].node = allFiles[i].node
<1>1. tree \in DOMAIN Trees /\ allFiles \in Seq(FileContexts)
  BY DEF Inv, TypeOK
<1> DEFINE Opened(i) == {Through(n) : n \in Opens(allFiles[i].path)}
           New(i) == IF Ordered /\ Opened(i) # {}
                     THEN [allFiles[i] EXCEPT !.ref = CHOOSE n \in Opened(i) : TRUE,
                                              !.lcn = Lcn(Opened(i))]
                     ELSE allFiles[i]
<1>2. allFiles' = [i \in DOMAIN allFiles |-> New(i)]
  BY DEF EndWalk
<1>3. ASSUME NEW i \in DOMAIN allFiles
      PROVE  New(i) \in FileContexts /\ New(i).node = allFiles[i].node
  <2> DEFINE a == allFiles[i]
             o == Opened(i)
             c == CHOOSE n \in o : TRUE
  <2>1. a \in FileContexts
    BY <1>1
  <2>2. a.path \in Seq(Names)
    BY <2>1 DEF FileContexts
  <2>3. o \subseteq Nodes
    BY <1>1, <2>2, OpenTypes, Numbers
  <2>4. o # {} => c \in Nat
    BY <1>1, <2>3, Numbers
  <2>5. Lcn(o) \in Nat
    BY <1>1, <2>3, Numbers
  <2>6. New(i) = IF Ordered /\ o # {} THEN [a EXCEPT !.ref = c, !.lcn = Lcn(o)] ELSE a
    OBVIOUS
  <2> HIDE DEF New, o, a, c
  <2>7. New(i) \in FileContexts /\ New(i).node = a.node
    BY <2>1, <2>4, <2>5, <2>6 DEF FileContexts
  <2> QED
    BY <2>7 DEF a
<1> HIDE DEF New
<1>4. allFiles' \in Seq(FileContexts)
  <2>1. Len(allFiles) \in Nat /\ DOMAIN allFiles = 1..Len(allFiles)
    BY <1>1
  <2> QED
    BY <1>2, <1>3, <2>1
<1> QED
  BY <1>2, <1>3, <1>4

LEMMA EndWalkInv == Inv /\ EndWalk => Inv'
<1> SUFFICES ASSUME Inv, EndWalk PROVE Inv'
  OBVIOUS
<1>1. tree \in DOMAIN Trees /\ tree' = tree /\ TypeOK
  BY DEF Inv, TypeOK, EndWalk
<1> USE <1>1, SameNodes
<1>2. TypeOK'
  BY EndWalkKeeps DEF TypeOK, EndWalk
<1>3. Kept' /\ Table' /\ Read'
  BY DEF Inv, Kept, Table, Read, EndWalk
<1>4. Phases'
  BY DEF Inv, Phases, EndWalk
<1> QED
  BY <1>2, <1>3, <1>4 DEF Inv

(* The files handed on are those found, each in a place of its own.        *)
LEMMA EmitKeeps ==
  ASSUME Inv, Emit
  PROVE  emitted' \in Seq(FileContexts) /\ Permuted(emitted', allFiles)
<1>1. allFiles \in Seq(FileContexts)
  BY DEF Inv, TypeOK
<1>2. \A x \in FileContexts : x.lcn \in Nat /\ x.ref \in Nat
  BY DEF FileContexts
<1>3. CASE Ordered \/ DOMAIN mft # {}
  <2>1. emitted' = Sorted(allFiles)
    BY <1>3 DEF Emit
  <2> QED
    BY <1>1, <1>2, <2>1, SortedEntries
<1>4. CASE ~(Ordered \/ DOMAIN mft # {})
  <2>1. emitted' = allFiles
    BY <1>4 DEF Emit
  <2> DEFINE h == [k \in DOMAIN allFiles |-> k]
  <2>2. \A k \in DOMAIN allFiles : h[k] = k
    OBVIOUS
  <2>3. h \in [DOMAIN allFiles -> DOMAIN allFiles]
    OBVIOUS
  <2> HIDE DEF h
  <2> QED
    BY <1>1, <2>1, <2>2, <2>3 DEF Permuted
<1> QED
  BY <1>3, <1>4

LEMMA EmitInv == Inv /\ Emit => Inv'
<1> SUFFICES ASSUME Inv, Emit PROVE Inv'
  OBVIOUS
<1>1. tree \in DOMAIN Trees /\ tree' = tree /\ TypeOK
  BY DEF Inv, TypeOK, Emit
<1> USE <1>1, SameNodes
<1>2. TypeOK'
  BY EmitKeeps DEF TypeOK, Emit
<1>3. Kept' /\ Table' /\ Read'
  BY DEF Inv, Kept, Table, Read, Emit
<1>4. Phases'
  BY DEF Inv, Phases, Emit
<1> QED
  BY <1>2, <1>3, <1>4 DEF Inv

LEMMA MoveInv == ASSUME NEW n \in Nodes, NEW d \in Nodes, Inv, Move(n, d) PROVE Inv'
<1>1. tree \in DOMAIN Trees /\ tree' = tree /\ TypeOK
  BY DEF Inv, TypeOK, Move
<1> USE <1>1, SameNodes
<1>2. /\ n \notin touched \cup {Volume} /\ d \in T.isDir \ Links
      /\ touched' = touched \cup {n}
      /\ parent' = [parent EXCEPT ![n] = d]
  BY DEF Move
<1>3. parent \in [Nodes -> T.isDir \ Links] /\ DOMAIN parent = Nodes
  BY DEF TypeOK
<1>4. /\ parent' \in [Nodes -> T.isDir \ Links]
      /\ \A m \in Nodes : parent'[m] = IF m = n THEN d ELSE parent[m]
  BY <1>2, <1>3
<1>5. TypeOK'
  BY <1>2, <1>4 DEF TypeOK, Move
<1>6. Kept'
  <2>1. Volume \notin touched' /\ \A m \in Nodes \ touched' : parent'[m] = T.parent[m]
    BY <1>2, <1>4 DEF Inv, Kept
  <2>2. \A m \in Nodes \ {Volume} : parent[m] = d => T.name[m].text # T.name[n].text
    BY DEF Move, Children
  <2>3. \A k, m \in Nodes \ {Volume} :
          parent'[k] = parent'[m] /\ T.name[k].text = T.name[m].text => k = m
    BY <1>4, <2>2 DEF Inv, Kept
  <2> QED
    BY <2>1, <2>3 DEF Kept
<1>7. Table' /\ Read'
  BY <1>2 DEF Inv, Table, Read, Move
<1>8. Phases'
  BY DEF Inv, Phases, Move
<1> QED
  BY <1>5, <1>6, <1>7, <1>8 DEF Inv

LEMMA StutterInv == Inv /\ UNCHANGED vars => Inv'
<1> SUFFICES ASSUME Inv, UNCHANGED vars PROVE Inv'
  OBVIOUS
<1> USE SameNodes DEF vars
<1>1. TypeOK' /\ Kept' /\ Table' /\ Read' /\ Phases'
  BY DEF Inv, TypeOK, Kept, Table, Read, Phases
<1> QED
  BY <1>1 DEF Inv

LEMMA NextInv == Inv /\ [Next]_vars => Inv'
<1> SUFFICES ASSUME Inv, [Next]_vars PROVE Inv'
  OBVIOUS
<1>1. CASE UNCHANGED vars
  BY <1>1, StutterInv
<1>2. CASE Start
  BY <1>2, StartInv
<1>3. CASE ReadRecord
  BY <1>3, ReadRecordInv
<1>4. CASE EndEnumeration
  BY <1>4, EndEnumerationInv
<1>5. CASE ListDir
  BY <1>5, ListDirInv
<1>6. CASE EndWalk
  BY <1>6, EndWalkInv
<1>7. CASE Emit
  BY <1>7, EmitInv
<1>8. CASE \E n, d \in Nodes : Move(n, d)
  BY <1>8, MoveInv
<1>9. CASE Done
  BY <1>9, StutterInv DEF Done
<1> QED
  BY <1>1, <1>2, <1>3, <1>4, <1>5, <1>6, <1>7, <1>8, <1>9 DEF Next

(* The state of walk and of enumerate_mft stays within its bounds: no      *)
(* record is read past the last, and the paths on the stack and in         *)
(* allFiles are made of names of the volume.                               *)
THEOREM TypeCorrect == Spec => []TypeOK
<1>1. Inv => TypeOK
  BY DEF Inv
<1> QED
  BY InitInv, NextInv, <1>1, PTL DEF Spec

(* However the directories move while the table is read, the records of it *)
(* form no cycle: getPath stops by itself, and the test for a record it has *)
(* already met never holds.                                                *)
LEMMA TableIsTree == Inv => NoLoop
<1> SUFFICES ASSUME Inv, NEW n \in DOMAIN mft \ {Volume} PROVE n \notin Above(mft, mft[n])
  BY DEF NoLoop
<1>1. tree \in DOMAIN Trees /\ Table
  BY DEF Inv, TypeOK
<1>2. DOMAIN mft \subseteq Nodes /\ IsFiniteSet(DOMAIN mft)
  BY <1>1, Volumes, FS_Subset DEF Table
<1>3. n \in Nodes \ {Volume} /\ mft[n] = T.parent[n]
  BY <1>1, <1>2 DEF Table
<1> DEFINE d == T.parent[n]
<1>4. d \in Up(d) /\ d \in Nodes /\ n \notin Up(d) /\ Up(d) \subseteq Nodes
  BY <1>1, <1>3, Climbing
<1>5. ClosedUp(mft, Up(d))
  <2>1. ASSUME NEW m \in Up(d), m \in DOMAIN mft PROVE mft[m] \in Up(d)
    BY <1>1, <1>4, <2>1, Climbing DEF Table
  <2> QED
    BY <2>1 DEF ClosedUp
<1>6. Above(mft, d) \subseteq Up(d)
  BY <1>2, <1>4, <1>5, AboveLeast
<1> QED
  BY <1>3, <1>4, <1>6

(* Whatever moves while enumerate_mft reads the table, its records have no *)
(* cycle: getPath never meets a record of the path it is on, and its test  *)
(* of visited is not needed.                                               *)
THEOREM NoLoopHolds == Spec => []NoLoop
BY InitInv, NextInv, TableIsTree, PTL DEF Spec

-----------------------------------------------------------------------------
(* Paths from the table.                                                   *)
Real ==
  DOMAIN mft # {} =>
    /\ \A i \in DOMAIN allFiles : IsPath(allFiles[i].path, allFiles[i].node)
    /\ \A i \in DOMAIN emitted : IsPath(emitted[i].path, emitted[i].node)

LEMMA RealNext == Inv /\ Real /\ [Next]_vars => Real'
<1> SUFFICES ASSUME Inv, Real, [Next]_vars, DOMAIN mft' # {} PROVE Real'
  BY DEF Real
<1>1. tree' = tree
  BY DEF Next, vars, Start, ReadRecord, EndEnumeration, ListDir, EndWalk, Emit, Move, Done
<1> SUFFICES /\ \A i \in DOMAIN allFiles' : IsPath(allFiles'[i].path, allFiles'[i].node)
             /\ \A i \in DOMAIN emitted' : IsPath(emitted'[i].path, emitted'[i].node)
  BY <1>1, SameNodes DEF Real, IsPath
<1>2. CASE DOMAIN mft # {} /\ allFiles' = allFiles /\ emitted' = emitted
  BY <1>2 DEF Real
<1>3. CASE ReadRecord \/ Start
  <2>1. allFiles' = <<>> /\ emitted' = <<>>
    BY <1>3 DEF Inv, Phases, Start, ReadRecord
  <2>2. DOMAIN allFiles' = {} /\ DOMAIN emitted' = {}
    BY <2>1
  <2> QED
    BY <2>2
<1>4. CASE EndEnumeration
  <2>1. DOMAIN mft # {} /\ emitted' = emitted
    BY <1>4 DEF EndEnumeration
  <2> QED
    BY <1>4, <2>1, Enumeration DEF Real
<1>5. CASE Emit
  <2>1. DOMAIN mft # {} /\ allFiles' = <<>>
    BY <1>5 DEF Emit
  <2>2. PICK h \in [DOMAIN allFiles -> DOMAIN allFiles] :
          /\ DOMAIN emitted' = DOMAIN allFiles
          /\ \A n \in DOMAIN allFiles : emitted'[n] = allFiles[h[n]]
    BY <1>5, EmitKeeps DEF Permuted
  <2>3. DOMAIN allFiles' = {}
    BY <2>1
  <2> QED
    BY <2>1, <2>2, <2>3 DEF Real
<1>6. CASE ListDir \/ EndWalk
  BY <1>6 DEF Inv, Phases, ListDir, EndWalk
<1>7. CASE UNCHANGED vars \/ Done \/ \E n, d \in Nodes : Move(n, d)
  BY <1>2, <1>7 DEF vars, Done, Move
<1> QED
  BY <1>3, <1>4, <1>5, <1>6, <1>7 DEF Next

(* A path that getPath puts together from records read at different        *)
(* moments is the one the file had when the walk began.                    *)
THEOREM PathsWereRealHolds == Spec => []PathsWereReal
<1>1. Init => Real
  BY DEF Init, Real
<1>2. Real => PathsWereReal
  BY DEF Real, PathsWereReal, IsPath, Up
<1> QED
  BY InitInv, NextInv, <1>1, RealNext, <1>2, PTL DEF Spec

-----------------------------------------------------------------------------
(* What the filter of the table lets pass is what the scan is about.       *)
LEMMA LookupPrefix ==
  ASSUME NEW up, NEW S, NEW path \in Seq(S)
  PROVE  /\ Lookup(up, SubSeq(path, 1, 0)) = {Volume}
         /\ \A k \in 1..Len(path) :
              Lookup(up, SubSeq(path, 1, k))
                = Into(up, Lookup(up, SubSeq(path, 1, k - 1)), path[k].text)
         /\ SubSeq(path, 1, Len(path)) = path
         /\ Len(path) \in Nat
<1>1. Lookup(up, SubSeq(path, 1, 0)) = {Volume}
  <2> DEFINE none == SubSeq(path, 1, 0)
  <2>1. none = <<>>
    OBVIOUS
  <2> HIDE DEF none
  <2>2. Lookup(up, none) = {Volume}
    BY <2>1, LookupTop
  <2> QED
    BY <2>2 DEF none
<1>2. ASSUME NEW k \in 1..Len(path)
      PROVE  Lookup(up, SubSeq(path, 1, k))
                = Into(up, Lookup(up, SubSeq(path, 1, k - 1)), path[k].text)
  <2>1. /\ SubSeq(path, 1, k - 1) \in Seq(S) /\ path[k] \in S
        /\ SubSeq(path, 1, k) = Append(SubSeq(path, 1, k - 1), path[k])
    OBVIOUS
  <2> DEFINE p == SubSeq(path, 1, k - 1)
             q == SubSeq(path, 1, k)
             x == path[k]
  <2>2. p \in Seq(S) /\ x \in S /\ q = Append(p, x)
    BY <2>1
  <2> HIDE DEF p, q, x
  <2>3. Lookup(up, q) = Into(up, Lookup(up, p), x.text)
    BY <2>2, LookupNext
  <2> QED
    BY <2>3 DEF p, q, x
<1> QED
  BY <1>1, <1>2

LEMMA AtDepth ==
  ASSUME tree \in DOMAIN Trees, NEW f \in Nodes, NEW k \in 0..Depth(f)
  PROVE  \E d \in Up(f) : Depth(d) = k
<1> DEFINE Good == {n \in Nodes : \A j \in 0..Depth(n) : \E d \in Up(n) : Depth(d) = j}
<1>1. Volume \in Good
  BY Volumes, Climbing, Depths
<1>2. ASSUME NEW n \in Nodes \ {Volume}, T.parent[n] \in Good PROVE n \in Good
  <2>1. /\ Depth(n) = Depth(T.parent[n]) + 1 /\ Depth(T.parent[n]) \in Nat
        /\ Up(n) = {n} \cup Up(T.parent[n])
    BY Climbing, Depths
  <2>2. ASSUME NEW j \in 0..Depth(n) PROVE \E d \in Up(n) : Depth(d) = j
    <3>1. CASE j = Depth(n)
      BY <2>1, <3>1
    <3>2. CASE j # Depth(n)
      <4>1. j \in 0..Depth(T.parent[n])
        BY <2>1, <3>2
      <4> QED
        BY <1>2, <2>1, <4>1
    <3> QED
      BY <3>1, <3>2
  <2> QED
    BY <2>2
<1> HIDE DEF Good
<1>3. Nodes \subseteq Good
  BY <1>1, <1>2, FromTheTop
<1> QED
  BY <1>3 DEF Good

LEMMA Places ==
  ASSUME tree \in DOMAIN Trees, NEW f \in Files
  PROVE  /\ f \in Nodes \ {Volume} /\ Dirs(f) = Up(T.parent[f])
         /\ Up(f) = {f} \cup Dirs(f) /\ f \notin Dirs(f)
         /\ Dirs(f) \subseteq T.isDir \ Links
         /\ Depth(f) \in Nat /\ \A d \in Dirs(f) : Depth(d) \in Nat /\ Depth(d) < Depth(f)
         /\ \A d \in Dirs(f) : T.parent[d] \in Dirs(f) /\ Up(d) \subseteq Dirs(f)
<1>1. T.parent \in [Nodes -> T.isDir \ Links] /\ T.parent[Volume] = Volume /\ Volume \in Nodes
  BY Volumes
<1>2. f \in Nodes \ {Volume}
  BY <1>1 DEF Files
<1>3. Dirs(f) = Up(T.parent[f])
  BY DEF Dirs, Up
<1>4. Up(f) = {f} \cup Dirs(f) /\ f \notin Dirs(f)
  BY <1>2, <1>3, Climbing
<1>5. Dirs(f) \subseteq T.isDir \ Links
  <2> DEFINE X == T.isDir \ Links
  <2>1. T.parent[f] \in X /\ \A m \in X \cap Nodes : T.parent[m] \in X
    BY <1>1, <1>2
  <2>2. \A S : T.parent[f] \in S /\ ClosedUp(T.parent, S) => Up(T.parent[f]) \subseteq S
    BY Volumes, AboveLeast DEF Up, Nodes
  <2>3. ClosedUp(T.parent, X)
    BY <2>1 DEF ClosedUp, Nodes
  <2> HIDE DEF X
  <2>4. Up(T.parent[f]) \subseteq X
    BY <2>1, <2>2, <2>3
  <2> QED
    BY <1>3, <2>4 DEF X
<1>6. Depth(f) \in Nat /\ \A d \in Dirs(f) : Depth(d) \in Nat /\ Depth(d) < Depth(f)
  BY <1>2, <1>3, Depths, Climbing
<1>7. \A d \in Dirs(f) : T.parent[d] \in Dirs(f) /\ Up(d) \subseteq Dirs(f)
  BY <1>2, <1>3, Climbing
<1> QED
  BY <1>2, <1>3, <1>4, <1>5, <1>6, <1>7

(* The first nodes on the way to a file are those that a path of their     *)
(* names leads to, when no link is crossed.                                *)
Way(k) == Lookup(T.parent, SubSeq(T.root, 1, k))

LEMMA Ways ==
  ASSUME tree \in DOMAIN Trees
  PROVE  /\ Len(T.root) \in Nat /\ DOMAIN T.root = 1..Len(T.root)
         /\ Way(0) = {Volume}
         /\ \A k \in 1..Len(T.root) : \A d :
              d \in Way(k) <=>
                /\ d \in Nodes \ {Volume} /\ T.name[d].text = T.root[k].text
                /\ \E e \in Way(k - 1) : T.parent[d] = Through(e)
         /\ Way(Len(T.root)) = Lookup(T.parent, T.root)
         /\ \A k \in 0..Len(T.root) : Way(k) \subseteq Crossed /\ Way(k) \subseteq Nodes
<1> DEFINE X == Range(T.root)
           r == T.root
<1>1. r \in Seq(X)
  BY Volumes
<1>2. Way(0) = {Volume}
      /\ (\A k \in 1..Len(r) :
            Way(k) = Into(T.parent, Way(k - 1), r[k].text))
      /\ Way(Len(r)) = Lookup(T.parent, r) /\ Len(r) \in Nat
  <2> HIDE DEF r, X
  <2>1. /\ Lookup(T.parent, SubSeq(r, 1, 0)) = {Volume}
        /\ \A k \in 1..Len(r) :
              Lookup(T.parent, SubSeq(r, 1, k))
                = Into(T.parent, Lookup(T.parent, SubSeq(r, 1, k - 1)), r[k].text)
        /\ SubSeq(r, 1, Len(r)) = r
        /\ Len(r) \in Nat
    BY <1>1, LookupPrefix
  <2> QED
    BY <2>1 DEF Way, r
<1>3. DOMAIN r = 1..Len(r)
  <2> HIDE DEF r, X
  <2> QED
    BY <1>1
<1>4. \A S, text, d : d \in Into(T.parent, S, text) <=>
        /\ d \in Nodes \ {Volume} /\ T.name[d].text = text
        /\ \E e \in S : T.parent[d] = Through(e)
  BY DEF Into, Children
<1>5. \A k \in 0..Len(r) : Way(k) \subseteq Crossed
  BY DEF Crossed, Way
<1>6. \A k \in 0..Len(r) : Way(k) \subseteq Nodes
  <2>1. ASSUME NEW k \in 0..Len(r) PROVE Way(k) \subseteq Nodes
    <3>1. CASE k = 0
      BY <1>2, <3>1, Volumes
    <3>2. CASE k # 0
      <4>1. k \in 1..Len(r)
        BY <1>2, <3>2
      <4> QED
        BY <1>2, <1>4, <4>1
    <3> QED
      BY <3>1, <3>2
  <2> QED
    BY <2>1
<1> QED
  BY <1>2, <1>3, <1>4, <1>5, <1>6

LEMMA StartFound ==
  ASSUME tree \in DOMAIN Trees, NEW f \in Files, NEW path, IsPath(path, f),
         SameStart(T.root, path)
  PROVE  Roots \cap Dirs(f) # {}
<1> DEFINE N == Len(T.root)
           Have == {k \in 0..N : \E d \in Dirs(f) : Depth(d) = k /\ d \in Way(k)}
<1>1. N \in Nat /\ N < Depth(f) /\ DOMAIN T.root = 1..N
      /\ \A k \in 1..N : T.root[k].text = path[k].text
  BY Ways DEF SameStart, IsPath
<1>2. f \in Nodes \ {Volume} /\ Depth(f) \in Nat /\ Up(f) = {f} \cup Dirs(f)
      /\ Dirs(f) \subseteq Nodes \ Links
  BY Places, Volumes
<1>3. 0 \in Have
  <2>1. Volume \in Dirs(f) /\ Depth(Volume) = 0 /\ Volume \in Way(0)
    BY <1>2, Climbing, Depths, Ways
  <2> QED
    BY <1>1, <2>1
<1>4. ASSUME NEW k \in 1..N, k - 1 \in Have PROVE k \in Have
  <2>1. PICK e \in Dirs(f) : Depth(e) = k - 1 /\ e \in Way(k - 1)
    BY <1>4
  <2>2. k \in 0..Depth(f) /\ k # Depth(f) /\ k # 0 /\ k \in 0..N
    BY <1>1, <1>2
  <2>3. PICK d \in Up(f) : Depth(d) = k
    BY <1>2, <2>2, AtDepth
  <2>4. d \in Dirs(f) /\ d \in Nodes \ {Volume}
    BY <1>2, <2>2, <2>3, Depths
  <2>5. T.parent[d] = e
    <3>1. T.parent[d] \in Dirs(f) /\ Depth(T.parent[d]) = k - 1
      <4>1. Depth(d) = Depth(T.parent[d]) + 1 /\ T.parent[d] \in Dirs(f)
        BY <2>4, Depths, Places
      <4>2. Depth(T.parent[d]) \in Nat
        BY <4>1, Places
      <4> QED
        BY <2>3, <4>1, <4>2
    <3>2. \A a, b \in Dirs(f) : Depth(a) = Depth(b) => a = b
      <4>1. \A a \in Dirs(f) : Cardinality(Up(a)) \in Nat /\ Depth(a) = Cardinality(Up(a)) - 1
        BY <1>2, Climbing DEF Depth, Up
      <4>2. \A a, b \in Up(f) : Cardinality(Up(a)) = Cardinality(Up(b)) => a = b
        BY <1>2, InLine
      <4> QED
        BY <1>2, <4>1, <4>2
    <3> QED
      BY <2>1, <3>1, <3>2
  <2>6. Through(e) = e
    BY <1>2, <2>1 DEF Through
  <2>7. T.name[d].text = T.root[k].text
    BY <1>1, <1>2, <2>3, <2>4 DEF IsPath
  <2>8. d \in Way(k)
    BY <2>1, <2>4, <2>5, <2>6, <2>7, Ways
  <2> QED
    BY <2>2, <2>3, <2>4, <2>8
<1>5. N \in Have
  <2>1. N \in 0..N
    BY <1>1
  <2> HIDE DEF Have, N
  <2> QED
    BY <1>1, <1>3, <1>4, <2>1, UpTo
<1>6. PICK d \in Dirs(f) : d \in Lookup(T.parent, T.root)
  BY <1>5, Ways
<1>7. Through(d) = d
  BY <1>2, <1>6 DEF Through
<1> QED
  BY <1>6, <1>7 DEF Roots

LEMMA FoundStart ==
  ASSUME tree \in DOMAIN Trees, NEW f \in Files, NEW path, IsPath(path, f),
         Crossed \cap Links = {}, Roots \cap Dirs(f) # {}
  PROVE  SameStart(T.root, path)
<1> DEFINE N == Len(T.root)
           Same(k) == \A i \in 1..k : T.root[i].text = path[i].text
           Have == {k \in 0..N : \A d \in Way(k) \cap Up(f) : Depth(d) = k /\ Same(k)}
<1>1. N \in Nat /\ DOMAIN T.root = 1..N /\ Way(0) = {Volume} /\ Depth(Volume) = 0
  BY Ways, Depths
<1>2. \A k \in 0..N : \A d \in Way(k) : Through(d) = d
  BY Ways DEF Through
<1>3. /\ Len(path) = Depth(f) /\ \A d \in Up(f) \ {Volume} : path[Depth(d)] = T.name[d]
  BY DEF IsPath
<1>4. 0 \in Have
  <2>1. \A i \in 1..0 : FALSE
    OBVIOUS
  <2> QED
    BY <1>1, <2>1
<1>5. ASSUME NEW k \in 1..N, k - 1 \in Have PROVE k \in Have
  <2>1. k \in 0..N /\ k - 1 \in 0..N /\ k \in Nat
    BY <1>1
  <2> SUFFICES ASSUME NEW d \in Way(k) \cap Up(f) PROVE Depth(d) = k /\ Same(k)
    BY <2>1
  <2>2. PICK e \in Way(k - 1) : T.parent[d] = Through(e)
    BY Ways
  <2>3. d \in Nodes \ {Volume} /\ T.name[d].text = T.root[k].text /\ T.parent[d] = e
    BY <1>2, <2>1, <2>2, Ways
  <2>4. e \in Up(f) /\ Depth(d) = Depth(e) + 1
    <3>1. e \in Up(d) /\ Up(d) \subseteq Up(f)
      BY <2>3, Climbing, Places
    <3> QED
      BY <2>3, <3>1, Depths
  <2>5. Depth(e) = k - 1 /\ Same(k - 1)
    BY <1>5, <2>2, <2>4
  <2>6. Depth(d) = k
    BY <2>1, <2>4, <2>5
  <2>7. T.root[k].text = path[k].text
    BY <1>3, <2>3, <2>6
  <2>8. \A i \in 1..k : i \in 1..k - 1 \/ i = k
    BY <2>1
  <2> QED
    BY <2>5, <2>6, <2>7, <2>8
<1>6. N \in Have
  <2>1. N \in 0..N
    BY <1>1
  <2> HIDE DEF Have, N
  <2> QED
    BY <1>1, <1>4, <1>5, <2>1, UpTo
<1>7. PICK r \in Lookup(T.parent, T.root) : Through(r) \in Dirs(f)
  BY DEF Roots
<1>8. r \in Way(N) /\ r \in Dirs(f) /\ r \in Up(f)
  BY <1>1, <1>2, <1>7, Ways, Places
<1>9. Depth(r) = N /\ Same(N) /\ Depth(r) < Depth(f)
  BY <1>6, <1>8, Places
<1> QED
  BY <1>1, <1>3, <1>9 DEF SameStart

LEMMA FilterRight ==
  ASSUME Inv, DOMAIN mft # {}, NEW f \in Files, Up(f) \subseteq DOMAIN mft, ~KnownGap(f)
  PROVE  Passes(f) <=> Wanted(f)
<1> DEFINE path == getPath(f)
<1>1. tree \in DOMAIN Trees /\ Table
  BY DEF Inv, TypeOK
<1>2. f \in Nodes \ {Volume} /\ f \notin T.isDir /\ Up(f) = {f} \cup Dirs(f)
      /\ Dirs(f) \subseteq Nodes
  BY <1>1, Places, Volumes DEF Files
<1>3. path # NoPath /\ IsPath(path, f)
  BY <1>1, <1>2, PathsOf
<1>4. /\ Crossed \cap Links = {} /\ f \notin Links
      /\ \A d \in Dirs(f) \ {Volume} :
           ~(IsExcludedDir(T.name[d]) /\ (d \in BelowRoot(f) <=> ~T.name[d].exact))
  BY DEF KnownGap
<1> HIDE DEF path
<1>5. SameStart(T.root, path) <=> Roots \cap Dirs(f) # {}
  BY <1>1, <1>3, <1>4, StartFound, FoundStart
<1> DEFINE Clear == \A i \in 1..Len(path) - 1 : ~(IsExcludedDir(path[i]) /\ path[i].exact)
<1>6. Clear <=> \A d \in Dirs(f) \ {Volume} : ~(IsExcludedDir(T.name[d]) /\ T.name[d].exact)
  <2>1. Len(path) = Depth(f) /\ Depth(f) \in Nat
        /\ \A d \in Dirs(f) \ {Volume} : path[Depth(d)] = T.name[d]
    BY <1>1, <1>2, <1>3, Places DEF IsPath
  <2>2. ASSUME NEW d \in Dirs(f) \ {Volume}
        PROVE  Depth(d) \in 1..Len(path) - 1
    <3>1. Depth(d) \in Nat /\ Depth(d) < Depth(f)
      BY <1>1, Places
    <3>2. Depth(d) = Depth(T.parent[d]) + 1 /\ Depth(T.parent[d]) \in Nat
      BY <1>1, <1>2, Depths, Climbing
    <3> QED
      BY <2>1, <3>1, <3>2
  <2>3. ASSUME NEW i \in 1..Len(path) - 1
        PROVE  \E d \in Dirs(f) \ {Volume} : Depth(d) = i
    <3>1. i \in 0..Depth(f) /\ i # Depth(f) /\ i # 0
      BY <2>1
    <3>2. PICK d \in Up(f) : Depth(d) = i
      BY <1>1, <1>2, <3>1, AtDepth
    <3>3. d # f /\ d # Volume
      BY <1>1, <3>1, <3>2, Depths
    <3> QED
      BY <1>2, <3>2, <3>3
  <2>4. ASSUME Clear, NEW d \in Dirs(f) \ {Volume}
        PROVE  ~(IsExcludedDir(T.name[d]) /\ T.name[d].exact)
    BY <2>1, <2>2, <2>4, Zenon
  <2>5. ASSUME \A d \in Dirs(f) \ {Volume} : ~(IsExcludedDir(T.name[d]) /\ T.name[d].exact)
        PROVE  Clear
    BY <2>1, <2>3, <2>5, Zenon
  <2> QED
    BY <2>4, <2>5
<1>7. ASSUME Roots \cap Dirs(f) # {}
      PROVE  Clear <=> \A d \in BelowRoot(f) : ~IsExcludedDir(T.name[d])
  <2>1. BelowRoot(f) \subseteq Dirs(f) \ {Volume}
    <3>1. PICK r \in Roots : r \in Dirs(f)
      BY <1>7
    <3>2. Volume \in Above(T.parent, r)
      BY <1>1, <1>2, <3>1, Climbing DEF Up
    <3> QED
      BY <3>1, <3>2 DEF BelowRoot
  <2>2. ASSUME Clear, NEW d \in BelowRoot(f) PROVE ~IsExcludedDir(T.name[d])
    BY <1>4, <1>6, <2>1, <2>2, Zenon
  <2>3. ASSUME \A d \in BelowRoot(f) : ~IsExcludedDir(T.name[d]),
               NEW d \in Dirs(f) \ {Volume}
        PROVE  ~(IsExcludedDir(T.name[d]) /\ T.name[d].exact)
    BY <1>4, <2>3, Zenon
  <2> HIDE DEF Clear
  <2> QED
    BY <1>6, <2>2, <2>3
<1>8. Passes(f) <=> SameStart(T.root, path) /\ ~IsExcludedFile(T.name[f]) /\ Clear
  BY <1>2, <1>3 DEF Passes, path
<1>9. Wanted(f) <=> /\ Roots \cap Dirs(f) # {} /\ ~IsExcludedFile(T.name[f])
                    /\ \A d \in BelowRoot(f) : ~IsExcludedDir(T.name[d])
  BY <1>4 DEF Wanted
<1> HIDE DEF Clear
<1> QED
  BY <1>5, <1>7, <1>8, <1>9

-----------------------------------------------------------------------------
(* What a list of files found should have of a file.                       *)
Some(s, f) == \E i \in DOMAIN s : s[i].node = f
Once(s, f) == \E i \in DOMAIN s : s[i].node = f /\ \A j \in DOMAIN s : s[j].node = f => j = i
Right(s, f) ==
  IF T.followLinks /\ DOMAIN mft = {} THEN Wanted(f) => Some(s, f)
  ELSE IF Wanted(f) THEN Once(s, f) ELSE ~Some(s, f)

AllRight(s) == \A f \in Files : Stable(f) /\ ~KnownGap(f) => Right(s, f)

Outcome == /\ pc = "emit" => AllRight(allFiles)
           /\ pc = "done" => AllRight(emitted)

LEMMA SameDirs ==
  ASSUME tree \in DOMAIN Trees, tree' = tree
  PROVE  /\ Roots' = Roots /\ Crossed' = Crossed
         /\ Lookup(T.parent, T.root)' = Lookup(T.parent, T.root)
         /\ \A f : /\ Dirs(f)' = Dirs(f) /\ BelowRoot(f)' = BelowRoot(f)
                   /\ Wanted(f)' <=> Wanted(f)
<1> DEFINE N == Len(T.root)
<1>1. T' = T /\ Links' = Links /\ \A n : Through(n)' = Through(n)
  BY SameNodes
<1>2. N \in Nat /\ \A i \in 0..N : Len(SubSeq(T.root, 1, i)) \in Nat
  <2> DEFINE r == T.root
             X == Range(T.root)
  <2>1. r \in Seq(X)
    BY Volumes
  <2> HIDE DEF r, X
  <2>2. Len(r) \in Nat /\ \A i \in 0..Len(r) : Len(SubSeq(r, 1, i)) \in Nat
    BY <2>1
  <2> QED
    BY <2>2 DEF r
<1>3. Lookup(T.parent, T.root)' = Lookup(T.parent, T.root)
  <2>1. ASSUME NEW up, NEW p, up = T.parent, p = T.root
        PROVE  Lookup(T.parent, T.root)' = Lookup(up, p)'
    BY <1>1, <2>1
  <2> QED
    BY <1>1, <1>2, <2>1, SameLookup
<1>4. Roots' = Roots
  BY <1>1, <1>3 DEF Roots
<1>5. ASSUME NEW i \in 0..N
      PROVE  Lookup(T.parent, SubSeq(T.root, 1, i))' = Lookup(T.parent, SubSeq(T.root, 1, i))
  <2>1. ASSUME NEW up, NEW p, up = T.parent, p = SubSeq(T.root, 1, i)
        PROVE  Lookup(T.parent, SubSeq(T.root, 1, i))' = Lookup(up, p)'
    BY <1>1, <2>1
  <2> QED
    BY <1>1, <1>2, <2>1, SameLookup
<1>6. Crossed' = Crossed
  BY <1>1, <1>5 DEF Crossed
<1>7. \A f : Dirs(f)' = Dirs(f) /\ BelowRoot(f)' = BelowRoot(f)
  BY <1>1, <1>4 DEF Dirs, BelowRoot
<1>8. \A f : Wanted(f)' <=> Wanted(f)
  BY <1>1, <1>4, <1>7 DEF Wanted, IsExcludedDir, IsExcludedFile
<1> QED
  BY <1>3, <1>4, <1>6, <1>7, <1>8

LEMMA SameAims ==
  ASSUME tree \in DOMAIN Trees, tree' = tree, touched' = touched, mft' = mft, NEW f
  PROVE  (Stable(f)' <=> Stable(f)) /\ (KnownGap(f)' <=> KnownGap(f))
<1> USE SameNodes, SameDirs
<1>1. Stable(f)' <=> Stable(f)
  BY DEF Stable
<1>2. KnownGap(f)' <=> KnownGap(f)
  BY DEF KnownGap, IsExcludedDir
<1> QED
  BY <1>1, <1>2

(* The enumeration finds each file, once, if and only if the scan is about *)
(* it.                                                                     *)
LEMMA TableFinds ==
  ASSUME Inv, EndEnumeration, DOMAIN mft # {}
  PROVE  AllRight(allFiles)'
<1>1. tree \in DOMAIN Trees /\ tree' = tree /\ touched' = touched /\ mft' = mft
  BY DEF Inv, TypeOK, EndEnumeration
<1> DEFINE s == allFiles'
<1>2. /\ \A i \in DOMAIN s : s[i].node \in DOMAIN mft /\ Passes(s[i].node)
      /\ \A n \in DOMAIN mft : Passes(n) => \E i \in DOMAIN s : s[i].node = n
      /\ \A i, j \in DOMAIN s : s[i].node = s[j].node => i = j
  BY Enumeration
<1> HIDE DEF s
<1>3. ASSUME NEW f \in Files, Stable(f), ~KnownGap(f) PROVE Right(s, f)
  <2>1. Up(f) \subseteq DOMAIN mft
    <3>1. nextRef \notin Nodes /\ nextRef \in 1..Cardinality(Nodes) + 1
      BY DEF EndEnumeration, Inv, TypeOK
    <3>2. Nodes = 1..Cardinality(Nodes) /\ Cardinality(Nodes) \in Nat
      BY <1>1, Volumes
    <3>3. \A n \in Nodes : n < nextRef
      BY <3>1, <3>2
    <3>4. \A n \in Up(f) : n \in Nodes /\ n \notin touched
      <4>1. f \in Nodes
        BY DEF Files
      <4> QED
        BY <1>1, <1>3, <4>1, Climbing DEF Stable, Up
    <3> QED
      BY <3>3, <3>4 DEF Inv, Read
  <2>2. Passes(f) <=> Wanted(f)
    BY <1>3, <2>1, FilterRight
  <2>3. f \in DOMAIN mft
    BY <1>1, <1>3, <2>1, Places
  <2>4. CASE Wanted(f)
    BY <1>2, <2>2, <2>3, <2>4 DEF Right, Once
  <2>5. CASE ~Wanted(f)
    BY <1>2, <2>2, <2>5 DEF Right, Some
  <2> QED
    BY <2>4, <2>5
<1> QED
  BY <1>1, <1>3, SameAims, SameDirs, SameNodes DEF AllRight, Right, Some, Once, s

LEMMA EmitRight ==
  ASSUME Inv, Emit, AllRight(allFiles)
  PROVE  AllRight(emitted)'
<1>1. tree \in DOMAIN Trees /\ tree' = tree /\ touched' = touched /\ mft' = mft
  BY DEF Inv, TypeOK, Emit
<1> DEFINE s == allFiles
           t == emitted'
<1>2. PICK h \in [DOMAIN s -> DOMAIN s] :
        /\ \A m, n \in DOMAIN s : h[m] = h[n] => m = n
        /\ \A k \in DOMAIN s : \E n \in DOMAIN s : h[n] = k
        /\ DOMAIN t = DOMAIN s
        /\ \A n \in DOMAIN s : t[n] = s[h[n]]
  BY EmitKeeps DEF Permuted
<1> HIDE DEF s, t
<1>3. ASSUME NEW f PROVE (Some(s, f) <=> Some(t, f)) /\ (Once(s, f) => Once(t, f))
  <2>1. ASSUME Some(s, f) PROVE Some(t, f)
    <3>1. PICK k \in DOMAIN s : s[k].node = f
      BY <2>1 DEF Some
    <3>2. PICK n \in DOMAIN s : h[n] = k
      BY <1>2
    <3> QED
      BY <1>2, <3>1, <3>2 DEF Some
  <2>2. ASSUME Some(t, f) PROVE Some(s, f)
    BY <1>2, <2>2 DEF Some
  <2>3. ASSUME Once(s, f) PROVE Once(t, f)
    <3>1. PICK k \in DOMAIN s : s[k].node = f /\ \A j \in DOMAIN s : s[j].node = f => j = k
      BY <2>3 DEF Once
    <3>2. PICK n \in DOMAIN s : h[n] = k
      BY <1>2
    <3>3. n \in DOMAIN t /\ t[n].node = f
      BY <1>2, <3>1, <3>2
    <3>4. ASSUME NEW j \in DOMAIN t, t[j].node = f PROVE j = n
      BY <1>2, <3>1, <3>2, <3>4
    <3> QED
      BY <3>3, <3>4 DEF Once
  <2> QED
    BY <2>1, <2>2, <2>3
<1>4. \A f \in Files : Stable(f) /\ ~KnownGap(f) => Right(t, f)
  BY <1>3 DEF AllRight, Right, s
<1> QED
  BY <1>1, <1>4, SameAims, SameDirs, SameNodes DEF AllRight, Right, Some, Once, t

-----------------------------------------------------------------------------
(* Listing directories.  What a path leads to: at most one node, and a     *)
(* node that has not been moved, nor any above it, is where a path led to  *)
(* it before, as long as this is so of the links.                          *)
LinksStable == \A l \in Links : Stable(l)
Steady(f) == Stable(f) /\ LinksStable

OneFurther(up, p, x, q) ==
  \A d : d \in Lookup(up, q) <=>
           /\ d \in Nodes \ {Volume} /\ T.name[d].text = x.text
           /\ \E e \in Lookup(up, p) : up[d] = Through(e)

LEMMA LookupStep ==
  ASSUME NEW up, NEW S, NEW path \in Seq(S), NEW x \in S
  PROVE  OneFurther(up, path, x, Append(path, x))
<1>1. Lookup(up, Append(path, x)) = Into(up, Lookup(up, path), x.text)
  BY LookupNext
<1>2. \A R, text, d : d \in Into(up, R, text) <=>
        /\ d \in Nodes \ {Volume} /\ T.name[d].text = text
        /\ \E e \in R : up[d] = Through(e)
  BY DEF Into, Children
<1> QED
  BY <1>1, <1>2 DEF OneFurther

LEMMA LookupOne ==
  ASSUME NEW up, NEW S, NEW path \in Seq(S),
         \A m, n \in Nodes \ {Volume} :
           up[m] = up[n] /\ T.name[m].text = T.name[n].text => m = n,
         NEW a \in Lookup(up, path), NEW b \in Lookup(up, path)
  PROVE  a = b
<1> DEFINE Paths == {p \in Seq(S) : \A m, n \in Lookup(up, p) : m = n}
<1>1. ASSUME NEW e, e = <<>> PROVE e \in Paths
  <2>1. e \in Seq(S) /\ Lookup(up, e) = {Volume}
    BY <1>1, LookupTop
  <2> QED
    BY <2>1
<1>2. ASSUME NEW p \in Seq(S), NEW x \in S, p \in Paths PROVE Append(p, x) \in Paths
  <2> DEFINE q == Append(p, x)
  <2>1. q \in Seq(S)
    OBVIOUS
  <2>2. OneFurther(up, p, x, q)
    BY LookupStep, Zenon
  <2> HIDE DEF q
  <2>3. \A m, n \in Lookup(up, q) : m = n
    BY <1>2, <2>2 DEF OneFurther
  <2> QED
    BY <2>1, <2>3 DEF q
<1>3. path \in Paths
  <2> HIDE DEF Paths
  <2> QED
    BY <1>1, <1>2, NameByName
<1> QED
  BY <1>3

LEMMA LookupNow ==
  ASSUME Inv, LinksStable, NEW S, NEW path \in Seq(S), NEW a \in Nodes, Stable(a)
  PROVE  a \in Lookup(parent, path) <=> a \in Lookup(T.parent, path)
<1> DEFINE Same(p) == \A n \in Nodes : Stable(n) =>
                        (n \in Lookup(parent, p) <=> n \in Lookup(T.parent, p))
           Paths == {p \in Seq(S) : Same(p)}
<1>1. tree \in DOMAIN Trees
  BY DEF Inv, TypeOK
<1>2. ASSUME NEW n \in Nodes \ {Volume}, Stable(n)
      PROVE  parent[n] = T.parent[n] /\ T.parent[n] \in Nodes /\ Stable(T.parent[n])
  <2>1. n \in Up(n) /\ T.parent[n] \in Nodes /\ Up(T.parent[n]) \subseteq Up(n)
    BY <1>1, Climbing
  <2> QED
    BY <1>2, <2>1 DEF Stable, Up, Inv, Kept
<1>3. ASSUME NEW n \in Nodes \ {Volume}, Stable(n), NEW e \in Nodes, T.parent[n] = Through(e)
      PROVE  Stable(e)
  BY <1>2, <1>3 DEF Through, LinksStable
<1>4. ASSUME NEW e, e = <<>> PROVE e \in Paths
  <2>1. e \in Seq(S) /\ Lookup(parent, e) = {Volume} /\ Lookup(T.parent, e) = {Volume}
    BY <1>4, LookupTop
  <2> QED
    BY <2>1
<1>5. ASSUME NEW p \in Seq(S), NEW x \in S, p \in Paths PROVE Append(p, x) \in Paths
  <2> DEFINE q == Append(p, x)
  <2>1. q \in Seq(S) /\ Same(p)
    BY <1>5
  <2>2. OneFurther(parent, p, x, q) /\ OneFurther(T.parent, p, x, q)
    BY LookupStep, Zenon
  <2>3. Lookup(parent, p) \subseteq Nodes /\ Lookup(T.parent, p) \subseteq Nodes
    BY <1>1, LookupTypes
  <2> HIDE DEF q
  <2>4. ASSUME NEW n \in Nodes, Stable(n)
        PROVE  n \in Lookup(parent, q) <=> n \in Lookup(T.parent, q)
    BY <1>2, <1>3, <2>1, <2>2, <2>3, <2>4 DEF OneFurther
  <2> QED
    BY <2>1, <2>4 DEF q
<1>6. path \in Paths
  <2> HIDE DEF Paths
  <2> QED
    BY <1>4, <1>5, NameByName
<1> QED
  BY <1>6

(* The nodes one step down from a path: those whose parent the path leads  *)
(* to, and which a stable node among them has had there from the start.    *)
LEMMA StableChild ==
  ASSUME Inv, LinksStable, NEW S, NEW q \in Seq(S), NEW n \in Nodes \ {Volume}, Stable(n),
         NEW d \in Lookup(parent, q), parent[n] = Through(d)
  PROVE  d \in Lookup(T.parent, q) /\ T.parent[n] = Through(d) /\ Stable(d) /\ d \in Nodes
<1>1. tree \in DOMAIN Trees
  BY DEF Inv, TypeOK
<1>2. n \in Up(n) /\ T.parent[n] \in Nodes /\ Up(T.parent[n]) \subseteq Up(n)
  BY <1>1, Climbing
<1>3. parent[n] = T.parent[n] /\ Stable(T.parent[n])
  BY <1>2 DEF Stable, Up, Inv, Kept
<1>4. d \in Nodes
  BY <1>1, LookupTypes
<1>5. Stable(d)
  BY <1>3, <1>4 DEF Through, LinksStable
<1> QED
  BY <1>3, <1>4, <1>5, LookupNow

LEMMA ListedAre ==
  ASSUME NEW q, NEW n
  PROVE  n \in Listed(q) <=>
           /\ q = T.root \/ ~IsExcludedDir(Last(q))
           /\ n \in Nodes \ {Volume}
           /\ \E d \in Listable(q) : parent[n] = Through(d)
BY DEF Listed, Children

LEMMA LastName ==
  ASSUME NEW up, NEW S, NEW q \in Seq(S), q # <<>>, NEW d \in Lookup(up, q)
  PROVE  T.name[d].text = Last(q).text /\ d # Volume
<1>1. Front(q) \in Seq(S) /\ Last(q) \in S /\ q = Append(Front(q), Last(q))
  <2>1. Len(q) \in Nat /\ Len(q) > 0
    OBVIOUS
  <2>2. Front(q) = SubSeq(q, 1, Len(q) - 1) /\ Last(q) = q[Len(q)]
    BY DEF Front, Last
  <2> QED
    BY <2>1, <2>2
<1> DEFINE p == Front(q)
           x == Last(q)
<1> HIDE DEF p, x
<1>2. p \in Seq(S) /\ x \in S /\ q = Append(p, x)
  BY <1>1 DEF p, x
<1>3. OneFurther(up, p, x, q)
  BY <1>2, LookupStep
<1>4. d \in Nodes \ {Volume} /\ T.name[d].text = x.text
  BY <1>3 DEF OneFurther
<1> QED
  BY <1>4 DEF x

(* Without --follow-links: a path on the stack leads, as far as the nodes  *)
(* it leads to were not moved, to a directory below the root with no       *)
(* excluded one between.                                                   *)
Below(d) ==
  /\ Roots \cap Up(d) # {}
  /\ \A e \in Up(d) \ UNION {Up(r) : r \in Roots} :
       e # d => ~IsExcludedDir(T.name[e])

Straight(q) ==
  \/ q = T.root
  \/ /\ q # <<>>
     /\ LinksStable => \A d \in Lookup(T.parent, q) : Stable(d) => d \notin Links /\ Below(d)

Toward(q, f) == \E d \in Lookup(T.parent, q) : Through(d) \in Dirs(f)

LEMMA NewPath ==
  ASSUME Inv, ~T.followLinks, LinksStable, NEW q \in Seq(Names), NEW n \in ChosenDirs(q),
         NEW d \in Lookup(T.parent, Append(q, T.name[n])), Stable(d)
  PROVE  /\ d = n /\ n \notin Links /\ n \in Nodes \ {Volume}
         /\ q = T.root \/ ~IsExcludedDir(Last(q))
         /\ \E e \in Lookup(T.parent, q) : T.parent[n] = Through(e) /\ Stable(e) /\ e \in Nodes
<1>1. tree \in DOMAIN Trees
  BY DEF Inv, TypeOK
<1>2. n \in Listed(q) /\ n \notin Links
  BY DEF ChosenDirs, Chosen
<1>3. /\ q = T.root \/ ~IsExcludedDir(Last(q))
      /\ n \in Nodes \ {Volume}
      /\ \E c \in Listable(q) : parent[n] = Through(c)
  BY <1>2, ListedAre, Zenon
<1>4. PICK c \in Lookup(parent, q) : parent[n] = Through(c)
  BY <1>3 DEF Listable, Opens
<1> DEFINE x == T.name[n]
           p == Append(q, x)
<1>5. x \in Names
  BY <1>1, <1>3, Ranges
<1>6. OneFurther(parent, q, x, p)
  BY <1>5, LookupStep, Zenon
<1>7. p \in Seq(Names)
  <2> HIDE DEF x
  <2> QED
    BY <1>5
<1> HIDE DEF p
<1>8. n \in Lookup(parent, p)
  BY <1>3, <1>4, <1>6 DEF OneFurther, x
<1>9. d \in Nodes /\ d \in Lookup(parent, p)
  BY <1>1, <1>7, LookupTypes, LookupNow DEF p
<1>10. d = n
  <2>1. \A k, m \in Nodes \ {Volume} :
          parent[k] = parent[m] /\ T.name[k].text = T.name[m].text => k = m
    BY DEF Inv, Kept
  <2> QED
    BY <1>7, <1>8, <1>9, <2>1, LookupOne
<1>11. c \in Lookup(T.parent, q) /\ T.parent[n] = Through(c) /\ Stable(c) /\ c \in Nodes
  BY <1>3, <1>4, <1>10, StableChild
<1> QED
  BY <1>2, <1>3, <1>10, <1>11

LEMMA StraightNew ==
  ASSUME Inv, ~T.followLinks, NEW q \in Seq(Names), Straight(q), NEW n \in ChosenDirs(q)
  PROVE  Straight(Append(q, T.name[n]))
<1> DEFINE p == Append(q, T.name[n])
<1>1. tree \in DOMAIN Trees
  BY DEF Inv, TypeOK
<1>2. p # <<>>
  <2>1. T.name[n] \in Names
    BY <1>1, Ranges, ListedTypes
  <2> QED
    BY <2>1
<1>3. ASSUME LinksStable, NEW d \in Lookup(T.parent, p), Stable(d)
      PROVE  d \notin Links /\ Below(d)
  <2>1. /\ d = n /\ n \notin Links /\ n \in Nodes \ {Volume}
        /\ q = T.root \/ ~IsExcludedDir(Last(q))
    BY <1>3, NewPath
  <2>2. PICK e \in Lookup(T.parent, q) :
          T.parent[n] = Through(e) /\ Stable(e) /\ e \in Nodes
    BY <1>3, NewPath
  <2> HIDE DEF p
  <2>3. Up(n) = {n} \cup Up(T.parent[n]) /\ T.parent[n] \in Up(T.parent[n])
        /\ T.parent[n] \in Nodes
    BY <1>1, <2>1, Climbing
  <2>4. CASE q = T.root
    <3>1. T.parent[n] \in Roots
      BY <2>2, <2>4 DEF Roots
    <3> QED
      BY <2>1, <2>3, <3>1 DEF Below
  <2>5. CASE q # T.root
    <3>1. q # <<>> /\ e \notin Links /\ Below(e)
      BY <1>3, <2>2, <2>5 DEF Straight
    <3>2. T.parent[n] = e
      BY <2>2, <3>1 DEF Through
    <3>3. ~IsExcludedDir(T.name[e])
      <4>1. T.name[e].text = Last(q).text
        BY <3>1, LastName
      <4> QED
        BY <2>1, <2>5, <4>1 DEF IsExcludedDir
    <3> QED
      BY <2>1, <2>3, <3>1, <3>2, <3>3 DEF Below
  <2> QED
    BY <2>4, <2>5
<1> HIDE DEF p
<1>4. Straight(p)
  BY <1>2, <1>3 DEF Straight
<1> QED
  BY <1>4 DEF p

LEMMA TowardNew ==
  ASSUME Inv, ~T.followLinks, NEW q \in Seq(Names), NEW n \in ChosenDirs(q),
         NEW f \in Files, Steady(f), Toward(Append(q, T.name[n]), f)
  PROVE  n \in Dirs(f) \ {Volume} /\ \E e \in Lookup(T.parent, q) : T.parent[n] = Through(e)
<1>1. tree \in DOMAIN Trees /\ LinksStable
  BY DEF Inv, TypeOK, Steady
<1>2. PICK d \in Lookup(T.parent, Append(q, T.name[n])) : Through(d) \in Dirs(f)
  BY DEF Toward
<1>3. \A m \in Dirs(f) : Stable(m)
  BY <1>1, Places DEF Steady, Stable, Up
<1>4. Stable(d)
  BY <1>1, <1>2, <1>3 DEF Through, LinksStable
<1>5. /\ d = n /\ n \notin Links /\ n \in Nodes \ {Volume}
      /\ \E e \in Lookup(T.parent, q) : T.parent[n] = Through(e)
  BY <1>1, <1>2, <1>4, NewPath
<1> QED
  BY <1>2, <1>5 DEF Through

LEMMA FoundThere ==
  ASSUME Inv, NEW q \in Seq(Names), NEW f \in ChosenFiles(q), Steady(f)
  PROVE  /\ f \in Files /\ ~IsExcludedFile(T.name[f]) /\ (f \in Links => T.followLinks)
         /\ q = T.root \/ ~IsExcludedDir(Last(q))
         /\ \E d \in Lookup(T.parent, q) : T.parent[f] = Through(d) /\ Stable(d) /\ d \in Nodes
<1>1. tree \in DOMAIN Trees /\ LinksStable
  BY DEF Inv, TypeOK, Steady
<1>2. /\ f \in Listed(q) /\ ~IsExcludedFile(T.name[f]) /\ (f \in Links => T.followLinks)
      /\ f \in Files
  BY <1>1, ListedTypes DEF ChosenFiles, Chosen
<1>3. /\ q = T.root \/ ~IsExcludedDir(Last(q))
      /\ f \in Nodes \ {Volume}
      /\ \E c \in Listable(q) : parent[f] = Through(c)
  BY <1>2, ListedAre, Zenon
<1>4. PICK d \in Lookup(parent, q) : parent[f] = Through(d)
  BY <1>3 DEF Listable, Opens
<1>5. d \in Lookup(T.parent, q) /\ T.parent[f] = Through(d) /\ Stable(d) /\ d \in Nodes
  BY <1>1, <1>3, <1>4, StableChild DEF Steady
<1> QED
  BY <1>2, <1>3, <1>5

LEMMA FoundIsWanted ==
  ASSUME Inv, ~T.followLinks, NEW q \in Seq(Names), Straight(q),
         NEW f \in ChosenFiles(q), Steady(f)
  PROVE  Wanted(f)
<1>1. tree \in DOMAIN Trees /\ LinksStable
  BY DEF Inv, TypeOK, Steady
<1>2. /\ f \in Files /\ ~IsExcludedFile(T.name[f]) /\ (f \in Links => T.followLinks)
      /\ q = T.root \/ ~IsExcludedDir(Last(q))
  BY FoundThere
<1>3. PICK d \in Lookup(T.parent, q) : T.parent[f] = Through(d) /\ Stable(d) /\ d \in Nodes
  BY FoundThere
<1>4. Dirs(f) = Up(T.parent[f]) /\ T.parent[f] \in Dirs(f)
      /\ BelowRoot(f) = Up(T.parent[f]) \ UNION {Up(r) : r \in Roots}
  BY <1>1, <1>2, Places, Climbing DEF BelowRoot, Up
<1>5. CASE q = T.root
  <2>1. T.parent[f] \in Roots
    BY <1>3, <1>5 DEF Roots
  <2>2. BelowRoot(f) = {}
    BY <1>4, <2>1
  <2> QED
    BY <1>2, <1>4, <2>1, <2>2 DEF Wanted
<1>6. CASE q # T.root
  <2>1. q # <<>> /\ d \notin Links /\ Below(d)
    BY <1>1, <1>3, <1>6 DEF Straight
  <2>2. T.parent[f] = d
    BY <1>3, <2>1 DEF Through
  <2>3. ~IsExcludedDir(T.name[d])
    <3>1. T.name[d].text = Last(q).text
      BY <2>1, LastName
    <3> QED
      BY <1>2, <1>6, <3>1 DEF IsExcludedDir
  <2>4. \A e \in BelowRoot(f) : ~IsExcludedDir(T.name[e])
    BY <1>4, <2>1, <2>2, <2>3 DEF Below
  <2>5. Roots \cap Dirs(f) # {}
    BY <1>4, <2>1, <2>2 DEF Below
  <2> QED
    BY <1>2, <2>4, <2>5 DEF Wanted
<1> QED
  BY <1>5, <1>6

(* With or without it: as long as a wanted file is not found, a path on    *)
(* the stack leads to a directory it is in.                                *)
Open(f) ==
  /\ (BelowRoot(f) \cup Lookup(T.parent, T.root) \cup Roots) \cap T.denied = {}
  /\ ~(Len(T.root) + Cardinality(BelowRoot(f)) > MaxPath)

Leads(q, f) ==
  \/ q = T.root
  \/ \E d \in BelowRoot(f) :
       /\ d \in Lookup(T.parent, q) /\ q # <<>> /\ Last(q) = T.name[d]
       /\ Len(q) <= Len(T.root) + Cardinality(Up(d) \cap BelowRoot(f))

LEMMA TowardsFile ==
  ASSUME tree \in DOMAIN Trees, NEW f \in Files, NEW d \in Dirs(f)
  PROVE  \E c \in Up(f) \ {Volume} :
           /\ T.parent[c] = d /\ c \in Nodes /\ c \notin Up(d) /\ Up(c) = {c} \cup Up(d)
<1>1. f \in Nodes \ {Volume} /\ Up(f) = {f} \cup Dirs(f) /\ Dirs(f) \subseteq Nodes
      /\ Up(f) \subseteq Nodes
  BY Places, Volumes, Climbing
<1>2. /\ Depth(f) \in Nat /\ Depth(d) \in Nat /\ Depth(d) < Depth(f)
  BY Places
<1>3. Depth(d) + 1 \in 0..Depth(f)
  BY <1>2
<1>4. PICK c \in Up(f) : Depth(c) = Depth(d) + 1
  BY <1>1, <1>3, AtDepth
<1>5. c \in Nodes \ {Volume}
  BY <1>1, <1>2, <1>4, Depths
<1>6. /\ T.parent[c] \in Nodes /\ Up(c) = {c} \cup Up(T.parent[c]) /\ c \notin Up(T.parent[c])
      /\ T.parent[c] \in Up(T.parent[c]) /\ Up(c) \subseteq Up(f)
  BY <1>1, <1>5, Climbing
<1>7. Depth(T.parent[c]) = Depth(d)
  <2>1. Depth(c) = Depth(T.parent[c]) + 1 /\ Depth(T.parent[c]) \in Nat
    BY <1>5, <1>6, Depths
  <2> QED
    BY <1>2, <1>4, <2>1
<1>8. T.parent[c] = d
  <2>1. \A a, b \in Up(f) : Cardinality(Up(a)) = Cardinality(Up(b)) => a = b
    BY <1>1, InLine
  <2>2. \A a \in Up(f) : Cardinality(Up(a)) \in Nat /\ Depth(a) = Cardinality(Up(a)) - 1
    BY <1>1, Climbing DEF Depth, Up
  <2>3. d \in Up(f) /\ T.parent[c] \in Up(f)
    BY <1>1, <1>6
  <2> QED
    BY <1>7, <2>1, <2>2, <2>3
<1> QED
  BY <1>5, <1>6, <1>8

LEMMA OneRoot ==
  ASSUME tree \in DOMAIN Trees, NEW a \in Roots, NEW b \in Roots
  PROVE  a = b
<1>1. T.root \in Seq(Range(T.root))
      /\ \A m, n \in Nodes \ {Volume} :
           T.parent[m] = T.parent[n] /\ T.name[m].text = T.name[n].text => m = n
  BY Volumes
<1>2. \A m, n \in Lookup(T.parent, T.root) : m = n
  BY <1>1, LookupOne
<1> QED
  BY <1>2 DEF Roots

(* What a path that leads to a wanted file leads to now.                   *)
LEMMA LeadsTo ==
  ASSUME Inv, NEW q \in Seq(Names), NEW f \in Files, Leads(q, f),
         Wanted(f), Steady(f), Open(f)
  PROVE  \E a \in Lookup(T.parent, q) :
           /\ a \in Listable(q) /\ Through(a) \in Dirs(f)
           /\ Roots \cap Up(Through(a)) # {}
           /\ q = T.root \/ ~IsExcludedDir(Last(q))
           /\ Len(q) <= Len(T.root) + Cardinality(Up(Through(a)) \cap BelowRoot(f))
<1>1. tree \in DOMAIN Trees /\ LinksStable /\ MaxPath \in Nat
  BY WalkerAssumption DEF Inv, TypeOK, Steady
<1>2. PICK R \in Roots : R \in Dirs(f)
  BY DEF Wanted
<1>3. /\ BelowRoot(f) = Dirs(f) \ UNION {Up(r) : r \in Roots}
      /\ Dirs(f) \subseteq Nodes \ Links /\ f \in Nodes
  BY <1>1, Places, Volumes DEF BelowRoot, Up
<1>4. IsFiniteSet(BelowRoot(f)) /\ Cardinality(BelowRoot(f)) \in Nat
      /\ \A S : Cardinality(S \cap BelowRoot(f)) <= Cardinality(BelowRoot(f))
                /\ Cardinality(S \cap BelowRoot(f)) \in Nat
  <2>1. IsFiniteSet(Nodes) /\ BelowRoot(f) \in SUBSET Nodes
    BY <1>1, <1>3, Volumes
  <2>2. IsFiniteSet(BelowRoot(f))
    BY <2>1, FS_Subset
  <2>3. \A S : S \cap BelowRoot(f) \in SUBSET BelowRoot(f)
    OBVIOUS
  <2> QED
    BY <2>2, <2>3, FS_Subset, FS_CardinalityType
<1>5. Len(T.root) \in Nat /\ Len(q) \in Nat
  BY <1>1, Ways
<1>6. \E a \in Lookup(T.parent, q) :
           /\ {a, Through(a)} \cap T.denied = {} /\ Through(a) \in Dirs(f)
           /\ Roots \cap Up(Through(a)) # {}
           /\ q = T.root \/ ~IsExcludedDir(Last(q))
           /\ Len(q) <= Len(T.root) + Cardinality(Up(Through(a)) \cap BelowRoot(f))
  <2>1. CASE q = T.root
    <3>1. PICK r \in Lookup(T.parent, T.root) : R = Through(r)
      BY DEF Roots
    <3>2. R \in Up(R)
      BY <1>1, <1>2, <1>3, Climbing
    <3>3. Cardinality(Up(R) \cap BelowRoot(f)) \in Nat
      BY <1>4
    <3>4. Len(q) <= Len(T.root) + Cardinality(Up(R) \cap BelowRoot(f))
      BY <1>5, <2>1, <3>3
    <3>5. {r, Through(r)} \cap T.denied = {}
      BY <3>1 DEF Open
    <3> QED
      BY <1>2, <2>1, <3>1, <3>2, <3>4, <3>5
  <2>2. CASE q # T.root
    <3>1. PICK d \in BelowRoot(f) :
            /\ d \in Lookup(T.parent, q) /\ Last(q) = T.name[d]
            /\ Len(q) <= Len(T.root) + Cardinality(Up(d) \cap BelowRoot(f))
      BY <2>2 DEF Leads
    <3>2. d \in Dirs(f) /\ Through(d) = d /\ d \notin Up(R)
      BY <1>2, <1>3, <3>1 DEF Through
    <3>3. R \in Up(d)
      BY <1>1, <1>2, <1>3, <3>2, InLine, Places
    <3>4. ~IsExcludedDir(Last(q))
      BY <3>1 DEF Wanted
    <3>5. {d, Through(d)} \cap T.denied = {}
      BY <3>1, <3>2 DEF Open
    <3> QED
      BY <3>1, <3>2, <3>3, <3>4, <3>5
  <2> QED
    BY <2>1, <2>2
<1>7. PICK a \in Lookup(T.parent, q) :
           /\ {a, Through(a)} \cap T.denied = {} /\ Through(a) \in Dirs(f)
           /\ Roots \cap Up(Through(a)) # {}
           /\ q = T.root \/ ~IsExcludedDir(Last(q))
           /\ Len(q) <= Len(T.root) + Cardinality(Up(Through(a)) \cap BelowRoot(f))
  BY <1>6, Zenon
<1>8. a \in Nodes /\ Stable(a)
  <2>1. a \in Nodes
    BY <1>1, LookupTypes
  <2>2. \A m \in Dirs(f) : Stable(m)
    BY <1>1, Places DEF Steady, Stable, Up
  <2> QED
    BY <1>1, <1>7, <2>1, <2>2 DEF Through, LinksStable
<1>9. a \in Opens(q)
  <2>1. a \in Lookup(parent, q)
    BY <1>1, <1>8, LookupNow
  <2>2. Len(q) <= Len(T.root) + Cardinality(BelowRoot(f))
    <3> DEFINE x == Cardinality(Up(Through(a)) \cap BelowRoot(f))
               y == Cardinality(BelowRoot(f))
    <3>1. x \in Nat /\ y \in Nat /\ x <= y /\ Len(q) <= Len(T.root) + x
      BY <1>4, <1>7
    <3> HIDE DEF x, y
    <3>2. Len(q) <= Len(T.root) + y
      BY <1>5, <3>1
    <3> QED
      BY <3>2 DEF y
  <2>3. ~(Len(q) > MaxPath)
    <3>1. ~(Len(T.root) + Cardinality(BelowRoot(f)) > MaxPath)
      BY DEF Open
    <3> DEFINE y == Cardinality(BelowRoot(f))
    <3>2. y \in Nat /\ Len(q) <= Len(T.root) + y /\ ~(Len(T.root) + y > MaxPath)
      BY <1>4, <2>2, <3>1
    <3> HIDE DEF y
    <3> QED
      BY <1>1, <1>5, <3>2
  <2> QED
    BY <2>1, <2>3 DEF Opens
<1> QED
  BY <1>7, <1>9 DEF Listable

LEMMA LeadsOn ==
  ASSUME Inv, NEW q \in Seq(Names), NEW f \in Files, Leads(q, f),
         Wanted(f), Steady(f), Open(f)
  PROVE  \/ f \in ChosenFiles(q)
         \/ \E n \in ChosenDirs(q) : Leads(Append(q, T.name[n]), f)
<1>1. tree \in DOMAIN Trees
  BY DEF Inv, TypeOK
<1>2. PICK a \in Lookup(T.parent, q) :
           /\ a \in Listable(q) /\ Through(a) \in Dirs(f)
           /\ Roots \cap Up(Through(a)) # {}
           /\ q = T.root \/ ~IsExcludedDir(Last(q))
           /\ Len(q) <= Len(T.root) + Cardinality(Up(Through(a)) \cap BelowRoot(f))
  BY LeadsTo, Zenon
<1> DEFINE d == Through(a)
<1>3. PICK c \in Up(f) \ {Volume} :
           /\ T.parent[c] = d /\ c \in Nodes /\ c \notin Up(d) /\ Up(c) = {c} \cup Up(d)
  BY <1>1, <1>2, TowardsFile
<1>4. parent[c] = d
  BY <1>3 DEF Inv, Kept, Steady, Stable, Up
<1>5. c \in Listed(q)
  BY <1>2, <1>3, <1>4, ListedAre
<1>6. /\ f \in Nodes \ {Volume} /\ Up(f) = {f} \cup Dirs(f) /\ f \notin T.isDir
      /\ Dirs(f) \subseteq T.isDir \ Links /\ Dirs(f) \subseteq Nodes
  BY <1>1, Places, Volumes DEF Files
<1>7. CASE c = f
  BY <1>5, <1>6, <1>7 DEF ChosenFiles, Chosen, Wanted
<1>8. CASE c # f
  <2>1. c \in Dirs(f) /\ c \in T.isDir \ Links
    BY <1>3, <1>6, <1>8
  <2>2. c \in ChosenDirs(q)
    BY <1>5, <2>1 DEF ChosenDirs, Chosen
  <2> DEFINE p == Append(q, T.name[c])
             B == BelowRoot(f)
  <2>3. c \in B
    <3>1. PICK R \in Roots : R \in Up(d)
      BY <1>2
    <3>2. Up(R) \subseteq Up(d)
      <4>1. d \in Nodes
        BY <1>2, <1>6
      <4> QED
        BY <1>1, <3>1, <4>1, Climbing
    <3>3. \A r \in Roots : c \notin Up(r)
      BY <1>1, <1>3, <3>1, <3>2, OneRoot
    <3> QED
      BY <2>1, <3>3 DEF BelowRoot, Up
  <2>4. T.name[c] \in Names
    BY <1>1, <1>3, Ranges
  <2>5. p # <<>> /\ Last(p) = T.name[c] /\ Len(p) = Len(q) + 1
    <3> DEFINE x == T.name[c]
    <3>1. x \in Names
      BY <2>4
    <3> HIDE DEF x
    <3>2. Append(q, x) # <<>> /\ Len(Append(q, x)) = Len(q) + 1
          /\ Append(q, x)[Len(q) + 1] = x
      BY <3>1
    <3>3. Last(Append(q, x)) = x
      BY <3>2 DEF Last
    <3> QED
      BY <3>2, <3>3 DEF x
  <2>6. c \in Lookup(T.parent, p)
    <3>1. OneFurther(T.parent, q, T.name[c], p)
      BY <2>4, LookupStep, Zenon
    <3> HIDE DEF p
    <3> QED
      BY <1>2, <1>3, <3>1 DEF OneFurther
  <2>7. Len(p) <= Len(T.root) + Cardinality(Up(c) \cap B)
    <3> DEFINE S == Up(d) \cap B
    <3>1. Up(c) \cap B = S \cup {c} /\ c \notin S
      BY <1>3, <2>3
    <3>2. IsFiniteSet(S)
      <4>1. S \in SUBSET Nodes
        BY <1>6 DEF BelowRoot
      <4> HIDE DEF S
      <4> QED
        BY <1>1, <4>1, Volumes, FS_Subset
    <3>3. Len(q) <= Len(T.root) + Cardinality(S)
      BY <1>2
    <3>4. Len(q) \in Nat /\ Len(T.root) \in Nat
      BY <1>1, Ways
    <3> HIDE DEF S
    <3>5. Cardinality(S \cup {c}) = Cardinality(S) + 1 /\ Cardinality(S) \in Nat
      BY <3>1, <3>2, FS_AddElement, FS_CardinalityType
    <3> DEFINE k == Cardinality(S)
               m == Cardinality(Up(c) \cap B)
               new == Len(p)
               old == Len(q)
               first == Len(T.root)
    <3>6. m = k + 1 /\ k \in Nat
      BY <3>1, <3>5
    <3>7. old <= first + k /\ new = old + 1 /\ old \in Nat /\ first \in Nat
      BY <2>5, <3>3, <3>4
    <3> HIDE DEF p, B, k, m, new, old, first
    <3>8. new <= first + m
      BY ONLY <3>6, <3>7
    <3> QED
      BY <3>8 DEF m, new, first
  <2> HIDE DEF p
  <2>8. Leads(p, f)
    BY <2>3, <2>5, <2>6, <2>7 DEF Leads
  <2> QED
    BY <2>2, <2>8 DEF p
<1> QED
  BY <1>7, <1>8

(* What holds of the stack and of the files found so far.                  *)
Finds(ds, fs) ==
  \A f \in Files : Wanted(f) /\ Steady(f) /\ Open(f) =>
    Some(fs, f) \/ \E i \in DOMAIN ds : Leads(ds[i], f)

OnlyOnce(ds, fs, f) ==
  /\ \A i, j \in DOMAIN ds : Toward(ds[i], f) /\ Toward(ds[j], f) => i = j
  /\ \A i, j \in DOMAIN fs : fs[i].node = f /\ fs[j].node = f => i = j
  /\ Some(fs, f) => Wanted(f) /\ \A i \in DOMAIN ds : ~Toward(ds[i], f)

FindsOnly(ds, fs) ==
  /\ \A i \in DOMAIN ds : Straight(ds[i])
  /\ \A f \in Files : Steady(f) => OnlyOnce(ds, fs, f)

Walking ==
  pc = "walk" => /\ Finds(dirs, allFiles)
                 /\ ~T.followLinks => FindsOnly(dirs, allFiles)

LEMMA WalkBegins ==
  ASSUME NEW ds, ds = <<T.root>>, NEW fs, fs = <<>>
  PROVE  Finds(ds, fs) /\ FindsOnly(ds, fs)
<1>1. DOMAIN ds = {1} /\ ds[1] = T.root /\ DOMAIN fs = {}
  OBVIOUS
<1>2. Finds(ds, fs)
  BY <1>1 DEF Finds, Leads
<1>3. FindsOnly(ds, fs)
  BY <1>1 DEF FindsOnly, OnlyOnce, Straight, Some
<1> QED
  BY <1>2, <1>3

(* The stack after a step, entry by entry.                                 *)
StackAfter(new, ds, more) ==
  /\ \A k \in DOMAIN new :
       \/ k \in DOMAIN ds /\ k # Len(ds) /\ new[k] = ds[k]
       \/ \E i \in DOMAIN more : k = i + Len(Front(ds)) /\ new[k] = more[i]
  /\ \A k \in DOMAIN ds : k = Len(ds) \/ (k \in DOMAIN new /\ new[k] = ds[k])
  /\ \A i \in DOMAIN more : \E k \in DOMAIN new : new[k] = more[i]
  /\ Len(ds) \in DOMAIN ds /\ ds[Len(ds)] = Last(ds)

LEMMA AfterStep ==
  ASSUME NEW S, NEW ds \in Seq(S), ds # <<>>, NEW more \in Seq(S)
  PROVE  StackAfter(Front(ds) \o more, ds, more)
<1> DEFINE front == Front(ds)
           new == front \o more
<1>1. /\ front \in Seq(S) /\ Len(ds) \in DOMAIN ds /\ Last(ds) = ds[Len(ds)]
      /\ \A k \in DOMAIN front : k \in DOMAIN ds /\ k # Len(ds) /\ front[k] = ds[k]
      /\ \A k \in DOMAIN ds : k = Len(ds) \/ k \in DOMAIN front
  BY Popped
<1> HIDE DEF front
<1>2. /\ \A k \in DOMAIN new :
              \/ k \in DOMAIN front /\ new[k] = front[k]
              \/ k - Len(front) \in DOMAIN more /\ new[k] = more[k - Len(front)]
      /\ \A k \in DOMAIN front : k \in DOMAIN new /\ new[k] = front[k]
      /\ \A k \in DOMAIN more : k + Len(front) \in DOMAIN new /\ new[k + Len(front)] = more[k]
      /\ new \in Seq(S)
  BY <1>1, Joined
<1>3. Len(front) \in Nat /\ DOMAIN new \subseteq Nat
  <2>1. Len(front) \in Nat
    BY <1>1
  <2> HIDE DEF new
  <2> QED
    BY <1>2, <2>1
<1> HIDE DEF new
<1>4. ASSUME NEW k \in DOMAIN new
      PROVE  \/ k \in DOMAIN ds /\ k # Len(ds) /\ new[k] = ds[k]
             \/ \E i \in DOMAIN more : k = i + Len(front) /\ new[k] = more[i]
  <2>1. CASE k \in DOMAIN front /\ new[k] = front[k]
    BY <1>1, <2>1
  <2>2. CASE k - Len(front) \in DOMAIN more /\ new[k] = more[k - Len(front)]
    <3> DEFINE i == k - Len(front)
    <3>1. k = i + Len(front)
      BY <1>3
    <3> HIDE DEF i
    <3>2. i \in DOMAIN more /\ new[k] = more[i]
      BY <2>2 DEF i
    <3> QED
      BY <3>1, <3>2
  <2> QED
    BY <1>2, <2>1, <2>2
<1>5. \A k \in DOMAIN ds : k = Len(ds) \/ (k \in DOMAIN new /\ new[k] = ds[k])
  BY <1>1, <1>2
<1>6. \A i \in DOMAIN more : \E k \in DOMAIN new : new[k] = more[i]
  BY <1>2
<1>7. StackAfter(new, ds, more)
  BY <1>1, <1>4, <1>5, <1>6 DEF StackAfter, front
<1> QED
  BY <1>7 DEF new, front

(* The list of files found after a step, entry by entry.                   *)
ListAfter(new, fs, found) ==
  /\ \A k \in DOMAIN new :
       \/ k \in DOMAIN fs /\ new[k] = fs[k]
       \/ \E i \in DOMAIN found : k = i + Len(fs) /\ new[k] = found[i]
  /\ \A k \in DOMAIN fs : k \in DOMAIN new /\ new[k] = fs[k]
  /\ \A i \in DOMAIN found : \E k \in DOMAIN new : new[k] = found[i]

LEMMA AfterFound ==
  ASSUME NEW S, NEW fs \in Seq(S), NEW found \in Seq(S)
  PROVE  ListAfter(fs \o found, fs, found)
<1> DEFINE new == fs \o found
<1>1. /\ \A k \in DOMAIN new :
              \/ k \in DOMAIN fs /\ new[k] = fs[k]
              \/ k - Len(fs) \in DOMAIN found /\ new[k] = found[k - Len(fs)]
      /\ \A k \in DOMAIN fs : k \in DOMAIN new /\ new[k] = fs[k]
      /\ \A k \in DOMAIN found : k + Len(fs) \in DOMAIN new /\ new[k + Len(fs)] = found[k]
      /\ new \in Seq(S)
  BY Joined
<1> HIDE DEF new
<1>2. Len(fs) \in Nat /\ DOMAIN new \subseteq Nat
  BY <1>1
<1>3. ASSUME NEW k \in DOMAIN new
      PROVE  \/ k \in DOMAIN fs /\ new[k] = fs[k]
             \/ \E i \in DOMAIN found : k = i + Len(fs) /\ new[k] = found[i]
  <2>1. CASE k - Len(fs) \in DOMAIN found /\ new[k] = found[k - Len(fs)]
    <3> DEFINE i == k - Len(fs)
    <3>1. k = i + Len(fs)
      BY <1>2
    <3> HIDE DEF i
    <3>2. i \in DOMAIN found /\ new[k] = found[i]
      BY <2>1 DEF i
    <3> QED
      BY <3>1, <3>2
  <2> QED
    BY <1>1, <2>1
<1>4. ListAfter(new, fs, found)
  BY <1>1, <1>3 DEF ListAfter
<1> QED
  BY <1>4 DEF new

LEMMA FindsStep ==
  ASSUME Inv, NEW ds \in Seq(Seq(Names)), NEW fs, NEW more, NEW found, NEW ds2, NEW fs2,
         Last(ds) \in Seq(Names),
         NewDirs(more, Last(ds)), NewFiles(found, Last(ds)),
         StackAfter(ds2, ds, more), ListAfter(fs2, fs, found), Finds(ds, fs)
  PROVE  Finds(ds2, fs2)
<1> SUFFICES ASSUME NEW f \in Files, Wanted(f), Steady(f), Open(f)
             PROVE  Some(fs2, f) \/ \E i \in DOMAIN ds2 : Leads(ds2[i], f)
  BY DEF Finds
<1> DEFINE q == Last(ds)
<1>1. CASE Some(fs, f)
  BY <1>1 DEF Some, ListAfter
<1>2. CASE \E i \in DOMAIN ds : Leads(ds[i], f)
  <2>1. PICK i \in DOMAIN ds : Leads(ds[i], f)
    BY <1>2
  <2>2. CASE i = Len(ds)
    <3>1. Leads(q, f) /\ q \in Seq(Names)
      BY <2>1, <2>2 DEF StackAfter
    <3> HIDE DEF q
    <3>2. CASE f \in ChosenFiles(q)
      <4>1. PICK j \in DOMAIN found : found[j].node = f
        BY <3>2 DEF NewFiles, q
      <4> QED
        BY <4>1 DEF Some, ListAfter
    <3>3. CASE \E n \in ChosenDirs(q) : Leads(Append(q, T.name[n]), f)
      <4>1. PICK n \in ChosenDirs(q) : Leads(Append(q, T.name[n]), f)
        BY <3>3
      <4>2. PICK j \in DOMAIN more : more[j] = Append(q, T.name[n])
        BY <4>1 DEF NewDirs, q
      <4>3. PICK k \in DOMAIN ds2 : ds2[k] = more[j]
        BY <4>2 DEF StackAfter
      <4> QED
        BY <4>1, <4>2, <4>3
    <3> QED
      BY <3>1, <3>2, <3>3, LeadsOn
  <2>3. CASE i # Len(ds)
    BY <2>1, <2>3 DEF StackAfter
  <2> QED
    BY <2>2, <2>3
<1> QED
  BY <1>1, <1>2 DEF Finds

LEMMA FindsOnlyStep ==
  ASSUME Inv, ~T.followLinks, NEW ds \in Seq(Seq(Names)), NEW fs, NEW more, NEW found,
         NEW ds2, NEW fs2, Last(ds) \in Seq(Names),
         NewDirs(more, Last(ds)), NewFiles(found, Last(ds)),
         StackAfter(ds2, ds, more), ListAfter(fs2, fs, found), FindsOnly(ds, fs)
  PROVE  FindsOnly(ds2, fs2)
<1> DEFINE q == Last(ds)
           N == Len(ds)
<1>1. tree \in DOMAIN Trees
  BY DEF Inv, TypeOK
<1>2. q \in Seq(Names) /\ Straight(q) /\ N \in DOMAIN ds /\ ds[N] = q
  BY DEF FindsOnly, StackAfter
<1>3. /\ \A k \in DOMAIN ds2 :
           \/ k \in DOMAIN ds /\ k # N /\ ds2[k] = ds[k]
           \/ \E i \in DOMAIN more : k = i + Len(Front(ds)) /\ ds2[k] = more[i]
  BY DEF StackAfter
<1>4. /\ \A i \in DOMAIN more : \E n \in ChosenDirs(q) : more[i] = Append(q, T.name[n])
      /\ \A i, j \in DOMAIN more : more[i] = more[j] => i = j
  BY DEF NewDirs
<1>5. /\ \A i \in DOMAIN found : found[i].node \in ChosenFiles(q)
      /\ \A i, j \in DOMAIN found : found[i].node = found[j].node => i = j
  BY DEF NewFiles
<1>6. \A k \in DOMAIN fs2 :
        \/ k \in DOMAIN fs /\ fs2[k] = fs[k]
        \/ \E i \in DOMAIN found : k = i + Len(fs) /\ fs2[k] = found[i]
  BY DEF ListAfter
<1> HIDE DEF q, N
<1>7. \A k \in DOMAIN ds2 : Straight(ds2[k])
  <2>1. \A i \in DOMAIN more : Straight(more[i])
    BY <1>2, <1>4, StraightNew
  <2> QED
    BY <1>3, <2>1 DEF FindsOnly
<1>8. ASSUME NEW f \in Files, Steady(f) PROVE OnlyOnce(ds2, fs2, f)
  <2>1. /\ \A i, j \in DOMAIN ds : Toward(ds[i], f) /\ Toward(ds[j], f) => i = j
        /\ \A i, j \in DOMAIN fs : fs[i].node = f /\ fs[j].node = f => i = j
        /\ Some(fs, f) => Wanted(f) /\ \A i \in DOMAIN ds : ~Toward(ds[i], f)
    BY <1>8 DEF FindsOnly, OnlyOnce
  <2>2. ASSUME NEW a, NEW b, a \in Lookup(T.parent, q), b \in Lookup(T.parent, q)
        PROVE  a = b
    <3>1. \A m, n \in Nodes \ {Volume} :
            T.parent[m] = T.parent[n] /\ T.name[m].text = T.name[n].text => m = n
      BY <1>1, Volumes
    <3> QED
      BY <1>2, <2>2, <3>1, LookupOne
  <2>3. /\ f \in Nodes \ {Volume} /\ Up(f) = {f} \cup Dirs(f) /\ f \notin Dirs(f)
        /\ T.parent[f] \in Dirs(f) /\ \A d \in Dirs(f) : T.parent[d] \in Dirs(f)
    BY <1>1, Places, Climbing
  <2>4. \A a, b \in Up(f) \ {Volume} : T.parent[a] = T.parent[b] => a = b
    BY <1>1, <2>3, InLine
  <2>5. ASSUME NEW i \in DOMAIN more, Toward(more[i], f)
        PROVE  \E n \in Dirs(f) \ {Volume} :
                 /\ more[i] = Append(q, T.name[n])
                 /\ \E e \in Lookup(T.parent, q) : T.parent[n] = Through(e)
    <3>1. PICK n \in ChosenDirs(q) : more[i] = Append(q, T.name[n])
      BY <1>4
    <3>2. Toward(Append(q, T.name[n]), f)
      BY <2>5, <3>1
    <3> QED
      BY <1>2, <1>8, <3>1, <3>2, TowardNew
  <2>6. ASSUME NEW i \in DOMAIN more, Toward(more[i], f) PROVE Toward(q, f)
    BY <2>3, <2>5, <2>6 DEF Toward
  <2>7. ASSUME NEW i \in DOMAIN found, found[i].node = f
        PROVE  /\ Toward(q, f) /\ Wanted(f)
               /\ \E d \in Lookup(T.parent, q) : T.parent[f] = Through(d)
    <3>1. f \in ChosenFiles(q)
      BY <1>5, <2>7
    <3>2. \E d \in Lookup(T.parent, q) : T.parent[f] = Through(d)
      BY <1>2, <1>8, <3>1, FoundThere
    <3>3. Wanted(f)
      BY <1>2, <1>8, <3>1, FoundIsWanted
    <3> QED
      BY <2>3, <3>2, <3>3 DEF Toward
  <2>8. ASSUME NEW i \in DOMAIN more, NEW j \in DOMAIN more,
               Toward(more[i], f), Toward(more[j], f)
        PROVE  i = j
    <3>1. PICK m \in Dirs(f) \ {Volume} :
                 /\ more[i] = Append(q, T.name[m])
                 /\ \E e \in Lookup(T.parent, q) : T.parent[m] = Through(e)
      BY <2>5, <2>8
    <3>2. PICK n \in Dirs(f) \ {Volume} :
                 /\ more[j] = Append(q, T.name[n])
                 /\ \E e \in Lookup(T.parent, q) : T.parent[n] = Through(e)
      BY <2>5, <2>8
    <3>3. T.parent[m] = T.parent[n]
      BY <2>2, <3>1, <3>2
    <3>4. m = n
      BY <2>3, <2>4, <3>3
    <3> QED
      BY <1>4, <3>1, <3>2, <3>4
  <2>9. ASSUME NEW i \in DOMAIN ds2, NEW j \in DOMAIN ds2, Toward(ds2[i], f), Toward(ds2[j], f)
         PROVE  i = j
    <3>1. CASE (i \in DOMAIN ds /\ i # N /\ ds2[i] = ds[i])
               /\ (j \in DOMAIN ds /\ j # N /\ ds2[j] = ds[j])
      BY <2>1, <2>9, <3>1
    <3>2. ASSUME NEW k \in DOMAIN ds, k # N, Toward(ds[k], f), NEW l \in DOMAIN more,
                 Toward(more[l], f)
          PROVE  FALSE
      BY <1>2, <2>1, <2>6, <3>2
    <3>3. CASE (\E k \in DOMAIN more : i = k + Len(Front(ds)) /\ ds2[i] = more[k])
               /\ (\E k \in DOMAIN more : j = k + Len(Front(ds)) /\ ds2[j] = more[k])
      BY <2>8, <2>9, <3>3
    <3> QED
      BY <1>3, <2>9, <3>1, <3>2, <3>3
  <2>10. ASSUME NEW i \in DOMAIN fs2, NEW j \in DOMAIN fs2, fs2[i].node = f, fs2[j].node = f
         PROVE  i = j
    <3>1. CASE (i \in DOMAIN fs /\ fs2[i] = fs[i]) /\ (j \in DOMAIN fs /\ fs2[j] = fs[j])
      BY <2>1, <2>10, <3>1
    <3>2. ASSUME NEW k \in DOMAIN fs, fs[k].node = f, NEW l \in DOMAIN found, found[l].node = f
          PROVE  FALSE
      BY <1>2, <2>1, <2>7, <3>2 DEF Some
    <3>3. CASE (\E k \in DOMAIN found : i = k + Len(fs) /\ fs2[i] = found[k])
               /\ (\E k \in DOMAIN found : j = k + Len(fs) /\ fs2[j] = found[k])
      BY <1>5, <2>10, <3>3
    <3> QED
      BY <1>6, <2>10, <3>1, <3>2, <3>3
  <2>11. ASSUME Some(fs2, f) PROVE Wanted(f) /\ \A k \in DOMAIN ds2 : ~Toward(ds2[k], f)
    <3>1. CASE Some(fs, f)
      <4>1. Wanted(f) /\ \A k \in DOMAIN ds : ~Toward(ds[k], f)
        BY <2>1, <3>1
      <4> QED
        BY <1>2, <1>3, <2>6, <4>1
    <3>2. CASE \E l \in DOMAIN found : found[l].node = f
      <4>1. Toward(q, f) /\ Wanted(f)
        BY <2>7, <3>2
      <4>2. PICK d \in Lookup(T.parent, q) : T.parent[f] = Through(d)
        BY <2>7, <3>2
      <4>3. ASSUME NEW i \in DOMAIN more, Toward(more[i], f) PROVE FALSE
        <5>1. PICK n \in Dirs(f) \ {Volume} :
                 \E e \in Lookup(T.parent, q) : T.parent[n] = Through(e)
          BY <2>5, <4>3
        <5>2. T.parent[n] = T.parent[f]
          BY <2>2, <4>2, <5>1
        <5> QED
          BY <2>3, <2>4, <5>1, <5>2
      <4>4. ASSUME NEW k \in DOMAIN ds, k # N, Toward(ds[k], f) PROVE FALSE
        BY <1>2, <2>1, <4>1, <4>4
      <4> QED
        BY <1>3, <4>1, <4>3, <4>4
    <3>3. Some(fs, f) \/ \E l \in DOMAIN found : found[l].node = f
      BY <1>6, <2>11 DEF Some
    <3> QED
      BY <3>1, <3>2, <3>3
  <2> QED
    BY <2>9, <2>10, <2>11 DEF OnlyOnce
<1> QED
  BY <1>7, <1>8 DEF FindsOnly

-----------------------------------------------------------------------------
(* Moves take nothing from what holds of the stack and of the files found. *)
LEMMA SameWalk ==
  ASSUME tree \in DOMAIN Trees, tree' = tree, touched \subseteq touched',
         NEW ds \in Seq(Seq(Names)), NEW fs
  PROVE  /\ Finds(ds, fs) => Finds(ds, fs)'
         /\ FindsOnly(ds, fs) => FindsOnly(ds, fs)'
<1>1. T' = T /\ Links' = Links /\ Files' = Files /\ (\A n : Through(n)' = Through(n))
      /\ (\A n : Up(n)' = Up(n))
  BY SameNodes
<1>2. \A f : /\ Dirs(f)' = Dirs(f) /\ BelowRoot(f)' = BelowRoot(f)
             /\ Wanted(f)' <=> Wanted(f)
  BY SameDirs
<1>3. Roots' = Roots /\ Lookup(T.parent, T.root)' = Lookup(T.parent, T.root)
  BY SameDirs
<1>4. /\ \A f : Stable(f)' => Stable(f)
      /\ LinksStable' => LinksStable
  BY <1>1 DEF Stable, LinksStable
<1>5. ASSUME NEW q \in Seq(Names)
      PROVE  \A up : Lookup(up, q)' = Lookup(up, q)
  <2>1. Len(q) \in Nat
    OBVIOUS
  <2> QED
    BY <2>1, SameLookup
<1>6. \A q \in Seq(Names) : Lookup(T.parent, q)' = Lookup(T.parent, q)
  BY <1>1, <1>5
<1>7. \A f : Open(f)' <=> Open(f)
  BY <1>1, <1>2, <1>3 DEF Open
<1>8. \A q \in Seq(Names) : \A f : Leads(q, f)' <=> Leads(q, f)
  BY <1>1, <1>2, <1>6 DEF Leads
<1>9. \A q \in Seq(Names) : \A f : Toward(q, f)' <=> Toward(q, f)
  BY <1>1, <1>2, <1>6 DEF Toward
<1>10. \A d : Below(d)' <=> Below(d)
  BY <1>1, <1>3 DEF Below, IsExcludedDir
<1>11. \A q \in Seq(Names) : Straight(q) => Straight(q)'
  BY <1>1, <1>4, <1>6, <1>10 DEF Straight
<1>12. \A i \in DOMAIN ds : ds[i] \in Seq(Names)
  OBVIOUS
<1>13. \A f : Some(fs, f)' <=> Some(fs, f)
  BY DEF Some
<1>14. Finds(ds, fs) => Finds(ds, fs)'
  BY <1>1, <1>2, <1>4, <1>7, <1>8, <1>12, <1>13 DEF Finds, Steady
<1>15. \A f : OnlyOnce(ds, fs, f) => OnlyOnce(ds, fs, f)'
  BY <1>2, <1>9, <1>12, <1>13 DEF OnlyOnce
<1>16. FindsOnly(ds, fs) => FindsOnly(ds, fs)'
  BY <1>1, <1>4, <1>11, <1>12, <1>15 DEF FindsOnly, Steady
<1> QED
  BY <1>14, <1>16

LEMMA WalkingNext == Inv /\ Walking /\ [Next]_vars => Walking'
<1> SUFFICES ASSUME Inv, Walking, [Next]_vars, pc' = "walk"
             PROVE  Finds(dirs, allFiles)' /\ (~T.followLinks => FindsOnly(dirs, allFiles))'
  BY DEF Walking
<1>1. tree' = tree /\ touched \subseteq touched' /\ tree \in DOMAIN Trees
  BY DEF Next, vars, Start, ReadRecord, EndEnumeration, ListDir, EndWalk, Emit, Move, Done,
         Inv, TypeOK
<1>2. T' = T /\ Names' = Names
  BY <1>1, SameNodes
<1>3. dirs' \in Seq(Seq(Names))
  BY <1>2, NextInv DEF Inv, TypeOK
<1>4. Finds(dirs', allFiles') /\ (~T.followLinks => FindsOnly(dirs', allFiles'))
  <2>1. CASE pc = "walk" /\ dirs' = dirs /\ allFiles' = allFiles
    BY <2>1 DEF Walking
  <2>2. CASE Start \/ EndEnumeration
    <3>1. dirs' = <<T.root>>
      BY <2>2 DEF Start, EndEnumeration
    <3>2. allFiles' = <<>>
      BY <2>2 DEF Start, EndEnumeration, Inv, Phases
    <3> QED
      BY <3>1, <3>2, WalkBegins
  <2>3. CASE ListDir
    <3>1. PICK more, found : /\ NewDirs(more, Last(dirs)) /\ NewFiles(found, Last(dirs))
                             /\ dirs' = Front(dirs) \o more /\ allFiles' = allFiles \o found
      BY <2>3, ListDirFinds
    <3>2. dirs \in Seq(Seq(Names)) /\ dirs # <<>> /\ allFiles \in Seq(FileContexts)
          /\ more \in Seq(Seq(Names)) /\ found \in Seq(FileContexts)
      BY <2>3, <3>1 DEF ListDir, Inv, TypeOK, NewDirs, NewFiles
    <3>3. Last(dirs) \in Seq(Names) /\ StackAfter(dirs', dirs, more)
      BY <3>1, <3>2, Popped, AfterStep
    <3>4. ListAfter(allFiles', allFiles, found)
      BY <3>1, <3>2, AfterFound
    <3>5. Finds(dirs, allFiles) /\ (~T.followLinks => FindsOnly(dirs, allFiles))
      BY <2>3 DEF Walking, ListDir
    <3>6. Finds(dirs', allFiles')
      BY <3>1, <3>2, <3>3, <3>4, <3>5, FindsStep
    <3>7. ~T.followLinks => FindsOnly(dirs', allFiles')
      BY <3>1, <3>2, <3>3, <3>4, <3>5, FindsOnlyStep
    <3> QED
      BY <3>6, <3>7
  <2>4. CASE EndWalk \/ Emit \/ ReadRecord
    BY <2>4 DEF EndWalk, Emit, ReadRecord
  <2>5. CASE UNCHANGED vars \/ Done \/ \E n, d \in Nodes : Move(n, d)
    BY <2>1, <2>5 DEF vars, Done, Move
  <2> QED
    BY <2>2, <2>3, <2>4, <2>5 DEF Next
<1>5. /\ Finds(dirs', allFiles') => Finds(dirs, allFiles)'
      /\ FindsOnly(dirs', allFiles') => FindsOnly(dirs, allFiles)'
  BY <1>1, <1>3, SameWalk
<1> QED
  BY <1>2, <1>4, <1>5

(* When the stack is empty, what was found is right.                       *)
LEMMA ListingFinds ==
  ASSUME Inv, Walking, EndWalk
  PROVE  AllRight(allFiles)'
<1>1. tree \in DOMAIN Trees /\ tree' = tree /\ touched' = touched /\ mft' = mft
      /\ DOMAIN mft = {} /\ dirs = <<>> /\ DOMAIN dirs = {}
  <2>1. tree \in DOMAIN Trees
    BY DEF Inv, TypeOK
  <2>2. pc = "walk" /\ dirs = <<>> /\ tree' = tree /\ touched' = touched /\ mft' = mft
    BY DEF EndWalk
  <2>3. DOMAIN mft = {}
    BY <2>2 DEF Inv, Phases
  <2>4. DOMAIN dirs = {}
    BY ONLY <2>2
  <2> QED
    BY <2>1, <2>2, <2>3, <2>4
<1>2. Finds(dirs, allFiles) /\ (~T.followLinks => FindsOnly(dirs, allFiles))
  BY DEF Walking, EndWalk
<1> DEFINE s == allFiles'
<1>3. DOMAIN s = DOMAIN allFiles /\ \A i \in DOMAIN allFiles : s[i].node = allFiles[i].node
  BY EndWalkKeeps
<1> HIDE DEF s
<1>4. ASSUME NEW f \in Files, Stable(f), ~KnownGap(f) PROVE Right(s, f)
  <2>1. Steady(f) /\ Open(f)
    <3>1. /\ ~((BelowRoot(f) \cup Lookup(T.parent, T.root) \cup Roots) \cap T.denied # {})
          /\ ~(Len(T.root) + Cardinality(BelowRoot(f)) > MaxPath)
          /\ ~(\E l \in Links : touched \cap Above(T.parent, l) # {})
      BY <1>1, <1>4 DEF KnownGap
    <3>2. \A l \in Links : Stable(l)
      BY <3>1 DEF Stable
    <3> QED
      BY <1>4, <3>1, <3>2 DEF Steady, LinksStable, Open
  <2>2. Wanted(f) => Some(allFiles, f)
    BY <1>1, <1>2, <2>1 DEF Finds
  <2>3. Some(s, f) <=> Some(allFiles, f)
    BY <1>3 DEF Some
  <2>4. CASE T.followLinks
    BY <1>1, <2>2, <2>3, <2>4 DEF Right
  <2>5. CASE ~T.followLinks
    <3>1. OnlyOnce(dirs, allFiles, f)
      BY <1>2, <2>1, <2>5 DEF FindsOnly
    <3>2. /\ \A i, j \in DOMAIN s : s[i].node = f /\ s[j].node = f => i = j
          /\ Some(s, f) => Wanted(f)
      BY <1>3, <2>3, <3>1 DEF OnlyOnce
    <3>3. Some(s, f) => Once(s, f)
      BY <3>2 DEF Some, Once
    <3> QED
      BY <2>2, <2>3, <2>5, <3>2, <3>3 DEF Right
  <2> QED
    BY <2>4, <2>5
<1> QED
  BY <1>1, <1>4, SameAims, SameDirs, SameNodes DEF AllRight, Right, Some, Once, s

LEMMA OutcomeNext == Inv /\ Walking /\ Outcome /\ [Next]_vars => Outcome'
<1> SUFFICES ASSUME Inv, Walking, Outcome, [Next]_vars PROVE Outcome'
  OBVIOUS
<1>1. CASE EndEnumeration
  <2>1. DOMAIN mft = {} => pc' = "walk"
    BY <1>1 DEF EndEnumeration
  <2>2. DOMAIN mft # {} => pc' = "emit" /\ AllRight(allFiles)'
    BY <1>1, TableFinds DEF EndEnumeration
  <2> QED
    BY <2>1, <2>2 DEF Outcome
<1>2. CASE EndWalk
  <2>1. pc' = "emit" /\ AllRight(allFiles)'
    BY <1>2, ListingFinds DEF EndWalk
  <2> QED
    BY <2>1 DEF Outcome
<1>3. CASE Emit
  <2>1. pc' = "done" /\ AllRight(emitted)'
    BY <1>3, EmitRight DEF Emit, Outcome
  <2> QED
    BY <2>1 DEF Outcome
<1>4. CASE Start \/ ReadRecord \/ ListDir \/ \E n, d \in Nodes : Move(n, d)
  <2>1. pc' # "emit" /\ pc' # "done"
    BY <1>4 DEF Start, ReadRecord, ListDir, Move
  <2> QED
    BY <2>1 DEF Outcome
<1>5. CASE UNCHANGED vars \/ Done
  <2>1. /\ tree' = tree /\ touched' = touched /\ mft' = mft /\ tree \in DOMAIN Trees
        /\ pc' = pc /\ allFiles' = allFiles /\ emitted' = emitted
    BY <1>5 DEF vars, Done, Inv, TypeOK
  <2> QED
    BY <2>1, SameAims, SameDirs, SameNodes DEF Outcome, AllRight, Right, Some, Once
<1> QED
  BY <1>1, <1>2, <1>3, <1>4, <1>5 DEF Next

LEMMA OutcomeStable == Inv /\ Outcome => StableFound
<1> SUFFICES ASSUME Inv, Outcome, pc = "done", NEW f \in Files, Stable(f), ~KnownGap(f)
             PROVE  IF T.followLinks /\ DOMAIN mft = {} THEN Wanted(f) => Times(f) >= 1
                    ELSE Times(f) = IF Wanted(f) THEN 1 ELSE 0
  BY DEF StableFound
<1>1. Right(emitted, f)
  BY DEF Outcome, AllRight
<1> DEFINE Here == {i \in DOMAIN emitted : emitted[i].node = f}
<1>2. Times(f) = Cardinality(Here)
  BY DEF Times
<1>3. IsFiniteSet(Here) /\ Cardinality(Here) \in Nat
  <2>1. emitted \in Seq(FileContexts)
    BY DEF Inv, TypeOK
  <2>2. IsFiniteSet(DOMAIN emitted)
    <3>1. DOMAIN emitted = 1..Len(emitted) /\ Len(emitted) \in Nat
      BY <2>1
    <3> QED
      BY <3>1, FS_Interval
  <2> QED
    BY <2>2, FS_Subset, FS_CardinalityType
<1>4. ASSUME Some(emitted, f) PROVE Cardinality(Here) >= 1
  <2>1. Here # {}
    BY <1>4 DEF Some
  <2> HIDE DEF Here
  <2>2. Cardinality(Here) # 0
    BY <1>3, <2>1, FS_EmptySet
  <2> QED
    BY <1>3, <2>2
<1>5. ASSUME Once(emitted, f) PROVE Cardinality(Here) = 1
  <2>1. PICK i \in DOMAIN emitted :
          emitted[i].node = f /\ \A j \in DOMAIN emitted : emitted[j].node = f => j = i
    BY <1>5 DEF Once
  <2>2. Here = {i}
    BY <2>1
  <2> HIDE DEF Here
  <2> QED
    BY <2>2, FS_Singleton
<1>6. ASSUME ~Some(emitted, f) PROVE Cardinality(Here) = 0
  <2>1. Here = {}
    BY <1>6 DEF Some
  <2> HIDE DEF Here
  <2> QED
    BY <2>1, FS_EmptySet
<1> HIDE DEF Here
<1> QED
  BY <1>1, <1>2, <1>4, <1>5, <1>6 DEF Right

(* A file that stays where it is while others move is found exactly once   *)
(* when the scan is about it, and not at all otherwise, by enumerate_mft   *)
(* as by the listing of walk, but for their known differences.             *)
THEOREM StableFoundHolds == Spec => []StableFound
<1>1. Init => Walking /\ Outcome
  BY DEF Init, Walking, Outcome
<1> QED
  BY InitInv, NextInv, <1>1, WalkingNext, OutcomeNext, OutcomeStable, PTL DEF Spec
=============================================================================
