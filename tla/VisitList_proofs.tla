--------------------------- MODULE VisitList_proofs ---------------------------
(***************************************************************************)
(* The array loops behind the window of visits do what PetkitCore says of  *)
(* them as sets, for every list, every batch of records and every size of  *)
(* the window.                                                             *)
(*                                                                         *)
(* The argument is in two halves.  On sets, offering one more record that  *)
(* is later than those offered before does to the operators of PetkitCore  *)
(* what one turn of add_visit does to the window (AddOne).  On arrays, one *)
(* call of add_visit keeps the list sorted and is AddOne of its elements.  *)
(***************************************************************************)
EXTENDS VisitList, PetkitCore_proofs

-----------------------------------------------------------------------------
(* Sets of timestamps *)

Stamps == 1..Horizon
Windows == SUBSET Stamps

LEMMA Bounds ==
  /\ Horizon \in Nat /\ Word \in Nat /\ Word > Horizon
  /\ MaxVisits \in Nat \ {0} /\ DaySec \in Nat \ {0}
BY ListAssumption, CoreAssumption DEF ListAssumption, CoreAssumption

LEMMA WindowIsFinite ==
  ASSUME NEW S \in Windows
  PROVE  /\ IsFiniteSet(S) /\ Cardinality(S) \in Nat /\ S \in SUBSET Nat
         /\ S \in SUBSET Int /\ \A x \in S : x <= Horizon
<1>1. IsFiniteSet(Stamps)
  BY Bounds, FS_Interval DEF Stamps
<1>2. S \in SUBSET Stamps
  BY DEF Windows
<1>3. IsFiniteSet(S)
  BY <1>1, <1>2, FS_Subset
<1>4. Cardinality(S) \in Nat
  BY <1>3, FS_CardinalityType
<1>5. S \in SUBSET Nat /\ S \in SUBSET Int /\ \A x \in S : x <= Horizon
  BY <1>2, Bounds DEF Stamps
<1>6. QED
  BY <1>3, <1>4, <1>5

LEMMA SubWindow ==
  ASSUME NEW S \in Windows, NEW T \in SUBSET S
  PROVE  /\ T \in Windows /\ Cardinality(T) <= Cardinality(S)
         /\ T # S => Cardinality(T) < Cardinality(S)
<1>1. IsFiniteSet(S) /\ Cardinality(S) \in Nat
  BY WindowIsFinite
<1>2. T \in Windows
  BY DEF Windows
<1>3. Cardinality(T) <= Cardinality(S) /\ (Cardinality(S) = Cardinality(T) => S = T)
  BY <1>1, FS_Subset
<1>4. Cardinality(T) \in Nat
  BY <1>2, WindowIsFinite
<1>5. QED
  BY <1>1, <1>2, <1>3, <1>4

LEMMA OneMore ==
  ASSUME NEW S \in Windows, NEW v \in Stamps, v \notin S
  PROVE  S \cup {v} \in Windows /\ Cardinality(S \cup {v}) = Cardinality(S) + 1
<1>1. S \cup {v} \in Windows
  BY DEF Windows
<1>2. QED
  BY <1>1, WindowIsFinite, FS_AddElement

LEMMA OneLess ==
  ASSUME NEW S \in Windows, NEW v \in S
  PROVE  S \ {v} \in Windows /\ Cardinality(S \ {v}) = Cardinality(S) - 1
<1>1. S \ {v} \in Windows
  BY DEF Windows
<1>2. QED
  BY <1>1, WindowIsFinite, FS_RemoveElement

LEMMA NoWindow ==
  ASSUME NEW S \in Windows
  PROVE  (S = {} <=> Cardinality(S) = 0) /\ {} \in Windows
BY WindowIsFinite, FS_EmptySet DEF Windows

LEMMA LeastOf ==
  ASSUME NEW S \in Windows, S # {}
  PROVE  Min(S) \in S /\ \A x \in S : Min(S) <= x
<1>1. S \in SUBSET Nat
  BY WindowIsFinite
<1>2. \E t \in S : \A u \in S : t <= u
  BY <1>1, LeastElement
<1>3. QED
  BY <1>2 DEF Min

LEMMA LatestOf ==
  ASSUME NEW S \in Windows, S # {}
  PROVE  Max(S) \in S /\ \A x \in S : x <= Max(S)
BY WindowIsFinite, MaxOfBounded, Bounds

LEMMA LeastIs ==
  ASSUME NEW S \in Windows, NEW x \in S, \A y \in S : x <= y
  PROVE  Min(S) = x
<1>1. Min(S) \in S /\ Min(S) <= x /\ x <= Min(S)
  BY LeastOf
<1>2. Min(S) \in Int /\ x \in Int
  BY <1>1, WindowIsFinite
<1>3. QED
  BY <1>1, <1>2

LEMMA LatestIs ==
  ASSUME NEW S \in Windows, NEW x \in S, \A y \in S : y <= x
  PROVE  Max(S) = x
<1>1. Max(S) \in S /\ Max(S) <= x /\ x <= Max(S)
  BY LatestOf
<1>2. Max(S) \in Int /\ x \in Int
  BY <1>1, WindowIsFinite
<1>3. QED
  BY <1>1, <1>2

-----------------------------------------------------------------------------
(* The latest records of a set *)

\* W holds the latest records of U, as many as the window has room for.
IsTop(W, U) ==
  /\ W \subseteq U
  /\ \A x \in W, y \in U : y > x => y \in W
  /\ Cardinality(W) <= MaxVisits
  /\ W # U => Cardinality(W) = MaxVisits

LEMMA TopsAgree ==
  ASSUME NEW U \in Windows, NEW A, NEW B, IsTop(A, U), IsTop(B, U)
  PROVE  A \subseteq B
<1> SUFFICES ASSUME NEW x \in A, x \notin B PROVE FALSE
  OBVIOUS
<1>1. A \in Windows /\ B \in Windows /\ x \in U /\ U \in SUBSET Int
  BY WindowIsFinite DEF IsTop, Windows
<1>2. ASSUME NEW y \in B PROVE y \in A
  <2>1. y \in U /\ ~ (x > y) /\ x # y
    BY <1>1, <1>2 DEF IsTop
  <2>2. y \in Int /\ x \in Int
    BY <1>1, <2>1
  <2>3. y > x
    BY <2>1, <2>2
  <2>4. QED
    BY <2>1, <2>3 DEF IsTop
<1>3. B \in SUBSET A /\ B # A
  BY <1>2
<1>4. Cardinality(B) < Cardinality(A)
  BY <1>1, <1>3, SubWindow
<1>5. Cardinality(B) = MaxVisits
  BY <1>1 DEF IsTop
<1>6. QED
  BY <1>1, <1>4, <1>5, Bounds, WindowIsFinite DEF IsTop

LEMMA NewestIsTop ==
  ASSUME NEW U \in Windows
  PROVE  IsTop(Newest(MaxVisits, U), U)
<1> DEFINE N == Newest(MaxVisits, U)
           Above(x) == {y \in U : y > x}
<1>1. N \in SUBSET U /\ N \in Windows /\ U \in SUBSET Int /\ N \in SUBSET Int
  BY WindowIsFinite DEF Newest, Windows
<1>2. \A x \in U : x \in N <=> Cardinality(Above(x)) < MaxVisits
  BY DEF Newest
<1>3. \A x \in U : Above(x) \in Windows /\ Cardinality(Above(x)) \in Nat
  <2>1. \A x \in U : Above(x) \in Windows
    BY DEF Windows
  <2>2. QED
    BY <2>1, WindowIsFinite
<1> HIDE DEF N
<1>4. ASSUME NEW x \in N, NEW y \in U, y > x PROVE y \in N
  <2>1. x \in U /\ x \in Int /\ y \in Int
    BY <1>1
  <2>2. Above(y) \in SUBSET Above(x)
    <3>1. ASSUME NEW z \in U, z > y PROVE z > x
      <4>1. z \in Int
        BY <1>1
      <4>2. QED
        BY <1>4, <2>1, <3>1, <4>1
    <3>2. QED
      BY <3>1
  <2>3. Cardinality(Above(y)) <= Cardinality(Above(x))
    BY <1>3, <2>1, <2>2, SubWindow
  <2>4. Cardinality(Above(x)) < MaxVisits /\ Cardinality(Above(y)) \in Nat
        /\ Cardinality(Above(x)) \in Nat
    BY <1>2, <1>3, <2>1
  <2>5. Cardinality(Above(y)) < MaxVisits
    BY <2>3, <2>4, Bounds
  <2>6. QED
    BY <1>2, <2>5
<1>5. Cardinality(N) <= MaxVisits
  <2>1. CASE N = {}
    BY <1>1, <2>1, NoWindow, Bounds
  <2>2. CASE N # {}
    <3> DEFINE m == Min(N)
    <3>1. m \in N /\ \A x \in N : m <= x
      BY <1>1, <2>2, LeastOf
    <3> HIDE DEF m
    <3>2. N \ {m} \in SUBSET Above(m)
      <4>1. ASSUME NEW x \in N, x # m PROVE x > m
        <5>1. m <= x /\ x \in Int /\ m \in Int
          BY <1>1, <3>1
        <5>2. QED
          BY <4>1, <5>1
      <4>2. QED
        BY <1>1, <4>1
    <3>3. Cardinality(N \ {m}) <= Cardinality(Above(m))
      BY <1>1, <1>3, <3>1, <3>2, SubWindow
    <3>4. Cardinality(N \ {m}) = Cardinality(N) - 1 /\ Cardinality(N) \in Nat
      BY <1>1, <3>1, OneLess, WindowIsFinite
    <3>5. Cardinality(Above(m)) < MaxVisits /\ Cardinality(Above(m)) \in Nat
      BY <1>1, <1>2, <1>3, <3>1
    <3>6. QED
      BY <3>3, <3>4, <3>5, Bounds
  <2>3. QED
    BY <2>1, <2>2
<1>6. ASSUME N # U PROVE Cardinality(N) = MaxVisits
  <2> DEFINE rest == U \ N
             b == Max(rest)
  <2>1. rest \in Windows /\ rest # {}
    BY <1>1, <1>6 DEF Windows
  <2>2. b \in rest /\ \A x \in rest : x <= b
    BY <2>1, LatestOf
  <2> HIDE DEF b
  <2>3. Above(b) \in SUBSET N
    <3>1. ASSUME NEW y \in U, y > b PROVE y \in N
      <4>1. y \notin rest
        <5>1. y \in Int /\ b \in Int
          BY <1>1, <2>2
        <5>2. ~ (y <= b)
          BY <3>1, <5>1
        <5>3. QED
          BY <2>2, <5>2
      <4>2. QED
        BY <4>1
    <3>2. QED
      BY <3>1
  <2>4. Cardinality(Above(b)) <= Cardinality(N)
    BY <1>1, <2>3, SubWindow
  <2>5. ~ (Cardinality(Above(b)) < MaxVisits) /\ Cardinality(Above(b)) \in Nat
    BY <1>2, <1>3, <2>2
  <2>6. Cardinality(N) \in Nat
    BY <1>1, WindowIsFinite
  <2>7. QED
    BY <1>5, <2>4, <2>5, <2>6, Bounds
<1>7. QED
  BY <1>1, <1>4, <1>5, <1>6 DEF IsTop, N

LEMMA TopIsNewest ==
  ASSUME NEW U \in Windows, NEW W, IsTop(W, U)
  PROVE  W = Newest(MaxVisits, U)
<1>1. IsTop(Newest(MaxVisits, U), U)
  BY NewestIsTop
<1>2. W \subseteq Newest(MaxVisits, U) /\ Newest(MaxVisits, U) \subseteq W
  BY <1>1, TopsAgree
<1>3. QED
  BY <1>2

-----------------------------------------------------------------------------
(* One record more *)

\* A turn of add_visit, on the set of what the list holds.
MadeRoom(V) == IF Cardinality(V) >= MaxVisits THEN V \ {Min(V)} ELSE V
AddOne(V, v) == IF v \in V THEN V ELSE MadeRoom(V) \cup {v}

\* A full window is offered nothing but records older than all it holds.
Swaps(V, F) ==
  /\ Cardinality(V) = MaxVisits
  /\ F \ V # {}
  /\ \A x \in F \ V, y \in V : x < y
  /\ \A y \in V \cap F : \E z \in V : z < y

LEMMA AddVisitsSplit ==
  ASSUME NEW V, NEW F
  PROVE  /\ Swaps(V, F) => AddVisits(V, F) = (V \ {Min(V)}) \cup {Max(F \ V)}
         /\ ~Swaps(V, F) => AddVisits(V, F) = Newest(MaxVisits, V \cup F)
BY DEF AddVisits, Swaps

LEMMA AddVisitsNone ==
  ASSUME NEW V \in Windows, Cardinality(V) <= MaxVisits
  PROVE  AddVisits(V, {}) = V /\ Inserted(V, {}) = {}
<1>1. ~Swaps(V, {})
  BY DEF Swaps
<1>2. V \cup {} = V
  OBVIOUS
<1>3. IsTop(V, V)
  BY DEF IsTop
<1>4. AddVisits(V, {}) = V
  <2>1. AddVisits(V, {}) = Newest(MaxVisits, V \cup {})
    BY <1>1, AddVisitsSplit
  <2>2. Newest(MaxVisits, V \cup {}) = Newest(MaxVisits, V)
    BY <1>2, Zenon
  <2>3. V = Newest(MaxVisits, V)
    BY <1>3, TopIsNewest
  <2>4. QED
    BY <2>1, <2>2, <2>3
<1>5. Inserted(V, {}) = {}
  BY DEF Inserted
<1>6. QED
  BY <1>4, <1>5

\* A window of old records holds nothing else: v is later than all of F, and W
\* later than v.
LEMMA OldOnly ==
  ASSUME NEW V \in Windows, NEW F \in Windows, NEW W, IsTop(W, V \cup F),
         Cardinality(V) <= MaxVisits, Cardinality(W) = MaxVisits,
         NEW v \in Stamps, \A x \in F : x < v, \A x \in W : v < x
  PROVE  W = V /\ V \cap F = {} /\ Cardinality(V) = MaxVisits
<1>1. V \in SUBSET Int /\ F \in SUBSET Int /\ v \in Int /\ W \in SUBSET Int
  BY WindowIsFinite, Bounds DEF Stamps, IsTop
<1>2. W \cap F = {}
  <2>1. SUFFICES ASSUME NEW x \in W, x \in F PROVE FALSE
    OBVIOUS
  <2>2. x < v /\ v < x /\ x \in Int
    BY <1>1, <2>1
  <2>3. QED
    BY <1>1, <2>2
<1>3. W \in SUBSET V
  BY <1>2 DEF IsTop
<1>4. W = V
  <2>1. W # V => Cardinality(W) < Cardinality(V)
    BY <1>3, SubWindow
  <2>2. Cardinality(V) \in Nat /\ MaxVisits \in Nat
    BY WindowIsFinite, Bounds
  <2>3. QED
    BY <2>1, <2>2
<1>5. QED
  BY <1>2, <1>4

\* The ordinary case: the window holds the latest records of all.
LEMMA AddOneOrdinary ==
  ASSUME NEW V \in Windows, NEW F \in Windows, Cardinality(V) <= MaxVisits,
         NEW v \in Stamps, \A x \in F : x < v, ~Swaps(V, F)
  PROVE  LET W == AddVisits(V, F)
             G == F \cup {v}
         IN  /\ AddVisits(V, G) = AddOne(W, v)
             /\ v \in V => v \in W
             /\ W \in Windows /\ Cardinality(W) <= MaxVisits /\ W \subseteq V \cup F
<1> DEFINE W == AddVisits(V, F)
           G == F \cup {v}
           U == V \cup F
           new == F \ V
<1>1. U \in Windows /\ V \in SUBSET Int /\ F \in SUBSET Int /\ U \in SUBSET Int /\ v \in Int
      /\ G \in Windows
  BY WindowIsFinite, Bounds DEF Windows, Stamps
<1>2. W = Newest(MaxVisits, U)
  BY AddVisitsSplit
<1>3. IsTop(W, U)
  BY <1>1, <1>2, NewestIsTop
<1> HIDE DEF W
<1>4. W \in Windows /\ Cardinality(W) \in Nat /\ W \in SUBSET Int
      /\ MaxVisits \in Nat \ {0} /\ Cardinality(W) <= MaxVisits /\ W \subseteq U
  BY <1>1, <1>3, WindowIsFinite, Bounds DEF IsTop, Windows
<1>5. v \notin F
  BY <1>1
<1>6. ASSUME Cardinality(W) = MaxVisits, \A x \in W : v < x
      PROVE  v \notin V /\ W = V /\ Swaps(V, G) /\ Max(G \ V) = v
  <2>1. W = V /\ V \cap F = {} /\ Cardinality(V) = MaxVisits
    BY <1>3, <1>6, OldOnly
  <2>2. v \notin V
    <3>1. v \in W => v < v
      BY <1>6
    <3>2. QED
      BY <1>1, <2>1, <3>1
  <2>3. G \ V = G /\ G # {}
    BY <2>1, <2>2
  <2>4. \A x \in G, y \in V : x < y
    <3>1. ASSUME NEW x \in G, NEW y \in V PROVE x < y
      <4>1. v < y /\ (x = v \/ x < v) /\ x \in Int /\ y \in Int
        BY <1>1, <1>6, <2>1
      <4>2. QED
        BY <1>1, <4>1
    <3>2. QED
      BY <3>1
  <2>5. V \cap G = {}
    BY <2>1, <2>2
  <2>6. Swaps(V, G)
    BY <2>1, <2>3, <2>4, <2>5 DEF Swaps
  <2>7. Max(G) = v
    <3>1. \A y \in G : y <= v
      BY <1>1
    <3>2. QED
      BY <1>1, <3>1, LatestIs
  <2>8. QED
    BY <2>1, <2>2, <2>3, <2>6, <2>7
\* The new set swaps only when the window is full of later records.
<1>7. ASSUME Swaps(V, G)
      PROVE  W = V /\ Cardinality(W) = MaxVisits /\ v \notin V /\ \A x \in W : v < x
  <2>1. Cardinality(V) = MaxVisits
    BY <1>7 DEF Swaps
  <2>2. v \notin V
    <3>1. SUFFICES ASSUME v \in V PROVE FALSE
      OBVIOUS
    <3>2. G \ V = new
      BY <3>1
    <3>3. V \cap F \subseteq V \cap G
      OBVIOUS
    <3>4. Swaps(V, F)
      BY <1>7, <3>2, <3>3 DEF Swaps
    <3>5. QED
      BY <3>4
  <2>3. \A x \in V : v < x
    BY <1>7, <2>2 DEF Swaps
  <2>4. \A x \in F, y \in V : x < y
    <3>1. ASSUME NEW x \in F, NEW y \in V PROVE x < y
      <4>1. x < v /\ v < y /\ x \in Int /\ y \in Int
        BY <1>1, <2>3
      <4>2. QED
        BY <1>1, <4>1
    <3>2. QED
      BY <3>1
  <2>5. IsTop(V, U)
    <3>1. \A x \in V, y \in U : y > x => y \in V
      <4>1. ASSUME NEW x \in V, NEW y \in F PROVE ~ (y > x)
        <5>1. y < x /\ x \in Int /\ y \in Int
          BY <1>1, <2>4
        <5>2. QED
          BY <5>1
      <4>2. QED
        BY <4>1
    <3>2. QED
      BY <2>1, <3>1 DEF IsTop
  <2>6. W = V
    BY <1>1, <1>2, <2>5, TopIsNewest
  <2>7. QED
    BY <2>1, <2>2, <2>3, <2>6
<1>8. CASE v \in W
  <2>1. ~Swaps(V, G)
    BY <1>7, <1>8
  <2>2. V \cup G = U
    BY <1>4, <1>8
  <2>3. AddVisits(V, G) = W
    <3>1. AddVisits(V, G) = Newest(MaxVisits, V \cup G)
      BY <2>1, AddVisitsSplit
    <3>2. Newest(MaxVisits, V \cup G) = Newest(MaxVisits, U)
      BY <2>2, Zenon
    <3>3. QED
      BY <1>2, <3>1, <3>2
  <2>4. QED
    BY <1>4, <1>8, <2>3 DEF AddOne, W
<1>9. CASE v \notin W /\ Cardinality(W) < MaxVisits
  <2>1. W = U
    BY <1>3, <1>4, <1>9 DEF IsTop
  <2>2. ~Swaps(V, G)
    BY <1>4, <1>7, <1>9
  <2>3. V \cup G = U \cup {v} /\ U \cup {v} \in Windows
        /\ Cardinality(U \cup {v}) = Cardinality(U) + 1
    BY <1>1, <1>9, <2>1, OneMore
  <2>4. IsTop(U \cup {v}, U \cup {v})
    BY <1>4, <1>9, <2>1, <2>3 DEF IsTop
  <2>5. AddVisits(V, G) = U \cup {v}
    BY <2>2, <2>3, <2>4, AddVisitsSplit, TopIsNewest
  <2>6. AddOne(W, v) = W \cup {v}
    BY <1>4, <1>9 DEF AddOne, MadeRoom
  <2>7. v \notin V
    BY <1>9, <2>1
  <2>8. QED
    BY <1>4, <2>1, <2>5, <2>6, <2>7 DEF W
<1>10. CASE v \notin W /\ Cardinality(W) = MaxVisits
  <2> DEFINE m == Min(W)
  <2>1. m \in W /\ \A x \in W : m <= x
    BY <1>4, <1>10, LeastOf, NoWindow
  <2>2. AddOne(W, v) = (W \ {m}) \cup {v}
    BY <1>4, <1>10 DEF AddOne, MadeRoom
  <2> HIDE DEF m
  <2>3. m \in Int /\ m # v
    BY <1>4, <1>10, <2>1
  <2>4. CASE v < m
    <3>1. \A x \in W : v < x
      <4>1. ASSUME NEW x \in W PROVE v < x
        <5>1. m <= x /\ x \in Int
          BY <1>4, <2>1
        <5>2. QED
          BY <1>1, <2>3, <2>4, <5>1
      <4>2. QED
        BY <4>1
    <3>2. v \notin V /\ W = V /\ Swaps(V, G) /\ Max(G \ V) = v
      BY <1>6, <1>10, <3>1
    <3>3. AddVisits(V, G) = (V \ {Min(V)}) \cup {v}
      BY <3>2, AddVisitsSplit
    <3>4. QED
      BY <1>4, <2>2, <3>2, <3>3 DEF m, W
  <2>5. CASE v > m
    <3>1. ~Swaps(V, G)
      <4>1. ~ (v < m)
        BY <1>1, <2>3, <2>5
      <4>2. QED
        BY <1>7, <2>1, <4>1
    <3>2. v \notin U
      BY <1>3, <1>10, <2>1, <2>5 DEF IsTop
    <3> DEFINE X == (W \ {m}) \cup {v}
    <3>3. V \cup G = U \cup {v} /\ U \cup {v} \in Windows
      BY <1>1 DEF Windows
    <3>4. IsTop(X, U \cup {v})
      <4>1. X \subseteq U \cup {v}
        BY <1>4
      <4>2. Cardinality(X) = MaxVisits
        <5>1. W \ {m} \in Windows /\ Cardinality(W \ {m}) = Cardinality(W) - 1
          BY <1>4, <2>1, OneLess
        <5>2. Cardinality(X) = Cardinality(W \ {m}) + 1
          BY <1>10, <5>1, OneMore
        <5>3. QED
          BY <1>4, <1>10, <5>1, <5>2
      <4>3. ASSUME NEW x \in X, NEW y \in U \cup {v}, y > x PROVE y \in X
        <5>1. x \in Int /\ y \in Int
          BY <1>1, <1>4
        <5>2. x >= m
          BY <1>1, <1>4, <2>1, <2>3, <2>5
        <5>3. y > m
          BY <2>3, <4>3, <5>1, <5>2
        <5>4. y # m
          BY <2>3, <5>1, <5>3
        <5>5. y \in U => y \in W
          BY <1>3, <2>1, <5>3 DEF IsTop
        <5>6. QED
          BY <5>4, <5>5
      <4>4. QED
        BY <1>4, <4>1, <4>2, <4>3 DEF IsTop
    <3>5. AddVisits(V, G) = X
      BY <3>1, <3>3, <3>4, AddVisitsSplit, TopIsNewest
    <3>6. QED
      BY <1>4, <2>2, <3>2, <3>5 DEF W
  <2>6. QED
    BY <1>1, <2>3, <2>4, <2>5
<1>11. QED
  BY <1>4, <1>8, <1>9, <1>10

\* The window that swapped: its oldest record made way for a still older one.
LEMMA AddOneSwapped ==
  ASSUME NEW V \in Windows, NEW F \in Windows,
         NEW v \in Stamps, \A x \in F : x < v, Swaps(V, F)
  PROVE  LET W == AddVisits(V, F)
             G == F \cup {v}
         IN  /\ AddVisits(V, G) = AddOne(W, v)
             /\ v \in V => (v \notin W <=> v = Min(V))
             /\ W \in Windows /\ Cardinality(W) = MaxVisits /\ W \subseteq V \cup F
<1> DEFINE W == AddVisits(V, F)
           G == F \cup {v}
           new == F \ V
           m == Min(V)
           n == Max(new)
<1>1. /\ V \in SUBSET Int /\ F \in SUBSET Int /\ v \in Int /\ new \in Windows
      /\ MaxVisits \in Nat \ {0} /\ Cardinality(V) = MaxVisits /\ V # {} /\ v \notin F
  <2>1. V \in SUBSET Int /\ F \in SUBSET Int /\ v \in Int /\ new \in Windows
    BY WindowIsFinite, Bounds DEF Windows, Stamps
  <2>2. MaxVisits \in Nat \ {0} /\ Cardinality(V) = MaxVisits
    BY Bounds DEF Swaps
  <2>3. QED
    BY <2>1, <2>2, NoWindow
<1>2. m \in V /\ \A y \in V : m <= y
  BY <1>1, LeastOf
<1>3. n \in new /\ \A y \in new : y <= n
  BY <1>1, LatestOf DEF Swaps
<1>4. W = (V \ {m}) \cup {n}
  BY AddVisitsSplit
<1>5. \A x \in new, y \in V : x < y
  BY DEF Swaps
<1>6. m \notin F
  <2>1. SUFFICES ASSUME m \in F PROVE FALSE
    OBVIOUS
  <2>2. PICK z \in V : z < m
    BY <1>2, <2>1 DEF Swaps
  <2>3. m <= z /\ z \in Int /\ m \in Int
    BY <1>1, <1>2
  <2>4. QED
    BY <2>2, <2>3
<1> HIDE DEF W, m, n
<1>7. n \in Int /\ m \in Int /\ n \in F /\ n \notin V /\ n < m /\ n # v
  BY <1>1, <1>2, <1>3, <1>5
<1>8. W \in Windows /\ Cardinality(W) = MaxVisits /\ W \subseteq V \cup F
  <2>1. V \ {m} \in Windows /\ Cardinality(V \ {m}) = MaxVisits - 1
    BY <1>1, <1>2, OneLess
  <2>2. n \in Stamps /\ n \notin V \ {m}
    BY <1>7 DEF Windows
  <2>3. W \in Windows /\ Cardinality(W) = (MaxVisits - 1) + 1
    BY <1>4, <2>1, <2>2, OneMore
  <2>4. QED
    BY <1>1, <1>4, <1>7, <2>3
<1>9. Min(W) = n
  <2>1. n \in W
    BY <1>4
  <2>2. ASSUME NEW y \in W PROVE n <= y
    <3>1. CASE y \in V
      <4>1. m <= y /\ y \in Int
        BY <1>1, <1>2, <3>1
      <4>2. QED
        BY <1>7, <4>1
    <3>2. CASE y = n
      BY <1>7, <3>2
    <3>3. QED
      BY <1>4, <3>1, <3>2
  <2>3. QED
    BY <1>8, <2>1, <2>2, LeastIs
<1>10. v \notin W => AddOne(W, v) = (W \ {n}) \cup {v}
  BY <1>1, <1>8, <1>9 DEF AddOne, MadeRoom
<1>11. v \in V => (v \notin W <=> v = m)
  BY <1>4, <1>7
\* The records offered and new, v left out, all lie before the window.
<1>12. CASE v \in V /\ v # m
  <2>1. G \ V = new
    BY <1>12
  <2>2. \A y \in V \cap G : \E z \in V : z < y
    <3>1. m < v
      <4>1. m <= v
        BY <1>2, <1>12
      <4>2. QED
        BY <1>1, <1>7, <1>12, <4>1
    <3>2. ASSUME NEW y \in V \cap G PROVE \E z \in V : z < y
      <4>1. CASE y = v
        BY <1>2, <3>1, <4>1
      <4>2. CASE y \in F
        BY <4>2 DEF Swaps
      <4>3. QED
        BY <4>1, <4>2
    <3>3. QED
      BY <3>2
  <2>3. Swaps(V, G)
    BY <1>1, <1>3, <1>5, <2>1, <2>2 DEF Swaps
  <2>4. AddVisits(V, G) = (V \ {Min(V)}) \cup {Max(G \ V)}
    BY <2>3, AddVisitsSplit
  <2>5. AddVisits(V, G) = W
    BY <1>4, <2>1, <2>4 DEF m, n
  <2>6. v \in W
    BY <1>11, <1>12
  <2>7. QED
    BY <1>8, <1>11, <2>5, <2>6 DEF AddOne, W, m
<1>13. CASE v \in V /\ v = m
  <2>1. F \cap V = {}
    <3>1. SUFFICES ASSUME NEW x \in F, x \in V PROVE FALSE
      OBVIOUS
    <3>2. x < v /\ m <= x /\ x \in Int
      BY <1>1, <1>2, <3>1
    <3>3. QED
      BY <1>7, <1>13, <3>2
  <2>2. ~Swaps(V, G)
    <3>1. SUFFICES ASSUME Swaps(V, G) PROVE FALSE
      OBVIOUS
    <3>2. PICK z \in V : z < v
      BY <1>13, <3>1 DEF Swaps
    <3>3. m <= z /\ z \in Int
      BY <1>1, <1>2
    <3>4. QED
      BY <1>7, <1>13, <3>2, <3>3
  <2>3. V \cup G \in Windows
    <3>1. G \in Windows
      BY DEF Windows
    <3>2. QED
      BY <3>1 DEF Windows
  <2>4. IsTop(V, V \cup G)
    <3>1. ASSUME NEW x \in V, NEW y \in V \cup G, y > x PROVE y \in V
      <4>1. SUFFICES ASSUME y \notin V PROVE FALSE
        OBVIOUS
      <4>2. y \in new
        BY <1>13, <4>1
      <4>3. y < x /\ y \in Int /\ x \in Int
        BY <1>1, <1>5, <4>2
      <4>4. QED
        BY <3>1, <4>3
    <3>2. Cardinality(V) <= MaxVisits
      BY <1>1
    <3>3. QED
      BY <1>1, <3>1, <3>2 DEF IsTop
  <2>5. AddVisits(V, G) = V
    BY <2>2, <2>3, <2>4, AddVisitsSplit, TopIsNewest
  <2>6. AddOne(W, v) = (W \ {n}) \cup {v}
    BY <1>10, <1>11, <1>13
  <2>7. (W \ {n}) \cup {v} = V
    BY <1>2, <1>4, <1>7, <1>13
  <2>8. QED
    BY <1>8, <1>11, <2>5, <2>6, <2>7 DEF W, m
<1>14. CASE v \notin V
  <2>1. v \notin W
    BY <1>4, <1>7, <1>14
  <2>2. AddOne(W, v) = (V \ {m}) \cup {v}
    BY <1>4, <1>7, <1>10, <2>1
  <2>3. G \ V = new \cup {v} /\ V \cap G = V \cap F
    BY <1>14
  <2>4. CASE v < m
    <3>1. \A x \in G \ V, y \in V : x < y
      <4>1. ASSUME NEW y \in V PROVE v < y
        <5>1. m <= y /\ y \in Int
          BY <1>1, <1>2
        <5>2. QED
          BY <1>1, <1>7, <2>4, <5>1
      <4>2. QED
        BY <1>5, <2>3, <4>1
    <3>2. Swaps(V, G)
      BY <2>3, <3>1 DEF Swaps
    <3>3. Max(G \ V) = v
      <4>1. G \ V \in Windows /\ v \in G \ V
        BY <2>3 DEF Windows
      <4>2. \A y \in G \ V : y <= v
        BY <1>1, <2>3
      <4>3. QED
        BY <4>1, <4>2, LatestIs
    <3>4. AddVisits(V, G) = (V \ {m}) \cup {v}
      BY <3>2, <3>3, AddVisitsSplit DEF m
    <3>5. QED
      BY <1>8, <1>14, <2>2, <3>4 DEF W
  <2>5. CASE ~ (v < m)
    <3> DEFINE X == (V \ {m}) \cup {v}
    <3>1. ~Swaps(V, G)
      BY <1>2, <2>3, <2>5 DEF Swaps
    <3>2. V \cup G \in Windows
      <4>1. G \in Windows
        BY DEF Windows
      <4>2. QED
        BY <4>1 DEF Windows
    <3>3. m < v
      BY <1>1, <1>2, <1>7, <1>14, <2>5
    <3>4. IsTop(X, V \cup G)
      <4>1. Cardinality(X) = MaxVisits
        <5>1. V \ {m} \in Windows /\ Cardinality(V \ {m}) = MaxVisits - 1
          BY <1>1, <1>2, OneLess
        <5>2. Cardinality(X) = (MaxVisits - 1) + 1
          BY <1>14, <5>1, OneMore
        <5>3. QED
          BY <1>1, <5>2
      <4>2. ASSUME NEW x \in X, NEW y \in V \cup G, y > x PROVE y \in X
        <5>1. x \in Int /\ y \in Int
          BY <1>1
        <5>2. x > m
          <6>1. CASE x = v
            BY <3>3, <6>1
          <6>2. CASE x \in V \ {m}
            <7>1. m <= x
              BY <1>2, <6>2
            <7>2. QED
              BY <1>7, <5>1, <6>2, <7>1
          <6>3. QED
            BY <6>1, <6>2
        <5>3. y > m
          BY <1>7, <4>2, <5>1, <5>2
        <5>4. y \notin new
          <6>1. y \in new => y < m
            BY <1>2, <1>5
          <6>2. QED
            BY <1>7, <5>1, <5>3, <6>1
        <5>5. y # m
          BY <1>7, <5>1, <5>3
        <5>6. QED
          BY <5>4, <5>5
      <4>3. X \subseteq V \cup G /\ Cardinality(X) <= MaxVisits
        BY <1>1, <4>1
      <4>4. QED
        BY <4>1, <4>2, <4>3 DEF IsTop
    <3>5. AddVisits(V, G) = X
      BY <3>1, <3>2, <3>4, AddVisitsSplit, TopIsNewest
    <3>6. QED
      BY <1>8, <1>14, <2>2, <3>5 DEF W
  <2>6. QED
    BY <2>4, <2>5
<1>15. QED
  BY <1>12, <1>13, <1>14

\* The one held whose turn comes when it has just been pushed out.
Returns(V, F, y) ==
  /\ Cardinality(V) = MaxVisits
  /\ \A z \in V : y <= z
  /\ \E x \in F \ V : x < y

LEMMA InsertedIs ==
  ASSUME NEW V, NEW F
  PROVE  /\ Inserted(V, F) = (F \ V) \cup {y \in V \cap F : Returns(V, F, y)}
         /\ Inserted(V, F) \subseteq F
BY DEF Inserted, Returns

InsertedWith(V, F, v) ==
  Inserted(V, F) \cup (IF v \in AddVisits(V, F) THEN {} ELSE {v})

LEMMA OfferOne ==
  ASSUME NEW V \in Windows, NEW F \in Windows, Cardinality(V) <= MaxVisits,
         NEW v \in Stamps, \A x \in F : x < v
  PROVE  /\ AddVisits(V, F \cup {v}) = AddOne(AddVisits(V, F), v)
         /\ Inserted(V, F \cup {v}) = InsertedWith(V, F, v)
         /\ AddVisits(V, F) \in Windows /\ Cardinality(AddVisits(V, F)) <= MaxVisits
<1> DEFINE W == AddVisits(V, F)
           G == F \cup {v}
<1>1. /\ V \in SUBSET Int /\ F \in SUBSET Int /\ v \in Int /\ v \notin F
      /\ MaxVisits \in Nat \ {0}
  <2>1. V \in SUBSET Int /\ F \in SUBSET Int /\ v \in Int
    BY WindowIsFinite, Bounds DEF Stamps
  <2>2. QED
    BY <2>1, Bounds
<1>2. /\ AddVisits(V, G) = AddOne(W, v) /\ W \subseteq V \cup F
      /\ W \in Windows /\ Cardinality(W) <= MaxVisits
  <2>1. CASE Swaps(V, F)
    BY <1>1, <2>1, AddOneSwapped
  <2>2. CASE ~Swaps(V, F)
    BY <2>2, AddOneOrdinary
  <2>3. QED
    BY <2>1, <2>2
<1>3. v \in V => (v \notin W <=> Returns(V, F, v))
  <2>1. SUFFICES ASSUME v \in V PROVE v \notin W <=> Returns(V, F, v)
    OBVIOUS
  <2>2. CASE Swaps(V, F)
    <3>1. v \notin W <=> v = Min(V)
      BY <2>1, <2>2, AddOneSwapped
    <3>2. Min(V) \in V /\ \A y \in V : Min(V) <= y
      BY <2>1, LeastOf
    <3>3. v = Min(V) => Returns(V, F, v)
      <4>1. \E x \in F \ V : x < v
        BY <2>1, <2>2 DEF Swaps
      <4>2. QED
        BY <2>2, <3>2, <4>1 DEF Swaps, Returns
    <3>4. Returns(V, F, v) => v = Min(V)
      BY <2>1, LeastIs DEF Returns
    <3>5. QED
      BY <3>1, <3>3, <3>4
  <2>3. CASE ~Swaps(V, F)
    <3>1. v \in W
      BY <2>1, <2>3, AddOneOrdinary
    <3>2. ASSUME Returns(V, F, v) PROVE FALSE
      <4>1. \A x \in F, y \in V : x < y
        <5>1. ASSUME NEW x \in F, NEW y \in V PROVE x < y
          <6>1. x < v /\ v <= y /\ x \in Int /\ y \in Int
            BY <1>1, <3>2 DEF Returns
          <6>2. QED
            BY <1>1, <6>1
        <5>2. QED
          BY <5>1
      <4>2. V \cap F = {}
        <5>1. ASSUME NEW x \in F, x \in V PROVE FALSE
          <6>1. x < x /\ x \in Int
            BY <1>1, <4>1, <5>1
          <6>2. QED
            BY <6>1
        <5>2. QED
          BY <5>1
      <4>3. Swaps(V, F)
        BY <3>2, <4>1, <4>2 DEF Swaps, Returns
      <4>4. QED
        BY <2>3, <4>3
    <3>3. QED
      BY <3>1, <3>2
  <2>4. QED
    BY <2>2, <2>3
<1>4. \A y \in V \cap F : Returns(V, G, y) <=> Returns(V, F, y)
  <2>1. ASSUME NEW y \in V \cap F
        PROVE  (\E x \in G \ V : x < y) <=> (\E x \in F \ V : x < y)
    <3>1. ~ (v < y)
      <4>1. y < v /\ y \in Int
        BY <1>1
      <4>2. QED
        BY <1>1, <4>1
    <3>2. QED
      BY <3>1
  <2>2. QED
    BY <2>1 DEF Returns
<1>5. CASE v \notin V
  <2>1. G \ V = (F \ V) \cup {v} /\ V \cap G = V \cap F /\ v \notin W
    BY <1>1, <1>2, <1>5
  <2>2. {y \in V \cap G : Returns(V, G, y)} = {y \in V \cap F : Returns(V, F, y)}
    BY <1>4, <2>1
  <2>3. Inserted(V, G) = Inserted(V, F) \cup {v}
    <3>1. Inserted(V, G) = (G \ V) \cup {y \in V \cap G : Returns(V, G, y)}
      BY InsertedIs
    <3>2. Inserted(V, F) = (F \ V) \cup {y \in V \cap F : Returns(V, F, y)}
      BY InsertedIs
    <3>3. Inserted(V, G) = ((F \ V) \cup {v}) \cup {y \in V \cap F : Returns(V, F, y)}
      BY <2>1, <2>2, <3>1
    <3>4. QED
      BY <3>2, <3>3
  <2>4. QED
    BY <1>2, <2>1, <2>3 DEF InsertedWith
<1>6. CASE v \in V
  <2>1. G \ V = F \ V /\ V \cap G = (V \cap F) \cup {v}
    BY <1>6
  <2>2. Returns(V, G, v) <=> Returns(V, F, v)
    BY <2>1 DEF Returns
  <2>3. {y \in V \cap G : Returns(V, G, y)}
          = {y \in V \cap F : Returns(V, F, y)} \cup (IF Returns(V, F, v) THEN {v} ELSE {})
    BY <1>4, <2>1, <2>2
  <2>4. Inserted(V, G) = Inserted(V, F) \cup (IF Returns(V, F, v) THEN {v} ELSE {})
    BY <2>1, <2>3, InsertedIs
  <2>5. QED
    BY <1>2, <1>3, <1>6, <2>4 DEF InsertedWith
<1>7. QED
  BY <1>5, <1>6

\* The time of the last drink after F has been offered.
LastAfter(V, F, last) ==
  IF \E v \in Inserted(V, F) : v > last THEN Max(Inserted(V, F)) ELSE last

LEMMA LastNone ==
  ASSUME NEW V \in Windows, Cardinality(V) <= MaxVisits, NEW last \in Nat
  PROVE  LastAfter(V, {}, last) = last
BY AddVisitsNone DEF LastAfter

LEMMA OfferLast ==
  ASSUME NEW V \in Windows, NEW F \in Windows, Cardinality(V) <= MaxVisits,
         NEW v \in Stamps, \A x \in F : x < v, NEW last \in Nat
  PROVE  /\ LastAfter(V, F \cup {v}, last)
              = IF v \in AddVisits(V, F) THEN LastAfter(V, F, last)
                ELSE Latest(LastAfter(V, F, last), v)
         /\ LastAfter(V, F, last) \in Nat
<1> DEFINE I == Inserted(V, F)
           J == Inserted(V, F \cup {v})
           before == LastAfter(V, F, last)
<1>1. J = I \cup (IF v \in AddVisits(V, F) THEN {} ELSE {v})
  <2>1. Inserted(V, F \cup {v}) = InsertedWith(V, F, v)
    BY OfferOne
  <2>2. QED
    BY <2>1 DEF InsertedWith
<1>2. I \in Windows /\ I \subseteq F
  BY InsertedIs DEF Windows
<1>3. v \in Int /\ \A x \in I : x < v /\ x \in Int
  BY <1>2, WindowIsFinite, Bounds DEF Stamps
<1>4. /\ before = IF \E x \in I : x > last THEN Max(I) ELSE last
      /\ LastAfter(V, F \cup {v}, last) = IF \E x \in J : x > last THEN Max(J) ELSE last
  BY DEF LastAfter
<1> HIDE DEF I, J, before
<1>5. (\E x \in I : x > last) => before \in I
  BY <1>2, <1>4, LatestOf
<1>6. before \in Nat
  BY <1>2, <1>4, <1>5, WindowIsFinite
<1>7. CASE v \in AddVisits(V, F)
  BY <1>1, <1>4, <1>6, <1>7 DEF before
<1>8. CASE v \notin AddVisits(V, F)
  <2>1. J = I \cup {v} /\ J \in Windows
    BY <1>1, <1>2, <1>8 DEF Windows
  <2>2. Max(J) = v
    <3>1. v \in J /\ \A x \in J : x <= v
      BY <1>3, <2>1
    <3>2. QED
      BY <2>1, <3>1, LatestIs
  <2>3. CASE \E x \in I : x > last
    <3>1. before < v
      BY <1>3, <1>5, <2>3
    <3>2. \E x \in J : x > last
      BY <2>1, <2>3
    <3>3. LastAfter(V, F \cup {v}, last) = v /\ Latest(before, v) = v
      BY <1>3, <1>4, <1>6, <2>2, <3>1, <3>2 DEF Latest
    <3>4. QED
      BY <1>6, <1>8, <3>3 DEF before
  <2>4. CASE ~ \E x \in I : x > last
    <3>1. before = last
      BY <1>4, <2>4
    <3>2. (\E x \in J : x > last) <=> v > last
      BY <2>1, <2>4
    <3>3. LastAfter(V, F \cup {v}, last) = IF v > last THEN v ELSE last
      BY <1>4, <2>2, <3>2
    <3>4. QED
      BY <1>6, <1>8, <3>1, <3>3 DEF Latest, before
  <2>5. QED
    BY <2>3, <2>4
<1>9. QED
  BY <1>7, <1>8

-----------------------------------------------------------------------------
(* The array *)

Series == Seq(Stamps)
Rising(s) == \A i, j \in 1..Len(s) : i < j => s[i] < s[j]
Held(s) == {s[i] : i \in 1..Len(s)}

LEMMA SeriesIs ==
  ASSUME NEW s \in Series
  PROVE  /\ Len(s) \in Nat /\ DOMAIN s = 1..Len(s)
         /\ \A i \in 1..Len(s) : s[i] \in Stamps /\ s[i] \in Int
         /\ ToSet(s) = Held(s) /\ Held(s) \in Windows
<1>1. Len(s) \in Nat /\ DOMAIN s = 1..Len(s) /\ \A i \in 1..Len(s) : s[i] \in Stamps
  BY DEF Series
<1>2. \A x \in Stamps : x \in Int
  BY Bounds DEF Stamps
<1>3. ToSet(s) = Held(s) /\ Held(s) \in Windows
  BY <1>1 DEF ToSet, Held, Windows
<1>4. QED
  BY <1>1, <1>2, <1>3

LEMMA RisingHolds ==
  ASSUME NEW s \in Series, Rising(s)
  PROVE  /\ Cardinality(Held(s)) = Len(s)
         /\ Len(s) > 0 => Min(Held(s)) = s[1]
         /\ \A i, j \in 1..Len(s) : s[i] = s[j] => i = j
<1>1. Len(s) \in Nat /\ \A i \in 1..Len(s) : s[i] \in Int
  BY SeriesIs
<1>2. ASSUME NEW i \in 1..Len(s), NEW j \in 1..Len(s), s[i] = s[j] PROVE i = j
  <2>1. i < j => s[i] < s[j]
    BY DEF Rising
  <2>2. j < i => s[j] < s[i]
    BY DEF Rising
  <2>3. s[i] \in Int
    BY <1>1
  <2>4. QED
    BY <1>1, <1>2, <2>1, <2>2, <2>3
<1>3. Cardinality(Held(s)) = Len(s)
  <2> DEFINE f == [i \in 1..Len(s) |-> s[i]]
  <2>1. f \in Bijection(1..Len(s), Held(s))
    <3>1. f \in [1..Len(s) -> Held(s)]
      BY DEF Held
    <3>2. \A i, j \in 1..Len(s) : f[i] = f[j] => i = j
      BY <1>2
    <3>3. \A x \in Held(s) : \E i \in 1..Len(s) : f[i] = x
      BY DEF Held
    <3> HIDE DEF f
    <3>4. f \in Injection(1..Len(s), Held(s)) /\ f \in Surjection(1..Len(s), Held(s))
      BY <3>1, <3>2, <3>3 DEF Injection, Surjection, IsInjective
    <3>5. QED
      BY <3>4 DEF Bijection
  <2>2. ExistsBijection(1..Len(s), Held(s))
    BY <2>1 DEF ExistsBijection
  <2>3. IsFiniteSet(1..Len(s)) /\ Cardinality(1..Len(s)) = Len(s)
    BY <1>1, FS_Interval
  <2>4. QED
    BY <2>2, <2>3, FS_Bijection
<1>4. ASSUME Len(s) > 0 PROVE Min(Held(s)) = s[1]
  <2>1. 1 \in 1..Len(s)
    BY <1>1, <1>4
  <2>2. ASSUME NEW i \in 1..Len(s) PROVE s[1] <= s[i]
    <3>1. 1 < i => s[1] < s[i]
      BY <2>1 DEF Rising
    <3>2. i = 1 \/ 1 < i
      BY <1>1
    <3>3. s[1] \in Int /\ s[i] \in Int
      BY <1>1, <2>1
    <3>4. QED
      BY <3>1, <3>2, <3>3
  <2>3. s[1] \in Held(s) /\ \A y \in Held(s) : s[1] <= y
    BY <2>1, <2>2 DEF Held
  <2>4. QED
    BY <2>3, SeriesIs, LeastIs
<1>5. QED
  BY <1>2, <1>3, <1>4

\* memmove drops the oldest record of a full list, and nothing else.
LEMMA MakeRoomDoes ==
  ASSUME NEW s \in Series, Rising(s), Len(s) <= MaxVisits
  PROVE  /\ MakeRoom(s) \in Series /\ Rising(MakeRoom(s)) /\ Len(MakeRoom(s)) < MaxVisits
         /\ Held(MakeRoom(s)) = MadeRoom(Held(s))
<1>1. /\ Len(s) \in Nat /\ Cardinality(Held(s)) = Len(s)
      /\ \A i \in 1..Len(s) : s[i] \in Int
      /\ MaxVisits \in Nat \ {0}
  BY SeriesIs, RisingHolds, Bounds
<1>2. CASE Len(s) >= MaxVisits
  <2> DEFINE r == Tail(s)
  <2>1. MakeRoom(s) = r /\ MadeRoom(Held(s)) = Held(s) \ {s[1]} /\ Len(s) > 0
    BY <1>1, <1>2, RisingHolds DEF MakeRoom, MadeRoom
  <2>2. s # <<>>
    BY <2>1
  <2>3. /\ r \in Series /\ Len(r) = Len(s) - 1
        /\ \A i \in 1..Len(r) : r[i] = s[i + 1]
    BY <2>2, HeadTailProperties DEF Series
  <2> HIDE DEF r
  <2>4. Rising(r)
    <3>1. ASSUME NEW i \in 1..Len(r), NEW j \in 1..Len(r), i < j PROVE r[i] < r[j]
      <4>1. i + 1 \in 1..Len(s) /\ j + 1 \in 1..Len(s) /\ i + 1 < j + 1
        BY <1>1, <2>3, <3>1
      <4>2. s[i + 1] < s[j + 1]
        BY <4>1 DEF Rising
      <4>3. QED
        BY <2>3, <4>2
    <3>2. QED
      BY <3>1 DEF Rising
  <2>5. Held(r) = Held(s) \ {s[1]}
    <3>1. ASSUME NEW i \in 1..Len(r) PROVE r[i] \in Held(s) \ {s[1]}
      <4>1. i + 1 \in 1..Len(s) /\ 1 \in 1..Len(s) /\ i + 1 # 1
        BY <1>1, <2>3
      <4>2. s[i + 1] # s[1]
        BY <4>1, RisingHolds
      <4>3. QED
        BY <2>3, <4>1, <4>2 DEF Held
    <3>2. ASSUME NEW i \in 1..Len(s), s[i] # s[1] PROVE s[i] \in Held(r)
      <4>1. i - 1 \in 1..Len(r) /\ (i - 1) + 1 = i
        BY <1>1, <2>3, <3>2
      <4>2. QED
        BY <2>3, <4>1 DEF Held
    <3>3. QED
      BY <3>1, <3>2 DEF Held
  <2>6. Len(r) < MaxVisits
    BY <1>1, <2>3
  <2>7. QED
    BY <2>1, <2>3, <2>4, <2>5, <2>6
<1>3. CASE ~ (Len(s) >= MaxVisits)
  <2>1. MakeRoom(s) = s /\ MadeRoom(Held(s)) = Held(s)
    BY <1>1, <1>3 DEF MakeRoom, MadeRoom
  <2>2. Len(s) < MaxVisits
    BY <1>1, <1>3
  <2>3. QED
    BY <2>1, <2>2
<1>4. QED
  BY <1>2, <1>3

\* Where the shifting loop stops: behind everything earlier than v.
Place(r, v) == SelectLastInSeq(r, LAMBDA x : x <= v)

LEMMA PlaceIs ==
  ASSUME NEW r \in Series, Rising(r), NEW v \in Stamps, v \notin Held(r)
  PROVE  /\ Place(r, v) \in 0..Len(r)
         /\ \A i \in 1..Len(r) : IF i <= Place(r, v) THEN r[i] < v ELSE v < r[i]
<1> DEFINE I == {i \in 1..Len(r) : r[i] <= v}
           p == Place(r, v)
<1>1. Len(r) \in Nat /\ (\A i \in 1..Len(r) : r[i] \in Int /\ r[i] # v) /\ v \in Int
  <2>1. Len(r) \in Nat /\ \A i \in 1..Len(r) : r[i] \in Int
    BY SeriesIs
  <2>2. \A i \in 1..Len(r) : r[i] # v
    BY DEF Held
  <2>3. v \in Int
    BY Bounds DEF Stamps
  <2>4. QED
    BY <2>1, <2>2, <2>3
<1>2. p = IF I # {} THEN Max(I) ELSE 0
  BY DEF Place, SelectLastInSeq
<1> HIDE DEF p
<1>3. CASE I # {}
  <2>1. I \in SUBSET Nat /\ \A i \in I : i <= Len(r)
    BY <1>1
  <2>2. Max(I) \in I /\ \A i \in I : i <= Max(I)
    BY <1>1, <1>3, <2>1, MaxOfBounded
  <2>3. p \in 1..Len(r) /\ r[p] <= v /\ \A i \in I : i <= p
    BY <1>2, <1>3, <2>2
  <2>4. ASSUME NEW i \in 1..Len(r) PROVE IF i <= p THEN r[i] < v ELSE v < r[i]
    <3>1. CASE i <= p
      <4>1. i < p => r[i] < r[p]
        BY <2>3 DEF Rising
      <4>2. i = p \/ i < p
        BY <1>1, <2>3, <3>1
      <4>3. r[i] <= v
        BY <1>1, <2>3, <4>1, <4>2
      <4>4. QED
        BY <1>1, <3>1, <4>3
    <3>2. CASE ~ (i <= p)
      <4>1. i \notin I
        BY <2>3, <3>2
      <4>2. QED
        BY <1>1, <3>2, <4>1
    <3>3. QED
      BY <3>1, <3>2
  <2>5. QED
    BY <1>1, <2>3, <2>4 DEF p
<1>4. CASE I = {}
  <2>1. p = 0
    BY <1>2, <1>4
  <2>2. ASSUME NEW i \in 1..Len(r) PROVE ~ (i <= p) /\ v < r[i]
    <3>1. ~ (r[i] <= v) /\ r[i] \in Int
      BY <1>1, <1>4
    <3>2. ~ (i <= p)
      BY <1>1, <2>1
    <3>3. QED
      BY <1>1, <3>1, <3>2
  <2>3. QED
    BY <1>1, <2>1, <2>2 DEF p
<1>5. QED
  BY <1>3, <1>4

LEMMA InsertAtIs ==
  ASSUME NEW r \in Series, NEW v \in Stamps, NEW p \in 0..Len(r)
  PROVE  LET q == InsertAt(r, p + 1, v)
         IN  /\ q \in Series /\ Len(q) = Len(r) + 1
             /\ \A i \in 1..p : q[i] = r[i]
             /\ q[p + 1] = v
             /\ \A i \in (p + 1)..Len(r) : q[i + 1] = r[i]
<1> DEFINE a == SubSeq(r, 1, p)
           b == SubSeq(r, p + 1, Len(r))
           av == a \o <<v>>
           q == InsertAt(r, p + 1, v)
<1>1. Len(r) \in Nat /\ \A i \in 1..Len(r) : r[i] \in Stamps
  BY SeriesIs
<1>2. p \in Nat /\ p <= Len(r)
  BY <1>1
<1>3. q = av \o b
  <2>1. (p + 1) - 1 = p
    BY <1>2
  <2>2. q = SubSeq(r, 1, (p + 1) - 1) \o <<v>> \o SubSeq(r, p + 1, Len(r))
    BY DEF InsertAt
  <2>3. QED
    BY <2>1, <2>2
<1>4. a \in Seq(Stamps) /\ Len(a) = p /\ \A i \in 1..p : a[i] = r[i]
  <2>1. \A i \in 1..p : r[i] \in Stamps
    BY <1>1, <1>2
  <2>2. /\ a \in Seq(Stamps) /\ Len(a) = IF 1 <= p THEN p - 1 + 1 ELSE 0
        /\ \A i \in 1..(p - 1 + 1) : a[i] = r[1 + i - 1]
    BY <1>2, <2>1, SubSeqProperties
  <2>3. p - 1 + 1 = p /\ \A i \in 1..p : 1 + i - 1 = i
    BY <1>2
  <2>4. QED
    BY <1>2, <2>2, <2>3
<1>5. b \in Seq(Stamps) /\ Len(b) = Len(r) - p /\ \A i \in 1..(Len(r) - p) : b[i] = r[p + i]
  <2>1. \A i \in (p + 1)..Len(r) : r[i] \in Stamps
    BY <1>1, <1>2
  <2>2. /\ b \in Seq(Stamps)
        /\ Len(b) = IF p + 1 <= Len(r) THEN Len(r) - (p + 1) + 1 ELSE 0
        /\ \A i \in 1..(Len(r) - (p + 1) + 1) : b[i] = r[(p + 1) + i - 1]
    BY <1>1, <1>2, <2>1, SubSeqProperties
  <2>3. Len(r) - (p + 1) + 1 = Len(r) - p
    BY <1>1, <1>2
  <2>4. Len(b) = Len(r) - p
    BY <1>1, <1>2, <2>2
  <2>5. ASSUME NEW i \in 1..(Len(r) - p) PROVE b[i] = r[p + i]
    <3>1. (p + 1) + i - 1 = p + i
      BY <1>1, <1>2
    <3>2. b[i] = r[(p + 1) + i - 1]
      BY <2>2, <2>3
    <3>3. QED
      BY <3>1, <3>2
  <2>6. QED
    BY <2>2, <2>4, <2>5
<1>6. <<v>> \in Seq(Stamps) /\ Len(<<v>>) = 1 /\ <<v>>[1] = v
  OBVIOUS
<1> HIDE DEF a, b, q
<1>7. av \in Seq(Stamps) /\ Len(av) = p + 1 /\ av[p + 1] = v /\ \A i \in 1..p : av[i] = r[i]
  <2>1. /\ av \in Seq(Stamps) /\ Len(av) = p + 1
        /\ \A i \in 1..(p + 1) : av[i] = IF i <= p THEN a[i] ELSE <<v>>[i - p]
    BY <1>4, <1>6, ConcatProperties
  <2>2. (p + 1) - p = 1 /\ ~ (p + 1 <= p) /\ p + 1 \in 1..(p + 1)
    BY <1>2
  <2>3. \A i \in 1..p : i \in 1..(p + 1) /\ i <= p
    BY <1>2
  <2>4. QED
    BY <1>4, <1>6, <2>1, <2>2, <2>3
<1> HIDE DEF av
<1>8. /\ q \in Seq(Stamps) /\ Len(q) = (p + 1) + (Len(r) - p)
      /\ \A i \in 1..((p + 1) + (Len(r) - p)) :
           q[i] = IF i <= p + 1 THEN av[i] ELSE b[i - (p + 1)]
  <2>1. /\ av \o b \in Seq(Stamps) /\ Len(av \o b) = Len(av) + Len(b)
        /\ \A i \in 1..(Len(av) + Len(b)) :
             (av \o b)[i] = IF i <= Len(av) THEN av[i] ELSE b[i - Len(av)]
    BY <1>5, <1>7, ConcatProperties
  <2>2. Len(av) = p + 1 /\ Len(b) = Len(r) - p
    BY <1>5, <1>7
  <2>3. QED
    BY ONLY <1>3, <2>1, <2>2, Zenon
<1>9. (p + 1) + (Len(r) - p) = Len(r) + 1
  BY <1>1, <1>2
<1>10. ASSUME NEW i \in 1..(p + 1) PROVE q[i] = av[i]
  BY <1>1, <1>2, <1>8, <1>9
<1>11. ASSUME NEW i \in (p + 1)..Len(r) PROVE q[i + 1] = r[i]
  <2>1. /\ i + 1 \in 1..(Len(r) + 1) /\ ~ (i + 1 <= p + 1)
        /\ (i + 1) - (p + 1) = i - p /\ i - p \in 1..(Len(r) - p) /\ p + (i - p) = i
    BY <1>1, <1>2
  <2>2. q[i + 1] = b[i - p]
    BY <1>8, <1>9, <2>1
  <2>3. QED
    BY <1>5, <2>1, <2>2
<1>12. q[p + 1] = v /\ \A i \in 1..p : q[i] = r[i]
  BY <1>2, <1>7, <1>10
<1>13. QED
  BY <1>8, <1>9, <1>11, <1>12 DEF q, Series

\* The shifting loop puts the new record where it belongs.
LEMMA InsertDoes ==
  ASSUME NEW r \in Series, Rising(r), NEW v \in Stamps, v \notin Held(r)
  PROVE  /\ InsertVisit(r, v) \in Series /\ Rising(InsertVisit(r, v))
         /\ Len(InsertVisit(r, v)) = Len(r) + 1
         /\ Held(InsertVisit(r, v)) = Held(r) \cup {v}
<1> DEFINE p == Place(r, v)
           q == InsertAt(r, p + 1, v)
<1>1. InsertVisit(r, v) = q
  BY DEF InsertVisit, Place
<1>2. /\ p \in 0..Len(r) /\ Len(r) \in Nat
      /\ \A i \in 1..Len(r) : IF i <= p THEN r[i] < v ELSE v < r[i]
      /\ v \in Int /\ \A i \in 1..Len(r) : r[i] \in Int
  BY PlaceIs, SeriesIs, Bounds DEF Stamps
<1> HIDE DEF p
<1>3. /\ q \in Series /\ Len(q) = Len(r) + 1
      /\ \A i \in 1..p : q[i] = r[i]
      /\ q[p + 1] = v
      /\ \A i \in (p + 1)..Len(r) : q[i + 1] = r[i]
  BY <1>2, InsertAtIs
<1> HIDE DEF q
<1>4. p \in Nat /\ p <= Len(r)
  BY <1>2
\* What stands at i, and where it stood before.
<1>5. \A i \in 1..Len(q) : \/ i <= p /\ i \in 1..Len(r) /\ q[i] = r[i] /\ r[i] < v
                           \/ i = p + 1 /\ q[i] = v
                           \/ /\ i > p + 1 /\ i - 1 \in 1..Len(r)
                              /\ q[i] = r[i - 1] /\ v < r[i - 1]
  <2>1. ASSUME NEW i \in 1..Len(q), i <= p
        PROVE  i \in 1..Len(r) /\ q[i] = r[i] /\ r[i] < v
    <3>1. i \in 1..Len(r) /\ i \in 1..p
      BY <1>2, <1>3, <1>4, <2>1
    <3>2. QED
      BY <1>2, <1>3, <2>1, <3>1
  <2>2. ASSUME NEW i \in 1..Len(q), i > p + 1
        PROVE  i - 1 \in 1..Len(r) /\ q[i] = r[i - 1] /\ v < r[i - 1]
    <3>1. i - 1 \in (p + 1)..Len(r) /\ (i - 1) + 1 = i /\ i - 1 \in 1..Len(r)
          /\ ~ (i - 1 <= p)
      BY <1>2, <1>3, <1>4, <2>2
    <3>2. q[i] = r[i - 1]
      BY <1>3, <3>1
    <3>3. QED
      BY <1>2, <3>1, <3>2
  <2>3. ASSUME NEW i \in 1..Len(q) PROVE i <= p \/ i = p + 1 \/ i > p + 1
    BY <1>2, <1>3, <1>4
  <2>4. QED
    BY <1>3, <2>1, <2>2, <2>3
<1>6. Rising(q)
  <2>1. ASSUME NEW i \in 1..Len(q), NEW j \in 1..Len(q), i < j PROVE q[i] < q[j]
    <3>1. CASE j <= p
      <4>1. i <= p /\ ~ (i = p + 1) /\ ~ (i > p + 1) /\ ~ (j = p + 1) /\ ~ (j > p + 1)
        BY <1>2, <1>3, <1>4, <2>1, <3>1
      <4>2. i \in 1..Len(r) /\ j \in 1..Len(r) /\ q[i] = r[i] /\ q[j] = r[j]
        BY <1>5, <4>1
      <4>3. QED
        BY <2>1, <4>2 DEF Rising
    <3>2. CASE i > p + 1
      <4>1. j > p + 1 /\ ~ (i <= p) /\ ~ (j <= p) /\ ~ (i = p + 1) /\ ~ (j = p + 1)
            /\ i - 1 < j - 1
        BY <1>2, <1>3, <1>4, <2>1, <3>2
      <4>2. i - 1 \in 1..Len(r) /\ j - 1 \in 1..Len(r) /\ q[i] = r[i - 1] /\ q[j] = r[j - 1]
        BY <1>5, <4>1
      <4>3. QED
        BY <4>1, <4>2 DEF Rising
    <3>3. CASE ~ (j <= p) /\ ~ (i > p + 1)
      <4>1. (i <= p \/ i = p + 1) /\ (j = p + 1 \/ j > p + 1)
            /\ ~ (i = p + 1 /\ j = p + 1)
        BY <1>2, <1>3, <1>4, <2>1, <3>3
      <4>2. i <= p => q[i] < v /\ q[i] \in Int
        BY <1>2, <1>4, <1>5, <3>3
      <4>3. j > p + 1 => v < q[j] /\ q[j] \in Int
        BY <1>2, <1>4, <1>5, <3>3
      <4>4. i = p + 1 => q[i] = v
        BY <1>3
      <4>5. j = p + 1 => q[j] = v
        BY <1>3
      <4>6. QED
        BY <1>2, <4>1, <4>2, <4>3, <4>4, <4>5
    <3>4. QED
      BY <3>1, <3>2, <3>3
  <2>2. QED
    BY <2>1 DEF Rising
<1>7. Held(q) = Held(r) \cup {v}
  <2>1. ASSUME NEW i \in 1..Len(q) PROVE q[i] \in Held(r) \cup {v}
    BY <1>5 DEF Held
  <2>2. v \in Held(q)
    <3>1. p + 1 \in 1..Len(q)
      BY <1>2, <1>3, <1>4
    <3>2. QED
      BY <1>3, <3>1 DEF Held
  <2>3. ASSUME NEW i \in 1..Len(r) PROVE r[i] \in Held(q)
    <3>1. CASE i <= p
      <4>1. i \in 1..p /\ i \in 1..Len(q)
        BY <1>2, <1>3, <1>4, <3>1
      <4>2. q[i] = r[i]
        BY <1>3, <4>1
      <4>3. QED
        BY <4>1, <4>2 DEF Held
    <3>2. CASE ~ (i <= p)
      <4>1. i \in (p + 1)..Len(r) /\ i + 1 \in 1..Len(q)
        BY <1>2, <1>3, <1>4, <3>2
      <4>2. q[i + 1] = r[i]
        BY <1>3, <4>1
      <4>3. QED
        BY <4>1, <4>2 DEF Held
    <3>3. QED
      BY <3>1, <3>2
  <2>4. QED
    BY <2>1, <2>2, <2>3 DEF Held
<1>8. QED
  BY <1>1, <1>3, <1>6, <1>7

\* One call of add_visit.
LEMMA AddVisitDoes ==
  ASSUME NEW s \in Series, Rising(s), Len(s) <= MaxVisits, NEW last \in Nat,
         NEW v \in Stamps
  PROVE  LET t == AddVisit([list |-> s, last |-> last], v)
         IN  /\ t = [list |-> t.list, last |-> t.last]
             /\ t.list \in Series /\ Rising(t.list) /\ Len(t.list) <= MaxVisits
             /\ Held(t.list) = AddOne(Held(s), v)
             /\ t.last = IF v \in Held(s) THEN last ELSE Latest(last, v)
<1> DEFINE st == [list |-> s, last |-> last]
           t == AddVisit(st, v)
           q == InsertVisit(MakeRoom(s), v)
<1>1. st.list = s /\ st.last = last
  OBVIOUS
<1>2. Contains(s, v) <=> v \in Held(s)
  BY DEF Contains, Held
<1> HIDE DEF st
<1>3. t = IF v \in Held(s) THEN st ELSE [list |-> q, last |-> Latest(last, v)]
  BY <1>1, <1>2 DEF AddVisit
<1>4. CASE v \in Held(s)
  <2>1. t = [list |-> s, last |-> last]
    BY <1>3, <1>4 DEF st
  <2>2. AddOne(Held(s), v) = Held(s)
    BY <1>4 DEF AddOne
  <2> HIDE DEF t
  <2>3. QED
    BY <1>4, <2>1, <2>2 DEF t, st
<1>5. CASE v \notin Held(s)
  <2>1. /\ MakeRoom(s) \in Series /\ Rising(MakeRoom(s)) /\ Len(MakeRoom(s)) < MaxVisits
        /\ Held(MakeRoom(s)) = MadeRoom(Held(s)) /\ Len(MakeRoom(s)) \in Nat
    BY MakeRoomDoes, SeriesIs
  <2>2. v \notin Held(MakeRoom(s))
    BY <1>5, <2>1 DEF MadeRoom
  <2>3. /\ q \in Series /\ Rising(q) /\ Len(q) = Len(MakeRoom(s)) + 1
        /\ Held(q) = MadeRoom(Held(s)) \cup {v}
    BY <2>1, <2>2, InsertDoes
  <2>4. Len(q) <= MaxVisits
    BY <2>1, <2>3, Bounds
  <2>5. t = [list |-> q, last |-> Latest(last, v)]
    BY <1>3, <1>5
  <2>6. AddOne(Held(s), v) = MadeRoom(Held(s)) \cup {v}
    BY <1>5 DEF AddOne
  <2> HIDE DEF t, q
  <2>7. QED
    BY <1>5, <2>3, <2>4, <2>5, <2>6 DEF t, st
<1>6. QED
  BY <1>4, <1>5

-----------------------------------------------------------------------------
(* The recursions *)

\* A set of naturals that contains the successors, up to n, of what it contains
\* contains everything up to n.
LEMMA UpTo ==
  ASSUME NEW n \in Nat, NEW S, 0 \in S,
         \A k \in 1..n : k - 1 \in S => k \in S
  PROVE  \A k \in 0..n : k \in S
<1> SUFFICES ASSUME NEW k \in 0..n, k \notin S PROVE FALSE
  OBVIOUS
<1> DEFINE T == {i \in 0..n : i \notin S}
<1>1. T \in SUBSET Nat /\ T # {}
  OBVIOUS
<1>2. PICK t \in T : \A u \in T : t <= u
  BY <1>1, LeastElement
<1>3. t \in 1..n /\ t \notin S
  OBVIOUS
<1>4. t - 1 \in S
  <2>1. t - 1 \in 0..n /\ ~ (t <= t - 1)
    BY <1>3
  <2>2. QED
    BY <1>2, <2>1
<1>5. QED
  BY <1>3, <1>4

\* g is the state of AddAll behind each of the first n records.
IsOffering(g, b, fresh, n) ==
  g = [k \in 0..n |-> IF k = 0 THEN b ELSE AddVisit(g[k - 1], fresh[k])]

LEMMA OfferingExists ==
  ASSUME NEW b, NEW fresh, NEW n \in Nat
  PROVE  \E g : IsOffering(g, b, fresh, n)
<1> DEFINE S == {i \in 0..n : \E g : IsOffering(g, b, fresh, i)}
<1>1. 0 \in S
  <2>1. IsOffering([k \in 0..0 |-> b], b, fresh, 0)
    BY DEF IsOffering
  <2>2. QED
    BY <2>1
<1>2. ASSUME NEW i \in 1..n, i - 1 \in S PROVE i \in S
  <2>1. PICK g : IsOffering(g, b, fresh, i - 1)
    BY <1>2
  <2> DEFINE h == [k \in 0..i |-> IF k = i THEN AddVisit(g[i - 1], fresh[i]) ELSE g[k]]
  <2>2. ASSUME NEW k \in 0..i
        PROVE  h[k] = IF k = 0 THEN b ELSE AddVisit(h[k - 1], fresh[k])
    <3>1. CASE k = i
      <4>1. h[i - 1] = g[i - 1]
        OBVIOUS
      <4>2. QED
        BY <3>1, <4>1
    <3>2. CASE k # i
      <4>1. k \in 0..(i - 1) /\ h[k] = g[k] /\ (k # 0 => h[k - 1] = g[k - 1])
        BY <3>2
      <4>2. g[k] = IF k = 0 THEN b ELSE AddVisit(g[k - 1], fresh[k])
        BY <2>1, <4>1 DEF IsOffering
      <4>3. QED
        BY <4>1, <4>2
    <3>3. QED
      BY <3>1, <3>2
  <2>3. h = [k \in 0..i |-> h[k]]
    OBVIOUS
  <2> HIDE DEF h
  <2>4. IsOffering(h, b, fresh, i)
    BY <2>2, <2>3 DEF IsOffering
  <2>5. QED
    BY <2>4
<1> HIDE DEF S
<1>3. n \in S
  BY <1>1, <1>2, UpTo
<1>4. QED
  BY <1>3 DEF S

\* AddAll is a run of add_visit calls.
LEMMA AddAllSteps ==
  ASSUME NEW s, NEW last, NEW fresh \in Series
  PROVE  \E g : /\ AddAll(s, last, fresh) = g[Len(fresh)]
                /\ g[0] = [list |-> s, last |-> last]
                /\ \A k \in 1..Len(fresh) : g[k] = AddVisit(g[k - 1], fresh[k])
<1> DEFINE b == [list |-> s, last |-> last]
           g == CHOOSE f : IsOffering(f, b, fresh, Len(fresh))
<1>1. Len(fresh) \in Nat
  BY SeriesIs
<1>2. IsOffering(g, b, fresh, Len(fresh))
  BY <1>1, OfferingExists
<1>3. AddAll(s, last, fresh) = g[Len(fresh)]
  BY DEF AddAll, IsOffering
<1> HIDE DEF g
<1>4. \A k \in 0..Len(fresh) : g[k] = IF k = 0 THEN b ELSE AddVisit(g[k - 1], fresh[k])
  <2>1. g = [k \in 0..Len(fresh) |-> IF k = 0 THEN b ELSE AddVisit(g[k - 1], fresh[k])]
    BY <1>2 DEF IsOffering
  <2>2. QED
    BY <2>1
<1>5. QED
  BY <1>1, <1>3, <1>4

\* g is what the pruning loop has kept of the first n records.
IsKeeping(g, s, cutoff, n) ==
  g = [i \in 0..n |->
         IF i = 0 THEN <<>>
         ELSE IF s[i] >= cutoff THEN Append(g[i - 1], s[i]) ELSE g[i - 1]]

LEMMA KeepingExists ==
  ASSUME NEW s, NEW cutoff, NEW n \in Nat
  PROVE  \E g : IsKeeping(g, s, cutoff, n)
<1> DEFINE S == {i \in 0..n : \E g : IsKeeping(g, s, cutoff, i)}
           Next1(g, i) == IF s[i] >= cutoff THEN Append(g[i - 1], s[i]) ELSE g[i - 1]
<1>1. 0 \in S
  <2>1. IsKeeping([k \in 0..0 |-> <<>>], s, cutoff, 0)
    BY DEF IsKeeping
  <2>2. QED
    BY <2>1
<1>2. ASSUME NEW i \in 1..n, i - 1 \in S PROVE i \in S
  <2>1. PICK g : IsKeeping(g, s, cutoff, i - 1)
    BY <1>2
  <2> DEFINE h == [k \in 0..i |-> IF k = i THEN Next1(g, i) ELSE g[k]]
  <2>2. ASSUME NEW k \in 0..i
        PROVE  h[k] = IF k = 0 THEN <<>> ELSE Next1(h, k)
    <3>1. CASE k = i
      <4>1. h[i - 1] = g[i - 1]
        OBVIOUS
      <4>2. QED
        BY <3>1, <4>1
    <3>2. CASE k # i
      <4>1. k \in 0..(i - 1) /\ h[k] = g[k] /\ (k # 0 => h[k - 1] = g[k - 1])
        BY <3>2
      <4>2. g[k] = IF k = 0 THEN <<>> ELSE Next1(g, k)
        BY <2>1, <4>1 DEF IsKeeping
      <4>3. QED
        BY <4>1, <4>2
    <3>3. QED
      BY <3>1, <3>2
  <2>3. h = [k \in 0..i |-> h[k]]
    OBVIOUS
  <2> HIDE DEF h
  <2>4. IsKeeping(h, s, cutoff, i)
    BY <2>2, <2>3 DEF IsKeeping
  <2>5. QED
    BY <2>4
<1> HIDE DEF S
<1>3. n \in S
  BY <1>1, <1>2, UpTo
<1>4. QED
  BY <1>3 DEF S

Cutoff(now) == IF now > 2 * DaySec THEN now - 2 * DaySec ELSE 0

LEMMA PrunedSteps ==
  ASSUME NEW s \in Series, NEW now
  PROVE  \E g : /\ Pruned(s, now) = g[Len(s)]
                /\ g[0] = <<>>
                /\ \A i \in 1..Len(s) :
                     g[i] = IF s[i] >= Cutoff(now) THEN Append(g[i - 1], s[i])
                            ELSE g[i - 1]
<1> DEFINE c == Cutoff(now)
           g == CHOOSE f : IsKeeping(f, s, c, Len(s))
<1>1. Len(s) \in Nat
  BY SeriesIs
<1>2. IsKeeping(g, s, c, Len(s))
  BY <1>1, KeepingExists
<1>3. Pruned(s, now) = g[Len(s)]
  BY DEF Pruned, IsKeeping, Cutoff
<1> HIDE DEF g, c
<1>4. \A i \in 0..Len(s) :
        g[i] = IF i = 0 THEN <<>>
               ELSE IF s[i] >= c THEN Append(g[i - 1], s[i]) ELSE g[i - 1]
  <2>1. g = [i \in 0..Len(s) |->
               IF i = 0 THEN <<>>
               ELSE IF s[i] >= c THEN Append(g[i - 1], s[i]) ELSE g[i - 1]]
    BY <1>2 DEF IsKeeping
  <2>2. QED
    BY <2>1
<1>5. QED
  BY <1>1, <1>3, <1>4 DEF c

-----------------------------------------------------------------------------
(* The order in which the stream replays the records *)

\* How many records of S are earlier than x.
Earlier(S, x) == Cardinality({y \in S : y < x})

LEMMA EarlierOrders ==
  ASSUME NEW S \in Windows
  PROVE  /\ \A x \in S : Earlier(S, x) \in 0..(Cardinality(S) - 1)
         /\ \A x, z \in S : x < z => Earlier(S, x) < Earlier(S, z)
         /\ \A x, z \in S : Earlier(S, x) = Earlier(S, z) => x = z
<1>1. Cardinality(S) \in Nat /\ S \in SUBSET Int
  BY WindowIsFinite
<1>2. ASSUME NEW x \in S PROVE Earlier(S, x) \in 0..(Cardinality(S) - 1)
  <2> DEFINE T == {y \in S : y < x}
  <2>1. T \in SUBSET S /\ T # S
    BY <1>1
  <2>2. T \in Windows /\ Cardinality(T) < Cardinality(S)
    BY <2>1, SubWindow
  <2>3. Cardinality(T) \in Nat
    BY <2>2, WindowIsFinite
  <2>4. QED
    BY <1>1, <2>2, <2>3 DEF Earlier
<1>3. ASSUME NEW x \in S, NEW z \in S, x < z PROVE Earlier(S, x) < Earlier(S, z)
  <2> DEFINE T == {y \in S : y < x}
             U == {y \in S : y < z}
  <2>1. U \in Windows
    BY DEF Windows
  <2>2. T \in SUBSET U /\ T # U
    <3>1. x \in Int /\ z \in Int /\ \A y \in S : y \in Int
      BY <1>1
    <3>2. \A y \in T : y \in U
      BY <1>3, <3>1
    <3>3. x \in U /\ x \notin T
      BY <1>3, <3>1
    <3> HIDE DEF T, U
    <3>4. QED
      BY <3>2, <3>3
  <2>3. Cardinality(T) < Cardinality(U)
    BY <2>1, <2>2, SubWindow
  <2>4. QED
    BY <2>3 DEF Earlier
<1>4. ASSUME NEW x \in S, NEW z \in S, Earlier(S, x) = Earlier(S, z) PROVE x = z
  <2>1. ~ (x < z) /\ ~ (z < x)
    <3>1. Earlier(S, x) \in Int /\ Earlier(S, z) \in Int
      BY <1>1, <1>2
    <3>2. QED
      BY <1>3, <1>4, <3>1
  <2>2. x \in Int /\ z \in Int
    BY <1>1
  <2>3. QED
    BY <2>1, <2>2
<1>5. QED
  BY <1>2, <1>3, <1>4

\* Every number of earlier records is some record's.
LEMMA EarlierReaches ==
  ASSUME NEW S \in Windows, NEW k \in 0..(Cardinality(S) - 1)
  PROVE  \E x \in S : Earlier(S, x) = k
<1> DEFINE n == Cardinality(S)
           R == 0..(n - 1)
           f == [x \in S |-> Earlier(S, x)]
<1>1. n \in Nat /\ IsFiniteSet(S)
  BY WindowIsFinite
<1>2. IsFiniteSet(R) /\ Cardinality(R) = n
  <2>1. 0 \in Int /\ n - 1 \in Int
    BY <1>1
  <2>2. IsFiniteSet(R) /\ Cardinality(R) = IF 0 > n - 1 THEN 0 ELSE (n - 1) - 0 + 1
    BY <2>1, FS_Interval
  <2>3. QED
    BY <1>1, <2>2
<1>3. f \in Injection(S, R)
  <2>1. f \in [S -> R]
    BY EarlierOrders
  <2>2. \A x, z \in S : f[x] = f[z] => x = z
    BY EarlierOrders
  <2> HIDE DEF f, R
  <2>3. QED
    BY <2>1, <2>2 DEF Injection, IsInjective
<1> HIDE DEF f, n
<1>4. f \in Surjection(S, R)
  BY <1>1, <1>2, <1>3, FS_Injection DEF n
<1>5. PICK x \in S : f[x] = k
  BY <1>4 DEF Surjection, n
<1>6. QED
  BY <1>5 DEF f

LEMMA StreamOrderIs ==
  ASSUME NEW S \in Windows
  PROVE  /\ InStreamOrder(S) \in Series /\ Rising(InStreamOrder(S))
         /\ Len(InStreamOrder(S)) = Cardinality(S)
         /\ Held(InStreamOrder(S)) = S
<1> DEFINE n == Cardinality(S)
           s == InStreamOrder(S)
<1>1. n \in Nat /\ S \in SUBSET Int /\ S \in SUBSET Stamps
  BY WindowIsFinite DEF Windows
<1>2. s = [i \in 1..n |-> CHOOSE x \in S : Earlier(S, x) = i - 1]
  BY DEF InStreamOrder, Earlier
<1>3. ASSUME NEW i \in 1..n PROVE s[i] \in S /\ Earlier(S, s[i]) = i - 1
  <2>1. s[i] = CHOOSE x \in S : Earlier(S, x) = i - 1
    BY <1>2
  <2>2. i - 1 \in 0..(n - 1)
    BY <1>1
  <2>3. \E x \in S : Earlier(S, x) = i - 1
    BY <2>2, EarlierReaches
  <2>4. QED
    BY <2>1, <2>3
<1>4. s \in Series /\ Len(s) = n
  <2>1. \A i \in 1..n : s[i] \in Stamps
    BY <1>1, <1>3
  <2>2. s = [i \in 1..n |-> s[i]]
    BY <1>2
  <2> HIDE DEF s
  <2>3. s \in [1..n -> Stamps]
    BY <2>1, <2>2
  <2>4. QED
    BY <1>1, <2>3 DEF Series
<1> HIDE DEF s, n
<1>5. Rising(s)
  <2>1. ASSUME NEW i \in 1..Len(s), NEW j \in 1..Len(s), i < j PROVE s[i] < s[j]
    <3>1. /\ s[i] \in S /\ Earlier(S, s[i]) = i - 1
          /\ s[j] \in S /\ Earlier(S, s[j]) = j - 1
      BY <1>3, <1>4
    <3>2. ~ (i - 1 = j - 1) /\ ~ (j - 1 < i - 1)
      BY <1>1, <1>4, <2>1
    <3>3. ~ (s[j] < s[i]) /\ s[i] # s[j]
      BY <3>1, <3>2, EarlierOrders
    <3>4. s[i] \in Int /\ s[j] \in Int
      BY <1>1, <3>1
    <3>5. QED
      BY <3>3, <3>4
  <2>2. QED
    BY <2>1 DEF Rising
<1>6. Held(s) = S
  <2>1. ASSUME NEW x \in S PROVE \E i \in 1..n : s[i] = x
    <3>1. Earlier(S, x) \in 0..(n - 1)
      BY EarlierOrders DEF n
    <3>2. Earlier(S, x) + 1 \in 1..n /\ (Earlier(S, x) + 1) - 1 = Earlier(S, x)
      BY <1>1, <3>1
    <3>3. s[Earlier(S, x) + 1] \in S /\ Earlier(S, s[Earlier(S, x) + 1]) = Earlier(S, x)
      BY <1>3, <3>2
    <3>4. s[Earlier(S, x) + 1] = x
      BY <3>3, EarlierOrders
    <3>5. QED
      BY <3>2, <3>4
  <2>2. QED
    BY <1>3, <1>4, <2>1 DEF Held
<1>7. QED
  BY <1>4, <1>5, <1>6 DEF s, n

-----------------------------------------------------------------------------
(* One read of the buffer *)

\* The state st of AddAll when the records of G have been offered to a list of V.
Offered(st, V, G, last) ==
  /\ st = [list |-> st.list, last |-> st.last]
  /\ st.list \in Series /\ Rising(st.list) /\ Len(st.list) <= MaxVisits
  /\ Held(st.list) = AddVisits(V, G)
  /\ st.last = LastAfter(V, G, last)

LEMMA OfferedNone ==
  ASSUME NEW s \in Series, Rising(s), Len(s) <= MaxVisits, NEW last \in Nat
  PROVE  /\ Held(s) \in Windows /\ Cardinality(Held(s)) <= MaxVisits
         /\ Offered([list |-> s, last |-> last], Held(s), {}, last)
<1>1. Held(s) \in Windows /\ Cardinality(Held(s)) <= MaxVisits
  BY SeriesIs, RisingHolds
<1>2. AddVisits(Held(s), {}) = Held(s) /\ LastAfter(Held(s), {}, last) = last
  BY <1>1, AddVisitsNone, LastNone
<1>3. QED
  BY <1>1, <1>2 DEF Offered

LEMMA OfferedOne ==
  ASSUME NEW V \in Windows, NEW G \in Windows, Cardinality(V) <= MaxVisits,
         NEW last \in Nat, NEW st, Offered(st, V, G, last),
         NEW v \in Stamps, \A x \in G : x < v
  PROVE  Offered(AddVisit(st, v), V, G \cup {v}, last)
<1> DEFINE t == AddVisit(st, v)
<1>1. /\ st = [list |-> st.list, last |-> st.last]
      /\ st.list \in Series /\ Rising(st.list) /\ Len(st.list) <= MaxVisits
      /\ Held(st.list) = AddVisits(V, G)
      /\ st.last = LastAfter(V, G, last)
  BY DEF Offered
<1>2. /\ AddVisits(V, G \cup {v}) = AddOne(AddVisits(V, G), v)
      /\ LastAfter(V, G, last) \in Nat
      /\ LastAfter(V, G \cup {v}, last)
           = IF v \in AddVisits(V, G) THEN LastAfter(V, G, last)
             ELSE Latest(LastAfter(V, G, last), v)
  BY OfferOne, OfferLast
<1>3. t = AddVisit([list |-> st.list, last |-> st.last], v)
  BY <1>1, Zenon
<1> HIDE DEF t
<1>4. st.last \in Nat
  BY <1>1, <1>2
<1>5. /\ t = [list |-> t.list, last |-> t.last]
      /\ t.list \in Series /\ Rising(t.list) /\ Len(t.list) <= MaxVisits
      /\ Held(t.list) = AddOne(Held(st.list), v)
      /\ t.last = IF v \in Held(st.list) THEN st.last ELSE Latest(st.last, v)
  BY <1>1, <1>3, <1>4, AddVisitDoes
<1>6. Held(t.list) = AddVisits(V, G \cup {v})
  BY <1>1, <1>2, <1>5
<1>7. t.last = LastAfter(V, G \cup {v}, last)
  BY <1>1, <1>2, <1>5
<1>8. Offered(t, V, G \cup {v}, last)
  BY <1>5, <1>6, <1>7 DEF Offered
<1>9. QED
  BY <1>8 DEF t

\* The loop over the records of one read, oldest first.
LEMMA ReplayDoes ==
  ASSUME NEW s \in Series, Rising(s), Len(s) <= MaxVisits, NEW last \in Nat,
         NEW F \in Windows
  PROVE  Offered(AddAll(s, last, InStreamOrder(F)), Held(s), F, last)
<1> DEFINE fresh == InStreamOrder(F)
           V == Held(s)
           n == Len(fresh)
           First(k) == {fresh[i] : i \in 1..k}
<1>1. fresh \in Series /\ Rising(fresh) /\ Held(fresh) = F
  BY StreamOrderIs
<1> HIDE DEF fresh
<1>2. n \in Nat /\ \A i \in 1..n : fresh[i] \in Stamps
  BY <1>1, SeriesIs
<1>3. PICK g : /\ AddAll(s, last, fresh) = g[n]
               /\ g[0] = [list |-> s, last |-> last]
               /\ \A k \in 1..n : g[k] = AddVisit(g[k - 1], fresh[k])
  BY <1>1, AddAllSteps
<1>4. /\ V \in Windows /\ Cardinality(V) <= MaxVisits
      /\ Offered(g[0], V, {}, last)
  BY <1>3, OfferedNone
<1> DEFINE S == {k \in 0..n : Offered(g[k], V, First(k), last)}
<1> HIDE DEF V
<1>5. 0 \in S
  <2>1. First(0) = {}
    OBVIOUS
  <2> HIDE DEF First
  <2>2. Offered(g[0], V, First(0), last)
    BY <1>4, <2>1, Zenon
  <2>3. 0 \in 0..n
    BY <1>2
  <2>4. QED
    BY <2>2, <2>3
<1>6. ASSUME NEW k \in 1..n, k - 1 \in S PROVE k \in S
  <2>1. First(k) = First(k - 1) \cup {fresh[k]}
    <3>1. \A i \in 1..k : i \in 1..(k - 1) \/ i = k
      BY <1>2
    <3>2. k \in 1..k /\ \A i \in 1..(k - 1) : i \in 1..k
      BY <1>2
    <3>3. QED
      BY <3>1, <3>2
  <2>2. First(k - 1) \in Windows
    <3>1. \A i \in 1..(k - 1) : fresh[i] \in Stamps
      BY <1>2
    <3>2. QED
      BY <3>1 DEF Windows
  <2>3. \A x \in First(k - 1) : x < fresh[k]
    <3>1. \A i \in 1..(k - 1) : i \in 1..n /\ k \in 1..n /\ i < k
      BY <1>2
    <3>2. \A i \in 1..(k - 1) : fresh[i] < fresh[k]
      BY <1>1, <3>1 DEF Rising
    <3>3. QED
      BY <3>2
  <2>4. Offered(g[k - 1], V, First(k - 1), last)
    BY <1>6
  <2>5. fresh[k] \in Stamps /\ g[k] = AddVisit(g[k - 1], fresh[k])
    BY <1>2, <1>3
  <2> HIDE DEF First
  <2>6. Offered(g[k], V, First(k), last)
    BY <1>4, <2>1, <2>2, <2>3, <2>4, <2>5, OfferedOne
  <2>7. k \in 0..n
    BY <1>2
  <2>8. QED
    BY <2>6, <2>7
<1>7. First(n) = F
  BY <1>1 DEF Held
<1> HIDE DEF First
<1>8. n \in S
  <2> HIDE DEF S
  <2>1. \A k \in 1..n : k - 1 \in S => k \in S
    BY <1>6
  <2> HIDE DEF n
  <2>2. n \in Nat
    BY <1>2 DEF n
  <2>3. \A k \in 0..n : k \in S
    BY <1>5, <2>1, <2>2, UpTo
  <2>4. QED
    BY <2>2, <2>3
<1>9. Offered(g[n], V, F, last)
  BY <1>7, <1>8
<1>10. QED
  BY <1>3, <1>9 DEF fresh, V

-----------------------------------------------------------------------------
(* The pruning loop *)

LEMMA AppendDoes ==
  ASSUME NEW q \in Series, Rising(q), NEW x \in Stamps, \A y \in Held(q) : y < x
  PROVE  /\ Append(q, x) \in Series /\ Rising(Append(q, x))
         /\ Len(Append(q, x)) = Len(q) + 1
         /\ Held(Append(q, x)) = Held(q) \cup {x}
<1> DEFINE r == Append(q, x)
<1>1. /\ r \in Series /\ Len(r) = Len(q) + 1 /\ Len(q) \in Nat
      /\ \A i \in 1..Len(q) : r[i] = q[i]
      /\ r[Len(q) + 1] = x
  BY DEF Series
<1> HIDE DEF r
<1>2. \A i \in 1..Len(r) : i \in 1..Len(q) \/ i = Len(q) + 1
  BY <1>1
<1>3. \A i \in 1..Len(q) : i \in 1..Len(r)
  BY <1>1
<1>4. Len(q) + 1 \in 1..Len(r)
  BY <1>1
<1>5. Held(r) = Held(q) \cup {x}
  <2>1. \A i \in 1..Len(r) : r[i] \in Held(q) \cup {x}
    BY <1>1, <1>2 DEF Held
  <2>2. \A i \in 1..Len(q) : q[i] \in Held(r)
    BY <1>1, <1>3 DEF Held
  <2>3. x \in Held(r)
    BY <1>1, <1>4 DEF Held
  <2>4. QED
    BY <2>1, <2>2, <2>3 DEF Held
<1>6. Rising(r)
  <2>1. ASSUME NEW i \in 1..Len(r), NEW j \in 1..Len(r), i < j PROVE r[i] < r[j]
    <3>1. i \in 1..Len(q)
      BY <1>1, <2>1
    <3>2. CASE j \in 1..Len(q)
      <4>1. q[i] < q[j]
        BY <2>1, <3>1, <3>2 DEF Rising
      <4>2. QED
        BY <1>1, <3>1, <3>2, <4>1
    <3>3. CASE j = Len(q) + 1
      <4>1. q[i] < x
        BY <3>1 DEF Held
      <4>2. QED
        BY <1>1, <3>1, <3>3, <4>1
    <3>4. QED
      BY <1>2, <3>2, <3>3
  <2>2. QED
    BY <2>1 DEF Rising
<1>7. QED
  BY <1>1, <1>5, <1>6 DEF r

\* q is what a filter for records of c and later keeps of the first i of s.
Kept(q, s, c, i) ==
  /\ q \in Series /\ Rising(q) /\ Len(q) <= i
  /\ \A x : x \in Held(q) <=> \E j \in 1..i : x = s[j] /\ s[j] >= c

LEMMA KeptOne ==
  ASSUME NEW s \in Series, Rising(s), NEW c, NEW i \in 1..Len(s),
         NEW q, Kept(q, s, c, i - 1)
  PROVE  Kept(IF s[i] >= c THEN Append(q, s[i]) ELSE q, s, c, i)
<1>1. /\ q \in Series /\ Rising(q) /\ Len(q) <= i - 1 /\ Len(q) \in Nat
      /\ \A x : x \in Held(q) <=> \E j \in 1..(i - 1) : x = s[j] /\ s[j] >= c
  BY SeriesIs DEF Kept
<1>2. Len(s) \in Nat /\ s[i] \in Stamps
  BY SeriesIs
<1>3. \A j : j \in 1..i <=> (j \in 1..(i - 1) \/ j = i)
  BY <1>2
<1>4. CASE s[i] >= c
  <2>1. \A y \in Held(q) : y < s[i]
    <3>1. \A j \in 1..(i - 1) : j \in 1..Len(s) /\ j < i
      BY <1>2
    <3>2. \A j \in 1..(i - 1) : s[j] < s[i]
      BY <3>1 DEF Rising
    <3>3. QED
      BY <1>1, <3>2
  <2> DEFINE r == Append(q, s[i])
  <2>2. /\ r \in Series /\ Rising(r) /\ Len(r) = Len(q) + 1
        /\ Held(r) = Held(q) \cup {s[i]}
    BY <1>1, <1>2, <2>1, AppendDoes
  <2> HIDE DEF r
  <2>3. Len(r) <= i
    BY <1>1, <1>2, <2>2
  <2>4. ASSUME NEW x PROVE x \in Held(r) <=> \E j \in 1..i : x = s[j] /\ s[j] >= c
    BY <1>1, <1>3, <1>4, <2>2, Zenon
  <2>5. Kept(r, s, c, i)
    BY <2>2, <2>3, <2>4 DEF Kept
  <2>6. QED
    BY <1>4, <2>5 DEF r
<1>5. CASE ~ (s[i] >= c)
  <2>1. Len(q) <= i
    BY <1>1, <1>2
  <2>2. ASSUME NEW x PROVE x \in Held(q) <=> \E j \in 1..i : x = s[j] /\ s[j] >= c
    BY <1>1, <1>3, <1>5, Zenon
  <2>3. Kept(q, s, c, i)
    BY <1>1, <2>1, <2>2 DEF Kept
  <2>4. QED
    BY <1>5, <2>3
<1>6. QED
  BY <1>4, <1>5

LEMMA PrunedDoes ==
  ASSUME NEW s \in Series, Rising(s), NEW now
  PROVE  /\ Pruned(s, now) \in Series /\ Rising(Pruned(s, now))
         /\ Len(Pruned(s, now)) <= Len(s)
         /\ Held(Pruned(s, now)) = {v \in Held(s) : v >= Cutoff(now)}
<1> DEFINE c == Cutoff(now)
           n == Len(s)
<1>1. n \in Nat
  BY SeriesIs
<1>2. PICK g : /\ Pruned(s, now) = g[n]
               /\ g[0] = <<>>
               /\ \A i \in 1..n :
                    g[i] = IF s[i] >= c THEN Append(g[i - 1], s[i]) ELSE g[i - 1]
  BY PrunedSteps
<1> HIDE DEF c
<1> DEFINE S == {i \in 0..n : Kept(g[i], s, c, i)}
<1>3. 0 \in S
  <2>1. <<>> \in Series /\ Len(<<>>) = 0
    BY DEF Series
  <2>2. Rising(<<>>) /\ Held(<<>>) = {}
    BY DEF Rising, Held
  <2>3. \A x : ~ \E j \in 1..0 : x = s[j] /\ s[j] >= c
    OBVIOUS
  <2>4. Kept(<<>>, s, c, 0)
    BY <2>1, <2>2, <2>3 DEF Kept
  <2>5. 0 \in 0..n
    BY <1>1
  <2>6. QED
    BY <1>2, <2>4, <2>5
<1>4. ASSUME NEW i \in 1..n, i - 1 \in S PROVE i \in S
  <2>1. Kept(g[i - 1], s, c, i - 1)
    BY <1>4
  <2>2. Kept(IF s[i] >= c THEN Append(g[i - 1], s[i]) ELSE g[i - 1], s, c, i)
    BY <2>1, KeptOne
  <2>3. Kept(g[i], s, c, i)
    BY <1>2, <2>2
  <2>4. i \in 0..n
    BY <1>1
  <2>5. QED
    BY <2>3, <2>4
<1>5. n \in S
  <2> HIDE DEF S
  <2>1. \A k \in 1..n : k - 1 \in S => k \in S
    BY <1>4
  <2> HIDE DEF n
  <2>2. \A k \in 0..n : k \in S
    BY <1>1, <1>3, <2>1, UpTo
  <2>3. QED
    BY <1>1, <2>2
<1>6. Kept(Pruned(s, now), s, c, n)
  BY <1>2, <1>5
<1> HIDE DEF n, S
<1>7. /\ Pruned(s, now) \in Series /\ Rising(Pruned(s, now)) /\ Len(Pruned(s, now)) <= n
      /\ \A x : x \in Held(Pruned(s, now)) <=> \E j \in 1..n : x = s[j] /\ s[j] >= c
  BY <1>6 DEF Kept
<1>8. \A x : x \in Held(s) <=> \E j \in 1..n : x = s[j]
  BY DEF Held, n
<1>9. Held(Pruned(s, now)) = {v \in Held(s) : v >= c}
  BY <1>7, <1>8
<1>10. QED
  BY <1>7, <1>9 DEF n, c

-----------------------------------------------------------------------------
(* The theorems *)

ListInv ==
  /\ list \in Series
  /\ Rising(list)
  /\ Len(list) <= MaxVisits
  /\ last_drink_ts \in Nat

LEMMA LastAfterType ==
  ASSUME NEW V, NEW F \in Windows, NEW last \in Nat
  PROVE  LastAfter(V, F, last) \in Nat
<1> DEFINE in == Inserted(V, F)
<1>1. in \in Windows
  BY InsertedIs DEF Windows
<1> HIDE DEF in
<1>2. in # {} => Max(in) \in Nat
  <2>1. in # {} => Max(in) \in in
    BY <1>1, LatestOf
  <2>2. in \in SUBSET Nat
    BY <1>1, WindowIsFinite
  <2>3. QED
    BY <2>1, <2>2
<1>3. LastAfter(V, F, last) = IF \E v \in in : v > last THEN Max(in) ELSE last
  BY DEF LastAfter, in
<1>4. QED
  BY <1>2, <1>3

LEMMA ListInit == Init => ListInv
<1> SUFFICES ASSUME Init PROVE ListInv
  OBVIOUS
<1>1. PICK S \in Windows : Cardinality(S) <= MaxVisits /\ list = InStreamOrder(S)
  BY DEF Init, Windows, Stamps
<1>2. list \in Series /\ Rising(list) /\ Len(list) = Cardinality(S)
  BY <1>1, StreamOrderIs, Zenon
<1>3. last_drink_ts \in Nat
  BY Bounds DEF Init
<1>4. QED
  BY <1>1, <1>2, <1>3 DEF ListInv

LEMMA ListReplay ==
  ASSUME ListInv, NEW F \in Windows, Replay(F)
  PROVE  ListInv'
<1> DEFINE st == AddAll(list, last_drink_ts, InStreamOrder(F))
<1>1. Offered(st, Held(list), F, last_drink_ts)
  BY ReplayDoes DEF ListInv
<1>2. LastAfter(Held(list), F, last_drink_ts) \in Nat
  BY LastAfterType DEF ListInv
<1>3. list' = st.list /\ last_drink_ts' = st.last
  BY DEF Replay
<1> HIDE DEF st
<1>4. QED
  BY <1>1, <1>2, <1>3 DEF ListInv, Offered, Rising

LEMMA ListPrune ==
  ASSUME ListInv, NEW now \in 0..Horizon, Prune(now)
  PROVE  ListInv'
<1> DEFINE q == Pruned(list, now)
<1>1. /\ q \in Series /\ Rising(q) /\ Len(q) <= Len(list)
      /\ Len(q) \in Nat /\ Len(list) \in Nat
  BY PrunedDoes, SeriesIs DEF ListInv
<1>2. list' = q /\ last_drink_ts' = last_drink_ts
  BY DEF Prune
<1> HIDE DEF q
<1>3. Len(q) <= MaxVisits
  BY <1>1, Bounds DEF ListInv
<1>4. QED
  BY <1>1, <1>2, <1>3 DEF ListInv, Rising

LEMMA ListStep == ListInv /\ [Next]_vars => ListInv'
<1> SUFFICES ASSUME ListInv, [Next]_vars PROVE ListInv'
  OBVIOUS
<1>1. CASE \E F \in SUBSET (1..Horizon) : Replay(F)
  BY <1>1, ListReplay DEF Windows, Stamps
<1>2. CASE \E now \in 0..Horizon : Prune(now)
  BY <1>2, ListPrune
<1>3. CASE UNCHANGED vars
  BY <1>3 DEF vars, ListInv, Rising
<1>4. QED
  BY <1>1, <1>2, <1>3 DEF Next

LEMMA ListInvAlways == Spec => []ListInv
BY ListInit, ListStep, PTL DEF Spec

LEMMA ListSorted == ListInv => SortedWindow
<1> SUFFICES ASSUME ListInv PROVE SortedWindow
  OBVIOUS
<1>1. DOMAIN list = 1..Len(list)
  BY SeriesIs DEF ListInv
<1>2. QED
  BY <1>1 DEF ListInv, Rising, SortedWindow

\* add_visit and the pruning loop of day_rollover keep p->visit strictly
\* increasing and within PK_MAX_VISIT, whatever is read in whichever order.
THEOREM SortedWindowAlways == Spec => []SortedWindow
BY ListInvAlways, ListSorted, PTL

LEMMA ListReads ==
  ASSUME ListInv, NEW F \in Windows
  PROVE  LET st == AddAll(list, last_drink_ts, InStreamOrder(F))
         IN  AsSet(st.list, st.last) = TakeVisits(AsSet(list, last_drink_ts), F)
<1> DEFINE st == AddAll(list, last_drink_ts, InStreamOrder(F))
           a == AsSet(list, last_drink_ts)
           V == Held(list)
           in == Inserted(V, F)
<1>1. Offered(st, V, F, last_drink_ts)
  BY ReplayDoes DEF ListInv
<1> HIDE DEF st
<1>2. ToSet(list) = V /\ ToSet(st.list) = AddVisits(V, F)
  BY <1>1, SeriesIs DEF Offered, ListInv
<1>3. st.last = IF \E v \in in : v > last_drink_ts THEN Max(in) ELSE last_drink_ts
  BY <1>1 DEF Offered, LastAfter
<1>4. a.visit = V /\ a.last_drink_ts = last_drink_ts
  BY <1>2 DEF AsSet, PkInit
<1>5. TakeVisits(a, F)
        = [a EXCEPT !.visit = AddVisits(V, F),
                    !.last_drink_ts = IF \E v \in in : v > last_drink_ts
                                      THEN Max(in) ELSE last_drink_ts]
  <2> HIDE DEF a, V
  <2>1. QED
    BY <1>4 DEF TakeVisits
<1> HIDE DEF V, in
<1>6. TakeVisits(a, F) = [a EXCEPT !.visit = AddVisits(V, F), !.last_drink_ts = st.last]
  BY <1>3, <1>5
<1>7. AsSet(st.list, st.last)
        = [PkInit(0) EXCEPT !.visit = AddVisits(V, F), !.last_drink_ts = st.last]
  BY <1>2 DEF AsSet
<1>8. [a EXCEPT !.visit = AddVisits(V, F), !.last_drink_ts = st.last]
        = [PkInit(0) EXCEPT !.visit = AddVisits(V, F), !.last_drink_ts = st.last]
  BY DEF AsSet, PkInit
<1> HIDE DEF a
<1>9. QED
  BY <1>6, <1>7, <1>8 DEF st, a

\* What day_rollover resets beside the list is as pk_init left it.
WithList(b, V, last) == [b EXCEPT !.visit = V, !.last_drink_ts = last]
Reset(a, W, day) ==
  [[a EXCEPT !.day_no = day, !.day_messages = 0, !.day_hist_short = FALSE, !.visit = W]
     EXCEPT !.day_no = 0]

AsInit(b) ==
  /\ b = [x \in DOMAIN b |-> b[x]]
  /\ b.day_no = 0 /\ b.day_messages = 0 /\ b.day_hist_short = FALSE

LEMMA ResetAgain ==
  ASSUME NEW b, AsInit(b), NEW V, NEW W, NEW last, NEW day
  PROVE  Reset(WithList(b, V, last), W, day) = WithList(b, W, last)
<1> DEFINE l == Reset(WithList(b, V, last), W, day)
           r == WithList(b, W, last)
<1>1. /\ l = [x \in DOMAIN b |-> l[x]]
      /\ r = [x \in DOMAIN b |-> r[x]]
  BY DEF Reset, WithList, AsInit
<1>2. ASSUME NEW x \in DOMAIN b PROVE l[x] = r[x]
  BY DEF Reset, WithList, AsInit
<1> HIDE DEF l, r
<1>3. l = r
  BY <1>1, <1>2
<1>4. QED
  BY <1>3 DEF l, r

LEMMA ListPrunes ==
  ASSUME ListInv, NEW now \in 0..Horizon
  PROVE  AsSet(Pruned(list, now), last_drink_ts)
           = [DayRollover(AsSet(list, last_drink_ts), DayOf(now), now)
                EXCEPT !.day_no = 0]
<1> DEFINE a == AsSet(list, last_drink_ts)
           W == {v \in Held(list) : v >= Cutoff(now)}
<1>1. ToSet(list) = Held(list) /\ ToSet(Pruned(list, now)) = W
  BY PrunedDoes, SeriesIs DEF ListInv
<1>2. DayOf(0) = 0
  BY Bounds DEF DayOf
<1>3. a.visit = Held(list)
  BY <1>1 DEF AsSet, PkInit
<1>4. DayRollover(a, DayOf(now), now)
        = [a EXCEPT !.day_no = DayOf(now), !.day_messages = 0,
                    !.day_hist_short = FALSE, !.visit = W]
  <2> HIDE DEF a
  <2>1. QED
    BY <1>3 DEF DayRollover, Cutoff
<1> HIDE DEF W
<1>5. AsSet(Pruned(list, now), last_drink_ts)
        = [PkInit(0) EXCEPT !.visit = W, !.last_drink_ts = last_drink_ts]
  BY <1>1 DEF AsSet
<1>6. Reset(a, W, DayOf(now)) = WithList(PkInit(0), W, last_drink_ts)
  <2> DEFINE b == PkInit(0)
  <2>1. AsInit(b)
    BY <1>2 DEF PkInit, AsInit
  <2>2. a = WithList(b, Held(list), last_drink_ts)
    BY <1>1 DEF AsSet, WithList
  <2> HIDE DEF a, b
  <2>3. Reset(WithList(b, Held(list), last_drink_ts), W, DayOf(now))
          = WithList(b, W, last_drink_ts)
    BY <2>1, ResetAgain
  <2>4. Reset(a, W, DayOf(now)) = WithList(b, W, last_drink_ts)
    BY ONLY <2>2, <2>3, Zenon
  <2>5. QED
    BY ONLY <2>4, Zenon DEF b
<1> HIDE DEF a
<1>7. [DayRollover(a, DayOf(now), now) EXCEPT !.day_no = 0] = Reset(a, W, DayOf(now))
  BY <1>4 DEF Reset
<1>8. AsSet(Pruned(list, now), last_drink_ts) = WithList(PkInit(0), W, last_drink_ts)
  BY <1>5 DEF WithList
<1>9. QED
  BY <1>6, <1>7, <1>8 DEF a

LEMMA ListMatches == ListInv => LoopsMatchSets
BY ListReads, ListPrunes DEF LoopsMatchSets, Windows, Stamps

\* From every list the program can hold, the loop of add_visit calls over the
\* records of a read computes the set and the time of the last drink that
\* TakeVisits gives, and the pruning loop the set that DayRollover gives: the
\* other modules may keep the visits as a set.
THEOREM LoopsMatchSetsAlways == Spec => []LoopsMatchSets
BY ListInvAlways, ListMatches, PTL

-----------------------------------------------------------------------------
(* The slice of a day *)

LEMMA DayBounds ==
  ASSUME NEW t \in Nat
  PROVE  /\ DayOf(t) \in Nat /\ DaySec * DayOf(t) <= t
         /\ t < DaySec * DayOf(t) + DaySec
BY Bounds DEF DayOf

LEMMA DaysRise ==
  ASSUME NEW s \in Nat, NEW t \in Nat, s <= t
  PROVE  DayOf(s) <= DayOf(t)
<1> DEFINE d == DayOf(s)
           e == DayOf(t)
<1>1. /\ d \in Nat /\ e \in Nat /\ DaySec * d <= s /\ t < DaySec * e + DaySec
      /\ DaySec \in Nat \ {0}
  BY DayBounds, Bounds
<1> HIDE DEF d, e
<1>2. DaySec * d < DaySec * (e + 1)
  BY <1>1
<1>3. d < e + 1
  BY <1>1, <1>2
<1>4. d <= e
  BY <1>1, <1>3
<1>5. QED
  BY <1>4 DEF d, e

\* Two times of one day are less than a day apart, and their difference in
\* 32 bits is their difference.
LEMMA GapIsReal ==
  ASSUME NEW x \in Stamps, NEW y \in Stamps, x < y, DayOf(x) = DayOf(y)
  PROVE  (y - x) % Word = y - x /\ y - x \in 1..(DaySec - 1)
<1> DEFINE d == DayOf(x)
           m == DaySec * d
<1>1. /\ x \in Nat /\ y \in Nat /\ y <= Horizon /\ Horizon < Word
      /\ Word \in Nat /\ Horizon \in Nat /\ DaySec \in Nat
  BY Bounds DEF Stamps
<1>2. m <= x /\ y < m + DaySec /\ m \in Nat
  <2>1. d \in Nat /\ m <= x /\ y < m + DaySec
    BY <1>1, DayBounds
  <2>2. QED
    BY <1>1, <2>1
<1> HIDE DEF m
<1>3. y - x \in 1..(DaySec - 1) /\ y - x < Word
  BY <1>1, <1>2
<1>4. (y - x) % Word = y - x
  BY <1>1, <1>3
<1>5. QED
  BY <1>3, <1>4

LEMMA GapsBounded ==
  ASSUME NEW q \in Series, Rising(q), NEW day,
         \A x \in Held(q) : DayOf(x) = day
  PROVE  LongestGap(q) < DaySec
<1> DEFINE G == {(q[i] - q[i - 1]) % Word : i \in 2..Len(q)}
           A == {0} \cup G
<1>1. Len(q) \in Nat /\ DaySec \in Nat \ {0}
  BY SeriesIs, Bounds
<1>2. ASSUME NEW i \in 2..Len(q)
      PROVE  (q[i] - q[i - 1]) % Word \in 0..(DaySec - 1)
  <2>1. i \in 1..Len(q) /\ i - 1 \in 1..Len(q) /\ i - 1 < i
    BY <1>1
  <2>2. q[i] \in Stamps /\ q[i - 1] \in Stamps /\ q[i - 1] < q[i]
    BY <2>1, SeriesIs DEF Rising
  <2>3. DayOf(q[i]) = day /\ DayOf(q[i - 1]) = day
    BY <2>1 DEF Held
  <2>4. (q[i] - q[i - 1]) % Word \in 1..(DaySec - 1)
    BY <2>2, <2>3, GapIsReal
  <2>5. \A z \in 1..(DaySec - 1) : z \in 0..(DaySec - 1)
    BY <1>1
  <2>6. QED
    BY <2>4, <2>5
<1>3. 0 \in 0..(DaySec - 1)
  BY <1>1
<1>4. A \in SUBSET (0..(DaySec - 1)) /\ A # {}
  BY <1>2, <1>3
<1>5. LongestGap(q) = Max(A)
  BY DEF LongestGap
<1> HIDE DEF A
<1>6. A \in SUBSET Nat /\ (\A x \in A : x <= DaySec - 1) /\ DaySec - 1 \in Nat
  BY <1>1, <1>4
<1>7. Max(A) \in A
  BY <1>4, <1>6, MaxOfBounded
<1>8. LongestGap(q) \in 0..(DaySec - 1)
  BY <1>4, <1>5, <1>7
<1>9. QED
  BY <1>1, <1>8

LEMMA SubSeqDoes ==
  ASSUME NEW s \in Series, Rising(s), NEW a \in 1..Len(s), NEW b \in a..Len(s)
  PROVE  /\ SubSeq(s, a, b) \in Series /\ Rising(SubSeq(s, a, b))
         /\ \A x : x \in Held(SubSeq(s, a, b)) <=> \E i \in a..b : x = s[i]
<1> DEFINE q == SubSeq(s, a, b)
<1>1. Len(s) \in Nat /\ \A i \in 1..Len(s) : s[i] \in Stamps
  BY SeriesIs
<1>2. a \in Int /\ b \in Int /\ 1 <= a /\ a <= b /\ b <= Len(s)
  BY <1>1
<1>3. q \in Series /\ Len(q) = b - a + 1 /\ \A i \in 1..(b - a + 1) : q[i] = s[a + i - 1]
  <2>1. \A i \in a..b : s[i] \in Stamps
    BY <1>1, <1>2
  <2>2. /\ q \in Seq(Stamps) /\ Len(q) = IF a <= b THEN b - a + 1 ELSE 0
        /\ \A i \in 1..(b - a + 1) : q[i] = s[a + i - 1]
    BY <1>2, <2>1, SubSeqProperties
  <2>3. QED
    BY <1>2, <2>2 DEF Series
<1> HIDE DEF q
<1>4. ASSUME NEW i \in 1..Len(q)
      PROVE  a + i - 1 \in a..b /\ a + i - 1 \in 1..Len(s) /\ q[i] = s[a + i - 1]
  BY <1>1, <1>2, <1>3
<1>5. ASSUME NEW i \in a..b
      PROVE  i - a + 1 \in 1..Len(q) /\ q[i - a + 1] = s[i]
  <2>1. i - a + 1 \in 1..(b - a + 1) /\ a + (i - a + 1) - 1 = i
    BY <1>2
  <2>2. QED
    BY <1>3, <2>1
<1>6. Rising(q)
  <2>1. ASSUME NEW i \in 1..Len(q), NEW j \in 1..Len(q), i < j PROVE q[i] < q[j]
    <3>1. /\ a + i - 1 \in 1..Len(s) /\ q[i] = s[a + i - 1]
          /\ a + j - 1 \in 1..Len(s) /\ q[j] = s[a + j - 1]
      BY <1>4
    <3>2. a + i - 1 < a + j - 1
      BY <1>2, <1>3, <2>1
    <3>3. s[a + i - 1] < s[a + j - 1]
      BY <3>1, <3>2 DEF Rising
    <3>4. QED
      BY <3>1, <3>3
  <2>2. QED
    BY <2>1 DEF Rising
<1>7. ASSUME NEW x PROVE x \in Held(q) <=> \E i \in a..b : x = s[i]
  <2>1. ASSUME x \in Held(q) PROVE \E i \in a..b : x = s[i]
    <3>1. PICK j \in 1..Len(q) : x = q[j]
      BY <2>1 DEF Held
    <3>2. a + j - 1 \in a..b /\ x = s[a + j - 1]
      BY <1>4, <3>1
    <3>3. QED
      BY <3>2
  <2>2. ASSUME NEW i \in a..b, x = s[i] PROVE x \in Held(q)
    <3>1. i - a + 1 \in 1..Len(q) /\ q[i - a + 1] = x
      BY <1>5, <2>2
    <3>2. QED
      BY <3>1 DEF Held
  <2>3. QED
    BY <2>1, <2>2
<1>8. QED
  BY <1>3, <1>6, <1>7 DEF q

\* The index loop selects the records of the day and no other.
LEMMA DaySliceDoes ==
  ASSUME NEW s \in Series, Rising(s), NEW day \in Nat
  PROVE  LET q == DaySlice(s, day)
         IN  /\ q \in Series /\ Rising(q)
             /\ Held(q) = {v \in Held(s) : DayOf(v) = day}
<1> DEFINE I == {i \in DOMAIN s : DayOf(s[i]) = day}
           q == DaySlice(s, day)
<1>1. /\ Len(s) \in Nat /\ DOMAIN s = 1..Len(s)
      /\ \A i \in 1..Len(s) : s[i] \in Nat
  BY SeriesIs, Bounds DEF Stamps
<1>2. I \in SUBSET Nat /\ I \in SUBSET (1..Len(s)) /\ \A i \in I : i <= Len(s)
  BY <1>1
<1>3. CASE I = {}
  <2>1. q = <<>>
    BY <1>3 DEF DaySlice
  <2>2. <<>> \in Series /\ Rising(<<>>) /\ Held(<<>>) = {}
    BY DEF Series, Rising, Held
  <2>3. {v \in Held(s) : DayOf(v) = day} = {}
    BY <1>1, <1>3 DEF Held
  <2> HIDE DEF q
  <2>4. QED
    BY <2>1, <2>2, <2>3 DEF q
<1>4. CASE I # {}
  <2> DEFINE a == Min(I)
             b == Max(I)
  <2>1. q = SubSeq(s, a, b)
    BY <1>4 DEF DaySlice
  <2>2. b \in I /\ \A i \in I : i <= b
    BY <1>1, <1>2, <1>4, MaxOfBounded
  <2>3. a \in I /\ \A i \in I : a <= i
    <3>1. \E t \in I : \A u \in I : t <= u
      BY <1>2, <1>4, LeastElement
    <3>2. QED
      BY <3>1 DEF Min
  <2> HIDE DEF a, b
  <2>4. a \in 1..Len(s) /\ b \in a..Len(s)
    BY <1>1, <1>2, <2>2, <2>3
  <2>5. /\ q \in Series /\ Rising(q)
        /\ \A x : x \in Held(q) <=> \E i \in a..b : x = s[i]
    <3> HIDE DEF q
    <3>1. /\ SubSeq(s, a, b) \in Series /\ Rising(SubSeq(s, a, b))
          /\ \A x : x \in Held(SubSeq(s, a, b)) <=> \E i \in a..b : x = s[i]
      BY <2>4, SubSeqDoes
    <3>2. QED
      BY ONLY <2>1, <3>1, Zenon
  <2>6. ASSUME NEW i \in a..b PROVE i \in I
    <3>1. i \in 1..Len(s) /\ a <= i /\ i <= b /\ a \in 1..Len(s) /\ b \in 1..Len(s)
      BY <1>1, <2>4
    <3>2. s[a] <= s[i] /\ s[i] <= s[b]
      <4>1. (a < i => s[a] < s[i]) /\ (i < b => s[i] < s[b])
        BY <3>1 DEF Rising
      <4>2. (a < i \/ a = i) /\ (i < b \/ i = b)
        BY <1>1, <3>1
      <4>3. s[a] \in Nat /\ s[i] \in Nat /\ s[b] \in Nat
        BY <1>1, <3>1
      <4>4. QED
        BY <4>1, <4>2, <4>3
    <3>3. DayOf(s[a]) = day /\ DayOf(s[b]) = day
      BY <2>2, <2>3
    <3>4. DayOf(s[a]) <= DayOf(s[i]) /\ DayOf(s[i]) <= DayOf(s[b]) /\ DayOf(s[i]) \in Nat
      BY <1>1, <3>1, <3>2, DaysRise, DayOfType
    <3>5. DayOf(s[i]) = day
      BY <3>3, <3>4
    <3>6. QED
      BY <1>1, <3>1, <3>5
  <2>7. ASSUME NEW i \in I PROVE i \in a..b
    BY <1>1, <1>2, <2>2, <2>3, <2>4
  <2>8. ASSUME NEW x
        PROVE  x \in Held(q) <=> x \in Held(s) /\ DayOf(x) = day
    <3>1. x \in Held(q) <=> \E i \in I : x = s[i]
      BY <2>5, <2>6, <2>7
    <3>2. QED
      BY <1>1, <3>1 DEF Held
  <2>9. Held(q) = {v \in Held(s) : DayOf(v) = day}
    BY <2>8
  <2> HIDE DEF q
  <2>10. QED
    BY <2>5, <2>9 DEF q
<1>5. QED
  BY <1>3, <1>4

LEMMA ListDays == ListInv => DaySlicesExact
<1> SUFFICES ASSUME ListInv, NEW day \in 0..DayOf(Horizon)
             PROVE  LET s == DaySlice(list, day)
                    IN  /\ ToSet(s) = DrinksOn(AsSet(list, last_drink_ts), day)
                        /\ Len(s) = Cardinality(ToSet(s))
                        /\ LongestGap(s) < DaySec
  BY DEF DaySlicesExact
<1> DEFINE q == DaySlice(list, day)
<1>1. day \in Nat
  BY Bounds, DayOfType
<1>2. list \in Series /\ Rising(list)
  BY DEF ListInv
<1>3. q \in Series /\ Rising(q) /\ Held(q) = {v \in Held(list) : DayOf(v) = day}
  BY <1>1, <1>2, DaySliceDoes
<1> HIDE DEF q
<1>4. DrinksOn(AsSet(list, last_drink_ts), day) = {v \in Held(list) : DayOf(v) = day}
  <2>1. AsSet(list, last_drink_ts).visit = Held(list)
    BY <1>2, SeriesIs DEF AsSet, PkInit
  <2>2. QED
    BY <2>1 DEF DrinksOn
<1>5. ToSet(q) = Held(q) /\ Cardinality(Held(q)) = Len(q)
  BY <1>3, SeriesIs, RisingHolds
<1>6. LongestGap(q) < DaySec
  BY <1>3, GapsBounded
<1>7. QED
  BY <1>3, <1>4, <1>5, <1>6 DEF q

\* The index loop of day_stats selects exactly the day's visits, none twice,
\* and the gaps it reports are real: no subtraction of two neighbours wraps.
THEOREM DaySlicesExactAlways == Spec => []DaySlicesExact
BY ListInvAlways, ListDays, PTL
===============================================================================
