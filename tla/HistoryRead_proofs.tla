-------------------------- MODULE HistoryRead_proofs --------------------------
(***************************************************************************)
(* The board's read of the history stream, ChunkStream, and the PC's,      *)
(* PcStream, keep the promise of HistoryRead, for every backlog, however   *)
(* its chunks are cut and whatever goes missing.                           *)
(*                                                                         *)
(* What is under way is in order: every notification begins where the one  *)
(* before it ended, the first one where the handler stands, unless data    *)
(* went missing before it, and the last one ends where the fountain        *)
(* stands.  A request carries no bytes, it stands at the end of its chunk. *)
(***************************************************************************)
EXTENDS PcStream, SequenceTheorems, WellFoundedInduction, TLAPS

(* Sums *)

\* A non-empty set of naturals has a least element.
LEMMA Least ==
  ASSUME NEW T \in SUBSET Nat, T # {}
  PROVE  \E t \in T : \A u \in T : t <= u
<1> DEFINE R == {x \in Nat \X Nat : x[1] < x[2]}
<1>1. R = OpToRel(<, Nat)
  BY DEF OpToRel
<1>2. IsWellFoundedOn(R, Nat)
  BY <1>1, NatLessThanWellFounded
<1> HIDE DEF R
<1>3. PICK t \in T : \A u \in T : ~ (<<u, t>> \in R)
  BY <1>2, WFMin
<1>4. ASSUME NEW u \in T PROVE t <= u
  <2>1. <<u, t>> \in Nat \X Nat /\ u \in Nat /\ t \in Nat
    OBVIOUS
  <2>2. ~ (u < t)
    BY <1>3, <2>1 DEF R
  <2>3. QED
    BY <2>1, <2>2
<1>5. QED
  BY <1>4

\* A set of naturals that contains the successors, up to n, of what it contains
\* contains everything up to n.
LEMMA UpTo ==
  ASSUME NEW n \in Nat, NEW S, 0 \in S,
         \A k \in 1..n : k - 1 \in S => k \in S
  PROVE  \A k \in 0..n : k \in S
<1> SUFFICES ASSUME NEW k \in 0..n, k \notin S PROVE FALSE
  OBVIOUS
<1> DEFINE T == {i \in 0..n : i \notin S}
<1>1. T \in SUBSET Nat /\ T # {}
  OBVIOUS
<1>2. PICK t \in T : \A u \in T : t <= u
  BY <1>1, Least
<1>3. t \in 1..n /\ t \notin S
  OBVIOUS
<1>4. t - 1 \in S
  <2>1. t - 1 \in 0..n /\ ~ (t <= t - 1)
    BY <1>3
  <2>2. QED
    BY <1>2, <2>1
<1>5. QED
  BY <1>3, <1>4

Lengths == Seq(Nat)

\* g is the sum of the first k of s, for every k up to n.
IsSum(g, s, n) ==
  g = [k \in 0..n |-> IF k = 0 THEN 0 ELSE g[k - 1] + s[k]]

LEMMA SumExists ==
  ASSUME NEW s \in Lengths, NEW n \in 0..Len(s)
  PROVE  \E g : IsSum(g, s, n)
<1> DEFINE S == {i \in 0..Len(s) : \E g : IsSum(g, s, i)}
<1>1. 0 \in S
  <2>1. IsSum([k \in 0..0 |-> 0], s, 0)
    BY DEF IsSum
  <2>2. QED
    BY <2>1
<1>2. ASSUME NEW i \in 1..Len(s), i - 1 \in S PROVE i \in S
  <2>1. PICK g : IsSum(g, s, i - 1)
    BY <1>2
  <2> DEFINE h == [k \in 0..i |-> IF k = i THEN g[i - 1] + s[i] ELSE g[k]]
  <2>2. ASSUME NEW k \in 0..i
        PROVE  h[k] = IF k = 0 THEN 0 ELSE h[k - 1] + s[k]
    <3>1. CASE k = i
      <4>1. h[i - 1] = g[i - 1]
        OBVIOUS
      <4>2. QED
        BY <3>1, <4>1
    <3>2. CASE k # i
      <4>1. k \in 0..(i - 1) /\ h[k] = g[k] /\ (k # 0 => h[k - 1] = g[k - 1])
        BY <3>2
      <4>2. g[k] = IF k = 0 THEN 0 ELSE g[k - 1] + s[k]
        BY <2>1, <4>1 DEF IsSum
      <4>3. QED
        BY <4>1, <4>2
    <3>3. QED
      BY <3>1, <3>2
  <2>3. h = [k \in 0..i |-> h[k]]
    OBVIOUS
  <2> HIDE DEF h
  <2>4. IsSum(h, s, i)
    BY <2>2, <2>3 DEF IsSum
  <2>5. QED
    BY <2>4
<1> HIDE DEF S
<1>3. Len(s) \in Nat
  BY DEF Lengths
<1>4. n \in S
  BY <1>1, <1>2, <1>3, UpTo
<1>5. QED
  BY <1>4 DEF S

\* The recursion of BytesIn, unfolded once.
LEMMA BytesInStep ==
  ASSUME NEW s \in Lengths
  PROVE  /\ BytesIn(s, 0) = 0
         /\ \A n \in 1..Len(s) : BytesIn(s, n) = BytesIn(s, n - 1) + s[n]
<1> DEFINE g == CHOOSE f : IsSum(f, s, Len(s))
<1>1. Len(s) \in Nat
  BY DEF Lengths
<1>2. IsSum(g, s, Len(s))
  BY <1>1, SumExists, Len(s) \in 0..Len(s)
<1>3. ASSUME NEW n PROVE BytesIn(s, n) = g[n]
  BY DEF BytesIn, IsSum
<1> HIDE DEF g
<1>4. g[0] = 0 /\ \A n \in 1..Len(s) : g[n] = g[n - 1] + s[n]
  <2>1. g = [k \in 0..Len(s) |-> IF k = 0 THEN 0 ELSE g[k - 1] + s[k]]
    BY <1>2 DEF IsSum
  <2>2. \A k \in 0..Len(s) : g[k] = IF k = 0 THEN 0 ELSE g[k - 1] + s[k]
    BY <2>1
  <2>3. QED
    BY <1>1, <2>2
<1>5. QED
  BY <1>3, <1>4

LEMMA BytesInNat ==
  ASSUME NEW s \in Lengths, NEW n \in 0..Len(s)
  PROVE  BytesIn(s, n) \in Nat
<1> DEFINE S == {i \in 0..Len(s) : BytesIn(s, i) \in Nat}
<1>1. Len(s) \in Nat /\ \A i \in 1..Len(s) : s[i] \in Nat
  BY DEF Lengths
<1>2. 0 \in S
  BY <1>1, BytesInStep
<1>3. ASSUME NEW i \in 1..Len(s), i - 1 \in S PROVE i \in S
  <2>1. BytesIn(s, i - 1) \in Nat
    BY <1>3
  <2>2. BytesIn(s, i) = BytesIn(s, i - 1) + s[i]
    BY BytesInStep
  <2>3. QED
    BY <1>1, <2>1, <2>2
<1> HIDE DEF S
<1>4. n \in S
  BY <1>1, <1>2, <1>3, UpTo
<1>5. QED
  BY <1>4 DEF S

LEMMA BytesInGrows ==
  ASSUME NEW s \in Lengths, NEW n \in 0..Len(s), NEW m \in 0..Len(s), m <= n
  PROVE  BytesIn(s, m) <= BytesIn(s, n)
<1> DEFINE S == {i \in 0..Len(s) : m <= i => BytesIn(s, m) <= BytesIn(s, i)}
<1>1. Len(s) \in Nat /\ \A i \in 1..Len(s) : s[i] \in Nat
  BY DEF Lengths
<1>2. 0 \in S
  <2>1. 0 \in 0..Len(s) /\ (m <= 0 => m = 0)
    BY <1>1
  <2>2. BytesIn(s, m) \in Nat
    BY BytesInNat
  <2>3. QED
    BY <2>1, <2>2
<1>3. ASSUME NEW i \in 1..Len(s), i - 1 \in S PROVE i \in S
  <2>1. BytesIn(s, i - 1) \in Nat /\ BytesIn(s, i) \in Nat /\ BytesIn(s, m) \in Nat
    BY <1>1, BytesInNat, i - 1 \in 0..Len(s), i \in 0..Len(s)
  <2>2. BytesIn(s, i) = BytesIn(s, i - 1) + s[i]
    BY BytesInStep
  <2>3. m <= i => m = i \/ m <= i - 1
    OBVIOUS
  <2>4. m <= i - 1 => BytesIn(s, m) <= BytesIn(s, i - 1)
    BY <1>3
  <2>5. m <= i => BytesIn(s, m) <= BytesIn(s, i)
    BY <1>1, <2>1, <2>2, <2>3, <2>4
  <2>6. QED
    BY <2>5
<1> HIDE DEF S
<1>4. n \in S
  BY <1>1, <1>2, <1>3, UpTo
<1>5. QED
  BY <1>4 DEF S

-----------------------------------------------------------------------------
(* Where the fountain stands *)

Layout == Seq(Seq(Nat \ {0}))

Whole(b) == BytesUpTo(b, Len(b))

\* At frame f of chunk c, and behind chunk c.
At(b, c, f) ==
  IF c > Len(b) THEN Whole(b) ELSE BytesUpTo(b, c - 1) + BytesIn(b[c], f - 1)

ChunkEnd(b, c) == IF c > Len(b) THEN Whole(b) ELSE BytesUpTo(b, c)

LEMMA ChunkIsLengths ==
  ASSUME NEW b \in Layout, NEW c \in 1..Len(b)
  PROVE  b[c] \in Lengths /\ Len(b[c]) \in Nat /\ \A i \in 1..Len(b[c]) : b[c][i] \in Nat \ {0}
<1>1. b[c] \in Seq(Nat \ {0})
  BY DEF Layout
<1>2. \A s \in Seq(Nat \ {0}) : s \in Seq(Nat)
  OBVIOUS
<1>3. QED
  BY <1>1, <1>2 DEF Lengths

LEMMA BytesUpToStep ==
  ASSUME NEW b \in Layout
  PROVE  /\ BytesUpTo(b, 0) = 0
         /\ \A n \in 1..Len(b) :
              BytesUpTo(b, n) = BytesUpTo(b, n - 1) + BytesIn(b[n], Len(b[n]))
         /\ \A n \in 0..Len(b) : BytesUpTo(b, n) \in Nat /\ BytesUpTo(b, n) <= Whole(b)
         /\ Whole(b) \in Nat
<1> DEFINE s == [c \in DOMAIN b |-> BytesIn(b[c], Len(b[c]))]
<1>1. Len(b) \in Nat /\ DOMAIN b = 1..Len(b)
  BY DEF Layout
<1>2. \A c \in 1..Len(b) : BytesIn(b[c], Len(b[c])) \in Nat
  BY ChunkIsLengths, BytesInNat
<1>3. s \in Lengths /\ Len(s) = Len(b)
  BY <1>1, <1>2 DEF Lengths
<1>4. \A n : BytesUpTo(b, n) = BytesIn(s, n)
  BY DEF BytesUpTo
<1>5. \A n \in 1..Len(b) : s[n] = BytesIn(b[n], Len(b[n]))
  BY <1>1
<1> HIDE DEF s
<1>6. /\ BytesUpTo(b, 0) = 0
      /\ \A n \in 1..Len(b) :
           BytesUpTo(b, n) = BytesUpTo(b, n - 1) + BytesIn(b[n], Len(b[n]))
  BY <1>3, <1>4, <1>5, BytesInStep
<1>7. ASSUME NEW n \in 0..Len(b)
      PROVE  BytesUpTo(b, n) \in Nat /\ BytesUpTo(b, n) <= Whole(b)
  <2>1. n \in 0..Len(s) /\ Len(s) \in 0..Len(s) /\ n <= Len(s)
    BY <1>1, <1>3
  <2>2. BytesIn(s, n) \in Nat /\ BytesIn(s, n) <= BytesIn(s, Len(s))
    BY <1>3, <2>1, BytesInNat, BytesInGrows
  <2>3. QED
    BY <1>3, <1>4, <2>2 DEF Whole
<1>8. Whole(b) \in Nat
  BY <1>1, <1>7, Len(b) \in 0..Len(b) DEF Whole
<1>9. QED
  BY <1>6, <1>7, <1>8

LEMMA ChunkEndBound ==
  ASSUME NEW b \in Layout, NEW c \in Nat
  PROVE  /\ ChunkEnd(b, c) \in Nat /\ ChunkEnd(b, c) <= Whole(b)
         /\ ChunkEnd(b, 0) = 0
<1>1. Len(b) \in Nat
  BY DEF Layout
<1>2. CASE c > Len(b)
  BY <1>1, <1>2, BytesUpToStep DEF ChunkEnd
<1>3. CASE ~ (c > Len(b))
  BY <1>1, <1>3, BytesUpToStep, c \in 0..Len(b) DEF ChunkEnd
<1>4. ChunkEnd(b, 0) = 0
  BY <1>1, BytesUpToStep DEF ChunkEnd
<1>5. QED
  BY <1>2, <1>3, <1>4

\* At the last frame of a chunk the fountain stands at its end, which is where
\* the next chunk begins.
LEMMA AtEnd ==
  ASSUME NEW b \in Layout, NEW c \in 1..Len(b)
  PROVE  /\ At(b, c, Len(b[c]) + 1) = ChunkEnd(b, c)
         /\ At(b, c + 1, 1) = ChunkEnd(b, c)
<1>1. Len(b) \in Nat /\ Len(b[c]) \in Nat /\ b[c] \in Lengths
  BY ChunkIsLengths DEF Layout
<1>2. ChunkEnd(b, c) = BytesUpTo(b, c) /\ BytesUpTo(b, c) \in Nat
  BY <1>1, BytesUpToStep DEF ChunkEnd
<1>3. At(b, c, Len(b[c]) + 1) = BytesUpTo(b, c)
  <2>1. Len(b[c]) + 1 - 1 = Len(b[c]) /\ ~ (c > Len(b))
    BY <1>1
  <2>2. QED
    BY <2>1, BytesUpToStep DEF At
<1>4. At(b, c + 1, 1) = BytesUpTo(b, c)
  <2>1. CASE c = Len(b)
    BY <1>1, <2>1 DEF At, Whole
  <2>2. CASE c < Len(b)
    <3>1. c + 1 \in 1..Len(b) /\ ~ (c + 1 > Len(b)) /\ c + 1 - 1 = c /\ 1 - 1 = 0
      BY <1>1, <2>2
    <3>2. BytesIn(b[c + 1], 0) = 0
      BY <3>1, ChunkIsLengths, BytesInStep
    <3>3. QED
      BY <1>2, <3>1, <3>2 DEF At
  <2>3. QED
    BY <1>1, <2>1, <2>2
<1>5. QED
  BY <1>2, <1>3, <1>4

LEMMA AtNext ==
  ASSUME NEW b \in Layout, NEW c \in 1..Len(b), NEW f \in 1..Len(b[c])
  PROVE  /\ At(b, c, f + 1) = At(b, c, f) + b[c][f]
         /\ At(b, c, f) = BytesUpTo(b, c - 1) + BytesIn(b[c], f - 1)
<1>1. Len(b) \in Nat /\ Len(b[c]) \in Nat /\ b[c] \in Lengths /\ b[c][f] \in Nat
  BY ChunkIsLengths DEF Layout
<1>2. ~ (c > Len(b)) /\ f + 1 - 1 = f /\ c - 1 \in 0..Len(b) /\ f - 1 \in 0..Len(b[c])
  BY <1>1
<1>3. BytesIn(b[c], f) = BytesIn(b[c], f - 1) + b[c][f]
  BY <1>1, BytesInStep
<1>4. BytesUpTo(b, c - 1) \in Nat /\ BytesIn(b[c], f - 1) \in Nat
  BY <1>1, <1>2, BytesUpToStep, BytesInNat
<1>5. /\ At(b, c, f + 1) = BytesUpTo(b, c - 1) + BytesIn(b[c], f)
      /\ At(b, c, f) = BytesUpTo(b, c - 1) + BytesIn(b[c], f - 1)
  BY <1>2 DEF At
<1>6. QED
  BY <1>1, <1>3, <1>4, <1>5

LEMMA AtBound ==
  ASSUME NEW b \in Layout, NEW c \in 1..(Len(b) + 1), NEW f \in Nat \ {0},
         c <= Len(b) => f <= Len(b[c]) + 1
  PROVE  At(b, c, f) \in Nat /\ At(b, c, f) <= Whole(b)
<1>1. Len(b) \in Nat
  BY DEF Layout
<1>2. CASE c > Len(b)
  BY <1>2, BytesUpToStep DEF At
<1>3. CASE c <= Len(b)
  <2>1. c \in 1..Len(b) /\ ~ (c > Len(b)) /\ c - 1 \in 0..Len(b)
    BY <1>1, <1>3
  <2>2. Len(b[c]) \in Nat /\ b[c] \in Lengths
    BY <2>1, ChunkIsLengths
  <2>3. f - 1 \in 0..Len(b[c]) /\ f - 1 <= Len(b[c]) /\ Len(b[c]) \in 0..Len(b[c])
    BY <1>3, <2>2
  <2>4. /\ BytesIn(b[c], f - 1) \in Nat
        /\ BytesIn(b[c], f - 1) <= BytesIn(b[c], Len(b[c]))
        /\ BytesIn(b[c], Len(b[c])) \in Nat
    BY <2>2, <2>3, BytesInNat, BytesInGrows
  <2>5. /\ BytesUpTo(b, c) = BytesUpTo(b, c - 1) + BytesIn(b[c], Len(b[c]))
        /\ BytesUpTo(b, c) <= Whole(b) /\ BytesUpTo(b, c - 1) \in Nat /\ Whole(b) \in Nat
    BY <2>1, BytesUpToStep
  <2>6. At(b, c, f) = BytesUpTo(b, c - 1) + BytesIn(b[c], f - 1)
    BY <2>1 DEF At
  <2>7. QED
    BY <2>4, <2>5, <2>6
<1>4. QED
  BY <1>1, <1>2, <1>3

-----------------------------------------------------------------------------
(* What is under way *)

Notes == [data : Seq(Nat), ask : Nat]

\* Where a notification begins, and where it ends.
Begins(b, n) == IF n.ask > 0 THEN ChunkEnd(b, n.ask) ELSE n.data[1] - 1
Ends(b, n) == Begins(b, n) + Len(n.data)

IsNote(b, n) ==
  /\ n \in Notes
  /\ n.ask > 0 => n.data = <<>>
  /\ n.ask = 0 => Len(n.data) > 0 /\ Len(n.data) + RecLen <= BlobMax
  /\ Begins(b, n) \in Nat
  /\ \A i \in 1..Len(n.data) : n.data[i] = Begins(b, n) + i

InOrder(b, a, end) ==
  /\ a \in Seq(Notes)
  /\ \A k \in 1..Len(a) : IsNote(b, a[k])
  /\ \A k, l \in 1..Len(a) : l = k + 1 => Begins(b, a[l]) = Ends(b, a[k])
  /\ \A k \in 1..Len(a) : Ends(b, a[k]) <= end /\ (k = Len(a) => Ends(b, a[k]) = end)

\* Where the next notification to arrive begins.
Ahead(b, a, end) == IF a = <<>> THEN end ELSE Begins(b, a[1])

LEMMA AheadBound ==
  ASSUME NEW b, NEW a, NEW end \in Nat, InOrder(b, a, end)
  PROVE  Ahead(b, a, end) \in Nat /\ Ahead(b, a, end) <= end
<1>1. CASE a = <<>>
  BY <1>1 DEF Ahead
<1>2. CASE a # <<>>
  <2>1. 1 \in 1..Len(a)
    BY <1>2 DEF InOrder
  <2>2. IsNote(b, a[1]) /\ Ends(b, a[1]) <= end
    BY <2>1 DEF InOrder
  <2>3. Begins(b, a[1]) \in Nat /\ Len(a[1].data) \in Nat
    BY <2>2 DEF IsNote, Notes
  <2>4. QED
    BY <1>2, <2>2, <2>3 DEF Ahead, Ends
<1>3. QED
  BY <1>1, <1>2

LEMMA OrderHead ==
  ASSUME NEW b, NEW a, NEW end \in Nat, InOrder(b, a, end), a # <<>>
  PROVE  /\ IsNote(b, Head(a)) /\ Ends(b, Head(a)) <= end
         /\ Ahead(b, a, end) = Begins(b, Head(a))
         /\ InOrder(b, Tail(a), end) /\ Len(Tail(a)) < Len(a)
         /\ Ahead(b, Tail(a), end) = Ends(b, Head(a))
<1> DEFINE t == Tail(a)
<1>1. /\ a \in Seq(Notes) /\ Len(a) \in Nat /\ Len(a) > 0
      /\ t \in Seq(Notes) /\ Len(t) = Len(a) - 1
      /\ \A k \in 1..Len(t) : t[k] = a[k + 1]
      /\ Head(a) = a[1]
  BY DEF InOrder
<1> HIDE DEF t
<1>2. IsNote(b, a[1]) /\ Ends(b, a[1]) <= end
  BY <1>1, 1 \in 1..Len(a) DEF InOrder
<1>3. \A k \in 1..Len(t) : k + 1 \in 1..Len(a) /\ (k = Len(t) => k + 1 = Len(a))
  BY <1>1
<1>4. ASSUME NEW k \in 1..Len(t)
      PROVE  /\ IsNote(b, t[k]) /\ Ends(b, t[k]) <= end
             /\ k = Len(t) => Ends(b, t[k]) = end
  BY <1>1, <1>3 DEF InOrder
<1>5. ASSUME NEW k \in 1..Len(t), NEW l \in 1..Len(t), l = k + 1
      PROVE  Begins(b, t[l]) = Ends(b, t[k])
  <2>1. k + 1 \in 1..Len(a) /\ l + 1 \in 1..Len(a) /\ l + 1 = (k + 1) + 1
    BY <1>3, <1>5
  <2>2. Begins(b, a[l + 1]) = Ends(b, a[k + 1])
    BY <2>1 DEF InOrder
  <2>3. QED
    BY <1>1, <2>2
<1>6. InOrder(b, t, end)
  BY <1>1, <1>4, <1>5 DEF InOrder
<1>7. Ahead(b, t, end) = Ends(b, a[1])
  <2>1. CASE t = <<>>
    <3>1. Len(a) = 1
      BY <1>1, <2>1
    <3>2. Ends(b, a[1]) = end
      BY <3>1, 1 \in 1..Len(a) DEF InOrder
    <3>3. QED
      BY <2>1, <3>2 DEF Ahead
  <2>2. CASE t # <<>>
    <3>1. 1 \in 1..Len(t) /\ 1 \in 1..Len(a) /\ 2 \in 1..Len(a) /\ t[1] = a[2] /\ 2 = 1 + 1
      BY <1>1, <2>2
    <3>2. Begins(b, a[2]) = Ends(b, a[1])
      BY <3>1 DEF InOrder
    <3>3. QED
      BY <2>2, <3>1, <3>2 DEF Ahead
  <2>3. QED
    BY <2>1, <2>2
<1>8. Ahead(b, a, end) = Begins(b, a[1])
  BY DEF Ahead
<1>9. QED
  BY <1>1, <1>2, <1>6, <1>7, <1>8 DEF t

LEMMA OrderAppend ==
  ASSUME NEW b, NEW a, NEW end \in Nat, InOrder(b, a, end),
         NEW n, IsNote(b, n), Begins(b, n) = end
  PROVE  /\ InOrder(b, Append(a, n), Ends(b, n))
         /\ Len(Append(a, n)) = Len(a) + 1
         /\ Ahead(b, Append(a, n), Ends(b, n)) = Ahead(b, a, end)
<1> DEFINE t == Append(a, n)
           m == Len(a)
           next == Ends(b, n)
<1>1. /\ a \in Seq(Notes) /\ m \in Nat /\ n \in Notes
      /\ t \in Seq(Notes) /\ Len(t) = m + 1
      /\ \A k \in 1..m : t[k] = a[k]
      /\ t[m + 1] = n
  BY DEF InOrder, IsNote
<1>2. next \in Nat /\ end <= next
  <2>1. Len(n.data) \in Nat
    BY DEF IsNote, Notes
  <2>2. QED
    BY <2>1 DEF Ends
<1> HIDE DEF t, m, next
<1>3. ASSUME NEW k \in 1..Len(t)
      PROVE  /\ IsNote(b, t[k]) /\ Ends(b, t[k]) <= next
             /\ k = Len(t) => Ends(b, t[k]) = next
  <2>1. CASE k = m + 1
    BY <1>1, <1>2, <2>1 DEF next
  <2>2. CASE k # m + 1
    <3>1. k \in 1..m /\ k # Len(t)
      BY <1>1, <2>2
    <3>2. IsNote(b, a[k]) /\ Ends(b, a[k]) <= end
      BY <3>1 DEF InOrder, m
    <3>3. Ends(b, a[k]) \in Nat
      BY <3>2 DEF IsNote, Notes, Ends
    <3>4. QED
      BY <1>1, <1>2, <3>1, <3>2, <3>3
  <2>3. QED
    BY <2>1, <2>2
<1>4. ASSUME NEW k \in 1..Len(t), NEW l \in 1..Len(t), l = k + 1
      PROVE  Begins(b, t[l]) = Ends(b, t[k])
  <2>1. k \in 1..m /\ t[k] = a[k]
    BY <1>1, <1>4
  <2>2. CASE l = m + 1
    <3>1. k = m
      BY <1>1, <1>4, <2>2
    <3>2. Ends(b, a[k]) = end
      BY <2>1, <3>1 DEF InOrder, m
    <3>3. QED
      BY <1>1, <2>1, <2>2, <3>2
  <2>3. CASE l # m + 1
    <3>1. l \in 1..m /\ t[l] = a[l]
      BY <1>1, <2>3
    <3>2. Begins(b, a[l]) = Ends(b, a[k])
      BY <1>4, <2>1, <3>1 DEF InOrder, m
    <3>3. QED
      BY <2>1, <3>1, <3>2
  <2>4. QED
    BY <2>2, <2>3
<1>5. InOrder(b, t, next)
  BY <1>1, <1>3, <1>4 DEF InOrder
<1>6. Ahead(b, t, next) = Ahead(b, a, end)
  <2>1. t # <<>>
    BY <1>1
  <2>2. CASE a = <<>>
    <3>1. t[1] = n
      BY <1>1, <2>2 DEF m
    <3>2. QED
      BY <2>1, <2>2, <3>1 DEF Ahead
  <2>3. CASE a # <<>>
    <3>1. t[1] = a[1]
      BY <1>1, <2>3, 1 \in 1..m DEF m
    <3>2. QED
      BY <2>1, <2>3, <3>1 DEF Ahead
  <2>4. QED
    BY <2>2, <2>3
<1>7. QED
  BY <1>1, <1>5, <1>6 DEF t, m, next

-----------------------------------------------------------------------------
(* What both readers have in common *)

Place ==
  /\ chunks \in Backlogs
  /\ cur \in 1..(Len(chunks) + 1) /\ frame \in Nat \ {0}
  /\ cur <= Len(chunks) => frame <= Len(chunks[cur]) + 1

Here == At(chunks, cur, frame)
Reached == Ahead(chunks, air, Here)
Counting == pc \notin {"finish", "done"}

\* As long as the handler counts it stands where the next notification begins,
\* short of it by what went missing.
Counted ==
  /\ total \in Nat /\ total <= Reached
  /\ Counting /\ dataLost => total < Reached
  /\ Counting /\ ~dataLost => total = Reached
  /\ dataLost => total < pending

\* Nothing is under way before the read begins.
Fresh ==
  pc = "start" =>
    /\ air = <<>> /\ total = 0 /\ blob = <<>> /\ ackSeq = 0 /\ ~ackReq
    /\ cur = 1 /\ frame = 1

Stream ==
  /\ Place /\ InOrder(chunks, air, Here) /\ Counted
  /\ dataLost \in BOOLEAN

LEMMA Sized ==
  /\ RecLen \in Nat \ {0} /\ BlobMax \in Nat \ {0} /\ BlobMax % RecLen = 0
  /\ AskEvery \in Nat \ {0} /\ AirMax \in Nat \ {0} /\ MaxMissed \in Nat
  /\ Timeout \in Nat \ {0} /\ Quiet \in Nat \ {0}
BY StreamAssumption DEF StreamAssumption

LEMMA Lay ==
  ASSUME NEW b \in Backlogs
  PROVE  /\ b \in Layout /\ Len(b) \in Nat
         /\ Whole(b) % RecLen = 0
         /\ \A i \in 1..Len(b) : \A j \in 1..Len(b[i]) : b[i][j] + RecLen <= BlobMax
<1>1. b \in Layout
  BY StreamAssumption DEF StreamAssumption, Layout
<1>2. Whole(b) % RecLen = 0
  BY StreamAssumption DEF StreamAssumption, Whole
<1>3. \A i \in DOMAIN b : \A j \in DOMAIN b[i] : b[i][j] + RecLen <= BlobMax
  BY StreamAssumption DEF StreamAssumption
<1>4. Len(b) \in Nat /\ DOMAIN b = 1..Len(b)
  BY <1>1 DEF Layout
<1>5. \A i \in 1..Len(b) : DOMAIN b[i] = 1..Len(b[i])
  BY <1>1 DEF Layout
<1>6. QED
  BY <1>1, <1>2, <1>3, <1>4, <1>5

LEMMA HereBound ==
  ASSUME Place
  PROVE  /\ Here \in Nat /\ Here <= pending /\ pending \in Nat
         /\ pending = Whole(chunks)
<1>1. chunks \in Layout
  BY Lay DEF Place
<1>2. Here \in Nat /\ Here <= Whole(chunks)
  BY <1>1, AtBound DEF Place, Here
<1>3. pending = Whole(chunks)
  BY DEF pending, Whole
<1>4. QED
  BY <1>1, <1>2, <1>3, BytesUpToStep

\* The handler is never ahead of the fountain.
LEMMA TotalBound ==
  ASSUME Stream
  PROVE  Reached \in Nat /\ Reached <= Here /\ Reached <= pending /\ total <= pending
<1>1. Here \in Nat /\ Here <= pending /\ pending \in Nat
  BY HereBound DEF Stream
<1>2. Reached \in Nat /\ Reached <= Here
  BY <1>1, AheadBound DEF Stream, Reached
<1>3. QED
  BY <1>1, <1>2 DEF Stream, Counted

\* Nothing of the stream changes.
LEMMA Still ==
  ASSUME Stream, chunks' = chunks, cur' = cur, frame' = frame, air' = air,
         dataLost' = dataLost, total' = total, Counting' => Counting
  PROVE  Stream'
<1>1. Here' = Here
  BY DEF Here
<1>2. Reached' = Reached
  BY <1>1 DEF Reached
<1>3. pending' = pending
  BY DEF pending
<1>4. Place'
  BY DEF Stream, Place
<1>5. InOrder(chunks', air', Here')
  BY <1>1 DEF Stream
<1>6. Counted'
  BY <1>2, <1>3 DEF Stream, Counted
<1>7. QED
  BY <1>4, <1>5, <1>6 DEF Stream

\* A notification is appended to those under way.
LEMMA SentOn ==
  ASSUME Stream, Place', chunks' = chunks, dataLost' = dataLost, total' = total,
         Counting' <=> Counting,
         NEW n, IsNote(chunks, n), Begins(chunks, n) = Here,
         air' = Append(air, n), Here' = Ends(chunks, n)
  PROVE  Stream'
<1>1. Here \in Nat
  BY HereBound DEF Stream
<1>2. /\ InOrder(chunks, air', Here')
      /\ Ahead(chunks, air', Here') = Ahead(chunks, air, Here)
  BY <1>1, OrderAppend DEF Stream
<1>3. Reached' = Reached /\ pending' = pending
  BY <1>2 DEF Reached, pending
<1>4. Counted'
  BY <1>3 DEF Stream, Counted
<1>5. QED
  BY <1>2, <1>4 DEF Stream

LEMMA SendFrameStream ==
  ASSUME Stream, SendFrame
  PROVE  Stream'
<1> DEFINE len == chunks[cur][frame]
           n == [data |-> [i \in 1..len |-> Here + i], ask |-> 0]
<1>1. chunks \in Layout /\ cur \in 1..Len(chunks) /\ frame \in 1..Len(chunks[cur])
  <2>1. chunks \in Layout /\ cur <= Len(chunks) /\ frame <= Len(chunks[cur])
    BY Lay DEF Stream, Place, SendFrame, Sending
  <2>2. Len(chunks) \in Nat
    BY Lay DEF Stream, Place
  <2>3. cur \in 1..Len(chunks)
    BY <2>1, <2>2 DEF Stream, Place
  <2>4. Len(chunks[cur]) \in Nat
    BY <2>1, <2>3, ChunkIsLengths
  <2>5. QED
    BY <2>1, <2>3, <2>4 DEF Stream, Place
<1>2. len \in Nat \ {0} /\ len + RecLen <= BlobMax
  <2>1. chunks \in Backlogs
    BY DEF Stream, Place
  <2>2. QED
    BY <1>1, <2>1, ChunkIsLengths, Lay
<1>3. Here \in Nat
  BY HereBound DEF Stream
<1>4. At(chunks, cur, frame + 1) = Here + len
  BY <1>1, AtNext DEF Here
<1>5. Here = BytesUpTo(chunks, cur - 1) + BytesIn(chunks[cur], frame - 1)
  BY <1>1, AtNext DEF Here
<1>6. air' = Append(air, n)
  BY <1>5 DEF SendFrame
<1>7. /\ chunks' = chunks /\ dataLost' = dataLost /\ total' = total /\ pc' = pc
      /\ cur' = cur /\ frame' = frame + 1
  BY DEF SendFrame, shared
<1>8. Here' = Here + len
  BY <1>4, <1>7 DEF Here
<1> HIDE DEF len
<1>9. n.data \in Seq(Nat) /\ Len(n.data) = len /\ \A i \in 1..len : n.data[i] = Here + i
  BY <1>2, <1>3
<1>10. n \in Notes /\ n.ask = 0
  BY <1>9 DEF Notes
<1> HIDE DEF n
<1>11. Begins(chunks, n) = Here
  <2>1. n.data[1] = Here + 1
    BY <1>2, <1>9, 1 \in 1..len
  <2>2. QED
    BY <1>3, <1>10, <2>1 DEF Begins
<1>12. Ends(chunks, n) = Here + len
  BY <1>9, <1>11 DEF Ends
<1>13. IsNote(chunks, n)
  BY <1>2, <1>3, <1>9, <1>10, <1>11 DEF IsNote
<1>14. Place'
  <2>1. Len(chunks[cur]) \in Nat
    BY <1>1, ChunkIsLengths
  <2>2. frame + 1 <= Len(chunks[cur]) + 1 /\ frame + 1 \in Nat \ {0}
    BY <1>1, <2>1
  <2>3. QED
    BY <1>7, <2>2 DEF Stream, Place
<1>15. Counting' <=> Counting
  BY <1>7 DEF Counting
<1>16. QED
  BY <1>6, <1>7, <1>8, <1>11, <1>12, <1>13, <1>14, <1>15, SentOn

\* The fountain asks at the end of its chunk.
LEMMA WaitingAtEnd ==
  ASSUME Place, Waiting
  PROVE  /\ Here = ChunkEnd(chunks, cur)
         /\ cur <= Len(chunks) =>
              cur \in 1..Len(chunks) /\ At(chunks, cur + 1, 1) = Here
<1>1. chunks \in Layout /\ Len(chunks) \in Nat
  BY Lay DEF Place
<1>2. CASE cur > Len(chunks)
  BY <1>1, <1>2 DEF Here, At, ChunkEnd, Place
<1>3. CASE cur <= Len(chunks)
  <2>1. cur \in 1..Len(chunks)
    BY <1>1, <1>3 DEF Place
  <2>2. frame = Len(chunks[cur]) + 1
    <3>1. Len(chunks[cur]) \in Nat
      BY <1>1, <2>1, ChunkIsLengths
    <3>2. QED
      BY <1>3, <3>1 DEF Place, Waiting, Sending
  <2>3. QED
    BY <1>1, <2>1, <2>2, AtEnd DEF Here
<1>4. QED
  BY <1>1, <1>2, <1>3 DEF Place

LEMMA AskStream ==
  ASSUME Stream, Ask
  PROVE  Stream'
<1> DEFINE n == [data |-> <<>>, ask |-> cur]
<1>1. Here = ChunkEnd(chunks, cur)
  BY WaitingAtEnd DEF Stream, Ask
<1>2. Here \in Nat
  BY HereBound DEF Stream
<1>3. /\ chunks' = chunks /\ dataLost' = dataLost /\ total' = total /\ pc' = pc
      /\ cur' = cur /\ frame' = frame /\ air' = Append(air, n)
  BY DEF Ask, shared
<1>4. Place' /\ Here' = Here /\ (Counting' <=> Counting)
  BY <1>3 DEF Stream, Place, Here, Counting
<1>5. cur \in Nat /\ cur > 0
  <2>1. Len(chunks) \in Nat
    BY Lay DEF Stream, Place
  <2>2. QED
    BY <2>1 DEF Stream, Place
<1>6. n \in Notes /\ n.ask = cur /\ n.data = <<>> /\ Len(n.data) = 0
  BY <1>5 DEF Notes
<1> HIDE DEF n
<1>7. Begins(chunks, n) = Here
  BY <1>1, <1>5, <1>6 DEF Begins
<1>8. Ends(chunks, n) = Here
  BY <1>2, <1>6, <1>7 DEF Ends
<1>9. IsNote(chunks, n)
  BY <1>2, <1>5, <1>6, <1>7 DEF IsNote
<1>10. QED
  BY <1>3, <1>4, <1>7, <1>8, <1>9, SentOn

\* The head of what is under way is gone, one way or the other.
LEMMA HeadGone ==
  ASSUME Stream, air # <<>>, chunks' = chunks, cur' = cur, frame' = frame,
         air' = Tail(air)
  PROVE  /\ Place' /\ InOrder(chunks', air', Here')
         /\ IsNote(chunks, Head(air))
         /\ Reached = Begins(chunks, Head(air)) /\ Reached' = Ends(chunks, Head(air))
         /\ Reached' = Reached + Len(Head(air).data)
         /\ Reached \in Nat /\ Len(Head(air).data) \in Nat /\ Reached' <= pending
         /\ pending' = pending
<1>1. Here' = Here /\ pending' = pending /\ Place'
  BY DEF Stream, Here, pending, Place
<1>2. Here \in Nat /\ Here <= pending /\ pending \in Nat
  BY HereBound DEF Stream
<1>3. /\ IsNote(chunks, Head(air)) /\ Ends(chunks, Head(air)) <= Here
      /\ Ahead(chunks, air, Here) = Begins(chunks, Head(air))
      /\ InOrder(chunks, Tail(air), Here)
      /\ Ahead(chunks, Tail(air), Here) = Ends(chunks, Head(air))
  BY <1>2, OrderHead DEF Stream
<1>4. /\ Reached = Begins(chunks, Head(air)) /\ Reached' = Ends(chunks, Head(air))
      /\ InOrder(chunks', air', Here')
  BY <1>1, <1>3 DEF Reached
<1>5. Len(Head(air).data) \in Nat /\ Reached \in Nat
  BY <1>3, <1>4 DEF IsNote, Notes
<1>6. Reached' = Reached + Len(Head(air).data)
  BY <1>4 DEF Ends
<1>7. Reached' <= pending
  BY <1>2, <1>3, <1>4, <1>5, <1>6
<1>8. QED
  BY <1>1, <1>3, <1>4, <1>5, <1>6, <1>7

LEMMA LoseStream ==
  ASSUME Stream, LoseNotification
  PROVE  Stream'
<1> DEFINE n == Head(air)
<1>1. /\ air # <<>> /\ air' = Tail(air) /\ total' = total /\ pc' = pc
      /\ chunks' = chunks /\ cur' = cur /\ frame' = frame
      /\ dataLost' = (dataLost \/ n.ask = 0)
  BY DEF LoseNotification, fountain, shared
<1>2. /\ Place' /\ InOrder(chunks', air', Here') /\ pending' = pending
      /\ IsNote(chunks, n) /\ Reached' = Reached + Len(n.data)
      /\ Reached \in Nat /\ Len(n.data) \in Nat /\ Reached' <= pending
  BY <1>1, HeadGone
<1>3. Counting' <=> Counting
  BY <1>1 DEF Counting
<1>4. dataLost' \in BOOLEAN
  BY <1>1 DEF Stream
<1>5. pending \in Nat /\ total \in Nat /\ total <= Reached
  BY HereBound DEF Stream, Counted
<1>6. CASE n.ask = 0
  <2>1. dataLost'
    BY <1>1, <1>6
  <2>2. Len(n.data) > 0
    BY <1>2, <1>6 DEF IsNote
  <2>3. total' < Reached' /\ total' < pending' /\ total' <= Reached'
    BY <1>1, <1>2, <1>5, <2>2
  <2>4. Counted'
    BY <1>1, <1>5, <2>1, <2>3 DEF Counted
  <2>5. QED
    BY <1>2, <1>4, <2>4 DEF Stream
<1>7. CASE n.ask # 0
  <2>1. dataLost' = dataLost
    BY <1>1, <1>7 DEF Stream
  <2>2. Len(n.data) = 0
    BY <1>2, <1>7 DEF IsNote, Notes
  <2>3. Reached' = Reached
    BY <1>2, <2>2
  <2>4. Counted'
    BY <1>1, <1>2, <1>3, <2>1, <2>3 DEF Stream, Counted
  <2>5. QED
    BY <1>2, <1>4, <2>4 DEF Stream
<1>8. QED
  BY <1>6, <1>7

\* The handler takes the head, and counts its bytes as long as it counts.
LEMMA TakenStream ==
  ASSUME Stream, air # <<>>, chunks' = chunks, cur' = cur, frame' = frame,
         air' = Tail(air), dataLost' = dataLost, pc' = pc,
         Counting => total' = total + Len(Head(air).data),
         ~Counting => total' = total
  PROVE  Stream'
<1> DEFINE len == Len(Head(air).data)
<1>1. /\ Place' /\ InOrder(chunks', air', Here') /\ pending' = pending
      /\ Reached' = Reached + len
      /\ Reached \in Nat /\ len \in Nat /\ Reached' <= pending
  BY HeadGone
<1> HIDE DEF len
<1>2. (Counting' <=> Counting) /\ dataLost' \in BOOLEAN
  BY DEF Counting, Stream
<1>3. pending \in Nat /\ total \in Nat /\ total <= Reached
  BY HereBound DEF Stream, Counted
<1>4. CASE Counting
  <2>1. total' = total + len
    BY <1>4 DEF len
  <2>2. /\ total' \in Nat /\ total' <= Reached'
        /\ total < Reached => total' < Reached' /\ total' < pending
        /\ total = Reached => total' = Reached'
    BY <1>1, <1>3, <2>1
  <2>3. Counted'
    BY <1>1, <1>2, <1>4, <2>2 DEF Stream, Counted
  <2>4. QED
    BY <1>1, <1>2, <2>3 DEF Stream
<1>5. CASE ~Counting
  <2>1. total' = total /\ total <= Reached'
    BY <1>1, <1>3, <1>5
  <2>2. Counted'
    BY <1>1, <1>2, <1>5, <2>1 DEF Stream, Counted
  <2>3. QED
    BY <1>1, <1>2, <2>2 DEF Stream
<1>6. QED
  BY <1>4, <1>5

\* A reply moves the fountain to its next chunk, which is where it stands.
LEMMA ReplyStream ==
  ASSUME Stream, NEW s, TakeReply(s), chunks' = chunks, air' = air,
         dataLost' = dataLost, total' = total, Counting
  PROVE  Stream' /\ (cur' = cur \/ (s = cur /\ cur <= Len(chunks) /\ cur' = cur + 1))
<1>1. CASE Waiting /\ s = cur /\ cur <= Len(chunks)
  <2>1. cur' = cur + 1 /\ frame' = 1
    BY <1>1 DEF TakeReply
  <2>2. cur \in 1..Len(chunks) /\ At(chunks, cur + 1, 1) = Here
    BY <1>1, WaitingAtEnd DEF Stream
  <2>3. chunks \in Layout /\ Len(chunks) \in Nat
    BY Lay DEF Stream, Place
  <2>4. Here' = Here
    BY <2>1, <2>2 DEF Here
  <2>5. Place'
    <3>1. cur + 1 \in 1..(Len(chunks) + 1)
      BY <2>2, <2>3
    <3>2. cur + 1 <= Len(chunks) => 1 <= Len(chunks[cur + 1]) + 1
      <4>1. cur + 1 <= Len(chunks) => cur + 1 \in 1..Len(chunks)
        BY <3>1
      <4>2. \A c \in 1..Len(chunks) : Len(chunks[c]) \in Nat
        BY <2>3, ChunkIsLengths
      <4>3. QED
        BY <4>1, <4>2
    <3>3. QED
      BY <2>1, <3>1, <3>2 DEF Stream, Place
  <2>6. Reached' = Reached /\ pending' = pending
    BY <2>4 DEF Reached, pending
  <2>7. Counted' /\ InOrder(chunks', air', Here')
    BY <2>4, <2>6 DEF Stream, Counted
  <2>8. QED
    BY <1>1, <2>1, <2>5, <2>7 DEF Stream
<1>2. CASE ~ (Waiting /\ s = cur /\ cur <= Len(chunks))
  <2>1. cur' = cur /\ frame' = frame
    BY <1>2 DEF TakeReply
  <2>2. QED
    BY <2>1, Still
<1>3. QED
  BY <1>1, <1>2

LEMMA StreamInit ==
  ASSUME Init
  PROVE  Stream /\ Fresh
<1>1. /\ chunks \in Backlogs /\ cur = 1 /\ frame = 1 /\ air = <<>> /\ dataLost = FALSE
      /\ total = 0
  BY DEF Init
<1>2. chunks \in Layout /\ Len(chunks) \in Nat
  BY <1>1, Lay
<1>3. Place
  <2>1. 1 <= Len(chunks) => Len(chunks[1]) \in Nat
    BY <1>2, ChunkIsLengths, 1 <= Len(chunks) => 1 \in 1..Len(chunks)
  <2>2. QED
    BY <1>1, <1>2, <2>1 DEF Place
<1>4. Here = 0
  <2>1. CASE Len(chunks) = 0
    <3>1. 1 > Len(chunks) /\ Whole(chunks) = 0
      BY <1>2, <2>1, BytesUpToStep DEF Whole
    <3>2. QED
      BY <1>1, <3>1 DEF Here, At
  <2>2. CASE Len(chunks) # 0
    <3>1. 1 \in 1..Len(chunks) /\ ~ (1 > Len(chunks)) /\ 1 - 1 = 0
      BY <1>2, <2>2
    <3>2. BytesUpTo(chunks, 0) = 0 /\ BytesIn(chunks[1], 0) = 0
      BY <1>2, <3>1, BytesUpToStep, ChunkIsLengths, BytesInStep
    <3>3. QED
      BY <1>1, <3>1, <3>2 DEF Here, At
  <2>3. QED
    BY <2>1, <2>2
<1>5. InOrder(chunks, air, Here)
  BY <1>1, <1>4 DEF InOrder
<1>6. Reached = 0
  BY <1>1, <1>4 DEF Reached, Ahead
<1>7. Counted
  BY <1>1, <1>6 DEF Counted
<1>8. QED
  BY <1>1, <1>3, <1>5, <1>7 DEF Stream, Fresh, Init

-----------------------------------------------------------------------------
(* The window of the newest bytes *)

LEMMA Ceiling ==
  ASSUME NEW x \in Nat, NEW r \in Nat \ {0}
  PROVE  LET q == (x + r - 1) \div r
         IN  q \in Nat /\ q * r \in Nat /\ x <= q * r /\ q * r < x + r
<1> DEFINE y == x + r - 1
           q == y \div r
<1>1. y \in Nat
  OBVIOUS
<1>2. q \in Nat /\ y % r \in Nat /\ y % r < r /\ y = r * q + (y % r)
  BY <1>1
<1>3. q * r = r * q /\ q * r \in Nat
  BY <1>2
<1> HIDE DEF q
<1>4. y = q * r + (y % r)
  BY <1>2, <1>3
<1> DEFINE z == q * r
           m == y % r
<1>5. z \in Nat /\ m \in Nat /\ m < r /\ y = z + m
  BY <1>2, <1>3, <1>4
<1> HIDE DEF z, m
<1>6. x <= z /\ z < x + r
  BY <1>5
<1>7. QED
  BY <1>2, <1>5, <1>6 DEF z, q

LEMMA Multiple ==
  ASSUME NEW x \in Nat, NEW r \in Nat \ {0}
  PROVE  /\ x % r = 0 => x = (x \div r) * r
         /\ x \div r \in Nat
<1>1. x \div r \in Nat /\ x % r \in Nat /\ x = r * (x \div r) + (x % r)
  OBVIOUS
<1>2. (x \div r) * r = r * (x \div r)
  BY <1>1
<1>3. QED
  BY <1>1, <1>2

LEMMA Division ==
  ASSUME NEW k \in Nat, NEW r \in Nat \ {0}, NEW m \in 0..(r - 1)
  PROVE  /\ (k * r + m) \div r = k
         /\ (k * r + m) % r = m
<1>1. k * r \in Nat /\ k * r = r * k
  OBVIOUS
<1> DEFINE x == k * r + m
           q == x \div r
<1>2. x \in Nat /\ q \in Nat /\ x % r \in 0..(r - 1) /\ x = r * q + (x % r)
  BY <1>1
<1>3. q = k
  <2>1. CASE q < k
    <3>1. q + 1 <= k
      BY <1>2, <2>1
    <3>2. r * (q + 1) <= r * k
      BY <1>2, <3>1
    <3>3. r * (q + 1) = r * q + r
      BY <1>2
    <3>4. QED
      BY <1>1, <1>2, <3>2, <3>3
  <2>2. CASE q > k
    <3>1. k + 1 <= q
      BY <1>2, <2>2
    <3>2. r * (k + 1) <= r * q
      BY <1>2, <3>1
    <3>3. r * (k + 1) = r * k + r
      OBVIOUS
    <3>4. QED
      BY <1>1, <1>2, <3>2, <3>3
  <2>3. QED
    BY <1>2, <2>1, <2>2
<1>4. x % r = m
  BY <1>1, <1>2, <1>3
<1>5. QED
  BY <1>3, <1>4

LEMMA AlignedSum ==
  ASSUME NEW a \in Nat, NEW q \in Nat, NEW r \in Nat \ {0}, a % r = 0
  PROVE  (a + q * r) % r = 0
<1> DEFINE k == a \div r
<1>1. k \in Nat /\ a = k * r
  BY Multiple
<1> HIDE DEF k
<1>2. a + q * r = (k + q) * r + 0
  BY <1>1
<1>3. k + q \in Nat /\ 0 \in 0..(r - 1)
  BY <1>1
<1>4. QED
  BY <1>2, <1>3, Division

LEMMA CatRun ==
  ASSUME NEW s \in Lengths, NEW d \in Lengths
  PROVE  /\ s \o d \in Lengths /\ Len(s \o d) = Len(s) + Len(d)
         /\ Len(s) \in Nat /\ Len(d) \in Nat
         /\ \A i \in 1..Len(s) : (s \o d)[i] = s[i]
         /\ \A i \in 1..Len(d) : (s \o d)[Len(s) + i] = d[i]
<1> DEFINE sd == s \o d
<1>1. /\ sd \in Lengths /\ Len(sd) = Len(s) + Len(d)
      /\ Len(s) \in Nat /\ Len(d) \in Nat
      /\ \A i \in 1..(Len(s) + Len(d)) :
           sd[i] = IF i <= Len(s) THEN s[i] ELSE d[i - Len(s)]
  BY ConcatProperties DEF Lengths
<1> HIDE DEF sd
<1>2. ASSUME NEW i \in 1..Len(s) PROVE sd[i] = s[i]
  BY <1>1, i \in 1..(Len(s) + Len(d))
<1>3. ASSUME NEW i \in 1..Len(d) PROVE sd[Len(s) + i] = d[i]
  <2>1. /\ Len(s) + i \in 1..(Len(s) + Len(d))
        /\ ~(Len(s) + i <= Len(s)) /\ Len(s) + i - Len(s) = i
    BY <1>1
  <2>2. QED
    BY <1>1, <2>1
<1>4. QED
  BY <1>1, <1>2, <1>3 DEF sd

\* b ends at byte t of the backlog, and has no gap.
RunTo(b, t) ==
  /\ Len(b) <= t
  /\ \A i \in 1..Len(b) : b[i] = t - Len(b) + i

\* It starts with a whole record, and what was dropped in front was no more
\* than had to be.
NewestTo(b, t) ==
  /\ RunTo(b, t)
  /\ (t - Len(b)) % RecLen = 0
  /\ t > Len(b) => Len(b) + RecLen > BlobMax

LEMMA NewestIs ==
  ASSUME NEW c \in Lengths, NEW e \in Nat, NEW from \in Nat,
         e - Len(c) = from, from % RecLen = 0, Len(c) <= e,
         \A i \in 1..Len(c) : c[i] = from + i,
         e > Len(c) => Len(c) + RecLen > BlobMax
  PROVE  NewestTo(c, e)
BY DEF NewestTo, RunTo

\* What is dropped is never more than there is: a frame is shorter than the
\* buffer by a record.
Drops(b, d, drop) ==
  /\ drop \in 0..Len(b)
  /\ Collect(b, d) = SubSeq(b, drop + 1, Len(b)) \o d
  /\ Len(b) - drop + Len(d) <= BlobMax
  /\ drop > 0 => Len(b) - drop + Len(d) + RecLen > BlobMax

LEMMA Dropped ==
  ASSUME NEW b \in Lengths, NEW d \in Lengths,
         Len(b) <= BlobMax, Len(d) + RecLen <= BlobMax
  PROVE  \E q \in Nat : Drops(b, d, q * RecLen)
<1> DEFINE over == Len(b) + Len(d) - BlobMax
           q == (over + RecLen - 1) \div RecLen
<1>1. Len(b) \in Nat /\ Len(d) \in Nat /\ over \in Int
  BY Sized
<1>2. CASE over > 0
  <2>1. over \in Nat
    BY <1>1, <1>2
  <2>2. q \in Nat /\ q * RecLen \in Nat /\ over <= q * RecLen /\ q * RecLen < over + RecLen
    BY <2>1, Sized, Ceiling
  <2> HIDE DEF q
  <2> DEFINE drop == q * RecLen
  <2>3. drop <= Len(b)
    BY <1>1, <2>2, Sized
  <2>4. Collect(b, d) = SubSeq(b, drop + 1, Len(b)) \o d
    <3>1. ~ (drop > Len(b))
      BY <1>1, <2>2, <2>3
    <3>2. QED
      BY <1>2, <3>1 DEF Collect, q
  <2>5. Len(b) - drop + Len(d) <= BlobMax /\ Len(b) - drop + Len(d) + RecLen > BlobMax
    BY <1>1, <2>2, Sized
  <2>6. Drops(b, d, drop)
    <3>1. drop \in 0..Len(b)
      BY <1>1, <2>2, <2>3
    <3> HIDE DEF drop
    <3>2. QED
      BY <2>4, <2>5, <3>1 DEF Drops
  <2>7. QED
    BY <2>2, <2>6
<1>3. CASE ~ (over > 0)
  <2>1. 0 * RecLen = 0
    BY Sized
  <2>2. Collect(b, d) = SubSeq(b, 0 + 1, Len(b)) \o d
    <3>1. ~ (0 > Len(b))
      BY <1>1
    <3>2. QED
      BY <1>3, <3>1 DEF Collect
  <2>3. Len(b) - 0 + Len(d) <= BlobMax
    BY <1>1, <1>3, Sized
  <2>4. Drops(b, d, 0)
    BY <1>1, <2>2, <2>3 DEF Drops
  <2>5. QED
    BY <2>1, <2>4, 0 \in Nat
<1>4. QED
  BY <1>2, <1>3

LEMMA Suffix ==
  ASSUME NEW b \in Lengths, NEW n \in 0..Len(b)
  PROVE  LET s == SubSeq(b, n + 1, Len(b))
         IN  /\ s \in Lengths /\ Len(s) = Len(b) - n
             /\ \A i \in 1..(Len(b) - n) : s[i] = b[n + i]
<1> DEFINE s == SubSeq(b, n + 1, Len(b))
<1>1. Len(b) \in Nat /\ n + 1 \in 1..(Len(b) + 1)
  BY DEF Lengths
<1>2. \A i \in (n + 1)..Len(b) : b[i] \in Nat
  BY <1>1 DEF Lengths
<1>3. /\ s \in Lengths
      /\ Len(s) = Len(b) - n
      /\ \A i \in 1..Len(s) : s[i] = b[n + 1 + i - 1]
  BY <1>1, <1>2, SubSeqProperties DEF Lengths
<1>4. QED
  BY <1>1, <1>3

LEMMA CollectBounded ==
  ASSUME NEW b \in Lengths, NEW d \in Lengths,
         Len(b) <= BlobMax, Len(d) + RecLen <= BlobMax
  PROVE  Collect(b, d) \in Lengths /\ Len(Collect(b, d)) <= BlobMax
<1>1. PICK q \in Nat : Drops(b, d, q * RecLen)
  BY Dropped
<1> DEFINE drop == q * RecLen
           s == SubSeq(b, drop + 1, Len(b))
<1>2. drop \in 0..Len(b) /\ Len(b) \in Nat /\ Len(d) \in Nat
  BY <1>1 DEF Drops
<1> HIDE DEF drop
<1>3. s \in Lengths /\ Len(s) = Len(b) - drop
  BY <1>2, Suffix
<1> HIDE DEF s
<1>4. s \o d \in Lengths /\ Len(s \o d) = Len(s) + Len(d)
  BY <1>2, <1>3, CatRun
<1>5. QED
  BY <1>1, <1>2, <1>3, <1>4 DEF s, drop, Drops

LEMMA CollectNewest ==
  ASSUME NEW b \in Lengths, NEW d \in Lengths, NEW t \in Nat,
         Len(b) <= BlobMax, Len(d) + RecLen <= BlobMax, NewestTo(b, t),
         \A i \in 1..Len(d) : d[i] = t + i
  PROVE  NewestTo(Collect(b, d), t + Len(d))
<1>1. PICK q \in Nat : Drops(b, d, q * RecLen)
  BY Dropped
<1> DEFINE drop == q * RecLen
           s == SubSeq(b, drop + 1, Len(b))
           c == s \o d
           m == Len(b) - drop
           n == Len(d)
           from == t - Len(b) + drop
<1>2. drop \in 0..Len(b)
  BY <1>1 DEF Drops
<1>3. Collect(b, d) = c /\ (drop > 0 => m + n + RecLen > BlobMax)
  BY <1>1 DEF Drops
<1>4. from % RecLen = 0
  <2>1. (t - Len(b)) % RecLen = 0 /\ t - Len(b) \in Nat
    BY DEF NewestTo, RunTo
  <2>2. QED
    BY <2>1, Sized, AlignedSum
<1> HIDE DEF drop
<1>5. Len(b) \in Nat /\ n \in Nat /\ m \in Nat /\ Len(b) <= t /\ from \in Nat
  BY <1>2 DEF NewestTo, RunTo
<1>6. s \in Lengths /\ Len(s) = m /\ \A i \in 1..m : s[i] = b[drop + i]
  BY <1>2, Suffix
<1> HIDE DEF s, m, n
<1>7. /\ c \in Lengths /\ Len(c) = m + n
      /\ \A i \in 1..m : c[i] = s[i]
      /\ \A i \in 1..n : c[m + i] = d[i]
  <2>1. s \in Lengths /\ Len(s) = m /\ Len(d) = n
    BY <1>6 DEF n
  <2>2. /\ c \in Lengths /\ Len(c) = Len(s) + Len(d)
        /\ \A i \in 1..Len(s) : c[i] = s[i]
        /\ \A i \in 1..Len(d) : c[Len(s) + i] = d[i]
    BY <2>1, CatRun
  <2>3. QED
    BY <2>1, <2>2
<1> HIDE DEF c
<1>8. t + n - Len(c) = from
  BY <1>2, <1>5, <1>7 DEF m
<1>9. Len(c) <= t + n
  BY <1>2, <1>5, <1>7 DEF m
<1>10. ASSUME NEW i \in 1..Len(c) PROVE c[i] = from + i
  <2>1. CASE i \in 1..m
    <3>1. drop + i \in 1..Len(b)
      BY <1>2, <1>5, <2>1 DEF m
    <3>2. b[drop + i] = t - Len(b) + (drop + i)
      BY <3>1 DEF NewestTo, RunTo
    <3>3. QED
      BY <1>2, <1>5, <1>6, <1>7, <2>1, <3>2
  <2>2. CASE i \notin 1..m
    <3>1. i - m \in 1..n /\ m + (i - m) = i
      BY <1>5, <1>7, <2>2
    <3>2. c[i] = t + (i - m)
      BY <1>7, <3>1 DEF n
    <3>3. QED
      BY <1>2, <1>5, <3>1, <3>2 DEF m
  <2>3. QED
    BY <2>1, <2>2
<1>11. t + n > Len(c) => Len(c) + RecLen > BlobMax
  <2>1. CASE drop > 0
    BY <1>3, <1>7, <2>1
  <2>2. CASE drop = 0
    <3>1. m = Len(b)
      BY <1>5, <2>2 DEF m
    <3>2. t > Len(b) => Len(b) + RecLen > BlobMax
      BY DEF NewestTo
    <3>3. QED
      BY <1>5, <1>7, <3>1, <3>2, Sized
  <2>3. QED
    BY <1>2, <2>1, <2>2
<1>12. NewestTo(c, t + n)
  <2>1. from \in Nat /\ t + n \in Nat /\ c \in Lengths
    BY <1>5, <1>7
  <2> HIDE DEF from
  <2>2. ASSUME NEW e, e = t + n PROVE NewestTo(c, e)
    <3>1. e \in Nat /\ e - Len(c) = from /\ Len(c) <= e
      BY <1>5, <1>7, <1>8, <1>9, <2>1, <2>2
    <3>2. e > Len(c) => Len(c) + RecLen > BlobMax
      BY <1>11, <2>2
    <3>3. QED
      BY <1>4, <1>10, <2>1, <3>1, <3>2, NewestIs
  <2>3. QED
    BY <2>2
<1>13. QED
  BY <1>3, <1>12 DEF n

-----------------------------------------------------------------------------
(* The board *)

Pcs == {"start", "wait", "check", "take", "clear", "send", "stop", "finish", "done"}

Typed ==
  /\ prompt \in BOOLEAN /\ due \in 0..AskEvery
  /\ Len(air) <= AirMax
  /\ have \in Nat /\ quiet \in Nat /\ waited \in Nat /\ missed \in Nat
  /\ lastLen \in Nat \cup {-1} /\ ackedAt \in Nat \cup {-1}
  /\ ackReq \in BOOLEAN /\ short \in BOOLEAN
  /\ blob \in Lengths /\ Len(blob) <= BlobMax
  /\ pc \in Pcs

\* No request is ahead of the fountain.
Asked ==
  /\ ackSeq \in Nat /\ ackSeq <= cur /\ seq \in Nat /\ seq <= cur
  /\ \A k \in 1..Len(air) : air[k].ask <= cur

InHand(s) == total >= ChunkEnd(chunks, s)

\* A request the handler has noted is for a chunk it has counted; once the last
\* one is answered the loop stops at its next look.
Answerable ==
  ~dataLost =>
    /\ Counting => InHand(ackSeq)
    /\ pc \in {"clear", "send"} => InHand(seq)
    /\ pc \in {"check", "take", "clear", "send"} => cur <= Len(chunks)
    /\ Counting /\ cur > Len(chunks) => total >= pending

Covers(r) == r.seq <= Len(chunks) /\ r.bytes >= ChunkEnd(chunks, r.seq)

Covered ==
  /\ replies \in Seq([seq : Nat, bytes : Nat])
  /\ ~dataLost => \A i \in 1..Len(replies) : Covers(replies[i])

Window == ~dataLost => NewestTo(blob, total)

BoardInv == Stream /\ Fresh /\ Typed /\ Asked /\ Answerable /\ Covered /\ Window

\* What the steps of the loop leave alone that do not answer a request.
LoopStill ==
  /\ chunks' = chunks /\ cur' = cur /\ frame' = frame /\ air' = air
  /\ dataLost' = dataLost /\ total' = total /\ blob' = blob
  /\ ackSeq' = ackSeq /\ replies' = replies
  /\ pc' # "start" /\ (Counting' => Counting)

Quietly ==
  Start \/ Wake \/ TimeIsUp \/ CheckRequest \/ NoRequest \/ TakeSeq \/ ClearRequest
  \/ AckFailed \/ StopCollecting \/ Finish

LEMMA QuietIsStill ==
  ASSUME Fresh, Quietly
  PROVE  LoopStill
<1>1. CASE Start
  BY <1>1 DEF Start, Fresh, LoopStill, Counting, fountain
<1>2. CASE Wake
  BY <1>2 DEF Wake, LoopStill, Counting, shared
<1>3. CASE TimeIsUp
  BY <1>3 DEF TimeIsUp, LoopStill, Counting, shared, fountain
<1>4. CASE CheckRequest
  BY <1>4 DEF CheckRequest, LoopStill, Counting, shared, fountain
<1>5. CASE NoRequest
  BY <1>5 DEF NoRequest, LoopStill, Counting, shared, fountain
<1>6. CASE TakeSeq
  BY <1>6 DEF TakeSeq, LoopStill, Counting, shared, fountain
<1>7. CASE ClearRequest
  BY <1>7 DEF ClearRequest, LoopStill, Counting, fountain
<1>8. CASE AckFailed
  BY <1>8 DEF AckFailed, NextTurn, LoopStill, Counting, shared, fountain
<1>9. CASE StopCollecting
  BY <1>9 DEF StopCollecting, LoopStill, Counting, shared, fountain
<1>10. CASE Finish
  BY <1>10 DEF Finish, LoopStill, Counting, shared, fountain
<1>11. QED
  BY <1>1, <1>2, <1>3, <1>4, <1>5, <1>6, <1>7, <1>8, <1>9, <1>10 DEF Quietly

LEMMA NextSplit ==
  Next => SendFrame \/ Ask \/ LoseNotification \/ NotifyRx \/ AckSent \/ Quietly
BY DEF Next, Loop, Quietly

\* What NotifyRx does with the head of what is under way.
LEMMA Notified ==
  ASSUME Stream, Fresh, NotifyRx
  PROVE  /\ air # <<>> /\ air' = Tail(air) /\ pc' = pc /\ pc # "start"
         /\ chunks' = chunks /\ cur' = cur /\ frame' = frame /\ dataLost' = dataLost
         /\ IsNote(chunks, Head(air))
         /\ Head(air).ask > 0 =>
              /\ ackSeq' = Head(air).ask /\ ackReq' = TRUE
              /\ total' = total /\ blob' = blob
         /\ ~ (Head(air).ask > 0) =>
              /\ ackSeq' = ackSeq /\ ackReq' = ackReq
              /\ Counting => /\ total' = total + Len(Head(air).data)
                             /\ blob' = Collect(blob, Head(air).data)
              /\ ~Counting => total' = total /\ blob' = blob
<1>1. /\ air # <<>> /\ air' = Tail(air) /\ pc' = pc
      /\ chunks' = chunks /\ cur' = cur /\ frame' = frame /\ dataLost' = dataLost
  BY DEF NotifyRx, fountain
<1>2. pc # "start"
  BY <1>1 DEF Fresh
<1>3. IsNote(chunks, Head(air))
  BY <1>1, HeadGone
<1>4. CASE Head(air).ask > 0
  <2>1. TakeAsk(Head(air).ask)
    BY <1>4 DEF NotifyRx
  <2>2. QED
    BY <1>1, <1>2, <1>3, <1>4, <2>1 DEF TakeAsk
<1>5. CASE ~ (Head(air).ask > 0)
  <2>1. TakeData(Head(air).data)
    BY <1>5 DEF NotifyRx
  <2>2. QED
    BY <1>1, <1>2, <1>3, <1>5, <2>1 DEF TakeData, Counting
<1>6. QED
  BY <1>4, <1>5

LEMMA BoardStream ==
  ASSUME Stream, Fresh, Next
  PROVE  Stream' /\ Fresh'
<1>1. CASE SendFrame
  <2>1. pc' # "start"
    BY <1>1 DEF SendFrame, Streaming
  <2>2. QED
    BY <1>1, <2>1, SendFrameStream DEF Fresh
<1>2. CASE Ask
  <2>1. pc' # "start"
    BY <1>2 DEF Ask, Streaming
  <2>2. QED
    BY <1>2, <2>1, AskStream DEF Fresh
<1>3. CASE LoseNotification
  <2>1. pc' # "start"
    BY <1>3 DEF LoseNotification, Fresh
  <2>2. QED
    BY <1>3, <2>1, LoseStream DEF Fresh
<1>4. CASE NotifyRx
  <2>1. /\ air # <<>> /\ air' = Tail(air) /\ pc' = pc /\ pc # "start"
        /\ chunks' = chunks /\ cur' = cur /\ frame' = frame /\ dataLost' = dataLost
    BY <1>4, Notified
  <2>2. CASE Head(air).ask > 0
    <3>1. total' = total /\ IsNote(chunks, Head(air))
      BY <1>4, <2>2, Notified
    <3>2. Len(Head(air).data) = 0
      BY <2>2, <3>1 DEF IsNote
    <3>3. total \in Nat
      BY DEF Stream, Counted
    <3>4. total' = total + Len(Head(air).data)
      BY <3>1, <3>2, <3>3
    <3>5. QED
      BY <2>1, <3>1, <3>4, TakenStream DEF Fresh
  <2>3. CASE ~ (Head(air).ask > 0)
    <3>1. /\ Counting => total' = total + Len(Head(air).data)
          /\ ~Counting => total' = total
      BY <1>4, <2>3, Notified
    <3>2. QED
      BY <2>1, <3>1, TakenStream DEF Fresh
  <2>4. QED
    BY <2>2, <2>3
<1>5. CASE AckSent
  <2>1. /\ TakeReply(seq) /\ chunks' = chunks /\ air' = air
        /\ dataLost' = dataLost /\ total' = total /\ Counting /\ pc' = "wait"
    BY <1>5 DEF AckSent, shared, NextTurn, Counting
  <2>2. QED
    BY <2>1, ReplyStream DEF Fresh
<1>6. CASE Quietly
  <2>1. LoopStill
    BY <1>6, QuietIsStill
  <2>2. QED
    BY <2>1, Still DEF LoopStill, Fresh
<1>7. QED
  BY <1>1, <1>2, <1>3, <1>4, <1>5, <1>6, NextSplit

LEMMA BoardAsked ==
  ASSUME Stream, Fresh, Asked, Next
  PROVE  Asked'
<1>1. cur \in Nat /\ cur' \in Nat /\ air \in Seq(Notes) /\ air' \in Seq(Notes)
  <2>1. Stream'
    BY BoardStream
  <2>2. chunks \in Backlogs /\ chunks' \in Backlogs
    BY <2>1 DEF Stream, Place
  <2>3. Len(chunks) \in Nat /\ Len(chunks') \in Nat
    BY <2>2, Lay
  <2>4. QED
    BY <2>1, <2>3 DEF Stream, Place, InOrder
<1>2. CASE SendFrame
  <2>1. /\ ackSeq' = ackSeq /\ seq' = seq /\ cur' = cur
        /\ \E d : air' = Append(air, [data |-> d, ask |-> 0])
    BY <1>2 DEF SendFrame, shared
  <2>2. PICK n : air' = Append(air, n) /\ n.ask <= cur
    BY <1>1, <2>1
  <2>3. \A k \in 1..Len(air') : air'[k].ask <= cur
    BY <1>1, <2>2 DEF Asked
  <2>4. QED
    BY <2>1, <2>3 DEF Asked
<1>3. CASE Ask
  <2>1. /\ ackSeq' = ackSeq /\ seq' = seq /\ cur' = cur
        /\ air' = Append(air, [data |-> <<>>, ask |-> cur])
    BY <1>3 DEF Ask, shared
  <2>2. PICK n : air' = Append(air, n) /\ n.ask <= cur
    BY <1>1, <2>1
  <2>3. \A k \in 1..Len(air') : air'[k].ask <= cur
    BY <1>1, <2>2 DEF Asked
  <2>4. QED
    BY <2>1, <2>3 DEF Asked
<1>4. ASSUME air # <<>>, air' = Tail(air), cur' = cur
      PROVE  /\ \A k \in 1..Len(air') : air'[k].ask <= cur'
             /\ Head(air).ask <= cur /\ Head(air).ask \in Nat
  <2>1. /\ Len(air) \in Nat /\ Len(air) > 0 /\ Head(air) = air[1]
        /\ Len(air') = Len(air) - 1 /\ \A k \in 1..Len(air') : air'[k] = air[k + 1]
        /\ Head(air) \in Notes
    BY <1>1, <1>4
  <2>2. \A k \in 1..Len(air') : k + 1 \in 1..Len(air)
    BY <2>1
  <2>3. QED
    BY <1>4, <2>1, <2>2 DEF Asked, Notes
<1>5. CASE LoseNotification
  <2>1. /\ air # <<>> /\ air' = Tail(air) /\ cur' = cur
        /\ ackSeq' = ackSeq /\ seq' = seq
    BY <1>5 DEF LoseNotification, fountain, shared
  <2>2. QED
    BY <1>4, <2>1 DEF Asked
<1>6. CASE NotifyRx
  <2>1. /\ air # <<>> /\ air' = Tail(air) /\ cur' = cur
        /\ ackSeq' = ackSeq \/ ackSeq' = Head(air).ask
    BY <1>6, Notified
  <2>2. seq' = seq
    BY <1>6 DEF NotifyRx
  <2>3. QED
    BY <1>4, <2>1, <2>2 DEF Asked
<1>7. CASE AckSent
  <2>1. /\ TakeReply(seq) /\ chunks' = chunks /\ air' = air
        /\ dataLost' = dataLost /\ total' = total /\ Counting
        /\ ackSeq' = ackSeq /\ seq' = seq
    BY <1>7 DEF AckSent, shared, Counting
  <2>2. cur' = cur \/ cur' = cur + 1
    BY <2>1, ReplyStream
  <2>3. cur <= cur'
    BY <1>1, <2>2
  <2>4. \A k \in 1..Len(air) : air[k].ask <= cur'
    <3>1. \A k \in 1..Len(air) : air[k] \in Notes
      BY <1>1
    <3>2. \A k \in 1..Len(air) : air[k].ask \in Nat
      BY <3>1 DEF Notes
    <3>3. QED
      BY <1>1, <2>3, <3>2 DEF Asked
  <2>5. QED
    BY <1>1, <2>1, <2>3, <2>4 DEF Asked
<1>8. CASE Quietly
  <2>1. LoopStill
    BY <1>8, QuietIsStill
  <2>2. seq' = seq \/ seq' = ackSeq
    BY <1>8 DEF Quietly, Start, Wake, TimeIsUp, CheckRequest, NoRequest, TakeSeq,
                ClearRequest, AckFailed, StopCollecting, Finish
  <2>3. QED
    BY <2>1, <2>2 DEF Asked, LoopStill
<1>9. QED
  BY <1>2, <1>3, <1>5, <1>6, <1>7, <1>8, NextSplit

\* What goes out of the air only makes it shorter.
LEMMA AirTail ==
  ASSUME Stream, air # <<>>
  PROVE  Len(Tail(air)) <= Len(air)
<1>1. air \in Seq(Notes)
  BY DEF Stream, InOrder
<1>2. QED
  BY <1>1

LEMMA BoardTyped ==
  ASSUME Stream, Fresh, Typed, Asked, Next
  PROVE  Typed'
<1>1. total \in Nat /\ Len(air) \in Nat
  BY DEF Stream, Counted, InOrder
<1>2. CASE SendFrame
  <2>1. /\ Len(air) < AirMax /\ \E n : air' = Append(air, n)
        /\ UNCHANGED <<prompt, due, have, quiet, waited, missed, lastLen, ackedAt,
                       ackReq, short, blob, pc>>
    BY <1>2 DEF SendFrame, shared, counts, result
  <2>2. Len(air') = Len(air) + 1
    BY <1>1, <2>1
  <2>3. Len(air') <= AirMax
    BY <1>1, <2>1, <2>2, Sized
  <2>4. QED
    BY <2>1, <2>3 DEF Typed
<1>3. CASE Ask
  <2>1. /\ Len(air) < AirMax /\ \E n : air' = Append(air, n) /\ due' = AskEvery
        /\ UNCHANGED <<prompt, have, quiet, waited, missed, lastLen, ackedAt,
                       ackReq, short, blob, pc>>
    BY <1>3 DEF Ask, shared, counts, result
  <2>2. Len(air') = Len(air) + 1
    BY <1>1, <2>1
  <2>3. Len(air') <= AirMax /\ due' \in 0..AskEvery
    BY <1>1, <2>1, <2>2, Sized
  <2>4. QED
    BY <2>1, <2>3 DEF Typed
<1>4. CASE LoseNotification
  <2>1. /\ air # <<>> /\ air' = Tail(air) /\ missed' = missed + 1
        /\ UNCHANGED <<prompt, due, have, quiet, waited, lastLen, ackedAt,
                       ackReq, short, blob, pc>>
    BY <1>4 DEF LoseNotification, Miss, fountain, shared, counts, result
  <2>2. Len(air') <= AirMax
    <3>1. Len(air') <= Len(air) /\ Len(air') \in Nat
      <4>1. Stream'
        BY <1>4, LoseStream
      <4>2. QED
        BY <2>1, <4>1, AirTail DEF Stream, InOrder
    <3>2. QED
      BY <1>1, <3>1, Sized DEF Typed
  <2>3. missed' \in Nat
    BY <2>1 DEF Typed
  <2>4. QED
    BY <2>1, <2>2, <2>3 DEF Typed
<1>5. CASE NotifyRx
  <2>1. /\ air # <<>> /\ air' = Tail(air)
        /\ UNCHANGED <<prompt, due, have, quiet, waited, missed, lastLen, ackedAt,
                       short, pc>>
    BY <1>5 DEF NotifyRx, fountain, counts, result
  <2>2. Len(air') <= AirMax
    <3>1. Len(air') <= Len(air) /\ Len(air') \in Nat
      <4>1. Stream'
        BY <1>5, BoardStream, NextSplit DEF Next
      <4>2. QED
        BY <2>1, <4>1, AirTail DEF Stream, InOrder
    <3>2. QED
      BY <1>1, <3>1, Sized DEF Typed
  <2>3. ackReq' \in BOOLEAN
    BY <1>5, Notified DEF Typed
  <2>4. blob' \in Lengths /\ Len(blob') <= BlobMax
    <3>1. CASE Head(air).ask > 0 \/ ~Counting
      <4>1. blob' = blob
        BY <1>5, <3>1, Notified
      <4>2. QED
        BY <4>1 DEF Typed
    <3>2. CASE ~ (Head(air).ask > 0 \/ ~Counting)
      <4>1. blob' = Collect(blob, Head(air).data) /\ IsNote(chunks, Head(air))
        BY <1>5, <3>2, Notified
      <4>2. Head(air).ask = 0
        BY <3>2, <4>1 DEF IsNote, Notes
      <4>3. Head(air).data \in Lengths /\ Len(Head(air).data) + RecLen <= BlobMax
        BY <4>1, <4>2 DEF IsNote, Notes, Lengths
      <4>4. QED
        BY <4>1, <4>3, CollectBounded DEF Typed
    <3>3. QED
      BY <3>1, <3>2
  <2>5. QED
    BY <2>1, <2>2, <2>3, <2>4 DEF Typed
<1>6. CASE AckSent
  <2>1. /\ TakeReply(seq) /\ ackedAt' = have /\ quiet' = 0 /\ waited' = waited + 1
        /\ pc' = "wait"
        /\ UNCHANGED <<prompt, air, have, missed, lastLen, ackReq, short, blob>>
    BY <1>6 DEF AckSent, NextTurn, shared, result
  <2>2. due' \in 0..AskEvery
    <3>1. due' = 0 \/ due' = due
      BY <2>1 DEF TakeReply
    <3>2. QED
      BY <3>1, Sized DEF Typed
  <2>3. quiet' \in Nat /\ waited' \in Nat /\ ackedAt' \in Nat \cup {-1} /\ pc' \in Pcs
    BY <2>1 DEF Typed, Pcs
  <2>4. QED
    BY <2>1, <2>2, <2>3 DEF Typed
<1>7. CASE Start
  <2>1. /\ blob' = <<>> /\ ackReq' = FALSE /\ pc' = "wait"
        /\ UNCHANGED <<prompt, due, air, have, quiet, waited, missed, lastLen,
                       ackedAt, short>>
    BY <1>7 DEF Start, fountain, counts, result
  <2>2. blob' \in Lengths /\ Len(blob') <= BlobMax /\ pc' \in Pcs
    BY <2>1, Sized DEF Lengths, Pcs
  <2>3. QED
    BY <2>1, <2>2 DEF Typed
<1>8. CASE Wake
  <2>1. /\ have' = total /\ lastLen' = total /\ Elapse
        /\ quiet' = 0 \/ quiet' = quiet + 1
        /\ pc' = "stop" \/ pc' = "check"
        /\ UNCHANGED <<prompt, air, waited, missed, ackedAt, ackReq, short, blob>>
    BY <1>8 DEF Wake, shared, result
  <2>2. due' \in 0..AskEvery
    BY <2>1, Sized DEF Elapse, Typed
  <2>3. quiet' \in Nat /\ pc' \in Pcs /\ have' \in Nat /\ lastLen' \in Nat \cup {-1}
    BY <1>1, <2>1 DEF Typed, Pcs
  <2>4. QED
    BY <2>1, <2>2, <2>3 DEF Typed
<1>9. CASE NoRequest
  <2>1. /\ waited' = waited \/ waited' = waited + 1
        /\ pc' = "stop" \/ pc' = "wait"
        /\ UNCHANGED <<prompt, due, air, have, quiet, missed, lastLen, ackedAt, ackReq,
                       short, blob>>
    BY <1>9 DEF NoRequest, shared, fountain, result
  <2>2. waited' \in Nat /\ pc' \in Pcs
    BY <2>1 DEF Typed, Pcs
  <2>3. QED
    BY <2>1, <2>2 DEF Typed
<1>10. CASE AckFailed
  <2>1. /\ waited' = waited + 1 /\ missed' = missed + 1 /\ pc' = "wait"
        /\ UNCHANGED <<prompt, due, air, have, quiet, lastLen, ackedAt, ackReq, short, blob>>
    BY <1>10 DEF AckFailed, NextTurn, Miss, shared, fountain, result
  <2>2. waited' \in Nat /\ missed' \in Nat /\ pc' \in Pcs
    BY <2>1 DEF Typed, Pcs
  <2>3. QED
    BY <2>1, <2>2 DEF Typed
<1>11. CASE TimeIsUp \/ CheckRequest \/ TakeSeq \/ ClearRequest \/ StopCollecting \/ Finish
  <2>1. /\ pc' \in {"take", "clear", "send", "stop", "finish", "done"}
        /\ ackReq' = ackReq \/ ackReq' = FALSE
        /\ UNCHANGED <<prompt, due, air, have, quiet, waited, missed, lastLen, ackedAt, blob>>
    BY <1>11 DEF TimeIsUp, CheckRequest, TakeSeq, ClearRequest, StopCollecting, Finish,
                 shared, fountain, counts
  <2>2. short' \in BOOLEAN
    BY <1>11 DEF TimeIsUp, CheckRequest, TakeSeq, ClearRequest, StopCollecting, Finish,
                 result, Typed
  <2>3. pc' \in Pcs /\ ackReq' \in BOOLEAN
    BY <2>1 DEF Typed, Pcs
  <2>4. QED
    BY <2>1, <2>2, <2>3 DEF Typed
<1>12. QED
  BY <1>2, <1>3, <1>4, <1>5, <1>6, <1>7, <1>8, <1>9, <1>10, <1>11 DEF Next, Loop

\* The window follows what the handler counts.
LEMMA BoardWindow ==
  ASSUME Stream, Fresh, Typed, Window, Next
  PROVE  Window'
<1>1. CASE SendFrame \/ Ask \/ LoseNotification \/ AckSent
  <2>1. blob' = blob /\ total' = total
    BY <1>1 DEF SendFrame, Ask, LoseNotification, AckSent, shared
  <2>2. ~dataLost' => ~dataLost
    BY <1>1 DEF SendFrame, Ask, LoseNotification, AckSent
  <2>3. QED
    BY <2>1, <2>2 DEF Window
<1>2. CASE NotifyRx
  <2>1. dataLost' = dataLost
    BY <1>2, Notified
  <2>2. CASE Head(air).ask > 0 \/ ~Counting
    <3>1. blob' = blob /\ total' = total
      BY <1>2, <2>2, Notified
    <3>2. QED
      BY <2>1, <3>1 DEF Window
  <2>3. CASE ~ (Head(air).ask > 0 \/ ~Counting)
    <3> DEFINE d == Head(air).data
    <3>1. /\ blob' = Collect(blob, d) /\ total' = total + Len(d) /\ IsNote(chunks, Head(air))
          /\ Head(air).ask \in Nat
      BY <1>2, <2>3, Notified DEF IsNote, Notes
    <3>2. d \in Lengths /\ Len(d) + RecLen <= BlobMax
      BY <2>3, <3>1 DEF IsNote, Notes, Lengths
    <3>3. SUFFICES ASSUME ~dataLost PROVE NewestTo(Collect(blob, d), total + Len(d))
      BY <2>1, <3>1 DEF Window
    <3>4. total = Begins(chunks, Head(air)) /\ total \in Nat
      <4>1. total = Reached /\ total \in Nat
        BY <2>3, <3>3 DEF Stream, Counted
      <4>2. /\ air # <<>> /\ air' = Tail(air) /\ chunks' = chunks /\ cur' = cur
            /\ frame' = frame
        BY <1>2, Notified
      <4>3. QED
        BY <4>1, <4>2, HeadGone
    <3>5. \A i \in 1..Len(d) : d[i] = total + i
      BY <3>1, <3>4 DEF IsNote
    <3>6. blob \in Lengths /\ Len(blob) <= BlobMax /\ NewestTo(blob, total)
      BY <3>3 DEF Typed, Window
    <3> HIDE DEF d
    <3>7. QED
      BY <3>2, <3>4, <3>5, <3>6, CollectNewest
  <2>4. QED
    BY <2>2, <2>3
<1>3. CASE Quietly
  <2>1. blob' = blob /\ total' = total /\ dataLost' = dataLost
    BY <1>3, QuietIsStill DEF LoopStill
  <2>2. QED
    BY <2>1 DEF Window
<1>4. QED
  BY <1>1, <1>2, <1>3, NextSplit

LEMMA BoardAnswerable ==
  ASSUME Stream, Fresh, Typed, Asked, Answerable, Next
  PROVE  Answerable'
<1>1. CASE SendFrame \/ Ask \/ LoseNotification
  <2>1. /\ total' = total /\ chunks' = chunks /\ cur' = cur
        /\ ackSeq' = ackSeq /\ seq' = seq /\ pc' = pc
    BY <1>1 DEF SendFrame, Ask, LoseNotification, shared, fountain
  <2>2. ~dataLost' => ~dataLost
    BY <1>1 DEF SendFrame, Ask, LoseNotification
  <2>3. QED
    BY <2>1, <2>2 DEF Answerable, InHand, Counting, pending
<1>2. CASE NotifyRx
  <2>1. /\ pc' = pc /\ chunks' = chunks /\ cur' = cur /\ dataLost' = dataLost
        /\ IsNote(chunks, Head(air)) /\ seq' = seq
    BY <1>2, Notified DEF NotifyRx
  <2>2. total' \in Nat /\ total <= total' /\ total \in Nat
    <3>1. Stream'
      BY BoardStream
    <3>2. total' \in Nat /\ total \in Nat
      BY <3>1 DEF Stream, Counted
    <3>3. Len(Head(air).data) \in Nat
      BY <2>1 DEF IsNote, Notes
    <3>4. total' = total \/ total' = total + Len(Head(air).data)
      BY <1>2, Notified
    <3>5. QED
      BY <3>2, <3>3, <3>4
  <2>3. SUFFICES ASSUME ~dataLost PROVE Answerable'
    BY <2>1 DEF Answerable
  <2>4. Counting' => InHand(ackSeq)'
    <3>1. SUFFICES ASSUME Counting PROVE InHand(ackSeq)'
      BY <2>1 DEF Counting
    <3>2. CASE Head(air).ask > 0
      <4>1. ackSeq' = Head(air).ask /\ total' = total
        BY <1>2, <3>2, Notified
      <4>2. total = Begins(chunks, Head(air))
        <5>1. total = Reached
          BY <2>3, <3>1 DEF Stream, Counted
        <5>2. /\ air # <<>> /\ air' = Tail(air) /\ frame' = frame
          BY <1>2, Notified
        <5>3. QED
          BY <2>1, <5>1, <5>2, HeadGone
      <4>3. total = ChunkEnd(chunks, ackSeq')
        BY <3>2, <4>1, <4>2 DEF Begins
      <4>4. total' >= ChunkEnd(chunks', ackSeq')
        BY <2>1, <2>2, <4>1, <4>3
      <4>5. QED
        BY <4>4 DEF InHand
    <3>3. CASE ~ (Head(air).ask > 0)
      <4>1. ackSeq' = ackSeq
        BY <1>2, <3>3, Notified
      <4>2. InHand(ackSeq) /\ ackSeq \in Nat
        BY <2>3, <3>1 DEF Answerable, Asked
      <4>3. total' >= ChunkEnd(chunks, ackSeq)
        <5>1. ChunkEnd(chunks, ackSeq) \in Nat
          BY <4>2, Lay, ChunkEndBound DEF Stream, Place
        <5>2. QED
          BY <2>2, <4>2, <5>1 DEF InHand
      <4>4. QED
        BY <2>1, <4>1, <4>3 DEF InHand
    <3>4. QED
      BY <3>2, <3>3
  <2>5. pc' \in {"clear", "send"} => InHand(seq)'
    <3>1. SUFFICES ASSUME pc \in {"clear", "send"} PROVE InHand(seq)'
      BY <2>1
    <3>2. InHand(seq) /\ seq \in Nat
      BY <2>3, <3>1 DEF Answerable, Asked
    <3>3. total' >= ChunkEnd(chunks, seq)
      <4>1. ChunkEnd(chunks, seq) \in Nat
        BY <3>2, Lay, ChunkEndBound DEF Stream, Place
      <4>2. QED
        BY <2>2, <3>2, <4>1 DEF InHand
    <3>4. QED
      BY <2>1, <3>3 DEF InHand
  <2>6. pc' \in {"check", "take", "clear", "send"} => cur' <= Len(chunks')
    BY <2>1, <2>3 DEF Answerable
  <2>7. Counting' /\ cur' > Len(chunks') => total' >= pending'
    <3>1. pending' = pending /\ pending \in Nat
      BY <2>1, HereBound DEF pending, Stream
    <3>2. Counting /\ cur > Len(chunks) => total >= pending
      BY <2>3 DEF Answerable
    <3>3. QED
      BY <2>1, <2>2, <3>1, <3>2 DEF Counting
  <2>8. QED
    BY <2>4, <2>5, <2>6, <2>7 DEF Answerable
<1>3. CASE AckSent
  <2>1. /\ TakeReply(seq) /\ chunks' = chunks /\ air' = air /\ ackSeq' = ackSeq
        /\ dataLost' = dataLost /\ total' = total /\ Counting
        /\ pc = "send" /\ pc' = "wait"
    BY <1>3 DEF AckSent, shared, NextTurn, Counting
  <2>2. SUFFICES ASSUME ~dataLost PROVE Answerable'
    BY <2>1 DEF Answerable
  <2>3. InHand(ackSeq)' /\ InHand(seq) /\ cur <= Len(chunks)
    BY <2>1, <2>2 DEF Answerable, InHand
  <2>4. cur' > Len(chunks') => total' >= pending'
    <3>1. pending' = pending /\ pending \in Nat /\ pending = Whole(chunks)
      BY <2>1, HereBound DEF pending, Stream
    <3>2. chunks \in Layout /\ Len(chunks) \in Nat
      BY Lay DEF Stream, Place
    <3>3. cur' = cur \/ (seq = cur /\ cur' = cur + 1)
      BY <2>1, ReplyStream
    <3>4. cur' > Len(chunks) => seq = Len(chunks)
      BY <2>3, <3>2, <3>3 DEF Stream, Place
    <3>5. ChunkEnd(chunks, Len(chunks)) = pending
      BY <3>1, <3>2 DEF ChunkEnd, Whole
    <3>6. QED
      BY <2>1, <2>3, <3>1, <3>4, <3>5 DEF InHand
  <2>5. QED
    BY <2>1, <2>3, <2>4 DEF Answerable
<1>4. CASE Quietly
  <2>1. LoopStill
    BY <1>4, QuietIsStill
  <2>2. SUFFICES ASSUME ~dataLost PROVE Answerable'
    BY <2>1 DEF Answerable, LoopStill
  <2>3. Counting' => InHand(ackSeq)'
    BY <2>1, <2>2 DEF LoopStill, Answerable, InHand
  <2>4. pc' \in {"clear", "send"} => InHand(seq)'
    <3>1. CASE TakeSeq
      <4>1. seq' = ackSeq /\ Counting
        BY <3>1 DEF TakeSeq, Counting
      <4>2. QED
        BY <2>1, <2>2, <4>1 DEF LoopStill, Answerable, InHand
    <3>2. CASE ClearRequest
      <4>1. seq' = seq /\ pc = "clear"
        BY <3>2 DEF ClearRequest
      <4>2. QED
        BY <2>1, <2>2, <4>1 DEF LoopStill, Answerable, InHand
    <3>3. CASE Start \/ Wake \/ TimeIsUp \/ CheckRequest \/ NoRequest \/ AckFailed
               \/ StopCollecting \/ Finish
      BY <3>3 DEF Start, Wake, TimeIsUp, CheckRequest, NoRequest, AckFailed, NextTurn,
                  StopCollecting, Finish
    <3>4. QED
      BY <1>4, <3>1, <3>2, <3>3 DEF Quietly
  <2>5. pc' \in {"check", "take", "clear", "send"} => cur' <= Len(chunks')
    <3>1. CASE Wake
      <4>1. pc' = "check" => ~ (total >= pending)
        BY <3>1 DEF Wake
      <4>2. pc' \in {"stop", "check"} /\ Counting
        BY <3>1 DEF Wake, Counting
      <4>3. cur > Len(chunks) => total >= pending
        BY <2>2, <4>2 DEF Answerable
      <4>4. pc' = "check" => ~ (cur > Len(chunks))
        BY <4>1, <4>3
      <4>5. ~ (cur > Len(chunks)) => cur <= Len(chunks)
        BY Lay DEF Stream, Place
      <4>6. QED
        BY <2>1, <4>2, <4>4, <4>5 DEF LoopStill
    <3>2. CASE CheckRequest \/ TakeSeq \/ ClearRequest
      <4>1. pc \in {"check", "take", "clear"}
        BY <3>2 DEF CheckRequest, TakeSeq, ClearRequest
      <4>2. QED
        BY <2>1, <2>2, <4>1 DEF LoopStill, Answerable
    <3>3. CASE Start \/ TimeIsUp \/ NoRequest \/ AckFailed \/ StopCollecting \/ Finish
      BY <3>3 DEF Start, TimeIsUp, NoRequest, AckFailed, NextTurn, StopCollecting, Finish
    <3>4. QED
      BY <1>4, <3>1, <3>2, <3>3 DEF Quietly
  <2>6. Counting' /\ cur' > Len(chunks') => total' >= pending'
    BY <2>1, <2>2 DEF LoopStill, Answerable, pending
  <2>7. QED
    BY <2>3, <2>4, <2>5, <2>6 DEF Answerable
<1>5. QED
  BY <1>1, <1>2, <1>3, <1>4, NextSplit

LEMMA BoardCovered ==
  ASSUME Stream, Fresh, Typed, Asked, Answerable, Covered, Next
  PROVE  Covered'
<1>1. CASE SendFrame \/ Ask \/ LoseNotification \/ NotifyRx
  <2>1. chunks' = chunks /\ replies' = replies
    BY <1>1 DEF SendFrame, Ask, LoseNotification, NotifyRx, fountain
  <2>2. ~dataLost' => ~dataLost
    BY <1>1 DEF SendFrame, Ask, LoseNotification, NotifyRx
  <2>3. QED
    BY <2>1, <2>2 DEF Covered, Covers
<1>2. CASE AckSent
  <2> DEFINE r == [seq |-> seq, bytes |-> total]
  <2>1. /\ chunks' = chunks /\ dataLost' = dataLost /\ pc = "send"
        /\ replies' = Append(replies, r)
    BY <1>2 DEF AckSent
  <2>2. r \in [seq : Nat, bytes : Nat] /\ r.seq = seq /\ r.bytes = total
    BY DEF Asked, Stream, Counted
  <2>3. ~dataLost => Covers(r)
    <3>1. SUFFICES ASSUME ~dataLost PROVE Covers(r)
      OBVIOUS
    <3>2. InHand(seq) /\ cur <= Len(chunks)
      BY <2>1, <3>1 DEF Answerable
    <3>3. seq <= Len(chunks)
      BY <3>2, Lay DEF Asked, Stream, Place
    <3>4. QED
      BY <2>2, <3>2, <3>3 DEF Covers, InHand
  <2> HIDE DEF r
  <2>4. replies \in Seq([seq : Nat, bytes : Nat]) /\ Len(replies) \in Nat
    BY DEF Covered
  <2>5. /\ replies' \in Seq([seq : Nat, bytes : Nat])
        /\ Len(replies') = Len(replies) + 1
        /\ \A i \in 1..Len(replies) : replies'[i] = replies[i]
        /\ replies'[Len(replies) + 1] = r
    BY <2>1, <2>2, <2>4
  <2>6. ASSUME ~dataLost, NEW i \in 1..Len(replies') PROVE Covers(replies'[i])
    <3>1. i \in 1..Len(replies) \/ i = Len(replies) + 1
      BY <2>4, <2>5
    <3>2. QED
      BY <2>3, <2>5, <2>6, <3>1 DEF Covered
  <2>7. \A x : Covers(x) => x.seq <= Len(chunks') /\ x.bytes >= ChunkEnd(chunks', x.seq)
    BY <2>1 DEF Covers
  <2>8. QED
    BY <2>1, <2>5, <2>6, <2>7 DEF Covered, Covers
<1>3. CASE Quietly
  <2>1. chunks' = chunks /\ replies' = replies /\ dataLost' = dataLost
    BY <1>3, QuietIsStill DEF LoopStill
  <2>2. QED
    BY <2>1 DEF Covered, Covers
<1>4. QED
  BY <1>1, <1>2, <1>3, NextSplit

LEMMA BoardInitially ==
  ASSUME Init
  PROVE  BoardInv
<1>1. Stream /\ Fresh
  BY StreamInit
<1>2. Typed
  <2>1. Len(<<>>) = 0 /\ <<>> \in Lengths
    BY DEF Lengths
  <2>2. prompt \in BOOLEAN /\ ackReq \in BOOLEAN /\ short \in BOOLEAN /\ pc \in Pcs
    BY DEF Init, Pcs
  <2>3. /\ have \in Nat /\ quiet \in Nat /\ waited \in Nat /\ missed \in Nat
        /\ lastLen \in Nat \cup {-1} /\ ackedAt \in Nat \cup {-1}
    BY DEF Init
  <2>4. due \in 0..AskEvery
    BY Sized DEF Init
  <2>5. Len(air) <= AirMax /\ blob \in Lengths /\ Len(blob) <= BlobMax
    <3>1. air = <<>> /\ blob = <<>>
      BY DEF Init
    <3>2. 0 <= AirMax /\ 0 <= BlobMax
      BY Sized
    <3>3. QED
      BY <2>1, <3>1, <3>2
  <2>6. QED
    BY <2>2, <2>3, <2>4, <2>5 DEF Typed
<1>3. Asked
  BY DEF Init, Asked
<1>4. Answerable
  <2>1. chunks \in Backlogs /\ Len(chunks) \in Nat /\ chunks \in Layout
    BY Lay DEF Init
  <2>2. InHand(ackSeq)
    BY <2>1, ChunkEndBound DEF Init, InHand
  <2>3. cur > Len(chunks) => total >= pending
    <3>1. SUFFICES ASSUME cur > Len(chunks) PROVE total >= pending
      OBVIOUS
    <3>2. Len(chunks) = 0
      BY <2>1, <3>1 DEF Init
    <3>3. QED
      BY <2>1, <3>2, BytesUpToStep DEF Init, pending
  <2>4. pc = "start"
    BY DEF Init
  <2>5. QED
    BY <2>2, <2>3, <2>4 DEF Answerable
<1>5. Covered
  BY DEF Init, Covered
<1>6. Window
  <2>1. blob = <<>> /\ total = 0
    BY DEF Init
  <2>2. 0 % RecLen = 0
    <3>1. 0 * RecLen + 0 = 0 /\ 0 \in 0..(RecLen - 1)
      BY Sized
    <3>2. QED
      BY <3>1, Sized, Division
  <2>3. NewestTo(blob, total)
    <3>1. <<>> \in Lengths /\ Len(<<>>) = 0
      BY DEF Lengths
    <3>2. blob \in Lengths /\ Len(blob) = 0
      BY <2>1, <3>1
    <3>3. total - Len(blob) = 0 /\ total \in Nat /\ Len(blob) <= total
      <4>1. total = 0 /\ Len(blob) = 0
        BY <2>1, <3>2
      <4>2. QED
        BY <4>1
    <3>4. (\A i \in 1..Len(blob) : blob[i] = 0 + i) /\ ~ (total > Len(blob))
      BY <2>1, <3>2
    <3>5. QED
      BY <2>2, <3>2, <3>3, <3>4, NewestIs
  <2>4. QED
    BY <2>3 DEF Window
<1>7. QED
  BY <1>1, <1>2, <1>3, <1>4, <1>5, <1>6 DEF BoardInv

LEMMA BoardNext ==
  ASSUME BoardInv, [Next]_vars
  PROVE  BoardInv'
<1>1. CASE Next
  <2>1. Stream /\ Fresh /\ Typed /\ Asked /\ Answerable /\ Covered /\ Window
    BY DEF BoardInv
  <2>2. Stream' /\ Fresh' /\ Typed' /\ Asked' /\ Answerable' /\ Covered' /\ Window'
    BY <1>1, <2>1, BoardStream, BoardTyped, BoardAsked, BoardAnswerable, BoardCovered,
       BoardWindow
  <2>3. QED
    BY <2>2 DEF BoardInv
<1>2. CASE UNCHANGED vars
  BY <1>2 DEF BoardInv, Stream, Place, Here, Reached, Counted, Counting, Fresh, Typed,
     Asked, Answerable, InHand, Covered, Covers, Window, pending, vars, fountain, shared,
     counts, result
<1>3. QED
  BY <1>1, <1>2

LEMMA BoardInvariance == Spec => []BoardInv
<1>1. Init => BoardInv
  BY BoardInitially
<1>2. BoardInv /\ [Next]_vars => BoardInv'
  BY BoardNext
<1>3. QED
  BY <1>1, <1>2, PTL DEF Spec

\* Every variable of the board's read stays within its bounds, the buffer of
\* the handler among them.
THEOREM ChunkStreamTypeCorrect == Spec => []TypeOK
<1>1. BoardInv => TypeOK
  <2>1. SUFFICES ASSUME BoardInv PROVE TypeOK
    OBVIOUS
  <2>2. chunks \in Backlogs /\ cur \in 1..(Len(chunks) + 1) /\ frame \in Nat
    BY <2>1 DEF BoardInv, Stream, Place
  <2>3. {total, have, quiet, waited, seq, ackSeq, missed} \subseteq Nat
    BY <2>1 DEF BoardInv, Stream, Counted, Typed, Asked
  <2>4. {lastLen, ackedAt} \subseteq Nat \cup {-1}
    BY <2>1 DEF BoardInv, Typed
  <2>5. /\ prompt \in BOOLEAN /\ due \in 0..AskEvery
        /\ Len(air) <= AirMax /\ ackReq \in BOOLEAN /\ short \in BOOLEAN
        /\ dataLost \in BOOLEAN /\ Len(blob) <= BlobMax /\ pc \in Pcs
    BY <2>1 DEF BoardInv, Stream, Typed
  <2>6. QED
    BY <2>2, <2>3, <2>4, <2>5 DEF TypeOK, Pcs
<1>2. QED
  BY <1>1, BoardInvariance, PTL

\* A reply never confirms a chunk of which a byte has not been counted.
THEOREM AckCoversChunkAlways == Spec => []AckCoversChunk
<1>1. BoardInv => AckCoversChunk
  <2>1. SUFFICES ASSUME BoardInv, ~dataLost, NEW i \in DOMAIN replies
                 PROVE  replies[i].bytes >= BytesUpTo(chunks, replies[i].seq)
    BY DEF AckCoversChunk
  <2>2. i \in 1..Len(replies) /\ replies[i].seq \in Nat
    <3>1. replies \in Seq([seq : Nat, bytes : Nat])
      BY <2>1 DEF BoardInv, Covered
    <3>2. DOMAIN replies = 1..Len(replies)
      BY <3>1
    <3>3. ASSUME NEW T, replies \in Seq(T) PROVE replies[i] \in T
      BY <2>1, <3>3
    <3>4. QED
      BY <2>1, <3>1, <3>2, <3>3
  <2>3. /\ replies[i].seq <= Len(chunks)
        /\ replies[i].bytes >= ChunkEnd(chunks, replies[i].seq)
    BY <2>1, <2>2 DEF BoardInv, Covered, Covers
  <2>4. Len(chunks) \in Nat
    BY <2>1, Lay DEF BoardInv, Stream, Place
  <2>5. ~ (replies[i].seq > Len(chunks))
    BY <2>2, <2>3, <2>4
  <2>6. QED
    BY <2>3, <2>5 DEF ChunkEnd
<1>2. QED
  BY <1>1, BoardInvariance, PTL

-----------------------------------------------------------------------------
(* Records and their positions in the backlog *)

LEMMA DivMono ==
  ASSUME NEW x \in Nat, NEW y \in Nat, NEW r \in Nat \ {0}, x <= y
  PROVE  x \div r <= y \div r
<1> DEFINE p == x \div r
           q == y \div r
<1>1. /\ p \in Nat /\ x % r \in Nat /\ x = r * p + (x % r)
      /\ q \in Nat /\ y % r \in 0..(r - 1) /\ y = r * q + (y % r)
  OBVIOUS
<1> HIDE DEF p, q
<1>2. CASE q < p
  <2>1. q + 1 <= p
    BY <1>1, <1>2
  <2>2. r * (q + 1) <= r * p
    BY <1>1, <2>1
  <2>3. r * (q + 1) = r * q + r
    BY <1>1
  <2>4. r * p \in Nat /\ r * q \in Nat
    BY <1>1
  <2>5. QED
    BY <1>1, <2>2, <2>3, <2>4
<1>3. CASE p <= q
  BY <1>3 DEF p, q
<1>4. QED
  BY <1>1, <1>2, <1>3

LEMMA WholeRecords ==
  ASSUME NEW x \in Nat, NEW r \in Nat \ {0}, NEW i \in 1..(x \div r)
  PROVE  i * r \in Nat /\ i * r <= x
<1> DEFINE n == x \div r
           m == x % r
<1>1. n \in Nat /\ m \in Nat /\ x = r * n + m /\ i \in Nat /\ i <= n
  OBVIOUS
<1> HIDE DEF n, m
<1>2. i * r <= n * r /\ i * r \in Nat /\ n * r \in Nat /\ n * r = r * n
  BY <1>1
<1> DEFINE a == i * r
           c == n * r
<1>3. a <= c /\ a \in Nat /\ c \in Nat /\ x = c + m
  BY <1>1, <1>2
<1> HIDE DEF a, c
<1>4. a <= x
  BY <1>1, <1>3
<1>5. QED
  BY <1>3, <1>4 DEF a

\* What whole records stand in front of counts for itself.
LEMMA Shift ==
  ASSUME NEW k \in Nat, NEW x \in Nat, NEW r \in Nat \ {0}
  PROVE  (k * r + x) \div r = k + (x \div r) /\ (k * r + x) % r = x % r
<1> DEFINE p == x \div r
           m == x % r
<1>1. p \in Nat /\ m \in 0..(r - 1) /\ x = r * p + m
  OBVIOUS
<1> HIDE DEF p, m
<1>2. k * r + x = (k + p) * r + m
  BY <1>1
<1>3. k + p \in Nat
  BY <1>1
<1>4. ((k + p) * r + m) \div r = k + p /\ ((k + p) * r + m) % r = m
  BY <1>1, <1>3, Division
<1>5. QED
  BY <1>2, <1>4 DEF p, m

LEMMA Slice ==
  ASSUME NEW b \in Lengths, NEW from \in Nat, NEW n \in Nat, NEW base \in Nat,
         from + n <= Len(b), \A i \in 1..Len(b) : b[i] = base + i
  PROVE  \A j \in 1..n : SubSeq(b, from + 1, from + n)[j] = base + from + j
<1>1. Len(b) \in Nat
  BY DEF Lengths
<1>2. \A j \in (from + 1)..(from + n) : j \in 1..Len(b)
  BY <1>1
<1>3. \A j \in (from + 1)..(from + n) : b[j] \in Nat
  BY <1>2 DEF Lengths
<1>4. /\ from + 1 \in Int /\ from + n \in Int
      /\ \A j \in 1..((from + n) - (from + 1) + 1) :
           SubSeq(b, from + 1, from + n)[j] = b[from + 1 + j - 1]
  BY <1>3, SubSeqProperties
<1>5. ASSUME NEW j \in 1..n
      PROVE  SubSeq(b, from + 1, from + n)[j] = base + from + j
  <2>1. from + 1 + j - 1 = from + j /\ from + j \in 1..Len(b)
    BY <1>1
  <2>2. (from + n) - (from + 1) + 1 = n
    OBVIOUS
  <2>3. SubSeq(b, from + 1, from + n)[j] = b[from + j]
    BY <1>4, <2>1, <2>2
  <2>4. b[from + j] = base + (from + j)
    BY <2>1
  <2>5. QED
    BY <2>3, <2>4
<1>6. QED
  BY <1>5

\* The list of the promise.
Positions(v) == [n \in DOMAIN v |-> Position(v[n])]

\* A record cut out of a run is whole and stands where it stands.
LEMMA RecordAt ==
  ASSUME NEW b \in Lengths, NEW k \in Nat,
         \A i \in 1..Len(b) : b[i] = k * RecLen + i,
         NEW i \in 1..(Len(b) \div RecLen)
  PROVE  Position(SubSeq(b, (i - 1) * RecLen + 1, i * RecLen)) = k + i
<1> DEFINE r == SubSeq(b, (i - 1) * RecLen + 1, i * RecLen)
           n == Len(b) \div RecLen
           from == (i - 1) * RecLen
           to == i * RecLen
<1>1. Len(b) \in Nat /\ n \in Nat /\ i \in Nat \ {0} /\ i - 1 \in Nat /\ RecLen \in Nat \ {0}
  <2>1. Len(b) \in Nat
    BY DEF Lengths
  <2>2. QED
    BY <2>1, Sized
<1>2. from \in Nat /\ to \in Nat /\ to = from + RecLen
  BY <1>1
<1>3. to <= Len(b)
  BY <1>1, WholeRecords
<1>4. (k + i) * RecLen = k * RecLen + to /\ k * RecLen \in Nat /\ k + i \in Nat
  BY <1>1
<1> DEFINE base == k * RecLen
<1>5. base \in Nat /\ (k + i) * RecLen = base + to
  BY <1>4
<1>6. \A j \in 1..Len(b) : b[j] = base + j
  OBVIOUS
<1> HIDE DEF from, to, n, base
<1>7. /\ r = SubSeq(b, from + 1, to)
  BY DEF from, to
<1>8. \A j \in 1..RecLen : r[j] = base + from + j
  <2>1. from + RecLen <= Len(b)
    BY <1>2, <1>3
  <2>2. \A j \in 1..RecLen : SubSeq(b, from + 1, from + RecLen)[j] = base + from + j
    BY <1>1, <1>2, <1>5, <1>6, <2>1, Slice
  <2>3. QED
    BY <1>2, <1>7, <2>2
<1> HIDE DEF r
<1>9. \A j \in 2..RecLen : r[j] = r[1] + j - 1
  <2>1. r[1] = base + from + 1
    BY <1>1, <1>8
  <2>2. \A j \in 2..RecLen : r[j] = base + from + j
    BY <1>1, <1>8
  <2>3. QED
    BY <1>1, <1>2, <1>5, <2>1, <2>2
<1>10. r[RecLen] = (k + i) * RecLen + 0
  <2>1. r[RecLen] = base + from + RecLen
    BY <1>1, <1>8
  <2>2. QED
    BY <1>1, <1>2, <1>5, <2>1
<1>11. r[RecLen] \div RecLen = k + i /\ r[RecLen] % RecLen = 0
  BY <1>1, <1>4, <1>10, Division
<1>12. QED
  BY <1>9, <1>11 DEF Position, r

\* n records in order, behind the first k.
Stretch(k, n) == [i \in 1..n |-> k + i]

LEMMA RunIsStretch ==
  ASSUME NEW k \in Nat, NEW n \in Nat
  PROVE  Promise!Run(k + 1, k + n) = Stretch(k, n)
<1>1. (k + n) - (k + 1) + 1 = n
  OBVIOUS
<1>2. Promise!Run(k + 1, k + n) = [i \in 1..((k + n) - (k + 1) + 1) |-> (k + 1) + i - 1]
  BY DEF Promise!Run
<1>3. ASSUME NEW i \in 1..n PROVE (k + 1) + i - 1 = k + i
  OBVIOUS
<1>4. [i \in 1..n |-> (k + 1) + i - 1] = [i \in 1..n |-> k + i]
  BY <1>3
<1>5. QED
  BY <1>1, <1>2, <1>4 DEF Stretch

\* The newest n of the first m are the stretch of n that ends at m, or all m.
LEMMA NewestIsStretch ==
  ASSUME NEW n \in Nat, NEW m \in Nat
  PROVE  /\ m > n => Promise!Newest(n, m) = Stretch(m - n, n)
         /\ m <= n => Promise!Newest(n, m) = Stretch(0, m)
<1>1. CASE m > n
  <2>1. m - n \in Nat /\ (m - n) + n = m
    BY <1>1
  <2>2. Promise!Newest(n, m) = Promise!Run((m - n) + 1, m)
    BY <1>1 DEF Promise!Newest
  <2>3. Promise!Run((m - n) + 1, (m - n) + n) = Stretch(m - n, n)
    BY <2>1, RunIsStretch
  <2>4. ~ (m <= n)
    BY <1>1
  <2>5. QED
    BY <2>1, <2>2, <2>3, <2>4
<1>2. CASE m <= n
  <2>1. ~ (m > n) /\ 0 + 1 = 1 /\ 0 + m = m
    BY <1>2
  <2>2. Promise!Newest(n, m) = Promise!Run(1, m)
    BY <2>1 DEF Promise!Newest
  <2>3. Promise!Run(0 + 1, 0 + m) = Stretch(0, m)
    BY RunIsStretch, 0 \in Nat
  <2>4. QED
    BY <2>1, <2>2, <2>3
<1>3. QED
  BY <1>1, <1>2

LEMMA RecordsAre ==
  ASSUME NEW b \in Lengths, NEW k \in Nat,
         \A i \in 1..Len(b) : b[i] = k * RecLen + i
  PROVE  /\ Positions(Records(b)) = Stretch(k, Len(b) \div RecLen)
         /\ Len(Records(b)) = Len(b) \div RecLen /\ Len(b) \div RecLen \in Nat
<1> DEFINE n == Len(b) \div RecLen
<1>1. n \in Nat
  <2>1. Len(b) \in Nat
    BY DEF Lengths
  <2>2. QED
    BY <2>1, Sized
<1>2. Records(b) = [i \in 1..n |-> SubSeq(b, (i - 1) * RecLen + 1, i * RecLen)]
  BY DEF Records
<1>3. ASSUME NEW i \in 1..n PROVE Position(Records(b)[i]) = k + i
  BY <1>2, RecordAt
<1>4. DOMAIN Records(b) = 1..n
  BY <1>2
<1> HIDE DEF n
<1>5. Positions(Records(b)) = [i \in 1..n |-> Position(Records(b)[i])]
  BY <1>4 DEF Positions
<1>6. Positions(Records(b)) = Stretch(k, n)
  BY <1>3, <1>5 DEF Stretch
<1>7. Len(Records(b)) = n
  BY <1>1, <1>2
<1>8. QED
  BY <1>1, <1>6, <1>7 DEF n

Room == BlobMax \div RecLen

LEMMA RoomIs == Room \in Nat \ {0} /\ BlobMax = Room * RecLen
<1>1. Room \in Nat /\ BlobMax = Room * RecLen
  BY Sized, Multiple DEF Room
<1>2. Room # 0
  <2>1. 0 * RecLen = 0 /\ BlobMax # 0
    BY Sized
  <2>2. QED
    BY <1>1, <2>1
<1>3. QED
  BY <1>1, <1>2

\* The records of the buffer are the newest of those received, as many as there
\* is room for - but for one, if the last record received is torn.
LEMMA BufferIsNewest ==
  ASSUME NEW b \in Lengths, NEW t \in Nat, Len(b) <= BlobMax, NewestTo(b, t)
  PROVE  \E n \in {Room - 1, Room} :
           /\ Positions(Records(b)) = Promise!Newest(n, t \div RecLen)
           /\ t % RecLen = 0 => n = Room
<1> DEFINE from == t - Len(b)
           k == from \div RecLen
           n == Len(b) \div RecLen
           m == t \div RecLen
<1>1. Len(b) \in Nat /\ from \in Nat /\ from % RecLen = 0 /\ t = from + Len(b)
  <2>1. Len(b) \in Nat
    BY DEF Lengths
  <2>2. Len(b) <= t /\ (t - Len(b)) % RecLen = 0
    BY DEF NewestTo, RunTo
  <2>3. QED
    BY <2>1, <2>2
<1>2. \A i \in 1..Len(b) : b[i] = from + i
  BY DEF NewestTo, RunTo
<1>3. from > 0 => Len(b) + RecLen > BlobMax
  BY <1>1 DEF NewestTo
<1> HIDE DEF from
<1>4. k \in Nat /\ from = k * RecLen
  BY <1>1, Sized, Multiple
<1> HIDE DEF k
<1>5. Positions(Records(b)) = Stretch(k, n) /\ n \in Nat
  BY <1>2, <1>4, RecordsAre
<1>6. m = k + n /\ t % RecLen = Len(b) % RecLen
  <2>1. ASSUME NEW x, x = k * RecLen + Len(b)
        PROVE  x \div RecLen = k + n /\ x % RecLen = Len(b) % RecLen
    <3>1. k \in Nat /\ Len(b) \in Nat /\ RecLen \in Nat \ {0}
      BY <1>1, <1>4, Sized
    <3>2. /\ (k * RecLen + Len(b)) \div RecLen = k + n
          /\ (k * RecLen + Len(b)) % RecLen = Len(b) % RecLen
      BY <3>1, Shift, ZenonT(20)
    <3>3. QED
      BY <2>1, <3>2, ZenonT(20)
  <2>2. t = k * RecLen + Len(b)
    BY <1>1, <1>4
  <2>3. QED
    BY <2>1, <2>2
<1>7. n <= Room
  BY <1>1, Sized, DivMono DEF Room
<1>8. Len(b) % RecLen = 0 => Len(b) = n * RecLen
  BY <1>1, Sized, Multiple
<1>9. Len(b) = RecLen * n + (Len(b) % RecLen) /\ Len(b) % RecLen \in 0..(RecLen - 1)
  BY <1>1, Sized
<1> HIDE DEF n, m
<1>10. CASE k = 0
  <2>1. m <= Room /\ m = n
    BY <1>5, <1>6, <1>7, <1>10
  <2>2. Promise!Newest(Room, m) = Stretch(0, m)
    BY <1>5, <2>1, RoomIs, NewestIsStretch
  <2>3. QED
    BY <1>5, <1>10, <2>1, <2>2 DEF m
<1>11. CASE k # 0
  <2>1. from > 0
    <3>1. k * RecLen >= 1 * RecLen
      BY <1>4, <1>11, Sized
    <3>2. QED
      BY <1>4, <3>1, Sized
  <2>2. n >= Room - 1 /\ (Len(b) % RecLen = 0 => n = Room)
    <3>1. CASE n + 1 < Room
      <4>1. (n + 2) * RecLen <= Room * RecLen
        BY <1>5, <3>1, RoomIs, Sized
      <4>2. (n + 2) * RecLen = RecLen * n + RecLen + RecLen /\ RecLen * n \in Nat
        BY <1>5, Sized
      <4> DEFINE whole == RecLen * n
                 torn == Len(b) % RecLen
                 room == Room * RecLen
      <4>3. /\ whole \in Nat /\ torn \in 0..(RecLen - 1) /\ Len(b) = whole + torn
            /\ room = BlobMax /\ whole + RecLen + RecLen <= room
        BY <1>9, <4>1, <4>2, RoomIs
      <4> HIDE DEF whole, torn, room
      <4>4. Len(b) + RecLen > BlobMax
        BY <1>3, <2>1
      <4>5. FALSE
        BY <1>1, <4>3, <4>4, Sized
      <4>6. QED
        BY <4>5
    <3>2. CASE n + 1 = Room
      <4>1. (n + 1) * RecLen = n * RecLen + RecLen
        BY <1>5, Sized
      <4>2. Len(b) % RecLen # 0
        BY <1>1, <1>3, <1>8, <2>1, <3>2, <4>1, RoomIs, Sized
      <4>3. n >= Room - 1
        BY <1>5, <3>2, RoomIs
      <4>4. QED
        BY <4>2, <4>3
    <3>3. CASE n = Room
      <4>1. n >= Room - 1
        BY <3>3, RoomIs
      <4>2. QED
        BY <3>3, <4>1
    <3>4. n + 1 < Room \/ n + 1 = Room \/ n = Room
      BY <1>5, <1>7, RoomIs
    <3>5. QED
      BY <3>1, <3>2, <3>3, <3>4
  <2>3. n \in {Room - 1, Room}
    BY <1>5, <1>7, <2>2, RoomIs
  <2>4. m > n /\ m - n = k /\ m \in Nat
    BY <1>4, <1>5, <1>6, <1>11
  <2>5. Promise!Newest(n, m) = Stretch(k, n)
    BY <1>5, <2>4, NewestIsStretch
  <2>6. QED
    BY <1>5, <1>6, <2>2, <2>3, <2>5 DEF m
<1>12. QED
  BY <1>10, <1>11

-----------------------------------------------------------------------------
(* The board keeps the promise *)

ReadStep ==
  [Promise!LoseData \/ Promise!EndComplete \/ Promise!EndFlagged]_(Promise!read)

\* Nothing the promise speaks of changes.
Silent ==
  /\ chunks' = chunks /\ dataLost' = dataLost /\ visits' = visits /\ short' = short
  /\ pc' = "done" <=> pc = "done"

LEMMA SilentStep ==
  ASSUME Silent
  PROVE  ReadStep
<1>1. pending' = pending
  BY DEF Silent, pending
<1>2. (pc = "done")' = (pc = "done")
  BY DEF Silent
<1>3. UNCHANGED Promise!read
  BY <1>1, <1>2 DEF Silent, Promise!read
<1>4. QED
  BY <1>3 DEF ReadStep

LEMMA LoseStep ==
  ASSUME dataLost \in BOOLEAN, LoseNotification
  PROVE  ReadStep
<1>1. /\ chunks' = chunks /\ visits' = visits /\ short' = short /\ pc' = pc
      /\ dataLost' = (dataLost \/ Head(air).ask = 0)
  BY DEF LoseNotification, fountain, result
<1>2. CASE dataLost' = dataLost
  <2>1. Silent
    BY <1>1, <1>2 DEF Silent
  <2>2. QED
    BY <2>1, SilentStep
<1>3. CASE dataLost' # dataLost
  <2>1. ~dataLost /\ dataLost' = TRUE
    BY <1>1, <1>3
  <2>2. pending' = pending
    BY <1>1 DEF pending
  <2>3. Promise!LoseData
    BY <1>1, <2>1, <2>2 DEF Promise!LoseData
  <2>4. QED
    BY <2>3 DEF ReadStep
<1>4. QED
  BY <1>2, <1>3

LEMMA FinishStep ==
  ASSUME BoardInv, Finish
  PROVE  ReadStep
<1>1. /\ pc = "finish" /\ pc' = "done" /\ chunks' = chunks /\ dataLost' = dataLost
      /\ visits' = Records(blob) /\ short' = (total < pending \/ total % RecLen # 0)
  BY DEF Finish, fountain
<1>2. /\ total \in Nat /\ pending \in Nat /\ total <= pending
      /\ dataLost \in BOOLEAN /\ (dataLost => total < pending)
      /\ blob \in Lengths /\ Len(blob) <= BlobMax
  BY TotalBound, HereBound DEF BoardInv, Stream, Counted, Typed
<1>3. pending' = pending
  BY <1>1 DEF pending
<1>4. CASE dataLost
  <2>1. short' = TRUE
    BY <1>1, <1>2, <1>4
  <2>2. Promise!EndFlagged
    BY <1>1, <1>3, <1>4, <2>1 DEF Promise!EndFlagged
  <2>3. QED
    BY <2>2 DEF ReadStep
<1>5. CASE ~dataLost
  <2>1. NewestTo(blob, total)
    BY <1>5 DEF BoardInv, Window
  <2>2. PICK n \in {Room - 1, Room} :
          /\ Positions(Records(blob)) = Promise!Newest(n, total \div RecLen)
          /\ total % RecLen = 0 => n = Room
    BY <1>2, <2>1, BufferIsNewest
  <2>3. CASE short'
    <3>1. total \div RecLen \in 0..(pending \div RecLen)
      <4>1. total \div RecLen <= pending \div RecLen
        BY <1>2, Sized, DivMono
      <4>2. total \div RecLen \in Nat /\ pending \div RecLen \in Nat
        BY <1>2, Sized
      <4>3. QED
        BY <4>1, <4>2
    <3>2. short' = TRUE
      BY <1>1, <2>3
    <3>3. Promise!EndFlagged
      BY <1>1, <1>3, <2>2, <3>1, <3>2 DEF Promise!EndFlagged, Positions, Room
    <3>4. QED
      BY <3>3 DEF ReadStep
  <2>4. CASE ~short'
    <3>1. total = pending /\ n = Room /\ short' = FALSE
      <4>1. ~ (total < pending) /\ total % RecLen = 0 /\ short' = FALSE
        BY <1>1, <2>4
      <4>2. total = pending
        BY <1>2, <4>1
      <4>3. QED
        BY <2>2, <4>1, <4>2
    <3>2. Promise!EndComplete
      BY <1>1, <1>3, <2>2, <3>1 DEF Promise!EndComplete, Positions, Room
    <3>3. QED
      BY <3>2 DEF ReadStep
  <2>5. QED
    BY <2>3, <2>4
<1>6. QED
  BY <1>2, <1>4, <1>5

LEMMA BoardReadStep ==
  ASSUME BoardInv, [Next]_vars
  PROVE  ReadStep
<1>1. CASE LoseNotification
  BY <1>1, LoseStep DEF BoardInv, Stream
<1>2. CASE Finish
  BY <1>2, FinishStep
<1>3. CASE SendFrame \/ Ask \/ NotifyRx
  <2>1. Silent
    BY <1>3 DEF SendFrame, Ask, NotifyRx, fountain, result, Silent
  <2>2. QED
    BY <2>1, SilentStep
<1>4. CASE Loop /\ ~Finish
  <2>1. Silent
    BY <1>4 DEF Loop, Start, Wake, TimeIsUp, CheckRequest, NoRequest, TakeSeq, ClearRequest,
       AckSent, AckFailed, StopCollecting, NextTurn, fountain, result, Silent
  <2>2. QED
    BY <2>1, SilentStep
<1>5. CASE UNCHANGED vars
  <2>1. Silent
    BY <1>5 DEF vars, fountain, result, Silent
  <2>2. QED
    BY <2>1, SilentStep
<1>6. QED
  BY <1>1, <1>2, <1>3, <1>4, <1>5 DEF Next

LEMMA ReadStarts ==
  ASSUME Init
  PROVE  /\ pending \div RecLen \in Nat /\ dataLost = FALSE /\ pc # "done"
         /\ visits = <<>> /\ short = FALSE /\ Positions(visits) = <<>>
<1>1. dataLost = FALSE /\ pc # "done" /\ visits = <<>> /\ short = FALSE
  BY DEF Init
<1>2. pending \in Nat
  BY StreamInit, HereBound DEF Stream
<1>3. pending \div RecLen \in Nat
  BY <1>2, Sized
<1>4. Positions(<<>>) = <<>>
  <2>1. DOMAIN <<>> = {}
    OBVIOUS
  <2>2. Positions(<<>>) = [n \in {} |-> Position(<<>>[n])]
    BY <2>1 DEF Positions
  <2>3. Len([n \in {} |-> Position(<<>>[n])]) = 0
    OBVIOUS
  <2>4. QED
    BY <2>2
<1>5. QED
  BY <1>1, <1>3, <1>4

\* The board's read keeps what HistoryRead promises the core: an unflagged list
\* is the newest of the whole backlog, a flagged one has no gap and no torn
\* record, and nothing changes it afterwards - whatever is lost, repeated or
\* late, and wherever the handler comes between the steps of the loop.
THEOREM ReadKeepsPromise == Spec => KeepsHistoryRead
<1>1. Init => Promise!ReadInit
  BY ReadStarts DEF Promise!ReadInit, Positions
<1>2. BoardInv /\ [Next]_vars => ReadStep
  BY BoardReadStep
<1>3. QED
  BY <1>1, <1>2, BoardInvariance, PTL
     DEF Spec, KeepsHistoryRead, Promise!ReadSpec, ReadStep

-----------------------------------------------------------------------------
(* The PC driver *)

\* What arrived is kept from the first byte on; the loop has seen part of it.
Kept ==
  /\ blob \in Lengths /\ Len(blob) = total
  /\ have \in Nat /\ have <= total
  /\ ~dataLost => \A i \in 1..Len(blob) : blob[i] = i

PcInv == Stream /\ Fresh /\ Kept

PcQuietly == Start \/ Turn \/ TimeIsUp \/ ReplyRaises \/ Decode

LEMMA PcQuietIsStill ==
  ASSUME PcInv, PcQuietly
  PROVE  /\ chunks' = chunks /\ cur' = cur /\ frame' = frame /\ air' = air
         /\ dataLost' = dataLost /\ total' = total /\ blob' = blob
         /\ have' \in {have, total}
         /\ pc' # "start" /\ (Counting' => Counting)
<1>1. CASE Start
  <2>1. total = 0 /\ blob = <<>>
    BY <1>1 DEF Start, PcInv, Fresh
  <2>2. QED
    BY <1>1, <2>1 DEF Start, Counting, fountain, counts
<1>2. CASE Turn
  BY <1>2 DEF Turn, NextTurn, Counting, shared
<1>3. CASE TimeIsUp \/ ReplyRaises \/ Decode
  BY <1>3 DEF TimeIsUp, ReplyRaises, Decode, Counting, fountain, shared, counts
<1>4. QED
  BY <1>1, <1>2, <1>3 DEF PcQuietly

LEMMA PcNextSplit ==
  ASSUME PcNext
  PROVE  SendFrame \/ Ask \/ LoseNotification \/ OnNotify \/ AckSent \/ PcQuietly
BY DEF PcNext, Replied, PcQuietly

LEMMA OnNotifyKeeps ==
  ASSUME PcInv, OnNotify
  PROVE  PcInv'
<1> DEFINE d == Head(air).data
<1>1. /\ pc \in {"wait", "send"} /\ air # <<>> /\ air' = Tail(air) /\ pc' = pc
      /\ chunks' = chunks /\ cur' = cur /\ frame' = frame /\ dataLost' = dataLost
      /\ have' = have
  BY DEF OnNotify, fountain, counts
<1>2. Counting /\ pc' # "start"
  BY <1>1 DEF Counting
<1>3. IsNote(chunks, Head(air)) /\ Ahead(chunks, air, Here) = Begins(chunks, Head(air))
  BY <1>1, HeadGone DEF PcInv, Reached
<1>4. total \in Nat /\ (~dataLost => total = Begins(chunks, Head(air)))
  BY <1>2, <1>3 DEF PcInv, Stream, Counted, Reached
<1>5. /\ total' = total + Len(d)
      /\ IF Head(air).ask > 0 THEN blob' = blob /\ Len(d) = 0 ELSE blob' = blob \o d
  <2>1. CASE Head(air).ask > 0
    <3>1. TakeAsk(Head(air).ask)
      BY <2>1 DEF OnNotify
    <3>2. Len(d) = 0
      BY <1>3, <2>1 DEF IsNote
    <3>3. QED
      BY <1>4, <2>1, <3>1, <3>2 DEF TakeAsk
  <2>2. CASE ~ (Head(air).ask > 0)
    <3>1. Append68(d)
      BY <2>2 DEF OnNotify
    <3>2. QED
      BY <2>2, <3>1 DEF Append68
  <2>3. QED
    BY <2>1, <2>2
<1>6. Stream'
  BY <1>1, <1>2, <1>5, TakenStream DEF PcInv
<1>7. Fresh'
  BY <1>2 DEF Fresh
<1>8. Kept'
  <2>1. blob \in Lengths /\ Len(blob) = total /\ have \in Nat /\ have <= total
    BY DEF PcInv, Kept
  <2>2. CASE Head(air).ask > 0
    <3>1. blob' = blob /\ total' = total
      BY <1>4, <1>5, <2>2
    <3>2. QED
      BY <1>1, <3>1 DEF PcInv, Kept
  <2>3. CASE ~ (Head(air).ask > 0)
    <3>1. d \in Lengths /\ blob' = blob \o d
      BY <1>3, <1>5, <2>3 DEF IsNote, Notes, Lengths
    <3>2. ~dataLost => \A i \in 1..Len(d) : d[i] = total + i
      BY <1>3, <1>4, <2>3 DEF IsNote
    <3> HIDE DEF d
    <3>3. /\ blob' \in Lengths /\ Len(blob') = Len(blob) + Len(d) /\ Len(d) \in Nat
          /\ \A i \in 1..Len(blob) : blob'[i] = blob[i]
          /\ \A i \in 1..Len(d) : blob'[Len(blob) + i] = d[i]
      BY <2>1, <3>1, CatRun
    <3>4. Len(blob') = total' /\ have <= total'
      BY <1>4, <1>5, <2>1, <3>3
    <3>5. ASSUME ~dataLost, NEW i \in 1..Len(blob') PROVE blob'[i] = i
      <4>1. \A j \in 1..Len(blob) : blob[j] = j
        BY <3>5 DEF PcInv, Kept
      <4>2. CASE i <= total
        <5>1. i \in 1..Len(blob)
          BY <1>4, <2>1, <4>2
        <5>2. QED
          BY <3>3, <4>1, <5>1
      <4>3. CASE i > total
        <5>1. i - total \in 1..Len(d) /\ Len(blob) + (i - total) = i
          BY <1>4, <2>1, <3>3, <4>3
        <5>2. blob'[i] = total + (i - total)
          BY <3>2, <3>3, <3>5, <5>1
        <5>3. QED
          BY <1>4, <5>2
      <4>4. QED
        BY <1>4, <3>3, <4>2, <4>3
    <3>6. QED
      BY <1>1, <2>1, <3>3, <3>4, <3>5 DEF Kept
  <2>4. QED
    BY <2>2, <2>3
<1>9. QED
  BY <1>6, <1>7, <1>8 DEF PcInv

LEMMA PcStep ==
  ASSUME PcInv, [PcNext]_vars
  PROVE  PcInv'
<1>1. CASE SendFrame \/ Ask \/ LoseNotification
  <2>1. Stream'
    BY <1>1, SendFrameStream, AskStream, LoseStream DEF PcInv
  <2>2. pc' # "start"
    BY <1>1 DEF SendFrame, Ask, LoseNotification, Streaming, PcInv, Fresh
  <2>3. blob' = blob /\ total' = total /\ have' = have
    BY <1>1 DEF SendFrame, Ask, LoseNotification, shared, counts
  <2>4. ~dataLost' => ~dataLost
    BY <1>1 DEF SendFrame, Ask, LoseNotification
  <2>5. QED
    BY <2>1, <2>2, <2>3, <2>4 DEF PcInv, Fresh, Kept
<1>2. CASE OnNotify
  BY <1>2, OnNotifyKeeps
<1>3. CASE AckSent
  <2>1. /\ TakeReply(seq) /\ chunks' = chunks /\ air' = air
        /\ dataLost' = dataLost /\ total' = total /\ Counting /\ pc' = "wait"
        /\ blob' = blob /\ have' = have
    BY <1>3 DEF AckSent, shared, NextTurn, Counting
  <2>2. Stream' /\ Fresh'
    BY <2>1, ReplyStream DEF PcInv, Fresh
  <2>3. QED
    BY <2>1, <2>2 DEF PcInv, Kept
<1>4. CASE PcQuietly
  <2>1. /\ chunks' = chunks /\ cur' = cur /\ frame' = frame /\ air' = air
        /\ dataLost' = dataLost /\ total' = total /\ blob' = blob
        /\ have' \in {have, total} /\ pc' # "start" /\ (Counting' => Counting)
    BY <1>4, PcQuietIsStill
  <2>2. Stream' /\ Fresh'
    BY <2>1, Still DEF PcInv, Fresh
  <2>3. Kept'
    <3>1. total \in Nat
      BY DEF PcInv, Stream, Counted
    <3>2. have' \in Nat /\ have' <= total
      BY <2>1, <3>1 DEF PcInv, Kept
    <3>3. QED
      BY <2>1, <3>2 DEF PcInv, Kept
  <2>4. QED
    BY <2>2, <2>3 DEF PcInv
<1>5. CASE UNCHANGED vars
  BY <1>5 DEF PcInv, Stream, Place, Here, Reached, Counted, Counting, Fresh, Kept, pending,
     vars, fountain, shared, counts, result
<1>6. QED
  BY <1>1, <1>2, <1>3, <1>4, <1>5, PcNextSplit

LEMMA PcInvariance == PcSpec => []PcInv
<1>1. Init => PcInv
  <2>1. SUFFICES ASSUME Init PROVE PcInv
    OBVIOUS
  <2>2. Stream /\ Fresh
    BY <2>1, StreamInit
  <2>3. <<>> \in Lengths /\ Len(<<>>) = 0
    BY DEF Lengths
  <2>4. blob = <<>> /\ total = 0 /\ have = 0
    BY <2>1 DEF Init
  <2>5. Kept
    BY <2>3, <2>4 DEF Kept
  <2>6. QED
    BY <2>2, <2>5 DEF PcInv
<1>2. PcInv /\ [PcNext]_vars => PcInv'
  BY PcStep
<1>3. QED
  BY <1>1, <1>2, PTL DEF PcSpec

\* The backlog has no more records than history_decode takes.
Fits == \A b \in Backlogs : BytesUpTo(b, Len(b)) <= MaxRecords * RecLen

PcReadStep ==
  [PcPromise!LoseData \/ PcPromise!EndComplete \/ PcPromise!EndFlagged]_(PcPromise!read)

LEMMA PcSilentStep ==
  ASSUME Silent
  PROVE  PcReadStep
<1>1. pending' = pending
  BY DEF Silent, pending
<1>2. (pc = "done")' = (pc = "done")
  BY DEF Silent
<1>3. UNCHANGED PcPromise!read
  BY <1>1, <1>2 DEF Silent, PcPromise!read
<1>4. QED
  BY <1>3 DEF PcReadStep

LEMMA PcLoseStep ==
  ASSUME dataLost \in BOOLEAN, LoseNotification
  PROVE  PcReadStep
<1>1. /\ chunks' = chunks /\ visits' = visits /\ short' = short /\ pc' = pc
      /\ dataLost' = (dataLost \/ Head(air).ask = 0)
  BY DEF LoseNotification, fountain, result
<1>2. CASE dataLost' = dataLost
  <2>1. Silent
    BY <1>1, <1>2 DEF Silent
  <2>2. QED
    BY <2>1, PcSilentStep
<1>3. CASE dataLost' # dataLost
  <2>1. ~dataLost /\ dataLost' = TRUE
    BY <1>1, <1>3
  <2>2. pending' = pending
    BY <1>1 DEF pending
  <2>3. PcPromise!LoseData
    BY <1>1, <2>1, <2>2 DEF PcPromise!LoseData
  <2>4. QED
    BY <2>3 DEF PcReadStep
<1>4. QED
  BY <1>2, <1>3

LEMMA PcNewest ==
  ASSUME NEW n \in Nat, NEW m \in Nat, m <= n
  PROVE  PcPromise!Newest(n, m) = Stretch(0, m)
<1>1. PcPromise!Newest(n, m) = Promise!Newest(n, m)
  BY DEF PcPromise!Newest, Promise!Newest, PcPromise!Run, Promise!Run
<1>2. QED
  BY <1>1, NewestIsStretch

\* What the loop decodes are all the records of the bytes it has seen.
LEMMA DecodedIs ==
  ASSUME NEW b \in Lengths, NEW h \in 0..Len(b), \A i \in 1..Len(b) : b[i] = i,
         h \div RecLen <= MaxRecords
  PROVE  LET all == Records(SubSeq(b, 1, h))
             few == SubSeq(all, 1, IF Len(all) > MaxRecords THEN MaxRecords ELSE Len(all))
         IN  Positions(few) = Stretch(0, h \div RecLen)
<1> DEFINE s == SubSeq(b, 1, h)
           all == Records(s)
<1>1. Len(b) \in Nat /\ h \in Nat
  BY DEF Lengths
<1>2. s \in Lengths /\ Len(s) = h
  <2>1. \A i \in 1..h : b[i] \in Nat
    BY <1>1 DEF Lengths
  <2>2. s \in Seq(Nat) /\ Len(s) = IF 1 <= h THEN h - 1 + 1 ELSE 0
    BY <1>1, <2>1, SubSeqProperties
  <2>3. QED
    BY <1>1, <2>2 DEF Lengths
<1>3. \A i \in 1..Len(s) : s[i] = 0 * RecLen + i
  <2>1. 0 + h <= Len(b) /\ 0 * RecLen = 0 /\ \A i \in 1..Len(b) : b[i] = 0 + i
    BY <1>1, Sized
  <2>2. \A j \in 1..h : SubSeq(b, 0 + 1, 0 + h)[j] = 0 + 0 + j
    BY <1>1, <2>1, Slice, 0 \in Nat
  <2>3. SubSeq(b, 0 + 1, 0 + h) = s
    BY <1>1
  <2>4. ASSUME NEW i \in 1..Len(s) PROVE s[i] = 0 * RecLen + i
    <3>1. i \in 1..h
      BY <1>2
    <3>2. QED
      BY <2>1, <2>2, <2>3, <3>1
  <2>5. QED
    BY <2>4
<1> HIDE DEF s
<1>4. /\ Positions(all) = Stretch(0, h \div RecLen)
      /\ Len(all) = h \div RecLen /\ h \div RecLen \in Nat
  <2>1. \A i \in 1..Len(s) : s[i] = 0 * RecLen + i
    BY <1>3
  <2>2. QED
    BY <1>2, <2>1, RecordsAre, 0 \in Nat
<1>5. \E S : all \in Seq(S)
  <2> DEFINE n == Len(s) \div RecLen
             S == {all[i] : i \in 1..n}
  <2>1. all = [i \in 1..n |-> SubSeq(s, (i - 1) * RecLen + 1, i * RecLen)]
    BY DEF Records
  <2>2. n \in Nat
    BY <1>1, <1>2, Sized
  <2> HIDE DEF n
  <2>3. DOMAIN all = 1..n /\ all = [i \in 1..n |-> all[i]]
    BY <2>1
  <2> HIDE DEF all
  <2>4. all \in Seq(S)
    BY <2>2, <2>3
  <2>5. QED
    BY <2>4
<1> HIDE DEF all
<1>6. SubSeq(all, 1, Len(all)) = all
  BY <1>5, SubSeqFull
<1>7. ~ (Len(all) > MaxRecords)
  BY <1>4, PcAssumption
<1>8. QED
  BY <1>4, <1>6, <1>7 DEF all, s

LEMMA DecodeStep ==
  ASSUME Fits, PcInv, Decode
  PROVE  PcReadStep
<1>1. /\ pc = "stop" /\ pc' = "done" /\ chunks' = chunks /\ dataLost' = dataLost
      /\ short' = (have < pending)
  BY DEF Decode, fountain
<1>2. /\ total \in Nat /\ pending \in Nat /\ total <= pending
      /\ dataLost \in BOOLEAN /\ (dataLost => total < pending)
      /\ have \in Nat /\ have <= total
  BY TotalBound, HereBound DEF PcInv, Stream, Counted, Kept
<1>3. pending' = pending
  BY <1>1 DEF pending
<1>4. CASE dataLost
  <2>1. have < pending
    BY <1>2, <1>4
  <2>2. short' = TRUE
    BY <1>1, <2>1
  <2>3. PcPromise!EndFlagged
    BY <1>1, <1>3, <1>4, <2>2 DEF PcPromise!EndFlagged
  <2>4. QED
    BY <2>3 DEF PcReadStep
<1>5. CASE ~dataLost
  <2> DEFINE p == pending \div RecLen
             h == have \div RecLen
  <2>1. p \in Nat /\ h \in Nat /\ MaxRecords \in Nat \ {0}
    BY <1>2, Sized, PcAssumption
  <2>2. h <= p
    BY <1>2, Sized, DivMono
  <2>3. p <= MaxRecords
    <3>1. pending <= MaxRecords * RecLen
      BY DEF Fits, PcInv, Stream, Place, pending
    <3>2. (MaxRecords * RecLen) \div RecLen = MaxRecords
      <4>1. (MaxRecords * RecLen + 0) \div RecLen = MaxRecords
        BY <2>1, Sized, Division, 0 \in 0..(RecLen - 1)
      <4>2. MaxRecords * RecLen + 0 = MaxRecords * RecLen
        BY <2>1, Sized
      <4>3. QED
        BY <4>1, <4>2
    <3>3. MaxRecords * RecLen \in Nat
      BY <2>1, Sized
    <3>4. p <= (MaxRecords * RecLen) \div RecLen
      BY <1>2, <3>1, <3>3, Sized, DivMono
    <3>5. QED
      BY <3>2, <3>4
  <2>4. h <= MaxRecords
    BY <2>1, <2>2, <2>3
  <2>5. Positions(visits') = Stretch(0, h)
    <3>1. blob \in Lengths /\ have \in 0..Len(blob) /\ \A i \in 1..Len(blob) : blob[i] = i
      BY <1>2, <1>5 DEF PcInv, Kept
    <3>2. QED
      BY <2>4, <3>1, DecodedIs DEF Decode
  <2>6. Positions(visits') = PcPromise!Newest(MaxRecords, h)
    BY <2>1, <2>4, <2>5, PcNewest
  <2> HIDE DEF h
  <2>7. h \in 0..p
    BY <2>1, <2>2
  <2>8. CASE have < pending
    <3>1. short' = TRUE
      BY <1>1, <2>8
    <3>2. PcPromise!EndFlagged
      BY <1>1, <1>3, <2>6, <2>7, <3>1 DEF PcPromise!EndFlagged, Positions
    <3>3. QED
      BY <3>2 DEF PcReadStep
  <2>9. CASE ~ (have < pending)
    <3>1. short' = FALSE /\ have = pending
      BY <1>1, <1>2, <2>9
    <3>2. h = p
      BY <3>1 DEF h
    <3>3. PcPromise!EndComplete
      BY <1>1, <1>3, <2>6, <3>1, <3>2 DEF PcPromise!EndComplete, Positions
    <3>4. QED
      BY <3>3 DEF PcReadStep
  <2>10. QED
    BY <2>8, <2>9
<1>6. QED
  BY <1>2, <1>4, <1>5

\* A poll that fails in a reply ends with nothing, and says so.
LEMMA RaiseStep ==
  ASSUME PcInv, ReplyRaises
  PROVE  PcReadStep
<1>1. /\ pc = "send" /\ pc' = "done" /\ chunks' = chunks /\ dataLost' = dataLost
      /\ visits' = <<>> /\ short' = TRUE
  BY DEF ReplyRaises, fountain
<1>2. pending' = pending
  BY <1>1 DEF pending
<1>3. pending \div RecLen \in Nat
  BY HereBound, Sized DEF PcInv, Stream
<1>4. PcPromise!Newest(MaxRecords, 0) = Stretch(0, 0)
  BY PcNewest, PcAssumption
<1>5. Stretch(0, 0) = <<>>
  <2>1. Len(Stretch(0, 0)) = 0
    BY DEF Stretch
  <2>2. QED
    BY <2>1 DEF Stretch
<1>6. Positions(<<>>) = <<>>
  <2>1. Positions(<<>>) = [n \in {} |-> Position(<<>>[n])]
    BY DEF Positions
  <2>2. Len([n \in {} |-> Position(<<>>[n])]) = 0
    OBVIOUS
  <2>3. QED
    BY <2>1, <2>2
<1>7. Positions(visits') = PcPromise!Newest(MaxRecords, 0) /\ 0 \in 0..(pending \div RecLen)
  BY <1>1, <1>3, <1>4, <1>5, <1>6
<1>8. PcPromise!EndFlagged
  BY <1>1, <1>2, <1>7 DEF PcPromise!EndFlagged, Positions
<1>9. QED
  BY <1>8 DEF PcReadStep

LEMMA PcKeepsStep ==
  ASSUME Fits, PcInv, [PcNext]_vars
  PROVE  PcReadStep
<1>1. CASE LoseNotification
  BY <1>1, PcLoseStep DEF PcInv, Stream
<1>2. CASE Decode
  BY <1>2, DecodeStep
<1>3. CASE ReplyRaises
  BY <1>3, RaiseStep
<1>4. CASE SendFrame \/ Ask \/ OnNotify \/ AckSent
  <2>1. Silent
    BY <1>4 DEF SendFrame, Ask, OnNotify, AckSent, NextTurn, fountain, result, Silent
  <2>2. QED
    BY <2>1, PcSilentStep
<1>5. CASE Start \/ Turn \/ TimeIsUp
  <2>1. Silent
    BY <1>5 DEF Start, Turn, TimeIsUp, NextTurn, fountain, result, Silent
  <2>2. QED
    BY <2>1, PcSilentStep
<1>6. CASE UNCHANGED vars
  <2>1. Silent
    BY <1>6 DEF vars, fountain, result, Silent
  <2>2. QED
    BY <2>1, PcSilentStep
<1>7. QED
  BY <1>1, <1>2, <1>3, <1>4, <1>5, <1>6, PcNextSplit DEF PcQuietly

\* So does the PC's read, as long as the backlog has no more records than
\* history_decode takes: of a longer one it would keep the oldest.
THEOREM PcReadKeepsPromise ==
  ASSUME Fits
  PROVE  PcSpec => PcKeepsHistoryRead
<1>1. Init => PcPromise!ReadInit
  BY ReadStarts DEF PcPromise!ReadInit, Positions
<1>2. PcInv /\ [PcNext]_vars => PcReadStep
  BY PcKeepsStep
<1>3. QED
  BY <1>1, <1>2, PcInvariance, PTL
     DEF PcSpec, PcKeepsHistoryRead, PcPromise!ReadSpec, PcReadStep

-----------------------------------------------------------------------------
(* A prompt fountain is read to the end *)

\* How long m requests that come to nothing keep the loop waiting.
Patience(m) == AskEvery * m

LEMMA PatienceIs ==
  ASSUME NEW m \in Nat
  PROVE  /\ Patience(m) \in Nat /\ Patience(m + 1) = Patience(m) + AskEvery
         /\ Patience(0) = 0
         /\ m <= MaxMissed => Patience(m) <= Patience(MaxMissed)
<1>1. AskEvery \in Nat /\ MaxMissed \in Nat
  BY Sized
<1>2. Patience(m) \in Nat /\ Patience(m + 1) = Patience(m) + AskEvery /\ Patience(0) = 0
  BY <1>1 DEF Patience
<1>3. ASSUME m <= MaxMissed PROVE Patience(m) <= Patience(MaxMissed)
  <2>1. PICK k \in Nat : MaxMissed = m + k
    BY <1>1, <1>3, MaxMissed - m \in Nat
  <2>2. AskEvery * MaxMissed = AskEvery * m + AskEvery * k
    BY <1>1, <2>1
  <2>3. AskEvery * k \in Nat /\ AskEvery * m \in Nat
    BY <1>1, <2>1
  <2>4. QED
    BY <2>2, <2>3 DEF Patience
<1>4. QED
  BY <1>2, <1>3

\* Every chunk holds something.
Filled == \A b \in Backlogs : \A c \in DOMAIN b : b[c] # <<>>

\* There is time for one turn a chunk and for every request that comes to
\* nothing; "7 s is two misses".
Patient ==
  /\ Filled
  /\ \A b \in Backlogs : Len(b) + Patience(MaxMissed) <= Timeout
  /\ AskEvery >= 2 /\ Patience(MaxMissed) < Quiet

LEMMA ChunkGrows ==
  ASSUME Filled, NEW b \in Backlogs, NEW c \in 1..Len(b)
  PROVE  /\ ChunkEnd(b, c) \in Nat /\ ChunkEnd(b, c) > 0
         /\ c + 1 <= Len(b) => ChunkEnd(b, c) < ChunkEnd(b, c + 1)
<1>1. b \in Layout /\ Len(b) \in Nat /\ DOMAIN b = 1..Len(b)
  BY Lay DEF Layout
<1>2. ASSUME NEW n \in 1..Len(b)
      PROVE  /\ BytesUpTo(b, n - 1) \in Nat /\ BytesUpTo(b, n) \in Nat
             /\ BytesUpTo(b, n - 1) < BytesUpTo(b, n)
  <2> DEFINE s == b[n]
  <2>1. s \in Lengths /\ Len(s) \in Nat /\ \A i \in 1..Len(s) : s[i] \in Nat \ {0}
    BY <1>1, ChunkIsLengths
  <2>2. s # <<>>
    BY <1>1 DEF Filled
  <2> HIDE DEF s
  <2>3. Len(s) > 0
    BY <2>1, <2>2 DEF Lengths
  <2>4. Len(s) \in 1..Len(s) /\ Len(s) - 1 \in 0..Len(s)
    BY <2>1, <2>3
  <2>5. /\ BytesIn(s, Len(s)) = BytesIn(s, Len(s) - 1) + s[Len(s)]
        /\ BytesIn(s, Len(s) - 1) \in Nat /\ s[Len(s)] \in Nat \ {0}
    BY <2>1, <2>4, BytesInStep, BytesInNat
  <2>6. n \in 0..Len(b) /\ n - 1 \in 0..Len(b)
    BY <1>1
  <2>7. /\ BytesUpTo(b, n - 1) \in Nat /\ BytesUpTo(b, n) \in Nat
        /\ BytesUpTo(b, n) = BytesUpTo(b, n - 1) + BytesIn(s, Len(s))
    BY <1>1, <2>6, BytesUpToStep DEF s
  <2>8. QED
    BY <2>5, <2>7
<1>3. ChunkEnd(b, c) = BytesUpTo(b, c)
  BY <1>1 DEF ChunkEnd
<1>4. BytesUpTo(b, c) \in Nat /\ BytesUpTo(b, c) > 0
  BY <1>2
<1>5. ASSUME c + 1 <= Len(b) PROVE ChunkEnd(b, c) < ChunkEnd(b, c + 1)
  <2>1. c + 1 \in 1..Len(b) /\ (c + 1) - 1 = c
    BY <1>1, <1>5
  <2>2. BytesUpTo(b, c) < BytesUpTo(b, c + 1)
    BY <1>2, <2>1
  <2>3. ChunkEnd(b, c + 1) = BytesUpTo(b, c + 1)
    BY <1>1, <2>1 DEF ChunkEnd
  <2>4. QED
    BY <1>3, <2>2, <2>3
<1>6. QED
  BY <1>3, <1>4, <1>5

\* The request for a chunk: not made yet, under way, in hand, come to nothing.
Coming ==
  /\ due = 0 /\ ~ackReq /\ \A k \in 1..Len(air) : air[k].ask = 0
  /\ pc \in {"wait", "check"} /\ (pc = "check" => Waiting)

Asking ==
  /\ due = AskEvery /\ ~ackReq /\ Waiting /\ pc \in {"wait", "check"}
  /\ Len(air) > 0 /\ air[Len(air)].ask = cur
  /\ \A k \in 1..(Len(air) - 1) : air[k].ask = 0

Holding ==
  /\ Waiting /\ air = <<>>
  /\ due \in {AskEvery - 1, AskEvery} /\ (pc = "wait" => due = AskEvery)
  /\ IF pc = "send" THEN ~ackReq ELSE ackReq /\ ackSeq = cur
  /\ pc \in {"clear", "send"} => seq = cur

Missed ==
  Waiting /\ air = <<>> /\ due > 0 /\ ~ackReq /\ pc \in {"wait", "check"}

\* What m requests that come to nothing explain, with the time to the next one
\* and the turn under way.
Spent(m) ==
  /\ quiet + due <= Patience(m)
  /\ waited + due + (IF pc = "wait" THEN 0 ELSE 1) <= (cur - 1) + Patience(m)

OnTime ==
  \/ (Coming \/ Missed) /\ Spent(missed)
  \/ (Asking \/ Holding) /\ Spent(missed + 1)

Answering ==
  /\ ackedAt < ChunkEnd(chunks, cur)
  /\ pc # "wait" => have = ChunkEnd(chunks, cur)
  /\ OnTime

Turning == pc \in {"wait", "check", "take", "clear", "send"}

Paced ==
  /\ pc = "start" => missed = 0 /\ due = 0 /\ quiet = 0 /\ waited = 0 /\ ackedAt = -1
  /\ Turning /\ cur <= Len(chunks) => Answering
  /\ pc \in {"stop", "finish"} => total >= pending
  /\ pc = "done" => ~short

PromptInv == missed <= MaxMissed /\ (prompt /\ ~dataLost => Paced)

\* The types the steps below work with.
LEMMA PromptTypes ==
  ASSUME BoardInv
  PROVE  /\ chunks \in Backlogs /\ Len(chunks) \in Nat /\ cur \in Nat \ {0}
         /\ missed \in Nat /\ quiet \in Nat /\ waited \in Nat /\ due \in Nat
         /\ due <= AskEvery /\ total \in Nat /\ pending \in Nat /\ total <= pending
         /\ ackedAt \in Int /\ ackReq \in BOOLEAN /\ have \in Nat
         /\ air \in Seq(Notes) /\ Len(air) \in Nat
<1>1. chunks \in Backlogs /\ Len(chunks) \in Nat /\ cur \in Nat \ {0}
  <2>1. chunks \in Backlogs /\ cur \in 1..(Len(chunks) + 1)
    BY DEF BoardInv, Stream, Place
  <2>2. QED
    BY <2>1, Lay
<1>2. /\ missed \in Nat /\ quiet \in Nat /\ waited \in Nat /\ due \in Nat
      /\ due <= AskEvery /\ ackedAt \in Int /\ ackReq \in BOOLEAN /\ have \in Nat
  BY Sized DEF BoardInv, Typed
<1>3. total \in Nat /\ total <= pending /\ pending \in Nat
  BY TotalBound, HereBound DEF BoardInv, Stream, Counted
<1>4. air \in Seq(Notes) /\ Len(air) \in Nat
  BY DEF BoardInv, Stream, InOrder
<1>5. QED
  BY <1>1, <1>2, <1>3, <1>4

\* Where the fountain waits and nothing is under way, all of its chunk is in hand.
LEMMA AllInHand ==
  ASSUME Stream, ~dataLost, Waiting, air = <<>>, Counting
  PROVE  total = ChunkEnd(chunks, cur)
<1>1. total = Reached
  BY DEF Stream, Counted
<1>2. Reached = Here
  BY DEF Reached, Ahead
<1>3. Here = ChunkEnd(chunks, cur)
  BY WaitingAtEnd DEF Stream
<1>4. QED
  BY <1>1, <1>2, <1>3

\* The fountain's own steps.
LEMMA SendFramePaced ==
  ASSUME BoardInv, Paced, SendFrame
  PROVE  Paced'
<1>1. /\ chunks' = chunks /\ cur' = cur /\ due' = due /\ missed' = missed
      /\ ackReq' = ackReq /\ total' = total /\ pc' = pc /\ have' = have
      /\ quiet' = quiet /\ waited' = waited /\ ackedAt' = ackedAt /\ short' = short
      /\ pc \notin {"start", "done"} /\ Sending
      /\ \E d : air' = Append(air, [data |-> d, ask |-> 0])
  BY DEF SendFrame, Streaming, shared, counts, result
<1>2. ASSUME Turning, cur <= Len(chunks) PROVE Answering'
  <2>1. Answering /\ Coming /\ Spent(missed) /\ pc = "wait"
    BY <1>1, <1>2 DEF Paced, Answering, OnTime, Asking, Holding, Missed, Waiting, Coming
  <2>2. Coming'
    <3>1. air \in Seq(Notes)
      BY PromptTypes
    <3>2. PICK n : air' = Append(air, n) /\ n.ask = 0
      BY <1>1
    <3>3. \A k \in 1..Len(air') : air'[k].ask = 0
      BY <2>1, <3>1, <3>2 DEF Coming
    <3>4. QED
      BY <1>1, <2>1, <3>3 DEF Coming
  <2>3. Spent(missed)'
    BY <1>1, <2>1 DEF Spent
  <2>4. QED
    BY <1>1, <2>1, <2>2, <2>3 DEF Answering, OnTime
<1>3. QED
  BY <1>1, <1>2 DEF Paced, Turning, pending

LEMMA AskPaced ==
  ASSUME BoardInv, Patient, Paced, Ask
  PROVE  Paced'
<1>1. /\ chunks' = chunks /\ cur' = cur /\ frame' = frame /\ due' = AskEvery
      /\ missed' = missed /\ ackReq' = ackReq /\ total' = total /\ pc' = pc
      /\ have' = have /\ quiet' = quiet /\ waited' = waited /\ ackedAt' = ackedAt
      /\ short' = short /\ pc \notin {"start", "done"} /\ Waiting /\ due = 0
      /\ air' = Append(air, [data |-> <<>>, ask |-> cur])
  BY DEF Ask, Streaming, shared, counts, result
<1>2. ASSUME Turning, cur <= Len(chunks) PROVE Answering'
  <2>1. Answering /\ Coming /\ Spent(missed)
    <3>1. AskEvery \in Nat /\ AskEvery >= 2
      BY Sized DEF Patient
    <3>2. ~Asking /\ ~Missed /\ ~Holding
      BY <1>1, <3>1 DEF Asking, Holding, Missed
    <3>3. QED
      BY <1>2, <3>2 DEF Paced, Answering, OnTime
  <2>2. Asking'
    <3>1. air \in Seq(Notes)
      BY PromptTypes
    <3>2. PICK n : air' = Append(air, n) /\ n.ask = cur
      BY <1>1
    <3>3. /\ Len(air') > 0 /\ air'[Len(air')].ask = cur
          /\ \A k \in 1..(Len(air') - 1) : air'[k].ask = 0
      BY <2>1, <3>1, <3>2 DEF Coming
    <3>4. Waiting'
      BY <1>1 DEF Waiting, Sending
    <3>5. QED
      BY <1>1, <2>1, <3>3, <3>4 DEF Coming, Asking
  <2>3. Spent(missed + 1)'
    <3>1. /\ quiet \in Nat /\ waited \in Nat /\ cur \in Nat /\ missed \in Nat
          /\ AskEvery \in Nat
      BY PromptTypes, Sized
    <3>2. Patience(missed) \in Nat /\ Patience(missed + 1) = Patience(missed) + AskEvery
      BY <3>1, PatienceIs
    <3>3. quiet + AskEvery <= Patience(missed + 1)
      BY <1>1, <2>1, <3>1, <3>2 DEF Spent
    <3>4. waited + AskEvery + (IF pc = "wait" THEN 0 ELSE 1)
            <= (cur - 1) + Patience(missed + 1)
      BY <1>1, <2>1, <3>1, <3>2 DEF Spent
    <3>5. Spent(missed + 1)' <=> /\ quiet' + due' <= Patience(missed' + 1)
                                 /\ waited' + due' + (IF pc' = "wait" THEN 0 ELSE 1)
                                      <= (cur' - 1) + Patience(missed' + 1)
      BY DEF Spent, Patience
    <3>6. QED
      BY <1>1, <3>3, <3>4, <3>5
  <2>4. QED
    BY <1>1, <2>1, <2>2, <2>3 DEF Answering, OnTime
<1>3. QED
  BY <1>1, <1>2 DEF Paced, Turning, pending

LEMMA OneOrMore == ASSUME NEW n \in Nat, n > 0 PROVE n = 1 \/ n > 1
OBVIOUS

\* Where a notification is under way, either every one is data or the last is
\* the request.
LEMMA UnderWay ==
  ASSUME BoardInv, Turning, Answering, air # <<>>
  PROVE  \/ Coming /\ Spent(missed) /\ Head(air).ask = 0
         \/ Asking /\ Spent(missed + 1) /\ Head(air).ask = 0 /\ Len(air) > 1
         \/ Asking /\ Spent(missed + 1) /\ Head(air).ask = cur /\ Len(air) = 1
<1>1. air \in Seq(Notes) /\ Len(air) \in Nat /\ Len(air) > 0 /\ Head(air) = air[1]
  <2>1. air \in Seq(Notes)
    BY PromptTypes
  <2>2. QED
    BY <2>1
<1>2. (Coming /\ Spent(missed)) \/ (Asking /\ Spent(missed + 1))
  BY DEF Answering, OnTime, Holding, Missed
<1>3. ASSUME Coming PROVE Head(air).ask = 0
  BY <1>1, <1>3 DEF Coming
<1>4. ASSUME Asking PROVE \/ Head(air).ask = 0 /\ Len(air) > 1
                          \/ Head(air).ask = cur /\ Len(air) = 1
  <2>1. air[Len(air)].ask = cur /\ \A k \in 1..(Len(air) - 1) : air[k].ask = 0
    BY <1>4 DEF Asking
  <2>2. CASE Len(air) = 1
    <3>1. Head(air).ask = cur
      BY <1>1, <2>1, <2>2
    <3>2. QED
      BY <2>2, <3>1
  <2>3. CASE Len(air) > 1
    <3>1. 1 \in 1..(Len(air) - 1)
      BY <1>1, <2>3
    <3>2. Head(air).ask = 0
      BY <1>1, <2>1, <3>1
    <3>3. QED
      BY <2>3, <3>2
  <2>4. Len(air) = 1 \/ Len(air) > 1
    BY <1>1, OneOrMore
  <2>5. QED
    BY <2>2, <2>3, <2>4
<1>5. QED
  BY <1>2, <1>3, <1>4

LEMMA LosePaced ==
  ASSUME BoardInv, Patient, Paced, LoseNotification, ~dataLost'
  PROVE  Paced'
<1>1. /\ chunks' = chunks /\ cur' = cur /\ frame' = frame /\ due' = due
      /\ missed' = missed + 1 /\ ackReq' = ackReq /\ total' = total /\ pc' = pc
      /\ have' = have /\ quiet' = quiet /\ waited' = waited /\ ackedAt' = ackedAt
      /\ short' = short /\ air # <<>> /\ air' = Tail(air) /\ Head(air).ask # 0
  BY DEF LoseNotification, Miss, fountain, shared, counts, result
<1>2. pc # "start"
  BY <1>1 DEF BoardInv, Fresh
<1>3. ASSUME Turning, cur <= Len(chunks) PROVE Answering'
  <2>1. Answering
    BY <1>3 DEF Paced
  <2>2. Asking /\ Spent(missed + 1) /\ Len(air) = 1
    BY <1>1, <1>3, <2>1, UnderWay
  <2>3. air' = <<>>
    <3>1. air \in Seq(Notes)
      BY PromptTypes
    <3>2. QED
      BY <1>1, <2>2, <3>1
  <2>4. Missed'
    <3>1. AskEvery \in Nat /\ AskEvery > 0
      BY Sized
    <3>2. QED
      BY <1>1, <2>2, <2>3, <3>1 DEF Asking, Missed, Waiting, Sending
  <2>5. Spent(missed)'
    BY <1>1, <2>2 DEF Spent
  <2>6. QED
    BY <1>1, <2>1, <2>4, <2>5 DEF Answering, OnTime
<1>4. QED
  BY <1>1, <1>2, <1>3 DEF Paced, Turning, pending

\* The handler.
LEMMA NotifyRxPaced ==
  ASSUME BoardInv, Patient, Paced, NotifyRx
  PROVE  Paced'
<1>1. /\ chunks' = chunks /\ cur' = cur /\ frame' = frame /\ due' = due
      /\ missed' = missed /\ pc' = pc /\ seq' = seq
      /\ have' = have /\ quiet' = quiet /\ waited' = waited /\ ackedAt' = ackedAt
      /\ short' = short /\ air # <<>> /\ air' = Tail(air)
  BY DEF NotifyRx, fountain, counts, result
<1>2. /\ Head(air).ask > 0 => ackReq' = TRUE /\ ackSeq' = Head(air).ask
      /\ ~ (Head(air).ask > 0) => ackReq' = ackReq
  BY DEF NotifyRx, TakeAsk, TakeData
<1>3. pc # "start"
  BY <1>1 DEF BoardInv, Fresh
<1>4. air \in Seq(Notes) /\ Len(air) \in Nat /\ cur \in Nat /\ cur > 0
  BY PromptTypes
<1>5. total' >= total
  <2>1. IsNote(chunks, Head(air)) /\ (total' = total \/ total' = total + Len(Head(air).data))
    BY Notified DEF BoardInv
  <2>2. Len(Head(air).data) \in Nat
    BY <2>1 DEF IsNote, Notes
  <2>3. QED
    BY <2>1, <2>2, PromptTypes
<1>6. ASSUME total >= pending PROVE total' >= pending'
  <2>1. pending' = pending
    BY <1>1 DEF pending
  <2>2. total \in Nat /\ pending \in Nat /\ total' \in Nat
    <3>1. Stream'
      BY BoardStream DEF BoardInv, Next
    <3>2. QED
      BY <3>1, PromptTypes DEF Stream, Counted
  <2>3. QED
    BY <1>5, <1>6, <2>1, <2>2
<1>7. ASSUME Turning, cur <= Len(chunks) PROVE Answering'
  <2>1. Answering
    BY <1>7 DEF Paced
  <2>2. ASSUME Spent(missed) PROVE Spent(missed)'
    BY <1>1, <2>2 DEF Spent
  <2>3. ASSUME Spent(missed + 1) PROVE Spent(missed + 1)'
    BY <1>1, <2>3 DEF Spent
  <2>4. CASE Coming /\ Spent(missed) /\ Head(air).ask = 0
    <3>1. \A k \in 1..Len(air') : air'[k].ask = 0
      BY <1>1, <1>4, <2>4 DEF Coming
    <3>2. ackReq' = ackReq
      BY <1>2, <2>4
    <3>3. Coming'
      BY <1>1, <2>4, <3>1, <3>2 DEF Coming, Waiting, Sending
    <3>4. QED
      BY <1>1, <2>1, <2>2, <2>4, <3>3 DEF Answering, OnTime
  <2>5. CASE Asking /\ Spent(missed + 1) /\ Head(air).ask = 0 /\ Len(air) > 1
    <3>1. /\ Len(air') > 0 /\ air'[Len(air')].ask = cur
          /\ \A k \in 1..(Len(air') - 1) : air'[k].ask = 0
      BY <1>1, <1>4, <2>5 DEF Asking
    <3>2. ackReq' = ackReq
      BY <1>2, <2>5
    <3>3. Asking'
      BY <1>1, <2>5, <3>1, <3>2 DEF Asking, Waiting, Sending
    <3>4. QED
      BY <1>1, <2>1, <2>3, <2>5, <3>3 DEF Answering, OnTime
  <2>6. CASE Asking /\ Spent(missed + 1) /\ Head(air).ask = cur /\ Len(air) = 1
    <3>1. air' = <<>>
      BY <1>1, <1>4, <2>6
    <3>2. ackReq' = TRUE /\ ackSeq' = cur
      BY <1>2, <1>4, <2>6
    <3>3. Holding'
      BY <1>1, <2>6, <3>1, <3>2 DEF Asking, Holding, Waiting, Sending
    <3>4. QED
      BY <1>1, <2>1, <2>3, <2>6, <3>3 DEF Answering, OnTime
  <2>7. QED
    BY <1>1, <1>7, <2>1, <2>4, <2>5, <2>6, UnderWay
<1>8. QED
  BY <1>1, <1>3, <1>6, <1>7 DEF Paced, Turning

\* The loop looks.  At the first look after a request the prompt fountain has
\* had it delivered.
LEMMA StartPaced ==
  ASSUME BoardInv, Patient, Paced, Start
  PROVE  Paced'
<1>1. /\ chunks' = chunks /\ cur' = cur /\ due' = due /\ air' = air
      /\ missed' = missed /\ pc' = "wait" /\ pc = "start" /\ ~ackReq'
      /\ quiet' = quiet /\ waited' = waited /\ ackedAt' = ackedAt
  BY DEF Start, fountain, counts
<1>2. /\ missed = 0 /\ due = 0 /\ quiet = 0 /\ waited = 0 /\ ackedAt = -1
      /\ air = <<>> /\ cur = 1
  BY <1>1 DEF Paced, BoardInv, Fresh
<1>3. ASSUME 1 <= Len(chunks) PROVE Answering'
  <2>1. Coming'
    BY <1>1, <1>2 DEF Coming
  <2>2. Spent(missed)'
    <3>1. Patience(0) = 0
      BY PatienceIs
    <3>2. Spent(missed)' <=> /\ quiet' + due' <= Patience(missed')
                             /\ waited' + due' + (IF pc' = "wait" THEN 0 ELSE 1)
                                  <= (cur' - 1) + Patience(missed')
      BY DEF Spent, Patience
    <3>3. /\ quiet' = 0 /\ due' = 0 /\ waited' = 0 /\ cur' = 1 /\ pc' = "wait"
          /\ Patience(missed') = 0
      BY <1>1, <1>2, <3>1
    <3>4. QED
      BY <3>2, <3>3
  <2>3. ackedAt' < ChunkEnd(chunks', cur')
    <3>1. chunks \in Backlogs /\ Len(chunks) \in Nat
      BY PromptTypes
    <3>2. ChunkEnd(chunks, 1) \in Nat
      BY <1>3, <3>1, ChunkGrows, 1 \in 1..Len(chunks) DEF Patient
    <3>3. QED
      BY <1>1, <1>2, <3>2
  <2>4. QED
    BY <1>1, <2>1, <2>2, <2>3 DEF Answering, OnTime
<1>4. QED
  BY <1>1, <1>2, <1>3 DEF Paced

LEMMA WakePaced ==
  ASSUME BoardInv, Patient, prompt, ~dataLost, Paced, Wake
  PROVE  Paced'
<1>1. /\ chunks' = chunks /\ cur' = cur /\ frame' = frame /\ air' = air
      /\ missed' = missed /\ ackReq' = ackReq /\ ackSeq' = ackSeq /\ total' = total
      /\ have' = total /\ waited' = waited /\ ackedAt' = ackedAt /\ seq' = seq
      /\ short' = short /\ pc = "wait" /\ air = <<>> /\ Waiting /\ due > 0
      /\ pc' = (IF total >= pending THEN "stop" ELSE "check")
  BY DEF Wake, Idle, shared, result
<1>2. due' = due - 1 /\ (quiet' = 0 \/ quiet' = quiet + 1)
  BY <1>1 DEF Wake, Elapse
<1>3. CASE total >= pending
  BY <1>1, <1>3 DEF Paced, Turning, pending
<1>4. CASE ~ (total >= pending)
  <2>1. cur <= Len(chunks) /\ pc' = "check"
    <3>1. cur > Len(chunks) => total >= pending
      BY <1>1 DEF BoardInv, Answerable, Counting
    <3>2. QED
      BY <1>1, <1>4, <3>1, PromptTypes
  <2>2. Answering
    BY <1>1, <2>1 DEF Paced, Turning
  <2>3. total = ChunkEnd(chunks, cur)
    BY <1>1, AllInHand DEF Counting, BoardInv
  <2>4. (Missed /\ Spent(missed)) \/ (Holding /\ Spent(missed + 1))
    <3>1. ~Coming
      BY <1>1 DEF Coming
    <3>2. ~Asking
      BY <1>1 DEF Asking
    <3>3. QED
      BY <2>2, <3>1, <3>2 DEF Answering, OnTime
  <2>5. ASSUME NEW m \in Nat, Spent(m)
        PROVE  /\ quiet' + due' <= Patience(m)
               /\ waited' + due' + (IF pc' = "wait" THEN 0 ELSE 1)
                    <= (cur' - 1) + Patience(m)
    <3>1. /\ quiet \in Nat /\ waited \in Nat /\ cur \in Nat /\ due \in Nat
          /\ Patience(m) \in Nat
      BY PromptTypes, PatienceIs
    <3>2. quiet + due <= Patience(m) /\ waited + due <= (cur - 1) + Patience(m)
      BY <1>1, <2>5, <3>1 DEF Spent
    <3>3. QED
      BY <1>1, <1>2, <2>1, <3>1, <3>2
  <2>6. missed \in Nat /\ missed + 1 \in Nat /\ due \in Nat /\ AskEvery \in Nat /\ AskEvery >= 2
    BY PromptTypes, Sized DEF Patient
  <2>7. CASE Missed /\ Spent(missed)
    <3>1. Spent(missed)'
      BY <1>1, <2>5, <2>6, <2>7 DEF Spent, Patience
    <3>2. Coming' \/ Missed'
      <4>1. due' = 0 \/ due' > 0
        BY <1>1, <1>2, <2>6
      <4>2. Waiting' /\ ~ackReq' /\ air' = <<>> /\ \A k \in 1..Len(air') : air'[k].ask = 0
        BY <1>1, <2>7 DEF Missed, Waiting, Sending
      <4>3. QED
        BY <2>1, <4>1, <4>2 DEF Coming, Missed
    <3>3. QED
      BY <1>1, <2>1, <2>2, <2>3, <3>1, <3>2 DEF Paced, Turning, Answering, OnTime
  <2>8. CASE Holding /\ Spent(missed + 1)
    <3>1. Spent(missed + 1)'
      BY <1>1, <2>5, <2>6, <2>8 DEF Spent, Patience
    <3>2. Holding'
      <4>1. due' = AskEvery - 1
        BY <1>1, <1>2, <2>8 DEF Holding
      <4>2. Waiting' /\ air' = <<>> /\ ackReq' /\ ackSeq' = cur'
        BY <1>1, <2>8 DEF Holding, Waiting, Sending
      <4>3. QED
        BY <2>1, <4>1, <4>2 DEF Holding
    <3>3. QED
      BY <1>1, <2>1, <2>2, <2>3, <3>1, <3>2 DEF Paced, Turning, Answering, OnTime
  <2>9. QED
    BY <2>4, <2>7, <2>8
<1>5. QED
  BY <1>3, <1>4

\* The time is not up before the last chunk is in hand.
LEMMA TimeIsUpPaced ==
  ASSUME BoardInv, Patient, missed <= MaxMissed, ~dataLost, Paced, TimeIsUp
  PROVE  Paced'
<1>1. pc = "wait" /\ waited = Timeout /\ pc' = "stop" /\ total' = total /\ chunks' = chunks
  BY DEF TimeIsUp, fountain, shared
<1>2. ~ (cur <= Len(chunks))
  <2>1. SUFFICES ASSUME cur <= Len(chunks) PROVE FALSE
    OBVIOUS
  <2>2. OnTime
    BY <1>1, <2>1 DEF Paced, Turning, Answering
  <2>3. /\ waited \in Nat /\ cur \in Nat /\ due \in Nat /\ missed \in Nat
        /\ Len(chunks) \in Nat /\ AskEvery \in Nat /\ Timeout \in Nat
        /\ MaxMissed \in Nat /\ chunks \in Backlogs
    BY PromptTypes, Sized
  <2>4. /\ Patience(missed) \in Nat /\ Patience(missed) <= Patience(MaxMissed)
        /\ Patience(missed + 1) = Patience(missed) + AskEvery
        /\ Patience(MaxMissed) \in Nat
    BY <2>3, PatienceIs
  <2>5. Len(chunks) + Patience(MaxMissed) <= Timeout
    BY <2>3 DEF Patient
  <2>6. waited <= (cur - 1) + Patience(missed)
    <3>1. CASE Spent(missed)
      <4>1. waited + due <= (cur - 1) + Patience(missed)
        BY <1>1, <2>3, <2>4, <3>1 DEF Spent
      <4>2. QED
        BY <2>3, <2>4, <4>1
    <3>2. CASE (Asking \/ Holding) /\ Spent(missed + 1)
      <4>1. due = AskEvery
        BY <1>1, <3>2 DEF Asking, Holding
      <4>2. waited + due <= (cur - 1) + Patience(missed + 1)
        BY <1>1, <2>3, <2>4, <3>2 DEF Spent
      <4>3. QED
        BY <2>3, <2>4, <4>1, <4>2
    <3>3. QED
      BY <2>2, <3>1, <3>2 DEF OnTime
  <2>7. QED
    BY <1>1, <2>1, <2>3, <2>4, <2>5, <2>6
<1>3. total >= pending
  <2>1. cur > Len(chunks)
    BY <1>2, PromptTypes
  <2>2. QED
    BY <1>1, <2>1 DEF BoardInv, Answerable, Counting
<1>4. QED
  BY <1>1, <1>3 DEF Paced, Turning, pending

\* The loop answers.
LEMMA CheckRequestPaced ==
  ASSUME BoardInv, ~dataLost, Paced, CheckRequest
  PROVE  Paced'
<1>1. /\ chunks' = chunks /\ cur' = cur /\ frame' = frame /\ due' = due /\ air' = air
      /\ missed' = missed /\ ackReq' = ackReq /\ ackSeq' = ackSeq /\ seq' = seq
      /\ have' = have /\ quiet' = quiet /\ waited' = waited /\ ackedAt' = ackedAt
      /\ pc = "check" /\ pc' = "take" /\ ackReq
  BY DEF CheckRequest, MayAnswer, fountain, shared, counts
<1>2. Answering /\ Holding /\ Spent(missed + 1)
  <2>1. Answering
    BY <1>1 DEF BoardInv, Answerable, Paced, Turning
  <2>2. ~Coming /\ ~Missed /\ ~Asking
    BY <1>1 DEF Coming, Missed, Asking
  <2>3. QED
    BY <2>1, <2>2 DEF Answering, OnTime
<1>3. Holding'
  BY <1>1, <1>2 DEF Holding, Waiting, Sending
<1>4. Spent(missed + 1)'
  BY <1>1, <1>2 DEF Spent
<1>5. QED
  BY <1>1, <1>2, <1>3, <1>4 DEF Paced, Turning, Answering, OnTime

LEMMA NoRequestPaced ==
  ASSUME BoardInv, Patient, missed <= MaxMissed, ~dataLost, Paced, NoRequest
  PROVE  Paced'
<1>1. /\ chunks' = chunks /\ cur' = cur /\ frame' = frame /\ due' = due /\ air' = air
      /\ missed' = missed /\ ackReq' = ackReq /\ ackSeq' = ackSeq /\ seq' = seq
      /\ have' = have /\ quiet' = quiet /\ ackedAt' = ackedAt
      /\ pc = "check" /\ ~MayAnswer
  BY DEF NoRequest, fountain, shared
<1>2. quiet < Quiet => pc' = "wait" /\ waited' = waited + 1
  <2>1. quiet \in Nat /\ Quiet \in Nat
    BY PromptTypes, Sized
  <2>2. quiet < Quiet => ~ (quiet >= Quiet)
    BY <2>1
  <2>3. QED
    BY <2>2 DEF NoRequest
<1>3. cur <= Len(chunks) /\ Answering
  BY <1>1 DEF BoardInv, Answerable, Paced, Turning
<1>4. ~Holding
  <2>1. SUFFICES ASSUME Holding PROVE FALSE
    OBVIOUS
  <2>2. ackReq /\ have = ChunkEnd(chunks, cur) /\ ackedAt < ChunkEnd(chunks, cur)
    BY <1>1, <1>3, <2>1 DEF Holding, Answering
  <2>3. ChunkEnd(chunks, cur) > 0
    <3>1. cur \in 1..Len(chunks) /\ chunks \in Backlogs
      BY <1>3, PromptTypes
    <3>2. QED
      BY <3>1, ChunkGrows DEF Patient
  <2>4. ackedAt \in Int /\ have \in Nat
    BY PromptTypes
  <2>5. have > 0 /\ have > ackedAt
    BY <2>2, <2>3, <2>4
  <2>6. QED
    BY <1>1, <2>2, <2>5 DEF MayAnswer
<1>5. ((Coming \/ Missed) /\ Spent(missed)) \/ (Asking /\ Spent(missed + 1))
  BY <1>3, <1>4 DEF Answering, OnTime
<1>6. /\ waited \in Nat /\ cur \in Nat /\ due \in Nat /\ missed \in Nat /\ quiet \in Nat
      /\ AskEvery \in Nat /\ MaxMissed \in Nat /\ Quiet \in Nat /\ missed + 1 \in Nat
  BY PromptTypes, Sized
<1>7. /\ Patience(missed) \in Nat /\ Patience(missed) <= Patience(MaxMissed)
      /\ Patience(missed + 1) = Patience(missed) + AskEvery
      /\ Patience(missed + 1) \in Nat /\ Patience(MaxMissed) \in Nat
  BY <1>6, PatienceIs
<1>8. quiet <= Patience(missed)
  <2>1. CASE Spent(missed)
    <3>1. quiet + due <= Patience(missed)
      BY <2>1 DEF Spent
    <3>2. QED
      BY <1>6, <1>7, <3>1
  <2>2. CASE Asking /\ Spent(missed + 1)
    <3>1. quiet + due <= Patience(missed + 1) /\ due = AskEvery
      BY <2>2 DEF Spent, Asking
    <3>2. QED
      BY <1>6, <1>7, <3>1
  <2>3. QED
    BY <1>5, <2>1, <2>2
<1>9. pc' = "wait" /\ waited' = waited + 1
  <2>1. Patience(MaxMissed) < Quiet
    BY DEF Patient
  <2>2. quiet < Quiet
    BY <1>6, <1>7, <1>8, <2>1
  <2>3. QED
    BY <1>2, <2>2
<1>10. ASSUME NEW m \in Nat, Spent(m)
       PROVE  /\ quiet' + due' <= Patience(m)
              /\ waited' + due' + (IF pc' = "wait" THEN 0 ELSE 1) <= (cur' - 1) + Patience(m)
  <2>1. /\ quiet + due <= Patience(m) /\ waited + due + 1 <= (cur - 1) + Patience(m)
        /\ Patience(m) \in Nat
    BY <1>1, <1>6, <1>10, PatienceIs DEF Spent
  <2>2. waited + 1 + due + 0 <= (cur - 1) + Patience(m)
    BY <1>6, <2>1
  <2>3. QED
    BY <1>1, <1>9, <2>1, <2>2
<1>11. CASE (Coming \/ Missed) /\ Spent(missed)
  <2>1. Spent(missed)'
    BY <1>1, <1>6, <1>10, <1>11 DEF Spent, Patience
  <2>2. Coming' \/ Missed'
    BY <1>1, <1>9, <1>11 DEF Coming, Missed, Waiting, Sending
  <2>3. QED
    BY <1>1, <1>3, <1>9, <2>1, <2>2 DEF Paced, Turning, Answering, OnTime
<1>12. CASE Asking /\ Spent(missed + 1)
  <2>1. Spent(missed + 1)'
    BY <1>1, <1>6, <1>10, <1>12 DEF Spent, Patience
  <2>2. Asking'
    BY <1>1, <1>9, <1>12 DEF Asking, Waiting, Sending
  <2>3. QED
    BY <1>1, <1>3, <1>9, <2>1, <2>2 DEF Paced, Turning, Answering, OnTime
<1>13. QED
  BY <1>5, <1>11, <1>12

\* Between its look and its reply the loop holds the request.
LEMMA HeldThere ==
  ASSUME BoardInv, ~dataLost, Paced, pc \in {"take", "clear", "send"}
  PROVE  /\ cur <= Len(chunks) /\ Answering /\ Holding /\ Spent(missed + 1)
<1>1. cur <= Len(chunks)
  BY DEF BoardInv, Answerable
<1>2. Answering
  BY <1>1 DEF Paced, Turning
<1>3. ~Coming /\ ~Missed /\ ~Asking
  BY DEF Coming, Missed, Asking
<1>4. QED
  BY <1>1, <1>2, <1>3 DEF Answering, OnTime

LEMMA TakePaced ==
  ASSUME BoardInv, ~dataLost, Paced, TakeSeq \/ ClearRequest
  PROVE  Paced'
<1>1. /\ chunks' = chunks /\ cur' = cur /\ frame' = frame /\ due' = due /\ air' = air
      /\ missed' = missed /\ ackSeq' = ackSeq
      /\ have' = have /\ quiet' = quiet /\ waited' = waited /\ ackedAt' = ackedAt
      /\ \/ pc = "take" /\ pc' = "clear" /\ ackReq' = ackReq /\ seq' = ackSeq
         \/ pc = "clear" /\ pc' = "send" /\ ~ackReq' /\ seq' = seq
  BY DEF TakeSeq, ClearRequest, fountain, shared, counts
<1>2. cur <= Len(chunks) /\ Answering /\ Holding /\ Spent(missed + 1)
  BY <1>1, HeldThere
<1>3. Holding'
  BY <1>1, <1>2 DEF Holding, Waiting, Sending
<1>4. Spent(missed + 1)'
  BY <1>1, <1>2 DEF Spent
<1>5. QED
  BY <1>1, <1>2, <1>3, <1>4 DEF Paced, Turning, Answering, OnTime

LEMMA AckSentPaced ==
  ASSUME BoardInv, Patient, ~dataLost, Paced, AckSent
  PROVE  Paced'
<1>1. /\ chunks' = chunks /\ air' = air /\ missed' = missed /\ ackReq' = ackReq
      /\ quiet' = 0 /\ waited' = waited + 1 /\ ackedAt' = have
      /\ pc = "send" /\ pc' = "wait" /\ TakeReply(seq)
  BY DEF AckSent, NextTurn, shared
<1>2. cur <= Len(chunks) /\ Answering /\ Holding /\ Spent(missed + 1)
  BY <1>1, HeldThere
<1>3. /\ Waiting /\ air = <<>> /\ ~ackReq /\ seq = cur /\ have = ChunkEnd(chunks, cur)
      /\ due \in {AskEvery - 1, AskEvery}
  BY <1>1, <1>2 DEF Holding, Answering
<1>4. cur' = cur + 1 /\ due' = 0
  BY <1>1, <1>2, <1>3 DEF TakeReply
<1>5. /\ waited \in Nat /\ cur \in Nat \ {0} /\ due \in Nat /\ missed \in Nat
      /\ AskEvery \in Nat /\ chunks \in Backlogs /\ Len(chunks) \in Nat
  BY PromptTypes, Sized
<1>6. /\ Patience(missed) \in Nat
      /\ Patience(missed + 1) = Patience(missed) + AskEvery
  BY <1>5, PatienceIs
<1>7. ASSUME cur + 1 <= Len(chunks) PROVE Answering'
  <2>1. ackedAt' < ChunkEnd(chunks', cur')
    <3>1. cur \in 1..Len(chunks)
      BY <1>2, <1>5
    <3>2. ChunkEnd(chunks, cur) < ChunkEnd(chunks, cur + 1)
      BY <1>5, <1>7, <3>1, ChunkGrows DEF Patient
    <3>3. QED
      BY <1>1, <1>3, <1>4, <3>2
  <2>2. Coming'
    <3>1. \A k \in 1..Len(air') : air'[k].ask = 0
      BY <1>1, <1>3
    <3>2. QED
      BY <1>1, <1>3, <1>4, <3>1 DEF Coming
  <2>3. Spent(missed)'
    <3>1. waited + 1 <= cur + Patience(missed)
      <4>1. waited + due + 1 <= (cur - 1) + Patience(missed + 1)
        BY <1>1, <1>2 DEF Spent
      <4>2. QED
        BY <1>3, <1>5, <1>6, <4>1
    <3>2. waited + 1 + 0 + 0 <= ((cur + 1) - 1) + Patience(missed) /\ 0 + 0 <= Patience(missed)
      BY <1>5, <1>6, <3>1
    <3>3. Spent(missed)' <=> /\ quiet' + due' <= Patience(missed')
                             /\ waited' + due' + (IF pc' = "wait" THEN 0 ELSE 1)
                                  <= (cur' - 1) + Patience(missed')
      BY DEF Spent, Patience
    <3>4. QED
      BY <1>1, <1>4, <3>2, <3>3
  <2>4. QED
    BY <1>1, <2>1, <2>2, <2>3 DEF Answering, OnTime
<1>8. QED
  BY <1>1, <1>4, <1>7 DEF Paced

LEMMA AckFailedPaced ==
  ASSUME BoardInv, Patient, ~dataLost, Paced, AckFailed
  PROVE  Paced'
<1>1. /\ chunks' = chunks /\ cur' = cur /\ frame' = frame /\ due' = due /\ air' = air
      /\ missed' = missed + 1 /\ ackReq' = ackReq /\ quiet' = quiet
      /\ waited' = waited + 1 /\ ackedAt' = ackedAt /\ pc = "send" /\ pc' = "wait"
  BY DEF AckFailed, Miss, NextTurn, fountain, shared
<1>2. cur <= Len(chunks) /\ Answering /\ Holding /\ Spent(missed + 1)
  BY <1>1, HeldThere
<1>3. Waiting /\ air = <<>> /\ ~ackReq /\ due \in {AskEvery - 1, AskEvery}
  BY <1>1, <1>2 DEF Holding
<1>4. /\ waited \in Nat /\ cur \in Nat /\ due \in Nat /\ missed \in Nat /\ quiet \in Nat
      /\ AskEvery \in Nat /\ AskEvery >= 2 /\ missed + 1 \in Nat
  BY PromptTypes, Sized DEF Patient
<1>5. Missed'
  <2>1. due > 0
    BY <1>3, <1>4
  <2>2. QED
    BY <1>1, <1>3, <2>1 DEF Missed, Waiting, Sending
<1>6. Spent(missed)'
  <2>1. Patience(missed + 1) \in Nat
    BY <1>4, PatienceIs
  <2>2. /\ quiet + due <= Patience(missed + 1)
        /\ waited + due + 1 <= (cur - 1) + Patience(missed + 1)
    BY <1>1, <1>2 DEF Spent
  <2>3. waited + 1 + due + 0 <= (cur - 1) + Patience(missed + 1)
    BY <1>4, <2>1, <2>2
  <2>4. Spent(missed)' <=> /\ quiet' + due' <= Patience(missed')
                           /\ waited' + due' + (IF pc' = "wait" THEN 0 ELSE 1)
                                <= (cur' - 1) + Patience(missed')
    BY DEF Spent, Patience
  <2>5. QED
    BY <1>1, <2>2, <2>3, <2>4
<1>7. QED
  BY <1>1, <1>2, <1>5, <1>6 DEF Paced, Turning, Answering, OnTime

\* What is in hand when collection stops is whole.
LEMMA FinishPaced ==
  ASSUME BoardInv, Paced, StopCollecting \/ Finish
  PROVE  Paced'
<1>1. CASE StopCollecting
  <2>1. /\ chunks' = chunks /\ total' = total /\ pc = "stop" /\ pc' = "finish"
    BY <1>1 DEF StopCollecting, fountain, shared
  <2>2. QED
    BY <2>1 DEF Paced, Turning, pending
<1>2. CASE Finish
  <2>1. /\ pc = "finish" /\ pc' = "done" /\ total >= pending
        /\ short' = (total < pending \/ total % RecLen # 0)
    BY <1>2 DEF Finish, Paced
  <2>2. total \in Nat /\ pending \in Nat /\ total <= pending
    BY PromptTypes
  <2>3. total = pending /\ ~ (total < pending)
    BY <2>1, <2>2
  <2>4. total % RecLen = 0
    <3>1. chunks \in Backlogs
      BY PromptTypes
    <3>2. Whole(chunks) % RecLen = 0
      BY <3>1, Lay
    <3>3. QED
      BY <2>3, <3>2 DEF pending, Whole
  <2>5. QED
    BY <2>1, <2>3, <2>4 DEF Paced, Turning
<1>3. QED
  BY <1>1, <1>2

LEMMA PromptInitially == Init => PromptInv
<1>1. SUFFICES ASSUME Init PROVE PromptInv
  OBVIOUS
<1>2. MaxMissed \in Nat
  BY Sized
<1>3. /\ missed = 0 /\ due = 0 /\ quiet = 0 /\ waited = 0 /\ ackedAt = -1 /\ pc = "start"
  BY <1>1 DEF Init
<1>4. missed <= MaxMissed
  BY <1>2, <1>3
<1>5. Paced
  BY <1>3 DEF Paced, Turning
<1>6. QED
  BY <1>4, <1>5 DEF PromptInv

LEMMA PromptNext ==
  ASSUME Patient, BoardInv, PromptInv, [Next]_vars
  PROVE  PromptInv'
<1>1. CASE UNCHANGED vars
  BY <1>1 DEF PromptInv, Paced, Turning, Answering, OnTime, Coming, Asking, Holding,
     Missed, Spent, Patience, Waiting, Sending, pending, vars, fountain, shared, counts,
     result
<1>2. CASE Next
  <2>1. missed' <= MaxMissed
    <3>1. missed' = missed \/ (missed < MaxMissed /\ missed' = missed + 1)
      BY <1>2 DEF Next, Loop, SendFrame, Ask, LoseNotification, NotifyRx, Start, Wake,
         TimeIsUp, CheckRequest, NoRequest, TakeSeq, ClearRequest, AckSent, AckFailed,
         StopCollecting, Finish, Miss
    <3>2. missed \in Nat /\ MaxMissed \in Nat /\ missed <= MaxMissed
      BY PromptTypes, Sized DEF PromptInv
    <3>3. QED
      BY <3>1, <3>2
  <2>2. prompt' = prompt
    BY <1>2 DEF Next, Loop, SendFrame, Ask, LoseNotification, NotifyRx, Start, Wake,
       TimeIsUp, CheckRequest, NoRequest, TakeSeq, ClearRequest, AckSent, AckFailed,
       StopCollecting, Finish, fountain
  <2>3. ~dataLost' => ~dataLost
    BY <1>2 DEF Next, Loop, SendFrame, Ask, LoseNotification, NotifyRx, Start, Wake,
       TimeIsUp, CheckRequest, NoRequest, TakeSeq, ClearRequest, AckSent, AckFailed,
       StopCollecting, Finish
  <2>4. SUFFICES ASSUME prompt', ~dataLost' PROVE Paced'
    BY <2>1 DEF PromptInv
  <2>5. prompt /\ ~dataLost /\ Paced /\ missed <= MaxMissed
    BY <2>2, <2>3, <2>4 DEF PromptInv
  <2>6. CASE SendFrame \/ Ask \/ LoseNotification \/ NotifyRx
    BY <2>4, <2>5, <2>6, SendFramePaced, AskPaced, LosePaced, NotifyRxPaced
  <2>7. CASE Start \/ Wake \/ TimeIsUp \/ CheckRequest \/ NoRequest
    BY <2>5, <2>7, StartPaced, WakePaced, TimeIsUpPaced, CheckRequestPaced,
       NoRequestPaced
  <2>8. CASE TakeSeq \/ ClearRequest \/ AckSent \/ AckFailed \/ StopCollecting \/ Finish
    BY <2>5, <2>8, TakePaced, AckSentPaced, AckFailedPaced, FinishPaced
  <2>9. QED
    BY <1>2, <2>6, <2>7, <2>8 DEF Next, Loop
<1>3. QED
  BY <1>1, <1>2

\* "7 s is two misses": although MaxMissed requests or replies come to nothing,
\* the board reads a prompt fountain's backlog to the end, for every backlog it
\* has the time for.
THEOREM PromptReadIsWhole ==
  ASSUME Patient
  PROVE  Spec => []PromptReadCompletes
<1>1. Init => BoardInv /\ PromptInv
  BY BoardInitially, PromptInitially
<1>2. BoardInv /\ PromptInv /\ [Next]_vars => BoardInv' /\ PromptInv'
  BY BoardNext, PromptNext
<1>3. PromptInv => PromptReadCompletes
  BY DEF PromptInv, Paced, PromptReadCompletes
<1>4. QED
  BY <1>1, <1>2, <1>3, PTL DEF Spec

-----------------------------------------------------------------------------
(* The PC, too, reads a prompt fountain to the end *)

PcComing == due = 0 /\ \A k \in 1..Len(air) : air[k].ask = 0

PcAsking ==
  /\ due = AskEvery /\ Waiting
  /\ Len(air) > 0 /\ air[Len(air)].ask = cur
  /\ \A k \in 1..(Len(air) - 1) : air[k].ask = 0

PcHolding == Waiting /\ air = <<>> /\ due = AskEvery /\ ackReq /\ ackSeq = cur

\* The chunks before the last one take a turn each.
PcWaits ==
  /\ cur > Len(chunks) => cur = 1 /\ pending = 0
  /\ cur <= Len(chunks) =>
       /\ ackedAt \in Int /\ ackedAt < ChunkEnd(chunks, cur)
       /\ PcComing \/ PcAsking \/ PcHolding

PcSends ==
  /\ cur < Len(chunks) /\ Waiting /\ air = <<>> /\ due \in Nat /\ due > 0
  /\ seq = cur /\ have = ChunkEnd(chunks, cur)

PcPaced ==
  /\ pc = "start" => due = 0 /\ waited = 0 /\ ackedAt = -1
  /\ pc \in {"wait", "send"} => waited \in Nat /\ waited <= cur - 1
  /\ pc = "wait" => PcWaits
  /\ pc = "send" => PcSends
  /\ pc = "stop" => have >= pending
  /\ pc = "done" => ~short

PcPromptInv ==
  /\ missed \in Nat /\ (dataLost => missed > 0)
  /\ prompt /\ missed = 0 => PcPaced

\* A chunk holds something, and there is time for one turn a chunk.
PcPatient ==
  Filled /\ AskEvery >= 2 /\ \A b \in Backlogs : Len(b) <= Timeout

LEMMA PcTypes ==
  ASSUME PcInv
  PROVE  /\ chunks \in Backlogs /\ Len(chunks) \in Nat /\ cur \in Nat \ {0}
         /\ total \in Nat /\ pending \in Nat /\ total <= pending /\ have \in Nat
         /\ air \in Seq(Notes)
<1>1. chunks \in Backlogs /\ cur \in 1..(Len(chunks) + 1)
  BY DEF PcInv, Stream, Place
<1>2. Len(chunks) \in Nat
  BY <1>1, Lay
<1>3. total \in Nat /\ total <= pending /\ pending \in Nat
  BY TotalBound, HereBound DEF PcInv, Stream, Counted
<1>4. have \in Nat /\ air \in Seq(Notes)
  BY DEF PcInv, Kept, Stream, InOrder
<1>5. QED
  BY <1>1, <1>2, <1>3, <1>4

LEMMA PcFountainPaced ==
  ASSUME PcInv, PcPatient, PcPaced, SendFrame \/ Ask
  PROVE  PcPaced'
<1>1. /\ chunks' = chunks /\ cur' = cur /\ ackReq' = ackReq /\ ackSeq' = ackSeq
      /\ total' = total /\ pc' = pc /\ have' = have /\ waited' = waited /\ seq' = seq
      /\ ackedAt' = ackedAt /\ short' = short /\ pc \notin {"start", "done"}
  BY DEF SendFrame, Ask, Streaming, shared, counts, result
<1>2. ASSUME pc = "send" PROVE PcSends'
  <2>1. PcSends
    BY <1>2 DEF PcPaced
  <2>2. FALSE
    BY <2>1 DEF PcSends, SendFrame, Ask, Waiting
  <2>3. QED
    BY <2>2
<1>3. ASSUME pc = "wait" PROVE PcWaits'
  <2>1. PcWaits
    BY <1>3 DEF PcPaced
  <2>2. ASSUME cur <= Len(chunks)
        PROVE  (PcComing \/ PcAsking \/ PcHolding)'
    <3>1. AskEvery \in Nat /\ AskEvery > 0 /\ air \in Seq(Notes)
      BY Sized, PcTypes
    <3>2. CASE SendFrame
      <4>1. /\ Sending /\ due' = due
            /\ \E d : air' = Append(air, [data |-> d, ask |-> 0])
        BY <3>2 DEF SendFrame
      <4>2. PcComing
        BY <2>1, <2>2, <4>1 DEF PcWaits, PcAsking, PcHolding, Waiting
      <4>3. PICK n : air' = Append(air, n) /\ n.ask = 0
        BY <4>1
      <4>4. \A k \in 1..Len(air') : air'[k].ask = 0
        BY <3>1, <4>2, <4>3 DEF PcComing
      <4>5. QED
        BY <4>1, <4>2, <4>4 DEF PcComing
    <3>3. CASE Ask
      <4>1. /\ Waiting /\ due = 0 /\ due' = AskEvery /\ frame' = frame
            /\ air' = Append(air, [data |-> <<>>, ask |-> cur])
        BY <3>3 DEF Ask
      <4>2. PcComing
        BY <2>1, <2>2, <3>1, <4>1 DEF PcWaits, PcAsking, PcHolding
      <4>3. PICK n : air' = Append(air, n) /\ n.ask = cur
        BY <4>1
      <4>4. /\ Len(air') > 0 /\ air'[Len(air')].ask = cur
            /\ \A k \in 1..(Len(air') - 1) : air'[k].ask = 0
        BY <3>1, <4>2, <4>3 DEF PcComing
      <4>5. PcAsking'
        BY <1>1, <4>1, <4>4 DEF PcAsking, Waiting, Sending
      <4>6. QED
        BY <4>5
    <3>4. QED
      BY <3>2, <3>3
  <2>3. QED
    BY <1>1, <2>1, <2>2 DEF PcWaits, pending
<1>4. QED
  BY <1>1, <1>2, <1>3 DEF PcPaced, pending

LEMMA OnNotifyPaced ==
  ASSUME PcInv, PcPaced, OnNotify
  PROVE  PcPaced'
<1>1. /\ chunks' = chunks /\ cur' = cur /\ frame' = frame /\ due' = due
      /\ pc' = pc /\ have' = have /\ waited' = waited /\ seq' = seq
      /\ ackedAt' = ackedAt /\ short' = short /\ pc \in {"wait", "send"}
      /\ air # <<>> /\ air' = Tail(air)
  BY DEF OnNotify, fountain, counts, result
<1>2. /\ Head(air).ask > 0 => ackReq' = TRUE /\ ackSeq' = Head(air).ask
      /\ ~ (Head(air).ask > 0) => ackReq' = ackReq /\ ackSeq' = ackSeq
  BY DEF OnNotify, TakeAsk, Append68
<1>3. /\ air \in Seq(Notes) /\ cur \in Nat /\ cur > 0 /\ Len(air) \in Nat
      /\ Len(air) > 0 /\ Head(air) = air[1]
  <2>1. air \in Seq(Notes) /\ cur \in Nat /\ cur > 0
    BY PcTypes
  <2>2. QED
    BY <1>1, <2>1
<1>4. pc = "wait"
  BY <1>1 DEF PcPaced, PcSends
<1>5. PcWaits
  BY <1>4 DEF PcPaced
<1>6. ASSUME cur <= Len(chunks) PROVE (PcComing \/ PcAsking \/ PcHolding)'
  <2>1. PcComing \/ PcAsking
    BY <1>1, <1>5, <1>6 DEF PcWaits, PcHolding
  <2>2. CASE PcComing
    <3>1. \A k \in 1..Len(air') : air'[k].ask = 0
      BY <1>1, <1>3, <2>2 DEF PcComing
    <3>2. QED
      BY <1>1, <2>2, <3>1 DEF PcComing
  <2>3. CASE PcAsking
    <3>1. Len(air) = 1 \/ Len(air) > 1
      BY <1>3, OneOrMore
    <3>2. CASE Len(air) = 1
      <4>1. air' = <<>> /\ Head(air).ask = cur
        BY <1>1, <1>3, <2>3, <3>2 DEF PcAsking
      <4>2. ackReq' /\ ackSeq' = cur'
        BY <1>1, <1>2, <1>3, <4>1
      <4>3. PcHolding'
        BY <1>1, <2>3, <4>1, <4>2 DEF PcAsking, PcHolding, Waiting, Sending
      <4>4. QED
        BY <4>3
    <3>3. CASE Len(air) > 1
      <4>1. /\ Len(air') > 0 /\ air'[Len(air')].ask = cur
            /\ \A k \in 1..(Len(air') - 1) : air'[k].ask = 0
        BY <1>1, <1>3, <2>3, <3>3 DEF PcAsking
      <4>2. PcAsking'
        BY <1>1, <2>3, <4>1 DEF PcAsking, Waiting, Sending
      <4>3. QED
        BY <4>2
    <3>4. QED
      BY <3>1, <3>2, <3>3
  <2>4. QED
    BY <2>1, <2>2, <2>3
<1>7. PcWaits'
  BY <1>1, <1>5, <1>6 DEF PcWaits, pending
<1>8. QED
  BY <1>1, <1>4, <1>7 DEF PcPaced

LEMMA PcStartPaced ==
  ASSUME PcInv, PcPatient, PcPaced, Start
  PROVE  PcPaced'
<1>1. /\ chunks' = chunks /\ cur' = cur /\ due' = due /\ air' = air
      /\ pc = "start" /\ pc' = "wait" /\ waited' = waited /\ ackedAt' = ackedAt
  BY DEF Start, fountain, counts
<1>2. due = 0 /\ waited = 0 /\ ackedAt = -1 /\ air = <<>> /\ cur = 1
  BY <1>1 DEF PcPaced, PcInv, Fresh
<1>3. chunks \in Backlogs /\ Len(chunks) \in Nat
  BY PcTypes
<1>4. ASSUME 1 > Len(chunks) PROVE pending = 0
  <2>1. chunks \in Layout /\ Len(chunks) = 0
    BY <1>3, <1>4, Lay
  <2>2. QED
    BY <2>1, BytesUpToStep DEF pending
<1>5. ASSUME 1 <= Len(chunks)
      PROVE  -1 \in Int /\ -1 < ChunkEnd(chunks, 1)
  <2>1. 1 \in 1..Len(chunks)
    BY <1>3, <1>5
  <2>2. ChunkEnd(chunks, 1) \in Nat
    BY <1>3, <2>1, ChunkGrows DEF PcPatient
  <2>3. QED
    BY <2>2
<1>6. PcComing'
  BY <1>1, <1>2 DEF PcComing
<1>7. pending' = pending
  BY <1>1 DEF pending
<1>8. PcWaits'
  BY <1>1, <1>2, <1>4, <1>5, <1>6, <1>7 DEF PcWaits
<1>9. waited' \in Nat /\ waited' <= cur' - 1
  BY <1>1, <1>2
<1>10. QED
  BY <1>1, <1>8, <1>9 DEF PcPaced

\* At each look the loop finds the request for all that is in hand.
LEMMA TurnPaced ==
  ASSUME PcInv, PcPatient, prompt, ~dataLost, PcPaced, Turn
  PROVE  PcPaced'
<1>1. /\ chunks' = chunks /\ cur' = cur /\ frame' = frame /\ air' = air
      /\ ackReq' = ackReq /\ ackSeq' = ackSeq /\ ackedAt' = ackedAt
      /\ have' = total /\ short' = short /\ pc = "wait" /\ air = <<>> /\ Waiting
      /\ due > 0
  BY DEF Turn, Idle, shared, result
<1>2. due' = due - 1
  BY <1>1 DEF Turn, Elapse
<1>3. PcWaits /\ waited \in Nat /\ waited <= cur - 1
  BY <1>1 DEF PcPaced
<1>4. /\ total \in Nat /\ pending \in Nat /\ cur \in Nat /\ Len(chunks) \in Nat
      /\ chunks \in Backlogs /\ cur > 0
  BY PcTypes
<1>5. pending' = pending
  BY <1>1 DEF pending
<1>6. CASE total >= pending
  <2>1. pc' = "stop"
    <3>1. ~ (total < pending)
      BY <1>4, <1>6
    <3>2. QED
      BY <1>1, <3>1 DEF Turn
  <2>2. QED
    BY <1>1, <1>5, <1>6, <2>1 DEF PcPaced
<1>7. CASE total < pending
  <2>1. cur <= Len(chunks)
    BY <1>3, <1>4, <1>7 DEF PcWaits
  <2>2. total = ChunkEnd(chunks, cur)
    BY <1>1, AllInHand DEF PcInv, Counting
  <2>3. PcHolding
    <3>1. ~PcComing
      BY <1>1 DEF PcComing
    <3>2. ~PcAsking
      BY <1>1 DEF PcAsking
    <3>3. QED
      BY <1>3, <2>1, <3>1, <3>2 DEF PcWaits
  <2>4. cur \in 1..Len(chunks)
    BY <1>4, <2>1
  <2>5. MayReply
    <3>1. ChunkEnd(chunks, cur) > 0
      BY <1>4, <2>4, ChunkGrows DEF PcPatient
    <3>2. ackedAt \in Int /\ ackedAt < ChunkEnd(chunks, cur)
      BY <1>3, <2>1 DEF PcWaits
    <3>3. total > 0 /\ total > ackedAt
      BY <1>4, <2>2, <3>1, <3>2
    <3>4. QED
      BY <1>1, <2>3, <3>3 DEF MayReply, PcHolding
  <2>6. pc' = "send" /\ seq' = ackSeq /\ waited' = waited
    <3>1. ~ (total >= pending)
      BY <1>4, <1>7
    <3>2. QED
      BY <1>1, <2>5, <3>1 DEF Turn
  <2>7. cur < Len(chunks)
    <3>1. SUFFICES ASSUME ~ (cur < Len(chunks)) PROVE FALSE
      OBVIOUS
    <3>2. cur = Len(chunks) /\ ~ (cur > Len(chunks))
      BY <1>4, <2>1, <3>1
    <3>3. ChunkEnd(chunks, cur) = pending
      BY <3>2 DEF ChunkEnd, Whole, pending
    <3>4. QED
      BY <1>4, <1>7, <2>2, <3>3
  <2>8. due' \in Nat /\ due' > 0
    <3>1. due = AskEvery /\ AskEvery \in Nat /\ AskEvery >= 2
      BY <2>3, Sized DEF PcHolding, PcPatient
    <3>2. QED
      BY <1>2, <3>1
  <2>9. PcSends'
    BY <1>1, <2>2, <2>3, <2>6, <2>7, <2>8 DEF PcSends, PcHolding, Waiting, Sending
  <2>10. waited' \in Nat /\ waited' <= cur' - 1
    BY <1>1, <1>3, <2>6
  <2>11. QED
    BY <2>6, <2>9, <2>10 DEF PcPaced
<1>8. QED
  BY <1>4, <1>6, <1>7

LEMMA NoTimeIsUp ==
  ASSUME PcInv, PcPatient, PcPaced, TimeIsUp
  PROVE  FALSE
<1>1. pc = "wait" /\ waited = Timeout
  BY DEF TimeIsUp
<1>2. PcWaits /\ waited \in Nat /\ waited <= cur - 1
  BY <1>1 DEF PcPaced
<1>3. /\ cur \in Nat /\ Len(chunks) \in Nat /\ chunks \in Backlogs
      /\ Timeout \in Nat /\ Timeout > 0
  BY PcTypes, Sized
<1>4. Len(chunks) <= Timeout
  BY <1>3 DEF PcPatient
<1>5. cur = 1 \/ cur <= Len(chunks)
  BY <1>2, <1>3 DEF PcWaits
<1>6. QED
  BY <1>1, <1>2, <1>3, <1>4, <1>5

LEMMA RepliedPaced ==
  ASSUME PcInv, PcPatient, PcPaced, AckSent
  PROVE  PcPaced'
<1>1. /\ chunks' = chunks /\ air' = air /\ waited' = waited + 1 /\ ackedAt' = have
      /\ pc = "send" /\ pc' = "wait" /\ TakeReply(seq)
  BY DEF AckSent, NextTurn
<1>2. PcSends /\ waited \in Nat /\ waited <= cur - 1
  BY <1>1 DEF PcPaced
<1>3. cur \in Nat \ {0} /\ Len(chunks) \in Nat /\ chunks \in Backlogs /\ have \in Nat
  BY PcTypes
<1>4. cur <= Len(chunks) /\ cur + 1 <= Len(chunks) /\ cur \in 1..Len(chunks)
  BY <1>2, <1>3 DEF PcSends
<1>5. cur' = cur + 1 /\ due' = 0
  BY <1>1, <1>2, <1>4 DEF TakeReply, PcSends
<1>6. ChunkEnd(chunks, cur) < ChunkEnd(chunks, cur + 1)
  BY <1>3, <1>4, ChunkGrows DEF PcPatient
<1>7. ackedAt' \in Int /\ ackedAt' < ChunkEnd(chunks', cur')
  BY <1>1, <1>2, <1>3, <1>5, <1>6 DEF PcSends
<1>8. PcComing'
  BY <1>1, <1>2, <1>5 DEF PcComing, PcSends
<1>9. ~ (cur' > Len(chunks'))
  BY <1>1, <1>3, <1>4, <1>5
<1>10. PcWaits'
  BY <1>7, <1>8, <1>9 DEF PcWaits
<1>11. waited' \in Nat /\ waited' <= cur' - 1
  BY <1>1, <1>2, <1>3, <1>5
<1>12. QED
  BY <1>1, <1>10, <1>11 DEF PcPaced

LEMMA DecodePaced ==
  ASSUME PcInv, PcPaced, Decode
  PROVE  PcPaced'
<1>1. pc = "stop" /\ pc' = "done" /\ short' = (have < pending)
  BY DEF Decode
<1>2. have \in Nat /\ pending \in Nat /\ have >= pending
  BY <1>1, PcTypes DEF PcPaced
<1>3. ~ (have < pending)
  BY <1>2
<1>4. QED
  BY <1>1, <1>3 DEF PcPaced

LEMMA PcPromptNext ==
  ASSUME PcPatient, PcInv, PcPromptInv, [PcNext]_vars
  PROVE  PcPromptInv'
<1>1. CASE UNCHANGED vars
  BY <1>1 DEF PcPromptInv, PcPaced, PcWaits, PcSends, PcComing, PcAsking, PcHolding,
     Waiting, Sending, pending, vars, fountain, shared, counts, result
<1>2. CASE LoseNotification \/ ReplyRaises
  <2>1. missed' = missed + 1 /\ missed \in Nat
    BY <1>2 DEF LoseNotification, ReplyRaises, Miss, PcPromptInv
  <2>2. missed' \in Nat /\ missed' > 0 /\ missed' # 0
    BY <2>1
  <2>3. QED
    BY <2>2 DEF PcPromptInv
<1>3. CASE \/ SendFrame \/ Ask \/ OnNotify \/ AckSent
           \/ Start \/ Turn \/ TimeIsUp \/ Decode
  <2>1. missed' = missed /\ dataLost' = dataLost /\ prompt' = prompt
    BY <1>3 DEF SendFrame, Ask, OnNotify, AckSent, Start, Turn, TimeIsUp, Decode, fountain
  <2>2. ASSUME prompt, missed = 0 PROVE PcPaced'
    <3>1. PcPaced /\ ~dataLost
      BY <2>2 DEF PcPromptInv
    <3>2. CASE SendFrame \/ Ask \/ OnNotify \/ AckSent
      BY <3>1, <3>2, PcFountainPaced, OnNotifyPaced, RepliedPaced
    <3>3. CASE Start \/ Turn \/ TimeIsUp \/ Decode
      BY <2>2, <3>1, <3>3, PcStartPaced, TurnPaced, NoTimeIsUp, DecodePaced
    <3>4. QED
      BY <1>3, <3>2, <3>3
  <2>3. QED
    BY <2>1, <2>2 DEF PcPromptInv
<1>4. QED
  BY <1>1, <1>2, <1>3 DEF PcNext, Replied

\* The PC reads a prompt fountain's backlog to the end when nothing goes missing,
\* for every backlog it has a turn a chunk for.
THEOREM PcPromptReadIsWhole ==
  ASSUME PcPatient
  PROVE  PcSpec => []PcPromptReadCompletes
<1>1. Init => PcPromptInv
  BY DEF Init, PcPromptInv, PcPaced
<1>2. PcInv /\ PcPromptInv /\ [PcNext]_vars => PcPromptInv'
  BY PcPromptNext
<1>3. PcPromptInv => PcPromptReadCompletes
  BY DEF PcPromptInv, PcPaced, PcPromptReadCompletes
<1>4. QED
  BY <1>1, <1>2, <1>3, PcInvariance, PTL DEF PcSpec
===============================================================================
