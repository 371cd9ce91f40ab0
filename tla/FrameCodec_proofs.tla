-------------------------- MODULE FrameCodec_proofs --------------------------
(***************************************************************************)
(* What FrameCodec says of frames, for every payload, every byte in their  *)
(* headers and every place a notification may cut them off at.             *)
(***************************************************************************)
EXTENDS FrameCodec, SequenceTheorems, TLAPS

(* Sequences made of parts *)

LEMMA Cat ==
  ASSUME NEW S, NEW s \in Seq(S), NEW t \in Seq(S),
         NEW m \in Nat, NEW n \in Nat, Len(s) = m, Len(t) = n
  PROVE  /\ s \o t \in Seq(S) /\ Len(s \o t) = m + n
         /\ \A i \in 1..m : (s \o t)[i] = s[i]
         /\ \A i \in 1..n : (s \o t)[m + i] = t[i]
<1> DEFINE st == s \o t
<1>1. /\ st \in Seq(S) /\ Len(st) = Len(s) + Len(t)
      /\ \A i \in 1..(Len(s) + Len(t)) :
           st[i] = IF i <= Len(s) THEN s[i] ELSE t[i - Len(s)]
  BY ConcatProperties
<1> HIDE DEF st
<1>2. ASSUME NEW i \in 1..m PROVE st[i] = s[i]
  BY <1>1, i \in 1..(m + n)
<1>3. ASSUME NEW i \in 1..n PROVE st[m + i] = t[i]
  <2>1. /\ m + i \in 1..(Len(s) + Len(t))
        /\ ~(m + i <= Len(s)) /\ m + i - Len(s) = i
    OBVIOUS
  <2>2. QED
    BY <1>1, <2>1
<1>4. QED
  BY <1>1, <1>2, <1>3 DEF st

LEMMA CatOne ==
  ASSUME NEW S, NEW s \in Seq(S), NEW x \in S, NEW m \in Nat, Len(s) = m
  PROVE  /\ s \o <<x>> \in Seq(S) /\ Len(s \o <<x>>) = m + 1
         /\ \A i \in 1..m : (s \o <<x>>)[i] = s[i]
         /\ (s \o <<x>>)[m + 1] = x
<1> DEFINE t == <<x>>
           st == s \o t
<1>1. t \in Seq(S) /\ Len(t) = 1 /\ t[1] = x
  OBVIOUS
<1> HIDE DEF t
<1>2. /\ st \in Seq(S) /\ Len(st) = Len(s) + Len(t)
      /\ \A i \in 1..(Len(s) + Len(t)) :
           st[i] = IF i <= Len(s) THEN s[i] ELSE t[i - Len(s)]
  BY <1>1, ConcatProperties
<1> HIDE DEF st
<1>3. ASSUME NEW i \in 1..m PROVE st[i] = s[i]
  BY <1>1, <1>2, i \in 1..(m + 1)
<1>4. st[m + 1] = x
  <2>1. m + 1 \in 1..(Len(s) + Len(t)) /\ ~(m + 1 <= Len(s)) /\ m + 1 - Len(s) = 1
    BY <1>1
  <2>2. QED
    BY <1>1, <1>2, <2>1
<1>5. QED
  BY <1>1, <1>2, <1>3, <1>4 DEF st, t

LEMMA EightBytes ==
  ASSUME NEW S, NEW a \in S, NEW b \in S, NEW c \in S, NEW d \in S,
         NEW e \in S, NEW g \in S, NEW h \in S, NEW k \in S
  PROVE  LET t == <<a, b, c, d, e, g, h, k>>
         IN  /\ t \in Seq(S) /\ Len(t) = 8
             /\ t[1] = a /\ t[2] = b /\ t[3] = c /\ t[4] = d
             /\ t[5] = e /\ t[6] = g /\ t[7] = h /\ t[8] = k
OBVIOUS

LEMMA NineBytes ==
  ASSUME NEW S, NEW a \in S, NEW b \in S, NEW c \in S, NEW d \in S,
         NEW e \in S, NEW g \in S, NEW h \in S, NEW k \in S, NEW l \in S
  PROVE  LET t == <<a, b, c, d, e, g, h, k, l>>
         IN  /\ t \in Seq(S) /\ Len(t) = 9
             /\ t[1] = a /\ t[2] = b /\ t[3] = c /\ t[4] = d
             /\ t[5] = e /\ t[6] = g /\ t[7] = h /\ t[8] = k /\ t[9] = l
OBVIOUS

-----------------------------------------------------------------------------
(* Frames *)

Bounded(f) == f \in Frame /\ Len(f.payload) < 65536

LEMMA Halves ==
  ASSUME NEW l \in Nat, l < 65536
  PROVE  /\ l % 256 \in Byte /\ l \div 256 \in Byte
         /\ (l % 256) + 256 * (l \div 256) = l
BY DEF Byte

LEMMA BoundedType ==
  ASSUME NEW f, Bounded(f)
  PROVE  /\ f.stream \in BOOLEAN
         /\ f.cmd \in Byte /\ f.typ \in Byte /\ f.seq \in Byte
         /\ f.payload \in Seq(Byte) /\ Len(f.payload) \in Nat /\ Len(f.payload) < 65536
BY DEF Bounded, Frame

LEMMA Marks ==
  /\ Hdr0 \in Byte /\ Hdr1 \in Byte /\ End \in Byte
  /\ HdrCmd \in Byte /\ HdrStream \in Byte /\ HdrCmd # HdrStream
BY DEF Byte, Hdr0, Hdr1, HdrCmd, HdrStream, End

LEMMA HeaderLayout ==
  ASSUME NEW f, Bounded(f), NEW flag \in Byte
  PROVE  /\ Header(f, flag) \in Seq(Byte)
         /\ Len(Header(f, flag)) = HeaderLen(f.stream)
         /\ Header(f, flag)[1] = Hdr0 /\ Header(f, flag)[2] = Hdr1
         /\ Header(f, flag)[3] = (IF f.stream THEN HdrStream ELSE HdrCmd)
         /\ Header(f, flag)[4] = f.cmd /\ Header(f, flag)[5] = f.typ
         /\ Header(f, flag)[6] = f.seq
         /\ Header(f, flag)[HeaderLen(f.stream) - 1] = Len(f.payload) % 256
         /\ Header(f, flag)[HeaderLen(f.stream)] = Len(f.payload) \div 256
<1> DEFINE n == Len(f.payload)
           lo == n % 256
           hi == n \div 256
<1>1. n \in Nat /\ n < 65536
  BY BoundedType
<1> HIDE DEF n
<1>2. lo \in Byte /\ hi \in Byte
  BY <1>1, Halves
<1>3. f.stream \in BOOLEAN /\ f.cmd \in Byte /\ f.typ \in Byte /\ f.seq \in Byte
  BY BoundedType
<1> HIDE DEF lo, hi
<1>4. CASE f.stream
  <2> DEFINE t == <<Hdr0, Hdr1, HdrStream, f.cmd, f.typ, f.seq, flag, lo, hi>>
  <2>1. /\ t \in Seq(Byte) /\ Len(t) = 9
        /\ t[1] = Hdr0 /\ t[2] = Hdr1 /\ t[3] = HdrStream
        /\ t[4] = f.cmd /\ t[5] = f.typ /\ t[6] = f.seq
        /\ t[8] = lo /\ t[9] = hi
    BY <1>2, <1>3, Marks, NineBytes
  <2>2. Header(f, flag) = t
    BY <1>4 DEF Header, lo, hi, n
  <2> HIDE DEF t
  <2>3. HeaderLen(f.stream) = 9 /\ 9 - 1 = 8
    BY <1>4 DEF HeaderLen
  <2>4. QED
    BY ZenonT(40), <1>4, <2>1, <2>2, <2>3 DEF lo, hi, n
<1>5. CASE ~f.stream
  <2> DEFINE t == <<Hdr0, Hdr1, HdrCmd, f.cmd, f.typ, f.seq, lo, hi>>
  <2>1. /\ t \in Seq(Byte) /\ Len(t) = 8
        /\ t[1] = Hdr0 /\ t[2] = Hdr1 /\ t[3] = HdrCmd
        /\ t[4] = f.cmd /\ t[5] = f.typ /\ t[6] = f.seq
        /\ t[7] = lo /\ t[8] = hi
    BY <1>2, <1>3, Marks, EightBytes
  <2>2. Header(f, flag) = t
    BY <1>5 DEF Header, lo, hi, n
  <2> HIDE DEF t
  <2>3. HeaderLen(f.stream) = 8 /\ 8 - 1 = 7
    BY <1>5 DEF HeaderLen
  <2>4. QED
    BY ZenonT(40), <1>5, <2>1, <2>2, <2>3 DEF lo, hi, n
<1>6. QED
  BY <1>3, <1>4, <1>5

LEMMA Layout ==
  ASSUME NEW f, Bounded(f), NEW flag \in Byte
  PROVE  LET e == Encoded(f, flag)
             n == HeaderLen(f.stream)
             l == Len(f.payload)
         IN  /\ e \in Seq(Byte) /\ Len(e) = n + l + 1
             /\ \A i \in 1..n : e[i] = Header(f, flag)[i]
             /\ \A i \in 1..l : e[n + i] = f.payload[i]
             /\ e[n + l + 1] = End
<1> DEFINE h == Header(f, flag)
           n == HeaderLen(f.stream)
           l == Len(f.payload)
<1>1. h \in Seq(Byte) /\ Len(h) = n /\ n \in Nat /\ l \in Nat
  <2>1. h \in Seq(Byte) /\ Len(h) = n
    BY HeaderLayout
  <2>2. n \in Nat
    BY DEF HeaderLen
  <2>3. l \in Nat
    BY BoundedType
  <2>4. QED
    BY <2>1, <2>2, <2>3
<1>2. f.payload \in Seq(Byte) /\ Len(f.payload) = l
  BY BoundedType
<1>3. Encoded(f, flag) = (h \o f.payload) \o <<End>>
  <2>1. h \o f.payload \o <<End>> = (h \o f.payload) \o <<End>>
    OBVIOUS
  <2>2. QED
    BY <2>1 DEF Encoded
<1> HIDE DEF h, n, l
<1> DEFINE hp == h \o f.payload
<1>4. /\ hp \in Seq(Byte) /\ Len(hp) = n + l
      /\ \A i \in 1..n : hp[i] = h[i]
      /\ \A i \in 1..l : hp[n + i] = f.payload[i]
  BY <1>1, <1>2, Cat
<1> HIDE DEF hp
<1> DEFINE m == n + l
<1>5. m \in Nat /\ Len(hp) = m
  BY <1>1, <1>4
<1> HIDE DEF m
<1> DEFINE e == hp \o <<End>>
<1>6. /\ e \in Seq(Byte) /\ Len(e) = m + 1
      /\ \A i \in 1..m : e[i] = hp[i]
      /\ e[m + 1] = End
  BY <1>4, <1>5, Marks, CatOne
<1> HIDE DEF e
<1>7. ASSUME NEW i \in 1..n PROVE e[i] = h[i]
  BY <1>1, <1>4, <1>6, i \in 1..m DEF m
<1>8. ASSUME NEW i \in 1..l PROVE e[n + i] = f.payload[i]
  BY <1>1, <1>4, <1>6, n + i \in 1..m DEF m
<1>9. QED
  BY <1>3, <1>6, <1>7, <1>8 DEF h, n, l, hp, m, e

-----------------------------------------------------------------------------
(* What a notification makes of a frame *)

\* The first n bytes of a frame, for n up to its length.
Cut(f, flag, n) == SubSeq(Encoded(f, flag), 1, n)

LEMMA CutLayout ==
  ASSUME NEW f, Bounded(f), NEW flag \in Byte,
         NEW n \in 0..Len(Encoded(f, flag))
  PROVE  /\ Len(Cut(f, flag, n)) = n
         /\ \A i \in 1..n : Cut(f, flag, n)[i] = Encoded(f, flag)[i]
<1> DEFINE e == Encoded(f, flag)
<1>1. e \in Seq(Byte) /\ Len(e) \in Nat
  BY Layout
<1> HIDE DEF e
<1>2. n \in 0..Len(e)
  BY DEF e
<1>3. /\ Len(SubSeq(e, 1, n)) = n
      /\ \A i \in 1..n : SubSeq(e, 1, n)[i] = e[i]
  BY <1>1, <1>2
<1>4. QED
  BY <1>3 DEF Cut, e

\* The header of a cut frame, as far as it goes.
LEMMA CutHeader ==
  ASSUME NEW f, Bounded(f), NEW flag \in Byte,
         NEW n \in 0..Len(Encoded(f, flag)), n >= HeaderLen(f.stream)
  PROVE  LET b == Cut(f, flag, n)
         IN  /\ b[1] = Hdr0 /\ b[2] = Hdr1
             /\ b[3] = (IF f.stream THEN HdrStream ELSE HdrCmd)
             /\ b[4] = f.cmd /\ b[5] = f.typ /\ b[6] = f.seq
             /\ IsStream(b) = f.stream
             /\ PayloadLen(b) = Len(f.payload)
<1> DEFINE b == Cut(f, flag, n)
           h == Header(f, flag)
           k == HeaderLen(f.stream)
           l == Len(f.payload)
<1>1. k \in {8, 9} /\ l \in Nat /\ l < 65536 /\ f.stream \in BOOLEAN
  BY BoundedType DEF HeaderLen
<1>2. \A i \in 1..k : b[i] = h[i]
  <2>1. n \in Nat /\ k <= n
    BY <1>1, Layout
  <2>2. ASSUME NEW i \in 1..k PROVE b[i] = h[i]
    <3>1. i \in 1..n
      BY <1>1, <2>1
    <3>2. b[i] = Encoded(f, flag)[i]
      BY <3>1, CutLayout
    <3>3. Encoded(f, flag)[i] = h[i]
      BY Layout
    <3>4. QED
      BY <3>2, <3>3
  <2>3. QED
    BY <2>2
<1>3. /\ h[1] = Hdr0 /\ h[2] = Hdr1
      /\ h[3] = (IF f.stream THEN HdrStream ELSE HdrCmd)
      /\ h[4] = f.cmd /\ h[5] = f.typ /\ h[6] = f.seq
      /\ h[k - 1] = l % 256 /\ h[k] = l \div 256
  <2>1. h[1] = Hdr0 /\ h[2] = Hdr1
    BY ZenonT(40), HeaderLayout
  <2>2. h[3] = (IF f.stream THEN HdrStream ELSE HdrCmd)
    BY ZenonT(40), HeaderLayout
  <2>3. h[4] = f.cmd /\ h[5] = f.typ /\ h[6] = f.seq
    BY ZenonT(40), HeaderLayout
  <2>4. h[k - 1] = l % 256
    BY ZenonT(40), HeaderLayout
  <2>5. h[k] = l \div 256
    BY ZenonT(40), HeaderLayout
  <2>6. QED
    BY <2>1, <2>2, <2>3, <2>4, <2>5
<1> HIDE DEF b, h, k, l
<1>4. /\ b[1] = h[1] /\ b[2] = h[2] /\ b[3] = h[3]
      /\ b[4] = h[4] /\ b[5] = h[5] /\ b[6] = h[6]
      /\ b[k - 1] = h[k - 1] /\ b[k] = h[k]
  BY <1>1, <1>2
<1>5. IsStream(b) = f.stream
  BY <1>1, <1>3, <1>4, Marks DEF IsStream
<1>6. PayloadLen(b) = b[k - 1] + 256 * b[k]
  <2>1. k - 1 + 1 = k
    BY <1>1
  <2>2. HeaderLen(IsStream(b)) = k
    BY <1>5 DEF k
  <2>3. QED
    BY <2>1, <2>2 DEF PayloadLen
<1>7. PayloadLen(b) = l
  BY <1>1, <1>3, <1>4, <1>6, Halves
<1>8. QED
  BY <1>3, <1>4, <1>5, <1>7 DEF b, l

\* A frame that was cut off is not heard.
LEMMA CutIsUnheard ==
  ASSUME NEW f, Bounded(f), NEW flag \in Byte,
         NEW n \in 0..Len(Encoded(f, flag)), n < Len(Encoded(f, flag))
  PROVE  Heard(Cut(f, flag, n)) = {}
<1> DEFINE b == Cut(f, flag, n)
           k == HeaderLen(f.stream)
           l == Len(f.payload)
<1> SUFFICES ASSUME IsFrame(b), Fits(b) PROVE FALSE
  BY DEF Heard
<1>1. k \in {8, 9} /\ l \in Nat /\ (f.stream => k = 9) /\ (~f.stream => k = 8)
  BY BoundedType DEF HeaderLen
<1>2. Len(b) = n /\ n \in Nat /\ n < k + l + 1
  BY <1>1, CutLayout, Layout
<1>3. n >= 9
  BY <1>2 DEF IsFrame
<1>4. IsStream(b) = f.stream /\ PayloadLen(b) = l
  <2>1. n >= k
    BY <1>1, <1>3
  <2>2. QED
    BY <2>1, CutHeader
<1>5. l <= n - k - 1
  BY <1>2, <1>4 DEF Fits
<1>6. QED
  BY <1>1, <1>2, <1>5

\* A frame that was not is heard as it was said.
LEMMA WholeIsReceived ==
  ASSUME NEW f, Bounded(f), NEW flag \in Byte
  PROVE  Heard(Cut(f, flag, Len(Encoded(f, flag)))) = {f}
<1> DEFINE n == Len(Encoded(f, flag))
           b == Cut(f, flag, n)
           k == HeaderLen(f.stream)
           l == Len(f.payload)
<1>1. k \in {8, 9} /\ l \in Nat /\ f.stream \in BOOLEAN
  BY BoundedType DEF HeaderLen
<1>2. n = k + l + 1 /\ n \in 0..n /\ n >= k
  BY <1>1, Layout
<1>3. Len(b) = n /\ \A i \in 1..n : b[i] = Encoded(f, flag)[i]
  BY <1>2, CutLayout
<1>4. /\ b[1] = Hdr0 /\ b[2] = Hdr1
      /\ b[3] = (IF f.stream THEN HdrStream ELSE HdrCmd)
      /\ b[4] = f.cmd /\ b[5] = f.typ /\ b[6] = f.seq
      /\ IsStream(b) = f.stream
      /\ PayloadLen(b) = l
  BY <1>2, CutHeader
<1>5. b[n] = End /\ \A i \in 1..l : b[k + i] = f.payload[i]
  <2>1. Encoded(f, flag)[n] = End
    BY <1>2, Layout
  <2>2. b[n] = End
    BY <1>1, <1>2, <1>3, <2>1
  <2>3. ASSUME NEW i \in 1..l PROVE b[k + i] = f.payload[i]
    <3>1. k + i \in 1..n
      BY <1>1, <1>2
    <3>2. Encoded(f, flag)[k + i] = f.payload[i]
      BY Layout
    <3>3. QED
      BY <1>3, <3>1, <3>2
  <2>4. QED
    BY <2>2, <2>3
<1> HIDE DEF n, b, k, l
<1>6. HeaderLen(IsStream(b)) = k
  BY <1>4 DEF k
<1>7. IsFrame(b)
  BY <1>1, <1>2, <1>3, <1>4, <1>5 DEF IsFrame
<1>8. Fits(b)
  BY <1>1, <1>2, <1>3, <1>4, <1>6 DEF Fits
<1>9. Received(b) = f
  <2>1. [i \in 1..PayloadLen(b) |-> IF k + i <= Len(b) THEN b[k + i] ELSE -1]
          = [i \in 1..l |-> f.payload[i]]
    <3>1. ASSUME NEW i \in 1..l PROVE k + i <= Len(b)
      BY <1>1, <1>2, <1>3
    <3>2. QED
      BY <1>4, <1>5, <3>1
  <2>2. f.payload = [i \in 1..l |-> f.payload[i]]
    BY BoundedType DEF l
  <2>3. f = [stream |-> f.stream, cmd |-> f.cmd, typ |-> f.typ, seq |-> f.seq,
             payload |-> f.payload]
    BY DEF Bounded, Frame
  <2>4. Received(b) = [stream |-> f.stream, cmd |-> f.cmd, typ |-> f.typ,
                       seq |-> f.seq, payload |-> f.payload]
    BY <1>4, <1>6, <2>1, <2>2 DEF Received
  <2>5. QED
    BY <2>3, <2>4
<1>10. QED
  BY <1>7, <1>8, <1>9 DEF Heard, b, n

-----------------------------------------------------------------------------
(* The specification *)

Inv ==
  /\ size \in Sizes /\ spent \in Nat
  /\ said \subseteq Frame
  /\ HeardIsSaid /\ WholeIsHeard

\* What Notify does with one frame.
LEMMA NotifyOne ==
  ASSUME CodecAssumption, size \in Sizes, NEW f, Bounded(f), NEW flag \in Byte
  PROVE  /\ Heard(Delivered(Encoded(f, flag))) \subseteq {f}
         /\ Len(Encoded(f, flag)) <= size => Heard(Delivered(Encoded(f, flag))) = {f}
<1> DEFINE e == Encoded(f, flag)
<1>1. Len(e) \in Nat /\ size \in Nat
  BY Layout DEF CodecAssumption
<1>2. CASE Len(e) <= size
  <2>1. Delivered(e) = Cut(f, flag, Len(e))
    BY <1>1, <1>2 DEF Delivered, Cut
  <2>2. QED
    BY <2>1, WholeIsReceived
<1>3. CASE ~(Len(e) <= size)
  <2>1. Delivered(e) = Cut(f, flag, size) /\ size \in 0..Len(e) /\ size < Len(e)
    BY <1>1, <1>3 DEF Delivered, Cut
  <2>2. QED
    BY <1>3, <2>1, CutIsUnheard
<1>4. QED
  BY <1>2, <1>3

LEMMA InvNext ==
  ASSUME CodecAssumption, Inv, [Next]_vars
  PROVE  Inv'
<1>1. CASE Reconnect
  <2>1. size' \in Sizes /\ spent' \in Nat
    BY <1>1 DEF Reconnect
  <2>2. said' = {} /\ heard' = {}
    BY <1>1 DEF Reconnect
  <2>3. said' \subseteq Frame /\ HeardIsSaid' /\ WholeIsHeard'
    BY <2>2 DEF HeardIsSaid, WholeIsHeard
  <2>4. QED
    BY <2>1, <2>3 DEF Inv
<1>2. CASE Notify
  <2>1. PICK f \in [stream : BOOLEAN, cmd : Tags, typ : Tags, seq : Tags, payload : Payloads],
             flag \in Tags :
          /\ said' = {f}
          /\ spent' = Len(Encoded(f, flag))
          /\ heard' = Heard(Delivered(Encoded(f, flag)))
    BY <1>2 DEF Notify
  <2>2. Bounded(f) /\ flag \in Byte
    BY DEF CodecAssumption, Bounded, Frame
  <2>3. size \in Sizes /\ size' = size
    BY <1>2 DEF Inv, Notify
  <2>4. /\ Heard(Delivered(Encoded(f, flag))) \subseteq {f}
        /\ Len(Encoded(f, flag)) <= size => Heard(Delivered(Encoded(f, flag))) = {f}
    BY <2>2, <2>3, NotifyOne
  <2>5. said' \subseteq Frame
    BY <2>1, <2>2 DEF Bounded
  <2>6. HeardIsSaid'
    BY <2>1, <2>4 DEF HeardIsSaid
  <2>7. WholeIsHeard'
    BY <2>1, <2>3, <2>4 DEF WholeIsHeard
  <2>8. spent' \in Nat
    BY <2>1, <2>2, Layout
  <2>9. QED
    BY <2>3, <2>5, <2>6, <2>7, <2>8 DEF Inv
<1>3. CASE UNCHANGED vars
  BY <1>3 DEF Inv, vars, HeardIsSaid, WholeIsHeard
<1>4. QED
  BY <1>1, <1>2, <1>3 DEF Next

LEMMA Invariance == CodecAssumption => (Spec => []Inv)
<1> SUFFICES ASSUME CodecAssumption PROVE Spec => []Inv
  OBVIOUS
<1>1. Init => Inv
  <2> SUFFICES ASSUME Init PROVE Inv
    OBVIOUS
  <2>1. size \in Sizes /\ said = {} /\ heard = {} /\ spent = 0
    BY DEF Init
  <2>2. HeardIsSaid /\ WholeIsHeard
    BY <2>1 DEF HeardIsSaid, WholeIsHeard
  <2>3. QED
    BY <2>1, <2>2 DEF Inv
<1>2. Inv /\ [Next]_vars => Inv'
  BY InvNext
<1>3. QED
  BY <1>1, <1>2, PTL DEF Spec

\* No frame that was cut off is taken for one, and nothing behind the
\* notification is read: for every payload below 64 KiB, every header byte and
\* every MTU.
THEOREM HeardIsSaidAlways == Spec => []HeardIsSaid
BY Invariance, CodecAssumption, PTL DEF Inv

\* Every frame that fits in a notification is heard exactly as it was sent.
THEOREM WholeIsHeardAlways == Spec => []WholeIsHeard
BY Invariance, CodecAssumption, PTL DEF Inv

\* Both in one: what is heard is a frame.
THEOREM TypeCorrect == Spec => []TypeOK
<1>1. Inv => TypeOK
  BY DEF Inv, TypeOK, HeardIsSaid
<1>2. QED
  BY <1>1, Invariance, CodecAssumption, PTL

-----------------------------------------------------------------------------
(* What payloads say *)

\* The provers take Nat apart wherever they see it; a name keeps it whole.
Number == Nat

LEMMA Two ==
  ASSUME NEW v \in Nat
  PROVE  /\ Bytes16(v) \in Seq(Number) /\ Len(Bytes16(v)) = 2
         /\ Bytes16(v)[1] \in Nat /\ Bytes16(v)[2] \in Nat
         /\ 256 * Bytes16(v)[1] + Bytes16(v)[2] = v
<1>1. v \div 256 \in Nat /\ v % 256 \in Nat /\ 256 * (v \div 256) + (v % 256) = v
  OBVIOUS
<1>2. QED
  BY <1>1 DEF Bytes16, Number

LEMMA Four ==
  ASSUME NEW v \in Nat
  PROVE  /\ Bytes32(v) \in Seq(Number) /\ Len(Bytes32(v)) = 4
         /\ 65536 * (256 * Bytes32(v)[1] + Bytes32(v)[2])
              + (256 * Bytes32(v)[3] + Bytes32(v)[4]) = v
<1> DEFINE hi == v \div 65536
           lo == v % 65536
           x == Bytes16(hi)
           y == Bytes16(lo)
           b == x \o y
<1>1. hi \in Nat /\ lo \in Nat /\ 65536 * hi + lo = v
  OBVIOUS
<1> HIDE DEF hi, lo
<1>2. /\ x \in Seq(Number) /\ Len(x) = 2 /\ y \in Seq(Number) /\ Len(y) = 2
      /\ x[1] \in Nat /\ x[2] \in Nat /\ y[1] \in Nat /\ y[2] \in Nat
      /\ 256 * x[1] + x[2] = hi /\ 256 * y[1] + y[2] = lo
  BY <1>1, Two
<1> HIDE DEF x, y
<1> DEFINE m == 2
<1>3. m \in Nat /\ Len(x) = m /\ Len(y) = m
  BY <1>2
<1> HIDE DEF m
<1>4. /\ b \in Seq(Number) /\ Len(b) = m + m
      /\ \A i \in 1..m : b[i] = x[i]
      /\ \A i \in 1..m : b[m + i] = y[i]
  <2>1. x \in Seq(Number) /\ y \in Seq(Number)
    BY <1>2
  <2>2. b \in Seq(Number) /\ Len(b) = m + m
    BY SMTT(20), <1>3, <2>1, Cat
  <2>3. \A i \in 1..m : b[i] = x[i]
    BY SMTT(20), <1>3, <2>1, Cat
  <2>4. \A i \in 1..m : b[m + i] = y[i]
    BY SMTT(20), <1>3, <2>1, Cat
  <2>5. QED
    BY <2>2, <2>3, <2>4
<1> HIDE DEF b
<1>5. b[1] = x[1] /\ b[2] = x[2] /\ b[3] = y[1] /\ b[4] = y[2]
  <2>1. 1 \in 1..m /\ 2 \in 1..m /\ m + 1 = 3 /\ m + 2 = 4
    BY DEF m
  <2>2. QED
    BY <1>4, <2>1
<1>6. 65536 * (256 * b[1] + b[2]) + (256 * b[3] + b[4]) = v
  <2>1. 256 * b[1] + b[2] = hi /\ 256 * b[3] + b[4] = lo
    BY <1>2, <1>5
  <2>2. QED
    BY <1>1, <2>1
<1>7. b \in Seq(Number) /\ Len(b) = 4
  BY <1>4 DEF m
<1>8. Bytes32(v) = b
  BY DEF Bytes32, hi, lo, x, y, b
<1>9. QED
  BY <1>6, <1>7, <1>8

\* The counter is read where it was written.
LEMMA CounterIsRead ==
  ASSUME NEW v \in Nat
  PROVE  SyncPending(CounterPayload(v)) = v
<1> DEFINE t == <<1>>
           w == Bytes32(v)
           b == t \o w
           m == 1
           n == 4
<1>1. /\ t \in Seq(Number) /\ Len(t) = m /\ w \in Seq(Number) /\ Len(w) = n
      /\ 65536 * (256 * w[1] + w[2]) + (256 * w[3] + w[4]) = v
      /\ m \in Nat /\ n \in Nat
  BY Four DEF Number
<1>2. CounterPayload(v) = b
  BY DEF CounterPayload
<1> HIDE DEF t, w, m, n
<1>3. Len(b) = m + n /\ \A i \in 1..n : b[m + i] = w[i]
  <2>1. /\ t \in Seq(Number) /\ Len(t) = m /\ w \in Seq(Number) /\ Len(w) = n
        /\ m \in Nat /\ n \in Nat
    BY <1>1
  <2>2. QED
    BY SMTT(20), <2>1, Cat
<1> HIDE DEF b
<1>4. Len(b) = 5 /\ b[2] = w[1] /\ b[3] = w[2] /\ b[4] = w[3] /\ b[5] = w[4]
  <2>1. /\ 1 \in 1..n /\ 2 \in 1..n /\ 3 \in 1..n /\ 4 \in 1..n
        /\ m + 1 = 2 /\ m + 2 = 3 /\ m + 3 = 4 /\ m + 4 = 5 /\ m + n = 5
    BY DEF m, n
  <2>2. QED
    BY <1>3, <2>1
<1>5. SyncPending(b) = 65536 * (256 * b[2] + b[3]) + (256 * b[4] + b[5])
  BY <1>4 DEF SyncPending, Be32, Be16
<1>6. QED
  BY <1>1, <1>2, <1>4, <1>5

Visit == [ts : Nat, sec : Nat]

LEMMA Six ==
  ASSUME NEW v \in Visit
  PROVE  /\ 65536 * (256 * VisitBytes(v)[1] + VisitBytes(v)[2])
              + (256 * VisitBytes(v)[3] + VisitBytes(v)[4]) = v.ts
         /\ 256 * VisitBytes(v)[5] + VisitBytes(v)[6] = v.sec
<1> DEFINE ts == v.ts
           sec == v.sec
           a == Bytes32(ts)
           c == Bytes16(sec)
           b == a \o c
           m == 4
           n == 2
<1>1. VisitBytes(v) = b
  BY DEF VisitBytes
<1>2. ts \in Nat /\ sec \in Nat
  BY DEF Visit
<1> HIDE DEF ts, sec
<1>3. /\ a \in Seq(Number) /\ Len(a) = m /\ c \in Seq(Number) /\ Len(c) = n
      /\ m \in Nat /\ n \in Nat
      /\ 65536 * (256 * a[1] + a[2]) + (256 * a[3] + a[4]) = ts
      /\ 256 * c[1] + c[2] = sec
  BY <1>2, Two, Four
<1> HIDE DEF a, c, m, n
<1>4. /\ \A i \in 1..m : b[i] = a[i]
      /\ \A i \in 1..n : b[m + i] = c[i]
  <2>1. /\ a \in Seq(Number) /\ Len(a) = m /\ c \in Seq(Number) /\ Len(c) = n
        /\ m \in Nat /\ n \in Nat
    BY <1>3
  <2>2. \A i \in 1..m : b[i] = a[i]
    BY SMTT(20), <2>1, Cat
  <2>3. \A i \in 1..n : b[m + i] = c[i]
    BY SMTT(20), <2>1, Cat
  <2>4. QED
    BY <2>2, <2>3
<1> HIDE DEF b
<1>5. /\ b[1] = a[1] /\ b[2] = a[2] /\ b[3] = a[3] /\ b[4] = a[4]
      /\ b[5] = c[1] /\ b[6] = c[2]
  <2>1. /\ 1 \in 1..m /\ 2 \in 1..m /\ 3 \in 1..m /\ 4 \in 1..m
        /\ 1 \in 1..n /\ 2 \in 1..n /\ m + 1 = 5 /\ m + 2 = 6
    BY DEF m, n
  <2>2. QED
    BY <1>4, <2>1
<1>6. QED
  BY <1>1, <1>3, <1>5 DEF ts, sec

\* Record k of a payload is visit k of the list.
LEMMA RecordIsVisit ==
  ASSUME NEW vs \in Seq(Visit), NEW k \in 1..Len(vs)
  PROVE  /\ Be32(VisitPayload(vs), 6 * k - 5) = vs[k].ts
         /\ Be16(VisitPayload(vs), 6 * k - 1) = vs[k].sec
<1> DEFINE b == VisitPayload(vs)
           w == VisitBytes(vs[k])
<1>1. Len(vs) \in Nat /\ k \in Nat /\ 1 <= k /\ k <= Len(vs) /\ vs[k] \in Visit
  OBVIOUS
<1>2. ASSUME NEW j \in 1..6 PROVE b[6 * k - 6 + j] = w[j]
  <2> DEFINE i == 6 * k - 6 + j
  <2>1. /\ i \in 1..(6 * Len(vs))
        /\ (i - 1) \div 6 + 1 = k /\ ((i - 1) % 6) + 1 = j
    BY <1>1
  <2> HIDE DEF i
  <2>2. b[i] = VisitBytes(vs[(i - 1) \div 6 + 1])[((i - 1) % 6) + 1]
    BY <2>1 DEF VisitPayload
  <2>3. QED
    BY <2>1, <2>2 DEF i
<1>3. /\ b[6 * k - 5] = w[1] /\ b[6 * k - 5 + 1] = w[2]
      /\ b[6 * k - 5 + 2] = w[3] /\ b[6 * k - 5 + 2 + 1] = w[4]
      /\ b[6 * k - 1] = w[5] /\ b[6 * k - 1 + 1] = w[6]
  <2>1. /\ 1 \in 1..6 /\ 2 \in 1..6 /\ 3 \in 1..6 /\ 4 \in 1..6 /\ 5 \in 1..6 /\ 6 \in 1..6
        /\ 6 * k - 6 + 1 = 6 * k - 5 /\ 6 * k - 6 + 2 = 6 * k - 5 + 1
        /\ 6 * k - 6 + 3 = 6 * k - 5 + 2 /\ 6 * k - 6 + 4 = 6 * k - 5 + 2 + 1
        /\ 6 * k - 6 + 5 = 6 * k - 1 /\ 6 * k - 6 + 6 = 6 * k - 1 + 1
    BY <1>1
  <2> HIDE DEF b, w
  <2>2. QED
    BY <1>2, <2>1
<1>4. /\ 65536 * (256 * w[1] + w[2]) + (256 * w[3] + w[4]) = vs[k].ts
      /\ 256 * w[5] + w[6] = vs[k].sec
  BY <1>1, Six
<1> HIDE DEF b, w
<1>5. QED
  BY <1>3, <1>4 DEF Be32, Be16, b

\* A list of visits is read as it was written, as far as there is room.
LEMMA VisitsAreRead ==
  ASSUME NEW vs \in Seq(Visit), NEW max \in Nat
  PROVE  HistoryDecode(VisitPayload(vs), max)
           = SubSeq(vs, 1, IF Len(vs) < max THEN Len(vs) ELSE max)
<1> DEFINE b == VisitPayload(vs)
           n == Len(vs)
           m == IF n < max THEN n ELSE max
           d == HistoryDecode(b, max)
           s == SubSeq(vs, 1, m)
<1>1. n \in Nat /\ m \in Nat /\ m <= n
  OBVIOUS
<1>2. Len(b) = 6 * n
  BY <1>1 DEF VisitPayload
<1>3. Len(b) \div 6 = n
  BY <1>1, <1>2
<1> HIDE DEF b, n
<1>4. d = [k \in 1..m |-> [ts |-> Be32(b, 6 * k - 5), sec |-> Be16(b, 6 * k - 1)]]
  BY <1>3 DEF HistoryDecode
<1> HIDE DEF m, d
<1>5. s = [k \in 1..m |-> vs[k]]
  <2>1. /\ s \in Seq(Visit) /\ Len(s) = m /\ \A k \in 1..m : s[k] = vs[k]
    BY <1>1, SubSeqProperties DEF n
  <2> HIDE DEF s
  <2>2. DOMAIN s = 1..m
    BY <2>1
  <2>3. QED
    BY <2>1, <2>2
<1>6. ASSUME NEW k \in 1..m
      PROVE  [ts |-> Be32(b, 6 * k - 5), sec |-> Be16(b, 6 * k - 1)] = vs[k]
  <2>1. k \in 1..Len(vs)
    BY <1>1 DEF n
  <2>2. vs[k] \in Visit /\ Be32(b, 6 * k - 5) = vs[k].ts /\ Be16(b, 6 * k - 1) = vs[k].sec
    BY <2>1, RecordIsVisit DEF b
  <2>3. QED
    BY <2>2 DEF Visit
<1>7. d = s
  BY <1>4, <1>5, <1>6
<1>8. QED
  BY <1>7 DEF d, s, b, m, n

\* Counters and lists of visits are understood as they were written, whatever
\* bytes they come to and however many visits there are.
THEOREM UnderstoodAlways == Spec => []Understood
<1>1. Understood
  <2> SUFFICES ASSUME NEW f \in heard
               PROVE  /\ \A v \in Counters :
                           f.payload = CounterPayload(v) => SyncPending(f.payload) = v
                      /\ \A vs \in Backlogs :
                           f.payload = VisitPayload(vs) =>
                             HistoryDecode(f.payload, Room)
                               = SubSeq(vs, 1, IF Len(vs) < Room THEN Len(vs) ELSE Room)
    BY DEF Understood
  <2>1. \A v \in Counters : v \in Nat
    BY CodecAssumption DEF CodecAssumption
  <2>2. /\ \A vs \in Backlogs : vs \in Seq(Visit)
        /\ Room \in Nat
    BY CodecAssumption DEF CodecAssumption, Visit
  <2>3. ASSUME NEW v \in Counters, f.payload = CounterPayload(v)
        PROVE  SyncPending(f.payload) = v
    BY <2>1, <2>3, CounterIsRead
  <2>4. ASSUME NEW vs \in Backlogs, f.payload = VisitPayload(vs)
        PROVE  HistoryDecode(f.payload, Room)
                 = SubSeq(vs, 1, IF Len(vs) < Room THEN Len(vs) ELSE Room)
    BY <2>2, <2>4, VisitsAreRead
  <2>5. QED
    BY <2>3, <2>4
<1>2. QED
  BY <1>1, PTL
=============================================================================
