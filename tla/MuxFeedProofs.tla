--------------------------- MODULE MuxFeedProofs ----------------------------
(***************************************************************************)
(* Proofs about MuxFeed, for any header size, any payload lengths, any     *)
(* number of frames and channels, and packets of any size.  What a packet  *)
(* leaves in the parser, what mux_feed has still to take and what is on    *)
(* its way make one stream, and every step keeps that stream cut into the  *)
(* frames that are due.                                                    *)
(***************************************************************************)
EXTENDS MuxFeed, TLAPS, SequenceTheorems

Book == [length : Lengths, ok : BOOLEAN]

------------------------------------------------------------------------------
\* A sequence is its first n elements and the rest.
LEMMA Cut ==
    ASSUME NEW S, NEW s \in Seq(S), NEW n \in 0 .. Len(s)
    PROVE  /\ First(s, n) \in Seq(S) /\ Len(First(s, n)) = n
           /\ Rest(s, n) \in Seq(S) /\ Len(Rest(s, n)) = Len(s) - n
           /\ First(s, n) \o Rest(s, n) = s
<1>1. First(s, n) \o Rest(s, n) = SubSeq(s, 1, Len(s))
  <2>1. /\ 1 \in 1 .. Len(s) + 1 /\ n \in 1 - 1 .. Len(s) /\ Len(s) \in n .. Len(s)
    OBVIOUS
  <2>2. SubSeq(s, 1, n) \o SubSeq(s, n + 1, Len(s)) = SubSeq(s, 1, Len(s))
    BY <2>1, ConcatAdjacentSubSeq, Zenon
  <2>3. QED
    BY <2>2 DEF First, Rest
<1>2. SubSeq(s, 1, Len(s)) = s
  BY SubSeqFull
<1>3. First(s, n) \in Seq(S) /\ Len(First(s, n)) = n
  BY SubSeqProperties DEF First
<1>4. Rest(s, n) \in Seq(S) /\ Len(Rest(s, n)) = Len(s) - n
  BY SubSeqProperties DEF Rest
<1>5. QED
  BY <1>1, <1>2, <1>3, <1>4

\* The bytes of a frame from one place to another.
LEMMA BytesAt ==
    ASSUME NEW no, NEW from \in Nat, NEW to \in Nat, from <= to + 1
    PROVE  /\ Bytes(no, from, to) \in Seq({no} \X Nat)
           /\ Len(Bytes(no, from, to)) = to - from + 1
           /\ \A i \in 1 .. to - from + 1 : Bytes(no, from, to)[i] = <<no, from + i - 1>>
  BY DEF Bytes

\* Two sequences of one length with the same elements are equal.
LEMMA SameBytes ==
    ASSUME NEW S, NEW T, NEW s \in Seq(S), NEW t \in Seq(T), Len(s) = Len(t),
           \A i \in 1 .. Len(s) : s[i] = t[i]
    PROVE  s = t
  OBVIOUS

\* Every frame of a book has a size.
LEMMA BookSizes ==
    ASSUME NEW b \in Seq(Book)
    PROVE  /\ Len(b) \in Nat /\ FRAME_HEADER_SIZE \in Nat /\ FRAME_HEADER_SIZE >= 1
           /\ \A n \in 1 .. Len(b) : b[n].length \in Nat
<1>1. \A n \in 1 .. Len(b) : b[n] \in Book
  OBVIOUS
<1>2. \A x \in Book : x.length \in Nat
  BY LengthsAssumption DEF Book
<1>3. Len(b) \in Nat
  OBVIOUS
<1>4. QED
  BY <1>1, <1>2, <1>3, HeaderAssumption

------------------------------------------------------------------------------
(***************************************************************************)
(* The stream r consists of the frames d, d + 1, ... of the book b: there  *)
(* are places where they begin, one behind the other.                      *)
(***************************************************************************)
Places(b, d, r, p) ==
    /\ p \in [d .. Len(b) + 1 -> Nat]
    /\ p[d] = 0 /\ p[Len(b) + 1] = Len(r)
    /\ \A n \in d .. Len(b) : p[n + 1] = p[n] + FRAME_HEADER_SIZE + b[n].length
    /\ \A m, n \in d .. Len(b) + 1 : m <= n => p[m] <= p[n]
    /\ \A n \in d .. Len(b) : \A k \in 1 .. FRAME_HEADER_SIZE + b[n].length :
          r[p[n] + k] = <<n, k>>

Framed(b, d, r) == \E p : Places(b, d, r, p)

\* Nothing is framed when no frame is due, and conversely.
LEMMA FramedEmpty ==
    ASSUME NEW b \in Seq(Book), NEW r, Len(r) = 0
    PROVE  Framed(b, Len(b) + 1, r)
<1> DEFINE p == [n \in {Len(b) + 1} |-> 0]
<1>1. Len(b) + 1 .. Len(b) + 1 = {Len(b) + 1} /\ Len(b) + 1 .. Len(b) = {}
  OBVIOUS
<1>2. Places(b, Len(b) + 1, r, p)
  BY <1>1 DEF Places
<1>3. QED
  BY <1>2 DEF Framed

\* The first frame of the stream is the one that is due.
Begins(b, d, r) ==
    /\ d = Len(b) + 1 => Len(r) = 0
    /\ d <= Len(b) =>
         /\ FRAME_HEADER_SIZE + b[d].length <= Len(r)
         /\ \A k \in 1 .. FRAME_HEADER_SIZE + b[d].length : r[k] = <<d, k>>

LEMMA FramedFirst ==
    ASSUME NEW b \in Seq(Book), NEW d \in 1 .. Len(b) + 1, NEW S, NEW r \in Seq(S),
           Framed(b, d, r)
    PROVE  Begins(b, d, r)
<1>1. PICK p : Places(b, d, r, p)
  BY DEF Framed
<1>2. d = Len(b) + 1 => Len(r) = 0
  BY <1>1 DEF Places
<1>3. ASSUME d <= Len(b)
      PROVE  /\ FRAME_HEADER_SIZE + b[d].length <= Len(r)
             /\ \A k \in 1 .. FRAME_HEADER_SIZE + b[d].length : r[k] = <<d, k>>
  <2>1. b[d].length \in Nat /\ FRAME_HEADER_SIZE \in Nat /\ d \in d .. Len(b)
        /\ d + 1 \in d .. Len(b) + 1 /\ Len(b) + 1 \in d .. Len(b) + 1
        /\ d + 1 <= Len(b) + 1
    BY <1>3, BookSizes
  <2>2. p[d] = 0 /\ p[d + 1] = p[d] + FRAME_HEADER_SIZE + b[d].length
    BY <1>1, <2>1 DEF Places
  <2>3. p[d + 1] <= p[Len(b) + 1] /\ p[Len(b) + 1] = Len(r)
    BY <1>1, <2>1 DEF Places
  <2>4. \A k \in 1 .. FRAME_HEADER_SIZE + b[d].length : r[p[d] + k] = <<d, k>>
    BY <1>1, <2>1, Zenon DEF Places
  <2>5. QED
    BY <2>1, <2>2, <2>3, <2>4
<1>4. QED
  BY <1>2, <1>3, Zenon DEF Begins

\* Facts of arithmetic, apart from the sequences they are used for.
LEMMA Shifted ==
    \A x, y, s, f, l \in Nat : y = x + f + l => y - s = (x - s) + f + l
  OBVIOUS

LEMMA Within ==
    \A x, k, s, l \in Nat : 1 <= k /\ k <= s /\ x + s <= l => x + k \in 1 .. l
  OBVIOUS

LEMMA WithinFrame ==
    \A x, f, l, m \in Nat : \A k \in 1 .. f + l : x + f + l <= m => x + k \in 1 .. m
  OBVIOUS

\* Without its first frame the stream begins with the next one.
LEMMA FramedNext ==
    ASSUME NEW b \in Seq(Book), NEW d \in 1 .. Len(b), NEW S, NEW r \in Seq(S),
           Framed(b, d, r), NEW t \in Seq(S),
           Len(t) = Len(r) - (FRAME_HEADER_SIZE + b[d].length),
           \A i \in 1 .. Len(t) : t[i] = r[FRAME_HEADER_SIZE + b[d].length + i]
    PROVE  Framed(b, d + 1, t)
<1> DEFINE size == FRAME_HEADER_SIZE + b[d].length
<1>1. PICK p : Places(b, d, r, p)
  BY DEF Framed
<1>2. /\ Len(b) \in Nat /\ FRAME_HEADER_SIZE \in Nat
      /\ \A n \in d .. Len(b) : b[n].length \in Nat
  BY BookSizes
<1>3. /\ \A n \in d + 1 .. Len(b) : n \in d + 1 .. Len(b) + 1 /\ n \in d .. Len(b)
                                   /\ n + 1 \in d + 1 .. Len(b) + 1
      /\ Len(b) + 1 \in d + 1 .. Len(b) + 1 /\ d + 1 \in d + 1 .. Len(b) + 1
      /\ d \in d .. Len(b) /\ d + 1 \in d .. Len(b) + 1
  BY <1>2
<1>4. size \in Nat
  BY <1>2
<1> HIDE DEF size
<1>5. p[d + 1] = size
  <2>1. p[d] = 0 /\ p[d + 1] = p[d] + FRAME_HEADER_SIZE + b[d].length
    BY <1>3, <1>1 DEF Places
  <2>2. QED
    BY <1>2, <1>3, <2>1 DEF size
<1>6. ASSUME NEW n \in d + 1 .. Len(b) + 1 PROVE p[n] \in Nat /\ size <= p[n]
  <2>1. n \in d .. Len(b) + 1 /\ d + 1 <= n
    OBVIOUS
  <2>2. p[n] \in Nat /\ p[d + 1] <= p[n]
    BY <1>3, <1>1, <2>1 DEF Places
  <2>3. QED
    BY <1>5, <2>2
<1> DEFINE q == [n \in d + 1 .. Len(b) + 1 |-> p[n] - size]
<1>7. q \in [d + 1 .. Len(b) + 1 -> Nat]
  BY <1>4, <1>6
<1>8. \A n \in d + 1 .. Len(b) + 1 : q[n] = p[n] - size
  OBVIOUS
<1> HIDE DEF q
<1>9. ASSUME NEW n \in d + 1 .. Len(b) + 1
      PROVE  q[n] = p[n] - size /\ p[n] \in Nat /\ q[n] \in Nat
  BY <1>6, <1>7, <1>8
<1>10. q[d + 1] = 0 /\ q[Len(b) + 1] = Len(t)
  <2>1. p[Len(b) + 1] = Len(r) /\ Len(t) = Len(r) - size
    BY <1>1 DEF Places, size
  <2>2. q[d + 1] = p[d + 1] - size /\ q[Len(b) + 1] = p[Len(b) + 1] - size
    BY <1>3, <1>8
  <2>3. QED
    BY <1>4, <1>5, <2>1, <2>2
<1>11. ASSUME NEW n \in d + 1 .. Len(b)
      PROVE  q[n + 1] = q[n] + FRAME_HEADER_SIZE + b[n].length
  <2>1. p[n + 1] = p[n] + FRAME_HEADER_SIZE + b[n].length
    BY <1>3, <1>1 DEF Places
  <2>2. n \in d + 1 .. Len(b) + 1 /\ n + 1 \in d + 1 .. Len(b) + 1
    BY <1>3
  <2>3. /\ q[n + 1] = p[n + 1] - size /\ p[n + 1] \in Nat
        /\ q[n] = p[n] - size /\ p[n] \in Nat
    BY <1>9, <2>2
  <2>4. b[n].length \in Nat /\ FRAME_HEADER_SIZE \in Nat
    BY <1>2, <1>3
  <2>5. p[n + 1] - size = (p[n] - size) + FRAME_HEADER_SIZE + b[n].length
    <3> DEFINE x == p[n]
               y == p[n + 1]
               l == b[n].length
    <3>1. y = x + FRAME_HEADER_SIZE + l
      BY <2>1
    <3>2. x \in Nat /\ y \in Nat /\ l \in Nat /\ FRAME_HEADER_SIZE \in Nat
      BY <2>3, <2>4
    <3> HIDE DEF x, y, l
    <3>3. y - size = (x - size) + FRAME_HEADER_SIZE + l
      BY <1>4, <3>1, <3>2, Shifted
    <3>4. QED
      BY <3>3 DEF x, y, l
  <2>6. QED
    BY <2>3, <2>5, Zenon
<1>12. ASSUME NEW m \in d + 1 .. Len(b) + 1, NEW n \in d + 1 .. Len(b) + 1, m <= n
      PROVE  q[m] <= q[n]
  <2>1. p[m] <= p[n]
    BY <1>1, <1>12 DEF Places
  <2>2. /\ q[m] = p[m] - size /\ p[m] \in Nat
        /\ q[n] = p[n] - size /\ p[n] \in Nat
    BY <1>9
  <2>3. QED
    BY <1>4, <2>1, <2>2
<1>13. ASSUME NEW n \in d + 1 .. Len(b), NEW k \in 1 .. FRAME_HEADER_SIZE + b[n].length
       PROVE  t[q[n] + k] = <<n, k>>
  <2>1. r[p[n] + k] = <<n, k>>
    BY <1>3, <1>1, Zenon DEF Places
  <2>2. b[n].length \in Nat /\ FRAME_HEADER_SIZE \in Nat
    BY <1>2, <1>3
  <2>3. q[n + 1] <= q[Len(b) + 1] /\ q[n] \in Nat
    <3>1. /\ n \in d + 1 .. Len(b) + 1 /\ n + 1 \in d + 1 .. Len(b) + 1
          /\ Len(b) + 1 \in d + 1 .. Len(b) + 1 /\ n + 1 <= Len(b) + 1
      BY <1>2, <1>3
    <3>2. QED
      BY <1>9, <1>12, <3>1
  <2>4. q[n] + k \in 1 .. Len(t)
    <3>1. k \in Nat /\ 1 <= k /\ k <= FRAME_HEADER_SIZE + b[n].length
      BY <2>2
    <3>2. q[n] + (FRAME_HEADER_SIZE + b[n].length) <= Len(t)
      <4>1. q[n] + FRAME_HEADER_SIZE + b[n].length <= Len(t)
        BY <1>10, <1>11, <2>3
      <4>2. QED
        BY <2>2, <2>3, <4>1
    <3>3. FRAME_HEADER_SIZE + b[n].length \in Nat /\ Len(t) \in Nat
      BY <2>2
    <3>4. QED
      BY <2>3, <3>1, <3>2, <3>3, Within, Zenon
  <2>5. t[q[n] + k] = r[size + (q[n] + k)]
    BY <2>4 DEF size
  <2>6. size + (q[n] + k) = p[n] + k
    <3>1. q[n] = p[n] - size /\ p[n] \in Nat /\ k \in Nat
      BY <1>9, <1>3, <2>2
    <3>2. QED
      BY <1>4, <3>1
  <2>7. QED
    BY <2>1, <2>5, <2>6
<1>14. Places(b, d + 1, t, q)
  BY <1>7, <1>10, <1>11, <1>12, <1>13 DEF Places
<1>15. QED
  BY <1>14 DEF Framed
\* With a frame more in the book, and its bytes behind the others.
LEMMA FramedMore ==
    ASSUME NEW b \in Seq(Book), NEW d \in 1 .. Len(b) + 1, NEW S, NEW r \in Seq(S),
           Framed(b, d, r), NEW f \in Book, NEW t \in Seq(S),
           Len(t) = Len(r) + (FRAME_HEADER_SIZE + f.length),
           \A i \in 1 .. Len(r) : t[i] = r[i],
           \A k \in 1 .. FRAME_HEADER_SIZE + f.length :
              t[Len(r) + k] = <<Len(b) + 1, k>>
    PROVE  Framed(Append(b, f), d, t)
<1> DEFINE c == Append(b, f)
<1>1. PICK p : Places(b, d, r, p)
  BY DEF Framed
<1>2. /\ c \in Seq(Book) /\ Len(c) = Len(b) + 1 /\ c[Len(b) + 1] = f
      /\ \A n \in 1 .. Len(b) : c[n] = b[n]
  OBVIOUS
<1> HIDE DEF c
<1>3. /\ Len(b) \in Nat /\ Len(r) \in Nat /\ Len(t) \in Nat /\ f.length \in Nat
      /\ FRAME_HEADER_SIZE \in Nat /\ \A n \in 1 .. Len(b) : b[n].length \in Nat
  <2>1. f.length \in Nat
    BY LengthsAssumption DEF Book
  <2>2. Len(r) \in Nat /\ Len(t) \in Nat
    OBVIOUS
  <2>3. QED
    BY <2>1, <2>2, BookSizes
<1>4. p[Len(b) + 1] = Len(r)
  BY <1>1 DEF Places
<1> DEFINE q == [n \in d .. Len(c) + 1 |-> IF n = Len(c) + 1 THEN Len(t) ELSE p[n]]
<1>5. \A n \in d .. Len(c) + 1 : q[n] = IF n = Len(c) + 1 THEN Len(t) ELSE p[n]
  OBVIOUS
<1>6. ASSUME NEW n \in d .. Len(b) + 1
      PROVE  n \in d .. Len(c) + 1 /\ q[n] = p[n] /\ p[n] \in Nat /\ p[n] <= Len(r)
  <2>1. n \in d .. Len(c) + 1 /\ n # Len(c) + 1
    BY <1>2, <1>3
  <2>2. Len(b) + 1 \in d .. Len(b) + 1 /\ n <= Len(b) + 1
    BY <1>3
  <2>3. p[n] \in Nat /\ p[n] <= p[Len(b) + 1]
    BY <1>1, <2>2 DEF Places
  <2>4. QED
    BY <1>4, <1>5, <2>1, <2>3
<1>7. /\ d \in d .. Len(b) + 1 /\ Len(b) + 1 \in d .. Len(b) + 1
      /\ Len(c) + 1 \in d .. Len(c) + 1
  BY <1>2, <1>3
<1>8. q[Len(c) + 1] = Len(t)
  BY <1>5, <1>7
<1>9. \A n \in d .. Len(c) + 1 : n \in d .. Len(b) + 1 \/ n = Len(c) + 1
  BY <1>2, <1>3
<1>10. \A n \in d .. Len(c) : n \in d .. Len(b) \/ n = Len(b) + 1
  BY <1>2, <1>3
<1>11. q \in [d .. Len(c) + 1 -> Nat]
  <2>1. \A n \in d .. Len(c) + 1 : q[n] \in Nat
    BY <1>3, <1>6, <1>8, <1>9
  <2>2. QED
    BY <2>1
<1> HIDE DEF q
<1>12. q[d] = 0
  <2>1. p[d] = 0
    BY <1>1 DEF Places
  <2>2. QED
    BY <1>6, <1>7, <2>1
<1>13. ASSUME NEW n \in d .. Len(c)
       PROVE  q[n + 1] = q[n] + FRAME_HEADER_SIZE + c[n].length
  <2>1. CASE n \in d .. Len(b)
    <3>1. n + 1 \in d .. Len(b) + 1 /\ n \in d .. Len(b) + 1 /\ n \in 1 .. Len(b)
      BY <1>3, <2>1
    <3>2. p[n + 1] = p[n] + FRAME_HEADER_SIZE + b[n].length
      BY <1>1, <2>1 DEF Places
    <3>3. q[n + 1] = p[n + 1] /\ q[n] = p[n] /\ c[n] = b[n]
      BY <1>2, <1>6, <3>1
    <3>4. QED
      BY <3>2, <3>3
  <2>2. CASE n = Len(b) + 1
    <3>1. q[n] = Len(r) /\ c[n] = f /\ n + 1 = Len(c) + 1
      BY <1>2, <1>4, <1>6, <1>7, <2>2
    <3>2. QED
      BY <1>3, <1>8, <3>1
  <2>3. QED
    BY <1>10, <2>1, <2>2
<1>14. ASSUME NEW m \in d .. Len(c) + 1, NEW n \in d .. Len(c) + 1, m <= n
       PROVE  q[m] <= q[n]
  <2>1. CASE n \in d .. Len(b) + 1
    <3>1. m \in d .. Len(b) + 1
      BY <1>3, <1>14, <2>1
    <3>2. p[m] <= p[n]
      BY <1>1, <1>14, <2>1, <3>1 DEF Places
    <3>3. QED
      BY <1>6, <2>1, <3>1, <3>2
  <2>2. CASE n = Len(c) + 1
    <3>1. CASE m \in d .. Len(b) + 1
      <4>1. q[m] \in Nat /\ q[m] <= Len(r)
        BY <1>6, <3>1
      <4>2. QED
        BY <1>3, <1>8, <2>2, <4>1
    <3>2. CASE m = Len(c) + 1
      BY <1>3, <1>8, <2>2, <3>2
    <3>3. QED
      BY <1>9, <3>1, <3>2
  <2>3. QED
    BY <1>9, <2>1, <2>2
<1>15. ASSUME NEW n \in d .. Len(c), NEW k \in 1 .. FRAME_HEADER_SIZE + c[n].length
       PROVE  t[q[n] + k] = <<n, k>>
  <2>1. CASE n \in d .. Len(b)
    <3>1. /\ n + 1 \in d .. Len(b) + 1 /\ n \in d .. Len(b) + 1 /\ n \in 1 .. Len(b)
          /\ n \in d .. Len(c)
      BY <1>3, <2>1
    <3>2. c[n] = b[n] /\ q[n] = p[n] /\ p[n] \in Nat /\ b[n].length \in Nat
      BY <1>2, <1>3, <1>6, <3>1
    <3>3. q[n + 1] = q[n] + FRAME_HEADER_SIZE + c[n].length /\ q[n + 1] <= Len(r)
      BY <1>6, <1>13, <3>1
    <3>4. p[n] + FRAME_HEADER_SIZE + b[n].length <= Len(r)
      BY <3>2, <3>3, Zenon
    <3>5. k \in 1 .. FRAME_HEADER_SIZE + b[n].length
      BY <3>2, Zenon
    <3>6. p[n] + k \in 1 .. Len(r)
      BY <1>3, <3>2, <3>4, <3>5, WithinFrame, Zenon
    <3>7. r[p[n] + k] = <<n, k>>
      BY <1>1, <2>1, <3>5, Zenon DEF Places
    <3>8. QED
      BY <3>2, <3>6, <3>7
  <2>2. CASE n = Len(b) + 1
    <3>1. q[n] = Len(r) /\ c[n] = f
      BY <1>2, <1>4, <1>6, <1>7, <2>2
    <3>2. QED
      BY <2>2, <3>1
  <2>3. QED
    BY <1>10, <2>1, <2>2
<1>16. Places(c, d, t, q)
  BY <1>8, <1>11, <1>12, <1>13, <1>14, <1>15 DEF Places
<1>17. QED
  BY <1>16 DEF Framed, c

------------------------------------------------------------------------------
(***************************************************************************)
(* Types.  They include that the book is within its bound, which is what   *)
(* makes the number of a frame a FrameNo.                                  *)
(***************************************************************************)
FeedTypes == TypeOK /\ Len(book) <= MaxFrames

Frame == [no : FrameNo \cup {Garbled}, length : Lengths \cup {0}, ok : BOOLEAN]

LEMMA HeaderAt ==
    ASSUME NEW no
    PROVE  /\ Header(no) \in Seq({no} \X Nat) /\ Len(Header(no)) = FRAME_HEADER_SIZE
           /\ \A i \in 1 .. FRAME_HEADER_SIZE : Header(no)[i] = <<no, i>>
           /\ Header(no)[1][1] = no
<1>1. FRAME_HEADER_SIZE \in Nat /\ 1 \in Nat /\ 1 <= FRAME_HEADER_SIZE + 1
      /\ FRAME_HEADER_SIZE - 1 + 1 = FRAME_HEADER_SIZE /\ 1 \in 1 .. FRAME_HEADER_SIZE
  BY HeaderAssumption
<1>2. \A i \in 1 .. FRAME_HEADER_SIZE : 1 + i - 1 = i
  BY <1>1
<1>3. /\ Header(no) \in Seq({no} \X Nat)
      /\ Len(Header(no)) = FRAME_HEADER_SIZE - 1 + 1
      /\ \A i \in 1 .. FRAME_HEADER_SIZE - 1 + 1 : Header(no)[i] = <<no, 1 + i - 1>>
  BY <1>1, BytesAt, Zenon DEF Header
<1>4. \A i \in 1 .. FRAME_HEADER_SIZE : Header(no)[i] = <<no, i>>
  BY <1>1, <1>2, <1>3, Zenon
<1>5. Header(no)[1] = <<no, 1>>
  BY <1>1, <1>4, Zenon
<1>6. QED
  BY <1>1, <1>3, <1>4, <1>5

\* The members of the state that are records.
LEMMA Records ==
    ASSUME FeedTypes
    PROVE  /\ book \in Seq(Book) /\ \A no \in 1 .. Len(book) : book[no] \in Book
           /\ current \in Frame /\ current.length \in Nat
<1>1. book \in Seq(Book) /\ current \in Frame
  BY Zenon DEF FeedTypes, TypeOK, Book, Frame
<1>2. current.length \in Lengths \cup {0}
  BY <1>1 DEF Frame
<1>3. \A no \in 1 .. Len(book) : book[no] \in Book
  BY <1>1
<1>4. current.length \in Nat
  <2>1. CASE current.length \in Lengths
    BY <2>1, LengthsAssumption, Zenon
  <2>2. CASE current.length = 0
    BY <2>2
  <2>3. QED
    BY <1>2, <2>1, <2>2
<1>5. QED
  BY <1>1, <1>3, <1>4, Zenon

LEMMA BodyAt ==
    ASSUME FeedTypes, NEW no \in 1 .. Len(book)
    PROVE  /\ Body(no) \in Seq({no} \X Nat) /\ Len(Body(no)) = book[no].length
           /\ \A i \in 1 .. book[no].length : Body(no)[i] = <<no, FRAME_HEADER_SIZE + i>>
<1> DEFINE from == FRAME_HEADER_SIZE + 1
           to == FRAME_HEADER_SIZE + book[no].length
<1>1. book[no].length \in Nat /\ FRAME_HEADER_SIZE \in Nat
  BY Records, BookSizes
<1>2. from \in Nat /\ to \in Nat /\ from <= to + 1 /\ to - from + 1 = book[no].length
  BY <1>1
<1>3. \A i \in 1 .. book[no].length : from + i - 1 = FRAME_HEADER_SIZE + i
  BY <1>1
<1>4. Body(no) = Bytes(no, from, to)
  BY DEF Body
<1> HIDE DEF from, to
<1>5. /\ Bytes(no, from, to) \in Seq({no} \X Nat)
      /\ Len(Bytes(no, from, to)) = to - from + 1
      /\ \A i \in 1 .. to - from + 1 : Bytes(no, from, to)[i] = <<no, from + i - 1>>
  BY <1>2, BytesAt, Zenon
<1>6. QED
  BY <1>2, <1>3, <1>4, <1>5, Zenon

\* What a header is decoded to.
LEMMA DecodeType ==
    ASSUME FeedTypes, NEW bytes, NEW f \in Decode(bytes)
    PROVE  f \in Frame /\ f.length \in Nat
<1>1. ASSUME NEW no \in 1 .. Len(book), bytes = Header(no)
      PROVE  bytes[1][1] = no
  BY <1>1, HeaderAt
<1>2. \A no \in 1 .. Len(book) : no \in FrameNo
  BY FramesAssumption DEF FeedTypes, TypeOK, FrameNo
<1>3. \A no \in 1 .. Len(book) : book[no].length \in Lengths /\ book[no].ok \in BOOLEAN
  <2>1. \A no \in 1 .. Len(book) : book[no] \in Book
    BY Records
  <2>2. QED
    BY <2>1 DEF Book
<1>4. CASE \E no \in 1 .. Len(book) : bytes = Header(no)
  <2>1. PICK no \in 1 .. Len(book) : bytes = Header(no)
    BY <1>4
  <2>2. f = [no |-> no, length |-> book[no].length, ok |-> book[no].ok]
    BY <1>1, <1>4, <2>1 DEF Decode
  <2>3. QED
    BY <1>2, <1>3, <2>2, LengthsAssumption DEF Frame
<1>5. CASE ~\E no \in 1 .. Len(book) : bytes = Header(no)
  BY <1>5, LengthsAssumption DEF Decode, Frame
<1>6. QED
  BY <1>4, <1>5

LEMMA DecodeOwn ==
    ASSUME FeedTypes, NEW no \in 1 .. Len(book), NEW f \in Decode(Header(no))
    PROVE  f = [no |-> no, length |-> book[no].length, ok |-> book[no].ok]
<1>1. Header(no)[1][1] = no
  BY HeaderAt
<1>2. QED
  BY <1>1 DEF Decode

\* How much an iteration of mux_feed takes.
LEMMA TakeFacts ==
    ASSUME FeedTypes
    PROVE  /\ Want \in Nat /\ Take \in 0 .. Len(chunk) /\ Take <= Want
           /\ Take < Want => Take = Len(chunk)
           /\ phase = "MUX_READ_HEADER" => Want = FRAME_HEADER_SIZE - Len(hdr)
           /\ phase = "MUX_READ_PAYLOAD" => Want = current.length - Len(payload)
<1>1. Len(hdr) \in Nat /\ Len(hdr) < FRAME_HEADER_SIZE
      /\ Len(payload) \in Nat /\ Len(payload) <= current.length /\ Len(chunk) \in Nat
  BY DEF FeedTypes, TypeOK
<1>2. FRAME_HEADER_SIZE \in Nat /\ current.length \in Nat
  BY HeaderAssumption, Records
<1>3. /\ phase = "MUX_READ_HEADER" => Want = FRAME_HEADER_SIZE - Len(hdr)
      /\ phase = "MUX_READ_PAYLOAD" => Want = current.length - Len(payload)
      /\ phase \in {"MUX_READ_HEADER", "MUX_READ_PAYLOAD"}
  BY DEF Want, FeedTypes, TypeOK
<1>4. Want \in Nat
  BY <1>1, <1>2, <1>3
<1>5. QED
  BY <1>1, <1>3, <1>4 DEF Take, Smaller

\* What a dispatch does to the types.
LEMMA DispatchTypes ==
    ASSUME FeedTypes, NEW frame \in Frame, NEW body, NEW n \in 0 .. Len(chunk),
           Dispatch(frame, body, n)
    PROVE  /\ chunk' \in Seq(Byte) /\ first' \in 0 .. MaxFrames /\ clean' \in BOOLEAN
           /\ dispatched' \in Seq(FrameNo \cup {Garbled})
<1>1. chunk' \in Seq(Byte)
  BY Cut DEF Dispatch, FeedTypes, TypeOK
<1>2. Seen(frame, body) \in FrameNo \cup {Garbled}
  BY DEF Seen, Frame
<1>3. dispatched' \in Seq(FrameNo \cup {Garbled})
  BY <1>2, AppendProperties DEF Dispatch, FeedTypes, TypeOK
<1>4. QED
  BY <1>1, <1>3 DEF Dispatch, FeedTypes, TypeOK

LEMMA FailTypes ==
    ASSUME FeedTypes, Fail
    PROVE  /\ chunk' \in Seq(Byte) /\ first' \in 0 .. MaxFrames /\ clean' \in BOOLEAN
           /\ dispatched' \in Seq(FrameNo \cup {Garbled})
<1>1. <<>> \in Seq(Byte)
  OBVIOUS
<1>2. QED
  BY <1>1 DEF Fail, FeedTypes, TypeOK

\* The iterations of mux_feed.
LEMMA FeedPartTypes ==
    ASSUME FeedTypes, FeedPart
    PROVE  FeedTypes'
<1>1. /\ Take < Want /\ chunk' = <<>>
      /\ IF phase = "MUX_READ_HEADER"
         THEN hdr' = hdr \o chunk /\ payload' = payload
         ELSE payload' = payload \o chunk /\ hdr' = hdr
      /\ UNCHANGED <<link, phase, current, history>>
  BY DEF FeedPart
<1>2. /\ hdr \in Seq(Byte) /\ payload \in Seq(Byte) /\ chunk \in Seq(Byte)
      /\ Len(hdr) < FRAME_HEADER_SIZE /\ Len(payload) <= current.length
      /\ phase \in {"MUX_READ_HEADER", "MUX_READ_PAYLOAD"}
  BY DEF FeedTypes, TypeOK
<1>3. Len(chunk) < Want
  BY <1>1, TakeFacts
<1>4. FRAME_HEADER_SIZE \in Nat /\ current.length \in Nat
  BY HeaderAssumption, Records
<1>5. /\ hdr' \in Seq(Byte) /\ Len(hdr') < FRAME_HEADER_SIZE
      /\ payload' \in Seq(Byte) /\ Len(payload') <= current.length
  <2>1. CASE phase = "MUX_READ_HEADER"
    <3>1. hdr' \in Seq(Byte) /\ Len(hdr') = Len(hdr) + Len(chunk) /\ payload' = payload
      BY <1>1, <1>2, <2>1, ConcatProperties
    <3>2. Len(chunk) < FRAME_HEADER_SIZE - Len(hdr)
      BY <1>3, <2>1, TakeFacts
    <3>3. Len(hdr) \in Nat /\ Len(chunk) \in Nat
      BY <1>2
    <3>4. Len(hdr') < FRAME_HEADER_SIZE
      BY <1>4, <3>1, <3>2, <3>3
    <3>5. QED
      BY <1>2, <3>1, <3>4
  <2>2. CASE phase = "MUX_READ_PAYLOAD"
    <3>1. /\ payload' \in Seq(Byte) /\ Len(payload') = Len(payload) + Len(chunk)
          /\ hdr' = hdr
      BY <1>1, <1>2, <2>2, ConcatProperties
    <3>2. Len(chunk) < current.length - Len(payload)
      BY <1>3, <2>2, TakeFacts
    <3>3. Len(payload) \in Nat /\ Len(chunk) \in Nat
      BY <1>2
    <3>4. Len(payload') <= current.length
      BY <1>4, <3>1, <3>2, <3>3
    <3>5. QED
      BY <1>2, <3>1, <3>4
  <2>3. QED
    BY <1>2, <2>1, <2>2
<1>6. chunk' \in Seq(Byte)
  BY <1>1
<1>7. QED
  BY <1>1, <1>5, <1>6 DEF FeedTypes, TypeOK, Byte, FrameNo, link, history

LEMMA FeedHeaderTypes ==
    ASSUME FeedTypes, FeedHeader
    PROVE  FeedTypes'
<1>1. /\ hdr' = <<>> /\ payload' = <<>> /\ UNCHANGED link
      /\ current' \in Decode(hdr \o First(chunk, Take))
      /\ \/ Dispatch(current', <<>>, Take) /\ phase' = phase
         \/ Fail /\ phase' = phase
         \/ /\ phase' = "MUX_READ_PAYLOAD" /\ chunk' = Rest(chunk, Take)
            /\ UNCHANGED history
  BY DEF FeedHeader
<1>2. current' \in Frame /\ current'.length \in Nat
  BY <1>1, DecodeType
<1>3. <<>> \in Seq(Byte) /\ Len(<<>>) = 0
  OBVIOUS
<1>4. /\ hdr' \in Seq(Byte) /\ Len(hdr') < FRAME_HEADER_SIZE
      /\ payload' \in Seq(Byte) /\ Len(payload') <= current'.length
  BY <1>1, <1>2, <1>3, HeaderAssumption
<1>5. phase' \in {"MUX_READ_HEADER", "MUX_READ_PAYLOAD"}
  BY <1>1 DEF FeedTypes, TypeOK
<1>6. /\ chunk' \in Seq(Byte) /\ first' \in 0 .. MaxFrames /\ clean' \in BOOLEAN
      /\ dispatched' \in Seq(FrameNo \cup {Garbled})
  <2>1. CASE Dispatch(current', <<>>, Take)
    BY <1>2, <2>1, TakeFacts, DispatchTypes
  <2>2. CASE Fail
    BY <2>2, FailTypes
  <2>3. CASE chunk' = Rest(chunk, Take) /\ UNCHANGED history
    <3>1. chunk' \in Seq(Byte)
      BY <2>3, TakeFacts, Cut DEF FeedTypes, TypeOK
    <3>2. QED
      BY <2>3, <3>1 DEF FeedTypes, TypeOK, history
  <2>4. QED
    BY <1>1, <2>1, <2>2, <2>3
<1>7. QED
  BY <1>1, <1>2, <1>4, <1>5, <1>6, Zenon
     DEF FeedTypes, TypeOK, Byte, FrameNo, Frame, link

LEMMA FeedPayloadTypes ==
    ASSUME FeedTypes, FeedPayload
    PROVE  FeedTypes'
<1>1. /\ payload' = payload \o First(chunk, Take) /\ Take = Want
      /\ phase = "MUX_READ_PAYLOAD" /\ UNCHANGED <<link, hdr, current>>
      /\ \/ Dispatch(current, payload', Take) /\ phase' = "MUX_READ_HEADER"
         \/ Fail /\ phase' = phase
  BY DEF FeedPayload
<1>2. /\ payload \in Seq(Byte) /\ chunk \in Seq(Byte)
      /\ Len(payload) <= current.length /\ Len(payload) \in Nat
  BY DEF FeedTypes, TypeOK
<1>3. First(chunk, Take) \in Seq(Byte) /\ Len(First(chunk, Take)) = Take
  BY <1>2, TakeFacts, Cut
<1>4. payload' \in Seq(Byte) /\ Len(payload') <= current.length
  <2>1. payload' \in Seq(Byte) /\ Len(payload') = Len(payload) + Take
    BY <1>1, <1>2, <1>3, ConcatProperties
  <2>2. Take = current.length - Len(payload)
    BY <1>1, TakeFacts
  <2>3. QED
    BY <1>2, <2>1, <2>2, Records
<1>5. phase' \in {"MUX_READ_HEADER", "MUX_READ_PAYLOAD"}
  BY <1>1
<1>6. /\ chunk' \in Seq(Byte) /\ first' \in 0 .. MaxFrames /\ clean' \in BOOLEAN
      /\ dispatched' \in Seq(FrameNo \cup {Garbled})
  <2>1. CASE Dispatch(current, payload', Take)
    BY <2>1, TakeFacts, DispatchTypes, Records
  <2>2. CASE Fail
    BY <2>2, FailTypes
  <2>3. QED
    BY <1>1, <2>1, <2>2
<1>7. QED
  BY <1>1, <1>4, <1>5, <1>6, Zenon
     DEF FeedTypes, TypeOK, Byte, FrameNo, link

\* The channel and the phone.
LEMMA LinkTypes ==
    ASSUME FeedTypes,
           \/ \E n \in 1 .. Smaller(MaxPacket, Len(wire)) : Packet(n)
           \/ ChannelOpened \/ ChannelClosed
           \/ \E length \in Lengths, ok \in BOOLEAN : PhoneWrites(length, ok)
    PROVE  FeedTypes'
<1>1. ASSUME NEW n \in 1 .. Smaller(MaxPacket, Len(wire)), Packet(n)
      PROVE  FeedTypes'
  <2>1. wire \in Seq(Byte) /\ Len(wire) \in Nat
    BY DEF FeedTypes, TypeOK
  <2>2. n \in 0 .. Len(wire)
    BY <2>1, PacketAssumption DEF Smaller
  <2>3. chunk' \in Seq(Byte) /\ wire' \in Seq(Byte)
    BY <1>1, <2>1, <2>2, Cut DEF Packet
  <2>4. QED
    BY <1>1, <2>3, Zenon DEF Packet, FeedTypes, TypeOK, Byte, FrameNo, parser, history
<1>2. CASE ChannelOpened
  <2>1. <<>> \in Seq(FrameNo \cup {Garbled}) /\ Len(book) \in 0 .. MaxFrames
    BY FramesAssumption, Records DEF FeedTypes
  <2>2. channels' \in 0 .. MaxChannels
    <3>1. channels \in 0 .. MaxChannels /\ channels < MaxChannels /\ channels' = channels + 1
      BY <1>2, Zenon DEF ChannelOpened, FeedTypes, TypeOK
    <3>2. QED
      BY <3>1, ChannelsAssumption
  <2>3. up' \in BOOLEAN
    BY <1>2 DEF ChannelOpened
  <2>4. QED
    BY <1>2, <2>1, <2>2, <2>3, Zenon
       DEF ChannelOpened, FeedTypes, TypeOK, Byte, FrameNo, parser
<1>3. CASE ChannelClosed
  <2>1. <<>> \in Seq(Byte)
    OBVIOUS
  <2>2. clean' \in BOOLEAN /\ up' \in BOOLEAN
    BY <1>3, Zenon DEF ChannelClosed
  <2>3. QED
    BY <1>3, <2>1, <2>2, Zenon DEF ChannelClosed, FeedTypes, TypeOK, Byte, FrameNo, parser
<1>4. ASSUME NEW length \in Lengths, NEW ok \in BOOLEAN, PhoneWrites(length, ok)
      PROVE  FeedTypes'
  <2> DEFINE f == [length |-> length, ok |-> ok]
  <2>1. f \in Book
    BY DEF Book
  <2> HIDE DEF f
  <2>2. book' = Append(book, f) /\ Len(book) < MaxFrames
    BY <1>4 DEF PhoneWrites, f
  <2>3. book' \in Seq(Book) /\ Len(book') = Len(book) + 1 /\ Len(book) \in Nat
    BY <2>1, <2>2, Records, AppendProperties
  <2>4. Len(book') <= MaxFrames /\ Len(book') \in FrameNo
    BY <2>2, <2>3, FramesAssumption DEF FrameNo
  <2>5. wire' \in Seq(Byte)
    <3>1. FRAME_HEADER_SIZE + length \in Nat /\ 1 \in Nat
          /\ 1 <= FRAME_HEADER_SIZE + length + 1
      BY HeaderAssumption, LengthsAssumption
    <3>2. Bytes(Len(book'), 1, FRAME_HEADER_SIZE + length) \in Seq({Len(book')} \X Nat)
      BY <3>1, BytesAt, Zenon
    <3>3. Bytes(Len(book'), 1, FRAME_HEADER_SIZE + length) \in Seq(Byte)
      <4>1. {Len(book')} \X Nat \subseteq Byte
        BY <2>4 DEF Byte
      <4>2. QED
        BY <3>2, <4>1
    <3>4. wire \in Seq(Byte)
      BY DEF FeedTypes, TypeOK
    <3>5. QED
      BY <1>4, <3>3, <3>4, ConcatProperties DEF PhoneWrites
  <2>6. QED
    BY <1>4, <2>3, <2>4, <2>5, Zenon
       DEF PhoneWrites, FeedTypes, TypeOK, Byte, FrameNo, Book, parser, history
<1>5. QED
  BY <1>1, <1>2, <1>3, <1>4

\* The types, for packets and frames of any size and any number of both.
LEMMA FeedInit == Init => FeedTypes
<1> SUFFICES ASSUME Init PROVE FeedTypes
  OBVIOUS
<1>1. /\ <<>> \in Seq(Byte) /\ <<>> \in Seq([length : Lengths, ok : BOOLEAN])
      /\ <<>> \in Seq(FrameNo \cup {Garbled}) /\ Len(<<>>) = 0
  OBVIOUS
<1>2. current \in [no : FrameNo \cup {Garbled}, length : Lengths \cup {0}, ok : BOOLEAN]
      /\ current.length = 0
  BY DEF Init
<1>3. 0 \in 0 .. MaxFrames /\ 0 \in 0 .. MaxChannels /\ 0 <= MaxFrames
  BY FramesAssumption, ChannelsAssumption
<1>4. /\ Len(hdr) < FRAME_HEADER_SIZE /\ Len(payload) <= current.length
      /\ Len(book) <= MaxFrames
  BY <1>1, <1>2, <1>3, HeaderAssumption DEF Init
<1>5. QED
  BY <1>1, <1>2, <1>3, <1>4, Zenon DEF Init, FeedTypes, TypeOK

LEMMA FeedTypesStep == FeedTypes /\ [Next]_vars => FeedTypes'
<1> SUFFICES ASSUME FeedTypes, [Next]_vars PROVE FeedTypes'
  OBVIOUS
<1>1. CASE UNCHANGED vars
  BY <1>1, Zenon DEF vars, link, parser, history, FeedTypes, TypeOK, Byte, FrameNo
<1>2. CASE Next
  BY <1>2, FeedPartTypes, FeedHeaderTypes, FeedPayloadTypes, LinkTypes DEF Next
<1>3. QED
  BY <1>1, <1>2

THEOREM FeedTypeCorrect == Spec => []TypeOK
<1>1. FeedTypes => TypeOK
  BY DEF FeedTypes
<1>2. QED
  BY <1>1, FeedInit, FeedTypesStep, PTL DEF Spec

------------------------------------------------------------------------------
(***************************************************************************)
(* The inductive invariant.  The next frame to dispatch is Due.  What the  *)
(* parser holds of it, what mux_feed has not taken and what is on the wire *)
(* are one stream, and that stream is the frames from Due on.  The         *)
(* properties are no invariant without it: they do not say where in a      *)
(* frame the parser is.                                                    *)
(***************************************************************************)
Due == first + Len(dispatched) + 1
Held == IF phase = "MUX_READ_HEADER" THEN hdr ELSE Header(current.no) \o payload
Stream == Held \o (chunk \o wire)

PayloadDue ==
    /\ Due <= Len(book) /\ hdr = <<>>
    /\ current = [no |-> Due, length |-> book[Due].length, ok |-> book[Due].ok]
    /\ Len(payload) < current.length

Sound ==
    /\ Due <= Len(book) + 1
    /\ FramesInOrder
    /\ phase = "MUX_READ_PAYLOAD" => PayloadDue
    /\ IF up THEN Framed(book, Due, Stream)
             ELSE /\ phase = "MUX_READ_HEADER"
                  /\ hdr = <<>> /\ chunk = <<>> /\ wire = <<>>

FeedInv == FeedTypes /\ (clean => Sound)

\* How the stream may be grouped.
LEMMA Joined == \A S : \A a, b \in Seq(S) : a \o b \in Seq(S)
  BY ConcatProperties

Associates(a, b, c) == (a \o b) \o c = a \o (b \o c)

LEMMA Associative ==
    ASSUME NEW S, NEW a \in Seq(S), NEW b \in Seq(S), NEW c \in Seq(S)
    PROVE  Associates(a, b, c)
<1>1. (a \o b) \o c = a \o (b \o c)
  BY ConcatAssociative
<1>2. QED
  BY <1>1, Zenon DEF Associates

NothingBefore(c) == <<>> \o c = c

LEMMA EmptyBefore ==
    ASSUME NEW S, NEW c \in Seq(S)
    PROVE  NothingBefore(c)
  BY ConcatEmptySeq DEF NothingBefore

Regroups(a, f, t, c) == a \o ((f \o t) \o c) = (a \o f) \o (t \o c)

LEMMA Regrouped ==
    ASSUME NEW S, NEW a \in Seq(S), NEW f \in Seq(S), NEW t \in Seq(S), NEW c \in Seq(S)
    PROVE  Regroups(a, f, t, c)
<1>1. t \o c \in Seq(S)
  BY Joined, Zenon
<1>2. Associates(f, t, c) /\ Associates(a, f, t \o c)
  BY <1>1, Associative
<1>3. QED
  BY <1>2, Zenon DEF Regroups, Associates

CutsThere(a, s, c, n) == a \o (s \o c) = (a \o First(s, n)) \o (Rest(s, n) \o c)

LEMMA CutThere ==
    ASSUME NEW S, NEW a \in Seq(S), NEW s \in Seq(S), NEW c \in Seq(S),
           NEW n \in 0 .. Len(s)
    PROVE  CutsThere(a, s, c, n)
<1>1. First(s, n) \in Seq(S) /\ Rest(s, n) \in Seq(S) /\ First(s, n) \o Rest(s, n) = s
  BY Cut
<1>2. First(s, n) \in Seq(S) /\ Rest(s, n) \in Seq(S)
  BY <1>1
<1>3. Regroups(a, First(s, n), Rest(s, n), c)
  BY <1>2, Regrouped
<1>4. QED
  BY <1>1, <1>3, Zenon DEF Regroups, CutsThere

\* The numbers and the parts of the stream.
LEMMA Numbers ==
    ASSUME FeedTypes
    PROVE  /\ first \in Nat /\ Len(dispatched) \in Nat /\ Len(book) \in Nat
           /\ Due \in Nat /\ Due >= 1
           /\ Due <= Len(book) => Due \in 1 .. Len(book) /\ Due \in FrameNo
           /\ Due <= Len(book) + 1 => Due \in 1 .. Len(book) + 1
<1>1. first \in Nat /\ Len(dispatched) \in Nat
  BY FramesAssumption DEF FeedTypes, TypeOK
<1>2. Len(book) \in Nat /\ Len(book) <= MaxFrames
  BY Records DEF FeedTypes
<1>3. Due \in Nat /\ Due >= 1
  BY <1>1 DEF Due
<1>4. QED
  BY <1>1, <1>2, <1>3, FramesAssumption DEF FrameNo

LEMMA Parts ==
    ASSUME FeedTypes
    PROVE  /\ hdr \in Seq(Byte) /\ Len(hdr) \in Nat /\ Len(hdr) < FRAME_HEADER_SIZE
           /\ payload \in Seq(Byte) /\ Len(payload) \in Nat
           /\ chunk \in Seq(Byte) /\ wire \in Seq(Byte) /\ chunk \o wire \in Seq(Byte)
           /\ \A no \in FrameNo : Header(no) \in Seq(Byte)
<1>1. \A no \in FrameNo : Header(no) \in Seq(Byte)
  <2> TAKE no \in FrameNo
  <2>1. {no} \X Nat \subseteq Byte
    BY DEF Byte
  <2>2. Header(no) \in Seq({no} \X Nat)
    BY HeaderAt
  <2>3. QED
    BY <2>1, <2>2
<1>2. chunk \in Seq(Byte) /\ wire \in Seq(Byte)
  BY DEF FeedTypes, TypeOK
<1>3. chunk \o wire \in Seq(Byte)
  BY <1>2, ConcatProperties
<1>4. /\ hdr \in Seq(Byte) /\ Len(hdr) \in Nat /\ Len(hdr) < FRAME_HEADER_SIZE
      /\ payload \in Seq(Byte) /\ Len(payload) \in Nat
  BY DEF FeedTypes, TypeOK
<1>5. QED
  BY <1>1, <1>2, <1>3, <1>4

LEMMA StreamSeq ==
    ASSUME FeedTypes, Sound
    PROVE  /\ Held \in Seq(Byte) /\ Stream \in Seq(Byte)
           /\ Len(Stream) = Len(Held) + Len(chunk \o wire)
           /\ \A i \in 1 .. Len(Held) : Stream[i] = Held[i]
<1>1. Held \in Seq(Byte)
  <2>1. CASE phase = "MUX_READ_HEADER"
    BY <2>1, Parts DEF Held
  <2>2. CASE phase = "MUX_READ_PAYLOAD"
    <3>1. current.no = Due /\ Due \in FrameNo
      BY <2>2, Numbers DEF Sound, PayloadDue
    <3>2. Header(current.no) \o payload \in Seq(Byte)
      BY <3>1, Parts, ConcatProperties
    <3>3. QED
      BY <2>2, <3>2 DEF Held
  <2>3. QED
    BY <2>1, <2>2 DEF FeedTypes, TypeOK
<1>2. /\ Held \o (chunk \o wire) \in Seq(Byte)
      /\ Len(Held \o (chunk \o wire)) = Len(Held) + Len(chunk \o wire)
      /\ \A i \in 1 .. Len(Held) + Len(chunk \o wire) :
            (Held \o (chunk \o wire))[i]
               = IF i <= Len(Held) THEN Held[i] ELSE (chunk \o wire)[i - Len(Held)]
  <2> HIDE DEF Held
  <2>1. chunk \o wire \in Seq(Byte)
    BY Parts
  <2>2. QED
    BY <1>1, <2>1, ConcatProperties
<1> HIDE DEF Held
<1>3. Len(Held) \in Nat /\ Len(chunk \o wire) \in Nat
  BY <1>1, Parts
<1>4. ASSUME NEW i \in 1 .. Len(Held) PROVE (Held \o (chunk \o wire))[i] = Held[i]
  BY <1>2, <1>3
<1>5. QED
  BY <1>1, <1>2, <1>4, Zenon DEF Stream

------------------------------------------------------------------------------
(***************************************************************************)
(* Every step that leaves the session clean keeps the stream sound.        *)
(***************************************************************************)
\* While nothing of the state behind it changes, the order stays as it is.
LEMMA OrderStays ==
    ASSUME UNCHANGED <<first, dispatched>>, FramesInOrder
    PROVE  Due' = Due /\ FramesInOrder'
  BY DEF Due, FramesInOrder

LEMMA PartSound ==
    ASSUME FeedInv, FeedPart, clean'
    PROVE  Sound'
<1>1. /\ ~Idle /\ Take < Want /\ chunk' = <<>>
      /\ IF phase = "MUX_READ_HEADER"
         THEN hdr' = hdr \o chunk /\ payload' = payload
         ELSE payload' = payload \o chunk /\ hdr' = hdr
      /\ UNCHANGED <<up, book, wire, phase, current, dispatched, first, clean>>
  BY DEF FeedPart, link, history
<1>2. FeedTypes /\ Sound /\ up
  BY <1>1 DEF FeedInv, Sound, Idle
<1>3. Due' = Due /\ FramesInOrder'
  BY <1>1, <1>2, OrderStays DEF Sound
<1>4. NothingBefore(wire) /\ phase \in {"MUX_READ_HEADER", "MUX_READ_PAYLOAD"}
  BY <1>2, Parts, EmptyBefore DEF FeedTypes, TypeOK
<1>5. CASE phase = "MUX_READ_HEADER"
  <2>1. Held = hdr /\ Held' = hdr \o chunk
    BY <1>1, <1>5 DEF Held
  <2>2. Associates(hdr, chunk, wire)
    BY <1>2, Parts, Associative
  <2>3. Stream' = Stream
    BY <1>1, <1>4, <2>1, <2>2, Zenon DEF Stream, Associates, NothingBefore
  <2>4. QED
    BY <1>1, <1>2, <1>3, <1>5, <2>3 DEF Sound
<1>6. CASE phase = "MUX_READ_PAYLOAD"
  <2> DEFINE h == Header(current.no)
  <2>1. PayloadDue
    BY <1>2, <1>6 DEF Sound
  <2>2. h \in Seq(Byte)
    <3>1. current.no = Due /\ Due \in FrameNo
      BY <1>2, <2>1, Numbers DEF PayloadDue
    <3>2. QED
      BY <1>2, <3>1, Parts
  <2>3. Held = h \o payload /\ Held' = h \o (payload \o chunk)
    BY <1>1, <1>6 DEF Held, Header
  <2> HIDE DEF h
  <2>4. h \o payload \in Seq(Byte)
    BY <1>2, <2>2, Parts, Joined, Zenon
  <2>5. Associates(h, payload, chunk) /\ Associates(h \o payload, chunk, wire)
    BY <1>2, <2>2, <2>4, Parts, Associative
  <2>6. Stream' = Stream
    BY <1>1, <1>4, <2>3, <2>5, Zenon DEF Stream, Associates, NothingBefore
  <2>7. PayloadDue'
    <3>1. Len(payload') = Len(payload) + Len(chunk)
      BY <1>1, <1>2, <1>6, Parts, ConcatProperties
    <3>2. Len(chunk) < current.length - Len(payload)
      BY <1>1, <1>2, <1>6, TakeFacts
    <3>3. Len(payload) \in Nat /\ Len(chunk) \in Nat /\ current.length \in Nat
      BY <1>2, Parts, Records
    <3>4. Len(payload') < current.length
      BY <3>1, <3>2, <3>3
    <3>5. hdr' = <<>>
      BY <1>1, <1>6, <2>1 DEF PayloadDue
    <3>6. QED
      BY <1>1, <1>3, <2>1, <3>4, <3>5 DEF PayloadDue
  <2>8. QED
    BY <1>1, <1>2, <1>3, <1>6, <2>6, <2>7 DEF Sound
<1>7. QED
  BY <1>4, <1>5, <1>6

\* A dispatched frame is the one that was due.
LEMMA OrderGrows ==
    ASSUME FeedTypes, FramesInOrder, dispatched' = Append(dispatched, Due), first' = first
    PROVE  Due' = Due + 1 /\ FramesInOrder'
<1>1. /\ Len(dispatched) \in Nat /\ first \in Nat
      /\ dispatched \in Seq(FrameNo \cup {Garbled})
  BY Numbers DEF FeedTypes, TypeOK
<1>2. /\ Len(dispatched') = Len(dispatched) + 1
      /\ dispatched'[Len(dispatched) + 1] = Due
      /\ \A i \in 1 .. Len(dispatched) : dispatched'[i] = dispatched[i]
  BY <1>1
<1>3. Due' = Due + 1
  BY <1>1, <1>2 DEF Due
<1>4. ASSUME NEW i \in DOMAIN dispatched' PROVE dispatched'[i] = first' + i
  <2>1. i \in 1 .. Len(dispatched) \/ i = Len(dispatched) + 1
    <3>1. DOMAIN dispatched' = 1 .. Len(dispatched) + 1
      BY <1>1, <1>2
    <3>2. QED
      BY <1>1, <3>1
  <2>2. CASE i \in 1 .. Len(dispatched)
    BY <1>1, <1>2, <2>2 DEF FramesInOrder
  <2>3. CASE i = Len(dispatched) + 1
    BY <1>1, <1>2, <2>3 DEF Due
  <2>4. QED
    BY <2>1, <2>2, <2>3
<1>5. QED
  BY <1>3, <1>4 DEF FramesInOrder

LEMMA JoinedAt ==
    ASSUME NEW S, NEW a \in Seq(S), NEW b \in Seq(S)
    PROVE  /\ a \o b \in Seq(S) /\ Len(a \o b) = Len(a) + Len(b)
           /\ \A i \in 1 .. Len(a) : (a \o b)[i] = a[i]
           /\ \A i \in 1 .. Len(b) : (a \o b)[Len(a) + i] = b[i]
<1>1. /\ Len(a) \in Nat /\ Len(b) \in Nat /\ a \o b \in Seq(S)
      /\ Len(a \o b) = Len(a) + Len(b)
      /\ \A i \in 1 .. Len(a) + Len(b) :
            (a \o b)[i] = IF i <= Len(a) THEN a[i] ELSE b[i - Len(a)]
  BY ConcatProperties
<1>2. ASSUME NEW i \in 1 .. Len(a) PROVE (a \o b)[i] = a[i]
  BY <1>1
<1>3. ASSUME NEW i \in 1 .. Len(b) PROVE (a \o b)[Len(a) + i] = b[i]
  <2>1. /\ Len(a) + i \in 1 .. Len(a) + Len(b) /\ ~(Len(a) + i <= Len(a))
        /\ Len(a) + i - Len(a) = i
    BY <1>1
  <2>2. QED
    BY <1>1, <2>1
<1>4. QED
  BY <1>1, <1>2, <1>3

BehindIt(a, b) == \A i \in 1 .. Len(b) : (a \o b)[Len(a) + i] = b[i]

LEMMA Behind ==
    ASSUME NEW S, NEW a \in Seq(S), NEW b \in Seq(S)
    PROVE  BehindIt(a, b)
  BY JoinedAt DEF BehindIt

\* A stream with bytes in it begins with the frame that is due.
LEMMA DueFirst ==
    ASSUME FeedTypes, Sound, up, NEW a \in Seq(Byte), NEW r \in Seq(Byte),
           Stream = a \o r, Len(a) > 0
    PROVE  /\ Due \in 1 .. Len(book) /\ Due \in FrameNo /\ book[Due].length \in Nat
           /\ FRAME_HEADER_SIZE + book[Due].length <= Len(a) + Len(r)
           /\ \A k \in 1 .. FRAME_HEADER_SIZE + book[Due].length :
                 k \in 1 .. Len(a) => a[k] = <<Due, k>>
<1>1. /\ Stream \in Seq(Byte) /\ Len(Stream) = Len(a) + Len(r)
      /\ \A i \in 1 .. Len(a) : Stream[i] = a[i]
  BY JoinedAt
<1>2. /\ Len(a) \in Nat /\ Len(r) \in Nat /\ Len(Stream) # 0
      /\ Stream \in Seq(Byte)
  BY <1>1
<1>3. Due \in 1 .. Len(book) + 1 /\ book \in Seq(Book) /\ Framed(book, Due, Stream)
  BY Numbers, Records DEF Sound
<1> HIDE DEF Due, Stream
<1>4. Begins(book, Due, Stream)
  BY <1>2, <1>3, FramedFirst
<1>5. Due <= Len(book) /\ Due \in 1 .. Len(book)
  BY <1>2, <1>3, <1>4, Numbers DEF Begins
<1>6. Due \in FrameNo /\ book[Due].length \in Nat
  BY <1>3, <1>5, Numbers, BookSizes
<1>7. ASSUME NEW k \in 1 .. FRAME_HEADER_SIZE + book[Due].length, k \in 1 .. Len(a)
      PROVE  a[k] = <<Due, k>>
  BY <1>1, <1>4, <1>5, <1>7, Zenon DEF Begins
<1>8. FRAME_HEADER_SIZE + book[Due].length <= Len(a) + Len(r)
  BY <1>1, <1>4, <1>5, Zenon DEF Begins
<1>9. QED
  BY <1>5, <1>6, <1>7, <1>8, Zenon

\* Dispatching it leaves the rest of the stream sound.
LEMMA DueGone ==
    ASSUME FeedTypes, Sound, up, NEW a \in Seq(Byte), NEW r \in Seq(Byte),
           Stream = a \o r, Len(a) > 0,
           Len(a) = FRAME_HEADER_SIZE + book[Due].length
    PROVE  Framed(book, Due + 1, r)
<1>1. Due \in 1 .. Len(book) /\ book \in Seq(Book) /\ Framed(book, Due, Stream)
  BY DueFirst, Records DEF Sound
<1>2. /\ Stream \in Seq(Byte) /\ Len(Stream) = Len(a) + Len(r)
      /\ \A i \in 1 .. Len(r) : Stream[Len(a) + i] = r[i]
  <2>1. Stream \in Seq(Byte) /\ Len(Stream) = Len(a) + Len(r)
    BY JoinedAt
  <2>2. BehindIt(a, r)
    BY Behind
  <2>3. QED
    BY <2>1, <2>2, Zenon DEF BehindIt
<1> HIDE DEF Due, Stream
<1>3. Len(a) \in Nat /\ Len(r) \in Nat
  OBVIOUS
<1>4. Len(r) = Len(Stream) - (FRAME_HEADER_SIZE + book[Due].length)
  BY <1>2, <1>3
<1>5. \A i \in 1 .. Len(r) : r[i] = Stream[FRAME_HEADER_SIZE + book[Due].length + i]
  BY <1>2, Zenon
<1>6. QED
  BY <1>1, <1>2, <1>4, <1>5, FramedNext

LEMMA HeaderSound ==
    ASSUME FeedInv, FeedHeader, clean'
    PROVE  Sound'
<1> DEFINE f == First(chunk, Take)
           t == Rest(chunk, Take)
           a == hdr \o f
           r == t \o wire
<1>1. /\ ~Idle /\ phase = "MUX_READ_HEADER" /\ Take = Want /\ hdr' = <<>> /\ payload' = <<>>
      /\ current' \in Decode(a) /\ UNCHANGED <<up, book, wire>>
      /\ \/ /\ current'.length = 0 /\ Dispatch(current', <<>>, Take) /\ phase' = phase
         \/ /\ current'.length > 0 /\ phase' = "MUX_READ_PAYLOAD" /\ chunk' = t
            /\ UNCHANGED <<dispatched, first, clean>>
  BY DEF FeedHeader, Fail, link, history
<1>2. FeedTypes /\ Sound /\ up
  BY <1>1 DEF FeedInv, Sound, Idle, Dispatch
<1>3. Take \in 0 .. Len(chunk) /\ Take = FRAME_HEADER_SIZE - Len(hdr)
  BY <1>1, <1>2, TakeFacts
<1>4. f \in Seq(Byte) /\ Len(f) = Take /\ t \in Seq(Byte)
  BY <1>2, <1>3, Parts, Cut
<1>5. a \in Seq(Byte) /\ Len(a) = FRAME_HEADER_SIZE /\ r \in Seq(Byte)
  <2>1. a \in Seq(Byte) /\ Len(a) = Len(hdr) + Len(f)
    BY <1>2, <1>4, Parts, JoinedAt
  <2>2. Len(a) = FRAME_HEADER_SIZE
    BY <1>2, <1>3, <1>4, <2>1, Parts, HeaderAssumption
  <2>3. r \in Seq(Byte)
    BY <1>2, <1>4, Parts, Joined, Zenon
  <2>4. QED
    BY <2>1, <2>2, <2>3
<1>6. Stream = a \o r
  <2>1. CutsThere(hdr, chunk, wire, Take)
    BY <1>2, <1>3, Parts, CutThere
  <2>2. Held = hdr
    BY <1>1 DEF Held
  <2>3. QED
    BY <2>1, <2>2, Zenon DEF Stream, CutsThere
<1> HIDE DEF f, t, a, r
<1>7. Len(a) > 0 /\ FRAME_HEADER_SIZE \in Nat
  BY <1>5, HeaderAssumption
<1>8. /\ Due \in 1 .. Len(book) /\ Due \in FrameNo /\ book[Due].length \in Nat
      /\ \A k \in 1 .. FRAME_HEADER_SIZE + book[Due].length :
            k \in 1 .. Len(a) => a[k] = <<Due, k>>
  BY <1>2, <1>5, <1>6, <1>7, DueFirst
<1>9. a = Header(Due)
  <2>1. \A k \in 1 .. Len(a) : a[k] = Header(Due)[k]
    <3> TAKE k \in 1 .. Len(a)
    <3>1. k \in 1 .. FRAME_HEADER_SIZE + book[Due].length /\ k \in 1 .. FRAME_HEADER_SIZE
      BY <1>5, <1>7, <1>8
    <3>2. QED
      BY <1>8, <3>1, HeaderAt, Zenon
  <2>2. Header(Due) \in Seq({Due} \X Nat) /\ Len(Header(Due)) = FRAME_HEADER_SIZE
    BY HeaderAt
  <2>3. QED
    BY <1>5, <2>1, <2>2, SameBytes
<1>10. current' = [no |-> Due, length |-> book[Due].length, ok |-> book[Due].ok]
  BY <1>1, <1>2, <1>8, <1>9, DecodeOwn
<1>11. CASE /\ current'.length = 0 /\ Dispatch(current', <<>>, Take)
            /\ phase' = "MUX_READ_HEADER"
  <2>1. book[Due].length = 0
    BY <1>10, <1>11
  <2>2. Body(Due) = <<>>
    <3>1. Body(Due) \in Seq({Due} \X Nat) /\ Len(Body(Due)) = 0
      BY <1>2, <1>8, <2>1, BodyAt
    <3>2. QED
      BY <3>1
  <2>3. Seen(current', <<>>) = Due
    <3>1. current'.no = Due /\ Due # Garbled
      BY <1>8, <1>10 DEF Garbled
    <3>2. QED
      BY <2>2, <3>1 DEF Seen
  <2>4. /\ dispatched' = Append(dispatched, Due) /\ first' = first /\ chunk' = t
    BY <1>11, <2>3 DEF Dispatch, t
  <2>5. Due' = Due + 1 /\ FramesInOrder'
    BY <1>2, <2>4, OrderGrows DEF Sound
  <2>6. Framed(book, Due + 1, r)
    <3>1. Len(a) = FRAME_HEADER_SIZE + book[Due].length
      BY <1>5, <1>7, <2>1
    <3>2. QED
      BY <1>2, <1>5, <1>6, <1>7, <3>1, DueGone
  <2>7. Stream' = r
    <3>1. NothingBefore(r)
      BY <1>5, EmptyBefore
    <3>2. QED
      BY <1>1, <1>11, <2>4, <3>1, Zenon DEF Stream, Held, NothingBefore, r
  <2>8. Due' <= Len(book') + 1
    BY <1>1, <1>2, <1>8, <2>5, Numbers
  <2>9. QED
    BY <1>1, <1>2, <1>11, <2>5, <2>6, <2>7, <2>8 DEF Sound
<1>12. CASE /\ current'.length > 0 /\ phase' = "MUX_READ_PAYLOAD" /\ chunk' = t
            /\ UNCHANGED <<dispatched, first>>
  <2>1. Due' = Due /\ FramesInOrder'
    BY <1>2, <1>12, OrderStays DEF Sound
  <2>2. Held' = a \o <<>>
    BY <1>1, <1>9, <1>10, <1>12, <2>1 DEF Held, Header
  <2>3. a \o <<>> = a
    BY <1>5, ConcatEmptySeq
  <2>4. Stream' = Stream
    BY <1>1, <1>6, <1>12, <2>2, <2>3, Zenon DEF Stream, r
  <2>5. PayloadDue'
    <3>1. Len(payload') = 0
      BY <1>1
    <3>2. Len(payload') < current'.length
      BY <1>8, <1>10, <1>12, <3>1
    <3>3. Due' <= Len(book')
      BY <1>1, <1>2, <1>8, <2>1, Numbers
    <3>4. current' = [no |-> Due', length |-> book'[Due'].length, ok |-> book'[Due'].ok]
      BY <1>1, <1>10, <2>1, Zenon
    <3>5. QED
      BY <1>1, <3>2, <3>3, <3>4 DEF PayloadDue
  <2>6. QED
    BY <1>1, <1>2, <1>12, <2>1, <2>4, <2>5 DEF Sound
<1>13. QED
  BY <1>1, <1>11, <1>12

LEMMA PayloadSound ==
    ASSUME FeedInv, FeedPayload, clean'
    PROVE  Sound'
<1> DEFINE f == First(chunk, Take)
           t == Rest(chunk, Take)
           h == Header(Due)
           a == h \o payload'
           r == t \o wire
<1>1. /\ ~Idle /\ phase = "MUX_READ_PAYLOAD" /\ Take = Want /\ payload' = payload \o f
      /\ UNCHANGED <<up, book, wire, hdr, current>>
      /\ Dispatch(current, payload', Take) /\ phase' = "MUX_READ_HEADER"
  BY DEF FeedPayload, Fail, link
<1>2. FeedTypes /\ Sound /\ up /\ PayloadDue
  BY <1>1 DEF FeedInv, Sound, Idle, Dispatch
<1>3. /\ Due \in 1 .. Len(book) /\ Due \in FrameNo /\ FRAME_HEADER_SIZE \in Nat
      /\ FRAME_HEADER_SIZE >= 1 /\ book[Due].length \in Nat
      /\ current.no = Due /\ current.length = book[Due].length /\ hdr = <<>>
  BY <1>2, Numbers, Records, BookSizes DEF PayloadDue
<1>4. Take \in 0 .. Len(chunk) /\ Take = book[Due].length - Len(payload)
  BY <1>1, <1>2, <1>3, TakeFacts
<1>5. f \in Seq(Byte) /\ Len(f) = Take /\ t \in Seq(Byte)
  BY <1>2, <1>4, Parts, Cut
<1>6. h \in Seq(Byte) /\ Len(h) = FRAME_HEADER_SIZE
  BY <1>2, <1>3, Parts, HeaderAt
<1>7. Held = h \o payload
  BY <1>1, <1>3 DEF Held
<1> HIDE DEF f, t, h
<1>8. payload' \in Seq(Byte) /\ Len(payload') = book[Due].length
  <2>1. payload' \in Seq(Byte) /\ Len(payload') = Len(payload) + Len(f)
    BY <1>1, <1>2, <1>5, Parts, JoinedAt
  <2>2. Len(payload) \in Nat
    BY <1>2, Parts
  <2>3. QED
    BY <1>3, <1>4, <1>5, <2>1, <2>2
<1>9. a \in Seq(Byte) /\ Len(a) = FRAME_HEADER_SIZE + book[Due].length /\ r \in Seq(Byte)
  <2>1. a \in Seq(Byte) /\ Len(a) = Len(h) + Len(payload')
    BY <1>6, <1>8, JoinedAt
  <2>2. r \in Seq(Byte)
    BY <1>2, <1>5, Parts, Joined, Zenon
  <2>3. QED
    BY <1>6, <1>8, <2>1, <2>2, Zenon
<1>10. Stream = a \o r
  <2>1. h \o payload \in Seq(Byte)
    BY <1>2, <1>6, Parts, Joined, Zenon
  <2>2. CutsThere(h \o payload, chunk, wire, Take)
    BY <1>2, <1>4, <2>1, Parts, CutThere
  <2>3. Associates(h, payload, f)
    BY <1>2, <1>5, <1>6, Parts, Associative
  <2>4. (h \o payload) \o (chunk \o wire) = ((h \o payload) \o f) \o r
    BY <2>2, Zenon DEF CutsThere, f, t
  <2>5. (h \o payload) \o f = a
    BY <1>1, <2>3, Zenon DEF Associates
  <2>6. QED
    BY <1>7, <2>4, <2>5, Zenon DEF Stream
<1>11. BehindIt(h, payload')
  BY <1>6, <1>8, Behind
<1>12. \A i \in 1 .. book[Due].length : a[FRAME_HEADER_SIZE + i] = payload'[i]
  BY <1>6, <1>8, <1>11, Zenon DEF BehindIt
<1> HIDE DEF a, r
<1>13. Len(a) > 0
  BY <1>3, <1>9
<1>14. \A k \in 1 .. FRAME_HEADER_SIZE + book[Due].length :
          k \in 1 .. Len(a) => a[k] = <<Due, k>>
  BY <1>2, <1>9, <1>10, <1>13, DueFirst
<1>15. payload' = Body(Due)
  <2>1. ASSUME NEW i \in 1 .. Len(payload') PROVE payload'[i] = Body(Due)[i]
    <3>1. /\ i \in 1 .. book[Due].length
          /\ FRAME_HEADER_SIZE + i \in 1 .. FRAME_HEADER_SIZE + book[Due].length
      BY <1>3, <1>8
    <3>2. a[FRAME_HEADER_SIZE + i] = <<Due, FRAME_HEADER_SIZE + i>>
      BY <1>9, <1>14, <3>1, Zenon
    <3>3. Body(Due)[i] = <<Due, FRAME_HEADER_SIZE + i>>
      BY <1>2, <1>3, <3>1, BodyAt
    <3>4. QED
      BY <1>12, <3>1, <3>2, <3>3, Zenon
  <2>2. Body(Due) \in Seq({Due} \X Nat) /\ Len(Body(Due)) = book[Due].length
    BY <1>2, <1>3, BodyAt
  <2>3. QED
    BY <1>8, <2>1, <2>2, SameBytes
<1>16. Seen(current, payload') = Due
  <2>1. Due # Garbled
    BY <1>3 DEF Garbled
  <2>2. QED
    BY <1>3, <1>15, <2>1 DEF Seen
<1>17. dispatched' = Append(dispatched, Due) /\ first' = first /\ chunk' = t
  BY <1>1, <1>16 DEF Dispatch, t
<1>18. Due' = Due + 1 /\ FramesInOrder'
  BY <1>2, <1>17, OrderGrows DEF Sound
<1>19. Framed(book, Due + 1, r)
  BY <1>2, <1>9, <1>10, <1>13, DueGone
<1>20. Stream' = r
  <2>1. NothingBefore(r)
    BY <1>9, EmptyBefore
  <2>2. Held' = <<>>
    BY <1>1, <1>3 DEF Held
  <2>3. QED
    BY <1>1, <1>17, <2>1, <2>2, Zenon DEF Stream, NothingBefore, r
<1>21. Due' <= Len(book') + 1
  BY <1>1, <1>2, <1>3, <1>18, Numbers
<1>22. QED
  BY <1>1, <1>2, <1>18, <1>19, <1>20, <1>21 DEF Sound

\* A packet moves from the wire into mux_feed.
LEMMA PacketSound ==
    ASSUME FeedInv, NEW n \in 1 .. Smaller(MaxPacket, Len(wire)), Packet(n), clean'
    PROVE  Sound'
<1>1. /\ up /\ chunk = <<>> /\ chunk' = First(wire, n) /\ wire' = Rest(wire, n)
      /\ UNCHANGED <<up, book, phase, hdr, current, payload, dispatched, first, clean>>
  BY DEF Packet, Idle, parser, history
<1>2. FeedTypes /\ Sound
  BY <1>1 DEF FeedInv
<1>3. wire \in Seq(Byte) /\ n \in 0 .. Len(wire)
  <2>1. wire \in Seq(Byte) /\ Len(wire) \in Nat
    BY <1>2, Parts
  <2>2. QED
    BY <2>1, PacketAssumption DEF Smaller
<1>4. First(wire, n) \o Rest(wire, n) = wire
  BY <1>3, Cut
<1>5. NothingBefore(wire)
  BY <1>3, EmptyBefore
<1>6. Held' = Held
  BY <1>1 DEF Held, Header
<1>7. Stream' = Stream
  BY <1>1, <1>4, <1>5, <1>6, Zenon DEF Stream, NothingBefore
<1>8. Due' = Due /\ FramesInOrder'
  BY <1>1, <1>2, OrderStays DEF Sound
<1>9. PayloadDue' <=> PayloadDue
  BY <1>1, <1>8, Zenon DEF PayloadDue
<1>10. QED
  BY <1>1, <1>2, <1>7, <1>8, <1>9, Zenon DEF Sound

\* A channel opens with an empty stream, and the frames that were written
\* before are not due any more.
LEMMA OpenedSound ==
    ASSUME FeedInv, ChannelOpened, clean'
    PROVE  Sound'
<1>1. /\ ~up /\ up' /\ dispatched' = <<>> /\ first' = Len(book)
      /\ UNCHANGED <<book, wire, chunk, phase, hdr, clean>>
  BY DEF ChannelOpened, parser
<1>2. FeedTypes /\ Sound
  BY <1>1 DEF FeedInv
<1>3. /\ phase' = "MUX_READ_HEADER" /\ hdr' = <<>> /\ chunk' = <<>> /\ wire' = <<>>
  BY <1>1, <1>2 DEF Sound
<1>4. Len(Stream') = 0
  <2>1. Stream' = <<>> \o (<<>> \o <<>>)
    BY <1>3 DEF Stream, Held
  <2>2. <<>> \in Seq(Byte)
    OBVIOUS
  <2>3. NothingBefore(<<>>)
    BY <2>2, EmptyBefore
  <2>4. Stream' = <<>>
    BY <2>1, <2>3, Zenon DEF NothingBefore
  <2>5. QED
    BY <2>4
<1>5. Due' = Len(book) + 1 /\ book \in Seq(Book) /\ Len(book) \in Nat
  BY <1>1, <1>2, Records, Numbers DEF Due
<1>6. Framed(book, Len(book) + 1, Stream')
  BY <1>4, <1>5, FramedEmpty
<1>7. FramesInOrder'
  BY <1>1 DEF FramesInOrder
<1>8. QED
  BY <1>1, <1>3, <1>5, <1>6, <1>7 DEF Sound

\* A channel that closes between two frames leaves nothing behind.
LEMMA ClosedSound ==
    ASSUME FeedInv, ChannelClosed, clean'
    PROVE  Sound'
<1>1. /\ chunk' = <<>> /\ wire' = <<>> /\ ~up' /\ clean /\ hdr' = <<>>
      /\ phase' = "MUX_READ_HEADER" /\ UNCHANGED <<book, dispatched, first>>
  BY DEF ChannelClosed, Idle, parser
<1>2. FeedTypes /\ Sound
  BY <1>1 DEF FeedInv
<1>3. Due' = Due /\ FramesInOrder'
  BY <1>1, <1>2, OrderStays DEF Sound
<1>4. QED
  BY <1>1, <1>2, <1>3 DEF Sound

\* What the phone writes comes behind everything else.
LEMMA WritesSound ==
    ASSUME FeedInv, NEW length \in Lengths, NEW ok \in BOOLEAN,
           PhoneWrites(length, ok), clean'
    PROVE  Sound'
<1> DEFINE f == [length |-> length, ok |-> ok]
           w == Bytes(Len(book'), 1, FRAME_HEADER_SIZE + length)
<1>1. /\ up /\ book' = Append(book, f) /\ wire' = wire \o w
      /\ UNCHANGED <<up, chunk, phase, hdr, current, payload, dispatched, first, clean>>
  BY DEF PhoneWrites, parser, history
<1>2. FeedTypes /\ Sound /\ FeedTypes'
  <2>1. FeedTypes /\ Sound
    BY <1>1 DEF FeedInv
  <2>2. QED
    BY <2>1, LinkTypes
<1>3. f \in Book /\ f.length = length
  BY DEF Book
<1>4. length \in Nat /\ FRAME_HEADER_SIZE \in Nat
  BY LengthsAssumption, HeaderAssumption
<1> HIDE DEF f
<1>5. /\ book \in Seq(Book) /\ Len(book') = Len(book) + 1 /\ Len(book) \in Nat
      /\ \A i \in 1 .. Len(book) : book'[i] = book[i]
  <2>1. book \in Seq(Book)
    BY <1>2, Records
  <2>2. QED
    BY <1>1, <1>3, <2>1, AppendProperties
<1>6. /\ w \in Seq({Len(book')} \X Nat) /\ Len(w) = FRAME_HEADER_SIZE + length
      /\ \A k \in 1 .. FRAME_HEADER_SIZE + length : w[k] = <<Len(book) + 1, k>>
  <2> DEFINE to == FRAME_HEADER_SIZE + length
  <2>1. to \in Nat /\ 1 \in Nat /\ 1 <= to + 1 /\ to - 1 + 1 = to
    BY <1>4
  <2>2. \A k \in 1 .. to : 1 + k - 1 = k
    BY <2>1
  <2> HIDE DEF to
  <2>3. /\ Bytes(Len(book'), 1, to) \in Seq({Len(book')} \X Nat)
        /\ Len(Bytes(Len(book'), 1, to)) = to - 1 + 1
        /\ \A k \in 1 .. to - 1 + 1 : Bytes(Len(book'), 1, to)[k] = <<Len(book'), 1 + k - 1>>
    BY <2>1, BytesAt, Zenon
  <2>4. QED
    BY <1>5, <2>1, <2>2, <2>3, Zenon DEF to
<1> HIDE DEF w
<1>7. w \in Seq(Byte)
  <2>1. Len(book') \in FrameNo
    BY <1>2, <1>5, FramesAssumption DEF FeedTypes, FrameNo
  <2>2. {Len(book')} \X Nat \subseteq Byte
    BY <2>1 DEF Byte
  <2>3. QED
    BY <1>6, <2>2
<1>8. Held' = Held /\ Held \in Seq(Byte) /\ Stream \in Seq(Byte)
  BY <1>1, <1>2, StreamSeq DEF Held, Header
<1>9. Stream' = Stream \o w
  <2>1. Associates(chunk, wire, w)
    BY <1>2, <1>7, Parts, Associative
  <2>2. chunk \o wire \in Seq(Byte)
    BY <1>2, Parts
  <2>3. Associates(Held, chunk \o wire, w)
    BY <1>7, <1>8, <2>2, Associative
  <2>4. QED
    BY <1>1, <1>8, <2>1, <2>3, Zenon DEF Stream, Associates
<1>10. Due' = Due /\ FramesInOrder'
  BY <1>1, <1>2, OrderStays DEF Sound
<1>11. Due \in 1 .. Len(book) + 1 /\ Framed(book, Due, Stream)
  BY <1>1, <1>2, Numbers DEF Sound
<1>12. Framed(Append(book, f), Due, Stream')
  <2> HIDE DEF Stream, Due
  <2>1. /\ Stream' \in Seq(Byte) /\ Len(Stream') = Len(Stream) + Len(w)
        /\ \A i \in 1 .. Len(Stream) : Stream'[i] = Stream[i]
    <3>1. /\ Stream \o w \in Seq(Byte) /\ Len(Stream \o w) = Len(Stream) + Len(w)
          /\ \A i \in 1 .. Len(Stream) : (Stream \o w)[i] = Stream[i]
      BY <1>7, <1>8, JoinedAt
    <3>2. QED
      BY <1>9, <3>1, Zenon
  <2>2. BehindIt(Stream, w)
    BY <1>7, <1>8, Behind
  <2>3. \A k \in 1 .. FRAME_HEADER_SIZE + f.length :
           Stream'[Len(Stream) + k] = <<Len(book) + 1, k>>
    BY <1>3, <1>6, <1>9, <2>2, Zenon DEF BehindIt
  <2>4. Len(Stream') = Len(Stream) + (FRAME_HEADER_SIZE + f.length)
    BY <1>3, <1>6, <2>1, Zenon
  <2>5. QED
    BY <1>3, <1>5, <1>8, <1>11, <2>1, <2>3, <2>4, FramedMore
<1>13. Due' <= Len(book') + 1
  BY <1>5, <1>10, <1>11
<1>14. ASSUME PayloadDue PROVE PayloadDue'
  <2>1. Due \in 1 .. Len(book) /\ Due <= Len(book')
    BY <1>2, <1>5, <1>14, Numbers DEF PayloadDue
  <2>2. book'[Due] = book[Due]
    BY <1>5, <2>1
  <2>3. QED
    BY <1>1, <1>10, <1>14, <2>1, <2>2, Zenon DEF PayloadDue
<1>15. QED
  BY <1>1, <1>2, <1>10, <1>12, <1>13, <1>14, Zenon DEF Sound

------------------------------------------------------------------------------
LEMMA FeedInvInit == Init => FeedInv
<1> SUFFICES ASSUME Init PROVE FeedInv
  OBVIOUS
<1>1. FeedTypes
  BY FeedInit
<1>2. Due = 1 /\ Len(book) = 0
  BY DEF Init, Due
<1>3. FramesInOrder
  BY DEF Init, FramesInOrder
<1>4. QED
  BY <1>1, <1>2, <1>3 DEF FeedInv, Sound, Init

LEMMA FeedInvStep == FeedInv /\ [Next]_vars => FeedInv'
<1> SUFFICES ASSUME FeedInv, [Next]_vars PROVE FeedInv'
  OBVIOUS
<1>1. FeedTypes'
  BY FeedTypesStep DEF FeedInv
<1>2. ASSUME clean' PROVE Sound'
  <2>1. CASE FeedPart
    BY <1>2, <2>1, PartSound
  <2>2. CASE FeedHeader
    BY <1>2, <2>2, HeaderSound
  <2>3. CASE FeedPayload
    BY <1>2, <2>3, PayloadSound
  <2>4. ASSUME NEW n \in 1 .. Smaller(MaxPacket, Len(wire)), Packet(n)
        PROVE  Sound'
    BY <1>2, <2>4, PacketSound
  <2>5. CASE ChannelOpened
    BY <1>2, <2>5, OpenedSound
  <2>6. CASE ChannelClosed
    BY <1>2, <2>6, ClosedSound
  <2>7. ASSUME NEW length \in Lengths, NEW ok \in BOOLEAN, PhoneWrites(length, ok)
        PROVE  Sound'
    BY <1>2, <2>7, WritesSound
  <2>8. CASE UNCHANGED vars
    <3>1. Sound
      BY <1>2, <2>8 DEF FeedInv, vars, history
    <3>2. QED
      BY <2>8, <3>1, Zenon
         DEF vars, link, parser, history, Sound, Due, FramesInOrder, PayloadDue,
             Stream, Held, Header
  <2>9. QED
    BY <2>1, <2>2, <2>3, <2>4, <2>5, <2>6, <2>7, <2>8 DEF Next
<1>3. QED
  BY <1>1, <1>2 DEF FeedInv

LEMMA FeedInvariant == Spec => []FeedInv
  BY FeedInvInit, FeedInvStep, PTL DEF Spec

\* Until mux_feed fails or a channel closes inside a frame, what is dispatched
\* is what the phone wrote, in order, whole and once, however the bytes are cut.
THEOREM CleanSessionInOrder == Spec => []CleanInOrder
<1>1. FeedInv => CleanInOrder
  BY DEF FeedInv, Sound, CleanInOrder
<1>2. QED
  BY <1>1, FeedInvariant, PTL

\* And when mux_feed has taken every byte, every frame has been dispatched.
THEOREM NoFrameKeptBack == Spec => []NothingKeptBack
<1>1. FeedInv => NothingKeptBack
  <2> SUFFICES ASSUME FeedInv, clean, up, Idle, wire = <<>>
               PROVE  Len(dispatched) = Len(book) - first
    BY DEF NothingKeptBack
  <2>1. FeedTypes /\ Sound /\ chunk = <<>>
    BY DEF FeedInv, Idle
  <2>2. Len(chunk \o wire) = 0
    BY <2>1
  <2>3. Len(Stream) = Len(Held) /\ Len(Held) \in Nat /\ Stream \in Seq(Byte)
    BY <2>1, <2>2, StreamSeq
  <2>4. Due \in 1 .. Len(book) + 1 /\ book \in Seq(Book) /\ Framed(book, Due, Stream)
    BY <2>1, Numbers, Records DEF Sound
  <2>5. Due <= Len(book) => FRAME_HEADER_SIZE + book[Due].length <= Len(Held)
    <3> HIDE DEF Due, Stream, Held
    <3>1. Begins(book, Due, Stream)
      BY <2>3, <2>4, FramedFirst
    <3>2. QED
      BY <2>3, <3>1, Zenon DEF Begins
  <2>6. Due <= Len(book) => FRAME_HEADER_SIZE + book[Due].length > Len(Held)
    <3> SUFFICES ASSUME Due <= Len(book)
                 PROVE  FRAME_HEADER_SIZE + book[Due].length > Len(Held)
      OBVIOUS
    <3>1. book[Due].length \in Nat /\ FRAME_HEADER_SIZE \in Nat /\ Due \in FrameNo
      BY <2>1, <2>4, Numbers, BookSizes
    <3>2. CASE phase = "MUX_READ_HEADER"
      <4>1. Held = hdr
        BY <3>2 DEF Held
      <4>2. QED
        BY <2>1, <3>1, <4>1, Parts
    <3>3. CASE phase = "MUX_READ_PAYLOAD"
      <4>1. PayloadDue /\ current.no = Due
        BY <2>1, <3>3 DEF Sound, PayloadDue
      <4>2. Len(payload) < book[Due].length /\ Len(payload) \in Nat
        BY <2>1, <4>1, Parts DEF PayloadDue
      <4>3. Held = Header(Due) \o payload
        BY <3>3, <4>1 DEF Held
      <4>4. Header(Due) \in Seq(Byte) /\ Len(Header(Due)) = FRAME_HEADER_SIZE
        BY <2>1, <3>1, Parts, HeaderAt
      <4>5. Len(Held) = FRAME_HEADER_SIZE + Len(payload)
        BY <2>1, <4>3, <4>4, Parts, JoinedAt
      <4>6. QED
        BY <3>1, <4>2, <4>5
    <3>4. QED
      BY <2>1, <3>2, <3>3 DEF FeedTypes, TypeOK
  <2>7. Due = Len(book) + 1
    <3>1. book[Due].length \in Nat \/ ~(Due <= Len(book))
      BY <2>1, <2>4, Numbers, BookSizes
    <3>2. QED
      BY <2>1, <2>3, <2>4, <2>5, <2>6, <3>1, Numbers, HeaderAssumption
  <2>8. QED
    BY <2>1, <2>7, Numbers DEF Due
<1>2. QED
  BY <1>1, FeedInvariant, PTL

------------------------------------------------------------------------------
(***************************************************************************)
(* mux_feed returns: what is left of the packet is a measure of its loop.  *)
(* The one state in which an iteration takes nothing is that of a payload  *)
(* that is complete, and it is met only with a bad frame, which fails.     *)
(***************************************************************************)
Unfilled ==
    phase = "MUX_READ_PAYLOAD" /\ current.ok => Len(payload) < current.length

LEMMA UnfilledStep ==
    ASSUME FeedTypes, Unfilled, [Next]_vars
    PROVE  Unfilled'
<1>1. CASE FeedPart
  <2>1. UNCHANGED <<phase, current>> /\ Take < Want
    BY <1>1 DEF FeedPart
  <2>2. CASE phase = "MUX_READ_PAYLOAD"
    <3>1. payload' = payload \o chunk /\ payload \in Seq(Byte) /\ chunk \in Seq(Byte)
      BY <1>1, <2>2 DEF FeedPart, FeedTypes, TypeOK
    <3>2. Len(payload') = Len(payload) + Len(chunk)
          /\ Len(payload) \in Nat /\ Len(chunk) \in Nat
      BY <3>1, ConcatProperties
    <3>3. Len(chunk) < current.length - Len(payload) /\ current.length \in Nat
      BY <2>1, <2>2, TakeFacts, Records
    <3>4. QED
      BY <2>1, <3>2, <3>3 DEF Unfilled
  <2>3. QED
    BY <2>1, <2>2 DEF Unfilled
<1>2. CASE FeedHeader
  <2>1. phase = "MUX_READ_HEADER" /\ payload' = <<>>
    BY <1>2 DEF FeedHeader
  <2>2. phase' = "MUX_READ_PAYLOAD" => current'.length > 0
    BY <1>2, <2>1 DEF FeedHeader
  <2>3. QED
    BY <2>1, <2>2 DEF Unfilled
<1>3. CASE FeedPayload
  <2>1. UNCHANGED current /\ (phase' = "MUX_READ_HEADER" \/ ~current.ok)
    BY <1>3 DEF FeedPayload
  <2>2. QED
    BY <2>1 DEF Unfilled
<1>4. CASE UNCHANGED parser
  BY <1>4 DEF parser, Unfilled
<1>5. QED
  BY <1>1, <1>2, <1>3, <1>4
     DEF Next, Packet, ChannelOpened, ChannelClosed, PhoneWrites, vars

\* An iteration takes something.
LEMMA IterationTakes ==
    ASSUME FeedTypes, Unfilled, FeedPart \/ FeedHeader \/ FeedPayload
    PROVE  Len(chunk') < Len(chunk)
<1>1. chunk \in Seq(Byte) /\ chunk # <<>> /\ Len(chunk) \in Nat /\ Len(chunk) > 0
  BY DEF FeedTypes, TypeOK, FeedPart, FeedHeader, FeedPayload, Idle
<1>2. CASE chunk' = <<>>
  BY <1>1, <1>2
<1>3. ASSUME chunk' = Rest(chunk, Take), Take > 0
      PROVE  Len(chunk') < Len(chunk)
  <2>1. Take \in 0 .. Len(chunk)
    BY TakeFacts
  <2>2. Len(Rest(chunk, Take)) = Len(chunk) - Take
    BY <1>1, <2>1, Cut
  <2>3. QED
    BY <1>1, <1>3, <2>1, <2>2
<1>4. CASE FeedHeader
  <2>1. Take = Want /\ Want = FRAME_HEADER_SIZE - Len(hdr)
    BY <1>4, TakeFacts DEF FeedHeader
  <2>2. Len(hdr) \in Nat /\ Len(hdr) < FRAME_HEADER_SIZE
    BY DEF FeedTypes, TypeOK
  <2>3. Take > 0
    BY <2>1, <2>2, HeaderAssumption
  <2>4. QED
    BY <1>2, <1>3, <1>4, <2>3 DEF FeedHeader, Dispatch, Fail
<1>5. CASE FeedPayload
  <2>1. CASE Fail
    BY <1>2, <2>1 DEF Fail
  <2>2. CASE Dispatch(current, payload', Take)
    <3>1. current.ok /\ Take = Want /\ phase = "MUX_READ_PAYLOAD"
          /\ chunk' = Rest(chunk, Take)
      BY <1>5, <2>2 DEF FeedPayload, Dispatch
    <3>2. Len(payload) < current.length /\ Take = current.length - Len(payload)
      BY <3>1, TakeFacts DEF Unfilled
    <3>3. Len(payload) \in Nat /\ current.length \in Nat
      BY Records DEF FeedTypes, TypeOK
    <3>4. Take > 0
      BY <3>2, <3>3
    <3>5. QED
      BY <1>3, <3>1, <3>4
  <2>3. QED
    BY <1>5, <2>1, <2>2 DEF FeedPayload
<1>6. CASE FeedPart
  BY <1>2, <1>6 DEF FeedPart
<1>7. QED
  BY <1>4, <1>5, <1>6

\* No iteration of mux_feed leaves the packet as long as it was, whatever the
\* frames are and however often it has failed before: the loop ends after at most
\* as many iterations as the packet has bytes.
THEOREM EveryIterationTakes ==
    Spec => [][FeedPart \/ FeedHeader \/ FeedPayload => Len(chunk') < Len(chunk)]_vars
<1>1. Init => FeedTypes /\ Unfilled
  BY FeedInit DEF Init, Unfilled
<1>2. FeedTypes /\ Unfilled /\ [Next]_vars => FeedTypes' /\ Unfilled'
  BY FeedTypesStep, UnfilledStep
<1>3. FeedTypes /\ Unfilled /\ [Next]_vars =>
        [FeedPart \/ FeedHeader \/ FeedPayload => Len(chunk') < Len(chunk)]_vars
  BY IterationTakes
<1>4. QED
  BY <1>1, <1>2, <1>3, PTL DEF Spec

==============================================================================
