---------------------------- MODULE FormTheorems ----------------------------
(***************************************************************************)
(* Proofs about Edit and Form.                                             *)
(***************************************************************************)
EXTENDS Form, BasicTheorems

-----------------------------------------------------------------------------
(***************************************************************************)
(* Sequences into which an element is put, and out of which one is taken.  *)
(***************************************************************************)
LEMMA SubSeqIs ==
  ASSUME NEW T, NEW s \in Seq(T), NEW m \in 1 .. Len(s) + 1, NEW n \in 0 .. Len(s),
         m <= n + 1
  PROVE  /\ SubSeq(s, m, n) \in Seq(T)
         /\ Len(SubSeq(s, m, n)) = n - m + 1
         /\ \A i \in 1 .. n - m + 1 : SubSeq(s, m, n)[i] = s[m + i - 1]
<1>1. CASE m <= n
  <2>1. \A i \in m .. n : s[i] \in T
    OBVIOUS
  <2> QED
    BY <1>1, <2>1, SubSeqProperties
<1>2. CASE m = n + 1
  BY <1>2, SubSeqProperties
<1> QED
  BY <1>1, <1>2

\* t is s with x behind the first i elements.
Inserted(t, s, i, x) ==
  /\ Len(t) = Len(s) + 1
  /\ \A k \in 1 .. Len(s) + 1 :
       t[k] = IF k <= i THEN s[k] ELSE IF k = i + 1 THEN x ELSE s[k - 1]

\* t is s without n elements behind the first i.
Without(t, s, i, n) ==
  /\ Len(t) = Len(s) - n
  /\ \A k \in 1 .. Len(s) - n : t[k] = IF k <= i THEN s[k] ELSE s[k + n]

LEMMA InsertedPutIn ==
  ASSUME NEW T, NEW s \in Seq(T), NEW p \in 0 .. Len(s), NEW x \in T
  PROVE  PutIn(s, p, x) \in Seq(T) /\ Inserted(PutIn(s, p, x), s, p, x)
<1>0. Len(s) \in Nat /\ p \in Nat
  OBVIOUS
<1> DEFINE a == SubSeq(s, 1, p)
           b == SubSeq(s, p + 1, Len(s))
<1>1. /\ a \in Seq(T) /\ Len(a) = p
      /\ \A i \in 1 .. p : a[i] = s[i]
  BY SubSeqIs
<1>2. /\ b \in Seq(T) /\ Len(b) = Len(s) - p
      /\ \A i \in 1 .. Len(s) - p : b[i] = s[p + i]
  BY SubSeqIs
<1> HIDE DEF a, b
<1>3. /\ a \o <<x>> \in Seq(T) /\ Len(a \o <<x>>) = p + 1
      /\ \A i \in 1 .. p + 1 : (a \o <<x>>)[i] = IF i <= p THEN s[i] ELSE x
  BY <1>1
<1>4. PutIn(s, p, x) = (a \o <<x>>) \o b
  BY DEF PutIn, a, b
<1> DEFINE c == a \o <<x>>
<1> HIDE DEF c
<1>5. /\ c \o b \in Seq(T) /\ Len(c \o b) = Len(s) + 1
      /\ \A i \in 1 .. Len(c) + Len(b) :
           (c \o b)[i] = IF i <= Len(c) THEN c[i] ELSE b[i - Len(c)]
  BY <1>2, <1>3, ConcatProperties DEF c
<1>6. Len(c) = p + 1 /\ Len(b) = Len(s) - p
  BY <1>2, <1>3 DEF c
<1>7. \A i \in 1 .. Len(s) + 1 :
        (c \o b)[i] = IF i <= p THEN s[i] ELSE IF i = p + 1 THEN x ELSE s[i - 1]
  <2> SUFFICES ASSUME NEW i \in 1 .. Len(s) + 1
               PROVE  (c \o b)[i] = IF i <= p THEN s[i]
                                    ELSE IF i = p + 1 THEN x ELSE s[i - 1]
    OBVIOUS
  <2>1. CASE i <= p + 1
    BY <1>3, <1>5, <1>6, <2>1 DEF c
  <2>2. CASE i > p + 1
    <3> DEFINE j == i - p - 1
    <3>1. j \in 1 .. Len(s) - p /\ i - Len(c) = j /\ p + j = i - 1
      BY <1>6, <2>2
    <3>2. (c \o b)[i] = b[j]
      BY <1>5, <1>6, <2>2, <3>1, SMTT(30)
    <3> HIDE DEF j
    <3>3. b[j] = s[i - 1]
      BY <1>2, <3>1
    <3> QED
      BY <2>2, <3>2, <3>3
  <2>3. i <= p + 1 \/ i > p + 1
    BY <1>0
  <2> QED
    BY <2>1, <2>2, <2>3
<1>8. /\ Len(c \o b) = Len(s) + 1
      /\ \A k \in 1 .. Len(s) + 1 :
           (c \o b)[k] = IF k <= p THEN s[k] ELSE IF k = p + 1 THEN x ELSE s[k - 1]
  BY <1>5, <1>7
<1> DEFINE w == c \o b
<1> HIDE DEF w
<1>9. Inserted(w, s, p, x)
  BY ONLY <1>8 DEF Inserted, w
<1> QED
  BY <1>4, <1>5, <1>9 DEF c, w

LEMMA PutInIs ==
  ASSUME NEW T, NEW s \in Seq(T), NEW p \in 0 .. Len(s), NEW x \in T
  PROVE  /\ PutIn(s, p, x) \in Seq(T)
         /\ Len(PutIn(s, p, x)) = Len(s) + 1
         /\ \A i \in 1 .. Len(s) + 1 :
              PutIn(s, p, x)[i] = IF i <= p THEN s[i]
                                  ELSE IF i = p + 1 THEN x ELSE s[i - 1]
<1>1. PutIn(s, p, x) \in Seq(T) /\ Inserted(PutIn(s, p, x), s, p, x)
  BY InsertedPutIn
<1> QED
  BY ONLY <1>1 DEF Inserted

LEMMA TakenOutIs ==
  ASSUME NEW T, NEW s \in Seq(T), NEW p \in 0 .. Len(s) - 1
  PROVE  /\ TakenOut(s, p) \in Seq(T)
         /\ Len(TakenOut(s, p)) = Len(s) - 1
         /\ \A i \in 1 .. Len(s) - 1 :
              TakenOut(s, p)[i] = IF i <= p THEN s[i] ELSE s[i + 1]
<1>0. Len(s) \in Nat /\ p \in Nat
  OBVIOUS
<1> DEFINE a == SubSeq(s, 1, p)
           b == SubSeq(s, p + 2, Len(s))
<1>1. /\ a \in Seq(T) /\ Len(a) = p
      /\ \A i \in 1 .. p : a[i] = s[i]
  BY SubSeqIs
<1>2. /\ b \in Seq(T) /\ Len(b) = Len(s) - p - 1
      /\ \A i \in 1 .. Len(s) - p - 1 : b[i] = s[p + 1 + i]
  BY SubSeqIs
<1> HIDE DEF a, b
<1>3. TakenOut(s, p) = a \o b
  BY DEF TakenOut, a, b
<1>4. /\ a \o b \in Seq(T) /\ Len(a \o b) = Len(a) + Len(b)
      /\ \A i \in 1 .. Len(a) + Len(b) :
           (a \o b)[i] = IF i <= Len(a) THEN a[i] ELSE b[i - Len(a)]
  BY <1>1, <1>2, ConcatProperties
<1>5. \A i \in 1 .. Len(s) - 1 : (a \o b)[i] = IF i <= p THEN s[i] ELSE s[i + 1]
  <2> SUFFICES ASSUME NEW i \in 1 .. Len(s) - 1
               PROVE  (a \o b)[i] = IF i <= p THEN s[i] ELSE s[i + 1]
    OBVIOUS
  <2>1. CASE i <= p
    BY <1>1, <1>2, <1>4, <2>1
  <2>2. CASE i > p
    <3> DEFINE j == i - p
    <3>1. j \in 1 .. Len(s) - p - 1 /\ i - Len(a) = j /\ p + 1 + j = i + 1
      BY <1>1, <2>2
    <3>2. (a \o b)[i] = b[j]
      BY <1>1, <1>2, <1>4, <2>2, <3>1
    <3> HIDE DEF j
    <3>3. b[j] = s[i + 1]
      BY <1>2, <3>1
    <3> QED
      BY <2>2, <3>2, <3>3
  <2>3. i <= p \/ i > p
    BY <1>0
  <2> QED
    BY <2>1, <2>2, <2>3
<1>6. Len(a \o b) = Len(s) - 1
  BY <1>1, <1>2, <1>4
<1> QED
  BY <1>3, <1>4, <1>5, <1>6

LEMMA WithoutTakenOut ==
  ASSUME NEW T, NEW s \in Seq(T), NEW p \in 0 .. Len(s) - 1
  PROVE  Without(TakenOut(s, p), s, p, 1)
<1> DEFINE w == TakenOut(s, p)
           K == Len(s)
<1>1. /\ w \in Seq(T) /\ Len(w) = K - 1
      /\ \A k \in 1 .. K - 1 : w[k] = IF k <= p THEN s[k] ELSE s[k + 1]
  BY TakenOutIs
<1> HIDE DEF w
<1>2. Without(w, s, p, 1)
  BY <1>1 DEF Without
<1> QED
  BY <1>2 DEF w

-----------------------------------------------------------------------------
(***************************************************************************)
(* A text and the pointers to its lines, as values.                        *)
(***************************************************************************)
Glyph == Chars \cup {NL, NUL, "*"}

Laid(item, line) ==
  /\ line \in Seq(Nat) /\ Len(line) >= 2
  /\ line[1] = 0 /\ line[Len(line)] = Len(item)
  /\ \A m, n \in 1 .. Len(line) : m < n => line[m] < line[n]
  /\ \A n \in 2 .. Len(line) - 1 : item[line[n]] = NL
  /\ \A j \in 1 .. Len(item) :
       item[j] = NL => \E n \in 2 .. Len(line) - 1 : line[n] = j

LEMMA ShiftedIs ==
  ASSUME NEW line \in Seq(Nat), NEW r \in 1 .. Len(line), NEW d \in {1, -1},
         \A n \in 1 .. Len(line) : n > r => line[n] > 0
  PROVE  /\ Shifted(line, r - 1, d) \in Seq(Nat)
         /\ Len(Shifted(line, r - 1, d)) = Len(line)
         /\ \A n \in 1 .. Len(line) :
              Shifted(line, r - 1, d)[n] = IF n > r THEN line[n] + d ELSE line[n]
<1> DEFINE L == Len(line)
           t == Shifted(line, r - 1, d)
<1>1. L \in Nat /\ DOMAIN line = 1 .. L /\ \A n \in 1 .. L : line[n] \in Nat
  OBVIOUS
<1>2. (r - 1) + 1 = r
  BY <1>1
<1> HIDE DEF L
<1>3. t = [n \in 1 .. L |-> IF n > r THEN line[n] + d ELSE line[n]]
  BY <1>1, <1>2 DEF Shifted
<1> HIDE DEF t
<1>4. \A n \in 1 .. L : t[n] = IF n > r THEN line[n] + d ELSE line[n]
  BY <1>3
<1>5. t \in [1 .. L -> Nat]
  <2>1. \A n \in 1 .. L : t[n] \in Nat
    BY <1>1, <1>4 DEF L
  <2> QED
    BY <1>3, <2>1
<1>6. t \in Seq(Nat) /\ Len(t) = L
  BY <1>1, <1>5
<1> QED
  BY <1>4, <1>6 DEF t, L

\* edit_char(): a character that ends no line, in the row r
LEMMA LaidPutIn ==
  ASSUME NEW item \in Seq(Glyph), NEW line, Laid(item, line),
         NEW r \in 1 .. Len(line) - 1, NEW p \in Nat,
         line[r] <= p, p < line[r + 1],
         NEW c \in Glyph, c # NL
  PROVE  Laid(PutIn(item, p, c), Shifted(line, r - 1, 1))
<1> DEFINE L == Len(line)
           K == Len(item)
           s == PutIn(item, p, c)
           t == Shifted(line, r - 1, 1)
<1>1. /\ line \in Seq(Nat) /\ L \in Nat /\ L >= 2 /\ K \in Nat
      /\ \A n \in 1 .. L : line[n] \in Nat
      /\ line[1] = 0 /\ line[L] = K
      /\ \A m, n \in 1 .. L : m < n => line[m] < line[n]
  BY SMTT(30) DEF Laid
<1>2. /\ r \in 1 .. L - 1 /\ r \in 1 .. L /\ r + 1 \in 1 .. L
      /\ p \in 0 .. K
  <2>1. r \in 1 .. L /\ r + 1 \in 1 .. L /\ r \in 1 .. L - 1
    BY <1>1
  <2>2. line[r + 1] <= K
    BY <1>1, <2>1, SMTT(30)
  <2> QED
    BY <1>1, <2>1, <2>2
<1>3. ASSUME NEW n \in 1 .. L, n > r
      PROVE  line[n] > p
  <2>1. line[r + 1] \in Nat /\ line[n] \in Nat /\ (n = r + 1 \/ r + 1 < n)
    BY <1>1, <1>2, <1>3
  <2>2. r + 1 < n => line[r + 1] < line[n]
    BY <1>1, <1>2
  <2> QED
    BY <2>1, <2>2
<1>4. ASSUME NEW n \in 1 .. L, n <= r
      PROVE  line[n] <= p
  <2>1. line[r] \in Nat /\ line[n] \in Nat /\ (n = r \/ n < r)
    BY <1>1, <1>2, <1>4
  <2>2. n < r => line[n] < line[r]
    BY <1>1, <1>2
  <2> QED
    BY <2>1, <2>2
<1>5. /\ Len(s) = K + 1
      /\ \A i \in 1 .. K + 1 : s[i] = IF i <= p THEN item[i]
                                      ELSE IF i = p + 1 THEN c ELSE item[i - 1]
  BY <1>2, PutInIs
<1>6. /\ t \in Seq(Nat) /\ Len(t) = L
      /\ \A n \in 1 .. L : t[n] = IF n > r THEN line[n] + 1 ELSE line[n]
  <2>1. \A n \in 1 .. Len(line) : n > r => line[n] > 0
    BY <1>1, <1>3
  <2>2. r \in 1 .. Len(line) /\ 1 \in {1, -1}
    BY <1>2
  <2>3. line \in Seq(Nat)
    BY <1>1
  <2> QED
    BY ONLY <2>1, <2>2, <2>3, ShiftedIs
<1> HIDE DEF L, K, s, t
<1>7. t[1] = 0 /\ t[L] = K + 1
  <2>1. 1 \in 1 .. L /\ L \in 1 .. L /\ ~(1 > r) /\ L > r
    BY <1>1, <1>2
  <2> QED
    BY <1>1, <1>6, <2>1
<1>8. ASSUME NEW m \in 1 .. L, NEW n \in 1 .. L, m < n
      PROVE  t[m] < t[n]
  <2>1. line[m] < line[n] /\ line[m] \in Nat /\ line[n] \in Nat
    BY <1>1, <1>8
  <2>2. m > r => n > r
    BY <1>1, <1>2, <1>8
  <2>3. /\ t[m] = IF m > r THEN line[m] + 1 ELSE line[m]
        /\ t[n] = IF n > r THEN line[n] + 1 ELSE line[n]
    BY <1>6
  <2> QED
    BY <2>1, <2>2, <2>3
<1>9. ASSUME NEW n \in 2 .. L - 1
      PROVE  s[t[n]] = NL
  <2>0. n \in 1 .. L /\ 1 \in 1 .. L /\ L \in 1 .. L /\ 1 < n /\ n < L
    BY <1>1
  <2>1. /\ item[line[n]] = NL /\ line[n] \in Nat /\ 0 < line[n] /\ line[n] < K
        /\ K \in Nat
    BY <1>1, <2>0 DEF Laid, L
  <2>2. CASE n <= r
    <3>0. ~(n > r) /\ line[n] <= p
      BY <1>2, <1>4, <2>0, <2>2
    <3>1. t[n] = line[n] /\ line[n] \in 1 .. K + 1 /\ line[n] <= p
      <4>1. t[n] = line[n]
        BY <1>6, <2>0, <3>0
      <4> QED
        BY <2>1, <3>0, <4>1
    <3> QED
      BY <1>5, <2>1, <3>1
  <2>3. CASE n > r
    <3>1. /\ t[n] = line[n] + 1 /\ line[n] + 1 \in 1 .. K + 1 /\ line[n] > p
          /\ line[n] \in Nat
      <4>1. t[n] = line[n] + 1
        BY <1>6, <2>0, <2>3
      <4>2. line[n] > p
        BY <1>3, <2>0, <2>3
      <4> QED
        BY <2>1, <4>1, <4>2
    <3>2. s[t[n]] = item[(line[n] + 1) - 1]
      BY <1>2, <1>5, <3>1
    <3> QED
      BY <2>1, <3>1, <3>2
  <2>4. n <= r \/ n > r
    BY <1>2
  <2> QED
    BY <2>2, <2>3, <2>4
<1>10. ASSUME NEW j \in 1 .. K + 1, s[j] = NL
       PROVE  \E n \in 2 .. L - 1 : t[n] = j
  <2>1. CASE j <= p
    <3>1. j \in 1 .. K /\ item[j] = NL
      BY <1>1, <1>2, <1>5, <1>10, <2>1, SMTT(30)
    <3>2. PICK n \in 2 .. L - 1 : line[n] = j
      BY <3>1 DEF Laid, L, K
    <3>3. n \in 1 .. L /\ ~(n > r)
      BY <1>1, <1>2, <1>3, <2>1, <3>2
    <3>4. t[n] = j
      BY <1>6, <3>2, <3>3
    <3> QED
      BY <3>4
  <2>2. CASE j > p + 1
    <3>1. j - 1 \in 1 .. K /\ item[j - 1] = NL /\ j - 1 > p
      BY <1>1, <1>2, <1>5, <1>10, <2>2, SMTT(30)
    <3>2. PICK n \in 2 .. L - 1 : line[n] = j - 1
      BY <3>1 DEF Laid, L, K
    <3>3. n \in 1 .. L /\ n > r
      BY <1>1, <1>2, <1>4, <3>1, <3>2
    <3>4. t[n] = (j - 1) + 1
      BY <1>6, <3>2, <3>3
    <3> QED
      BY <3>4
  <2>3. j # p + 1
    BY <1>2, <1>5, <1>10
  <2>4. j <= p \/ j > p + 1
    BY <1>2, <2>3
  <2> QED
    BY <2>1, <2>2, <2>4
<1> QED
  BY <1>1, <1>5, <1>6, <1>7, <1>8, <1>9, <1>10 DEF Laid, L, K, s, t

\* The rows up to r are before the place p in that row, the others behind it.
LEMMA LaidAt ==
  ASSUME NEW item \in Seq(Glyph), NEW line, Laid(item, line),
         NEW r \in 1 .. Len(line) - 1, NEW p \in Nat,
         line[r] <= p, p < line[r + 1]
  PROVE  /\ line \in Seq(Nat) /\ Len(line) \in Nat /\ Len(item) \in Nat
         /\ 1 \in 1 .. Len(line) /\ Len(line) \in 1 .. Len(line)
         /\ r \in 1 .. Len(line) /\ r + 1 \in 1 .. Len(line)
         /\ p \in 0 .. Len(item) - 1
         /\ \A n \in 1 .. Len(line) :
              /\ line[n] \in Nat /\ line[n] <= Len(item)
              /\ n > r => line[n] > p
              /\ n <= r => line[n] <= p
         /\ \A n \in 2 .. Len(line) - 1 :
              /\ n \in 1 .. Len(line)
              /\ line[n] \in 1 .. Len(item) - 1 /\ item[line[n]] = NL
<1> DEFINE L == Len(line)
           K == Len(item)
<1>1. /\ line \in Seq(Nat) /\ L \in Nat /\ L >= 2 /\ K \in Nat
      /\ \A n \in 1 .. L : line[n] \in Nat
      /\ line[1] = 0 /\ line[L] = K
      /\ \A m, n \in 1 .. L : m < n => line[m] < line[n]
      /\ \A n \in 2 .. L - 1 : item[line[n]] = NL
  BY SMTT(30) DEF Laid
<1> HIDE DEF L, K
<1>2. /\ 1 \in 1 .. L /\ L \in 1 .. L
      /\ r \in 1 .. L /\ r + 1 \in 1 .. L
  BY <1>1 DEF L
<1>3. ASSUME NEW n \in 1 .. L, n > r
      PROVE  line[n] > p
  <2>1. line[r + 1] \in Nat /\ line[n] \in Nat /\ (n = r + 1 \/ r + 1 < n)
    BY <1>1, <1>2, <1>3
  <2>2. r + 1 < n => line[r + 1] < line[n]
    BY <1>1, <1>2
  <2> QED
    BY <2>1, <2>2
<1>4. ASSUME NEW n \in 1 .. L, n <= r
      PROVE  line[n] <= p
  <2>1. line[r] \in Nat /\ line[n] \in Nat /\ (n = r \/ n < r)
    BY <1>1, <1>2, <1>4
  <2>2. n < r => line[n] < line[r]
    BY <1>1, <1>2
  <2> QED
    BY <2>1, <2>2
<1>5. ASSUME NEW n \in 1 .. L
      PROVE  line[n] \in Nat /\ line[n] <= K
  <2>1. n < L => line[n] < line[L]
    BY <1>1, <1>2
  <2>2. n = L \/ n < L
    BY <1>1
  <2> QED
    BY <1>1, <2>1, <2>2
<1>6. p \in 0 .. K - 1
  <2>1. line[r + 1] \in Nat /\ line[r + 1] <= K
    BY <1>2, <1>5
  <2> QED
    BY <1>1, <2>1
<1>7. ASSUME NEW n \in 2 .. L - 1
      PROVE  n \in 1 .. L /\ line[n] \in 1 .. K - 1 /\ item[line[n]] = NL
  <2>1. n \in 1 .. L /\ 1 < n /\ n < L
    BY <1>1
  <2>2. line[1] < line[n] /\ line[n] < line[L] /\ line[n] \in Nat
    BY <1>1, <1>2, <2>1
  <2>3. line[n] \in 1 .. K - 1
    BY <1>1, <2>2, SMTT(30)
  <2> QED
    BY <1>1, <2>1, <2>3
<1> QED
  BY <1>1, <1>2, <1>3, <1>4, <1>5, <1>6, <1>7 DEF L, K

\* edit_crlf(): the pointers, when the row r is broken at p
BrokenLines(line, r, p) ==
  SubSeq(line, 1, r) \o <<p + 1>>
    \o [n \in 1 .. Len(line) - r |-> line[r + n] + 1]

LEMMA BrokenLinesIs ==
  ASSUME NEW line \in Seq(Nat), NEW r \in 1 .. Len(line), NEW p \in Nat
  PROVE  LET t == BrokenLines(line, r, p)
         IN  /\ t \in Seq(Nat)
             /\ Len(t) = Len(line) + 1
             /\ \A n \in 1 .. Len(line) + 1 :
                  t[n] = IF n <= r THEN line[n]
                         ELSE IF n = r + 1 THEN p + 1 ELSE line[n - 1] + 1
<1> DEFINE L == Len(line)
           a == SubSeq(line, 1, r)
           b == [n \in 1 .. L - r |-> line[r + n] + 1]
<1>0. L \in Nat /\ r \in Nat /\ L - r \in Nat /\ \A n \in 1 .. L : line[n] \in Nat
  OBVIOUS
<1>1. /\ a \in Seq(Nat) /\ Len(a) = r
      /\ \A i \in 1 .. r : a[i] = line[i]
  BY SubSeqIs
<1>2. /\ b \in Seq(Nat) /\ Len(b) = L - r
      /\ \A i \in 1 .. L - r : b[i] = line[r + i] + 1
  <2> HIDE DEF L
  <2>1. \A n \in 1 .. L - r : line[r + n] + 1 \in Nat
    BY <1>0 DEF L
  <2>2. b \in [1 .. L - r -> Nat]
    BY <2>1
  <2> QED
    BY <1>0, <2>2
<1> HIDE DEF a, b, L
<1> DEFINE c == a \o <<p + 1>>
<1>3. /\ c \in Seq(Nat) /\ Len(c) = r + 1
      /\ \A i \in 1 .. r + 1 : c[i] = IF i <= r THEN line[i] ELSE p + 1
  BY <1>0, <1>1
<1> HIDE DEF c
<1>4. /\ c \o b \in Seq(Nat) /\ Len(c \o b) = Len(c) + Len(b)
      /\ \A i \in 1 .. Len(c) + Len(b) :
           (c \o b)[i] = IF i <= Len(c) THEN c[i] ELSE b[i - Len(c)]
  BY <1>2, <1>3, ConcatProperties
<1>5. Len(c) + Len(b) = L + 1
  BY <1>0, <1>2, <1>3
<1>6. ASSUME NEW n \in 1 .. L + 1
      PROVE  (c \o b)[n] =
               IF n <= r THEN line[n] ELSE IF n = r + 1 THEN p + 1 ELSE line[n - 1] + 1
  <2>1. CASE n <= r + 1
    <3>1. (c \o b)[n] = c[n] /\ n \in 1 .. r + 1
      BY <1>0, <1>3, <1>4, <1>5, <2>1
    <3>2. n <= r \/ (n = r + 1 /\ ~(n <= r))
      BY <1>0, <2>1
    <3> QED
      BY <1>3, <3>1, <3>2
  <2>2. CASE n > r + 1
    <3> DEFINE j == n - r - 1
    <3>1. j \in 1 .. L - r /\ n - Len(c) = j /\ r + j = n - 1
      BY <1>0, <1>3, <2>2
    <3>2. ~(n <= r) /\ n # r + 1 /\ ~(n <= Len(c))
      BY <1>0, <1>3, <2>2
    <3>3. (c \o b)[n] = b[j]
      BY <1>4, <1>5, <3>1, <3>2
    <3> HIDE DEF j
    <3>4. b[j] = line[n - 1] + 1
      BY <1>2, <3>1
    <3> QED
      BY <3>2, <3>3, <3>4
  <2>3. n <= r + 1 \/ n > r + 1
    BY <1>0
  <2> QED
    BY <2>1, <2>2, <2>3
<1>7. BrokenLines(line, r, p) = c \o b
  BY DEF BrokenLines, a, b, c, L
<1> QED
  BY <1>4, <1>5, <1>6, <1>7 DEF L

LEMMA LaidBroken ==
  ASSUME NEW item \in Seq(Glyph), NEW line, Laid(item, line),
         NEW r \in 1 .. Len(line) - 1, NEW p \in Nat,
         line[r] <= p, p < line[r + 1]
  PROVE  Laid(PutIn(item, p, NL), BrokenLines(line, r, p))
<1> DEFINE L == Len(line)
           K == Len(item)
           s == PutIn(item, p, NL)
           t == BrokenLines(line, r, p)
<1>1. /\ line \in Seq(Nat) /\ L \in Nat /\ K \in Nat
      /\ 1 \in 1 .. L /\ L \in 1 .. L
      /\ r \in 1 .. L /\ r + 1 \in 1 .. L
      /\ p \in 0 .. K - 1 /\ p \in Nat /\ r \in Nat
  BY LaidAt
<1>10. /\ \A n \in 1 .. L : /\ line[n] \in Nat
                            /\ n > r => line[n] > p
                            /\ n <= r => line[n] <= p
       /\ \A n \in 2 .. L - 1 : /\ n \in 1 .. L
                                /\ line[n] \in 1 .. K - 1 /\ item[line[n]] = NL
  BY LaidAt
<1>2. /\ L >= 2 /\ line[1] = 0 /\ line[L] = K
      /\ \A m, n \in 1 .. L : m < n => line[m] < line[n]
  BY DEF Laid
<1>3. /\ Len(s) = K + 1
      /\ \A i \in 1 .. K + 1 : s[i] = IF i <= p THEN item[i]
                                      ELSE IF i = p + 1 THEN NL ELSE item[i - 1]
  <2>1. NL \in Glyph /\ p \in 0 .. Len(item)
    BY <1>1 DEF Glyph
  <2> QED
    BY <2>1, PutInIs
<1>4. /\ t \in Seq(Nat) /\ Len(t) = L + 1
      /\ \A n \in 1 .. L + 1 :
           t[n] = IF n <= r THEN line[n] ELSE IF n = r + 1 THEN p + 1 ELSE line[n - 1] + 1
  <2>1. line \in Seq(Nat) /\ r \in 1 .. Len(line) /\ p \in Nat
    BY <1>1
  <2>2. BrokenLines(line, r, p) \in Seq(Nat)
    BY <2>1, BrokenLinesIs
  <2>3. Len(BrokenLines(line, r, p)) = Len(line) + 1
    BY <2>1, BrokenLinesIs
  <2>4. \A n \in 1 .. Len(line) + 1 :
          BrokenLines(line, r, p)[n] =
            IF n <= r THEN line[n] ELSE IF n = r + 1 THEN p + 1 ELSE line[n - 1] + 1
    BY <2>1, BrokenLinesIs
  <2> QED
    BY <2>2, <2>3, <2>4
<1> HIDE DEF L, K, s, t
<1>5. t[1] = 0 /\ t[L + 1] = K + 1
  <2>1. 1 \in 1 .. L + 1 /\ L + 1 \in 1 .. L + 1 /\ 1 <= r /\ ~(L + 1 <= r) /\ L + 1 # r + 1
    BY <1>1
  <2>2. t[1] = line[1] /\ t[L + 1] = line[(L + 1) - 1] + 1
    BY <1>4, <2>1
  <2> QED
    BY <1>1, <1>2, <2>2
\* Each pointer but the new one comes from another.
<1>6. ASSUME NEW m \in 1 .. L + 1, NEW n \in 1 .. L + 1, m < n
      PROVE  t[m] < t[n]
  <2>1. CASE n <= r
    <3>1. m \in 1 .. L /\ n \in 1 .. L /\ m <= r
      BY <1>1, <1>6, <2>1
    <3>2. t[m] = line[m] /\ t[n] = line[n]
      BY <1>4, <2>1, <3>1
    <3> QED
      BY <1>2, <1>6, <3>1, <3>2
  <2>2. CASE n = r + 1
    <3>1. m \in 1 .. L /\ m <= r /\ ~(n <= r)
      BY <1>1, <1>6, <2>2
    <3>2. t[m] = line[m] /\ t[n] = p + 1
      BY <1>4, <2>2, <3>1
    <3>3. line[m] <= p /\ line[m] \in Nat /\ p \in Nat
      BY <1>1, <1>10, <3>1
    <3> QED
      BY <3>2, <3>3
  <2>3. CASE n > r + 1
    <3>1. n - 1 \in 1 .. L /\ n - 1 > r /\ ~(n <= r) /\ n # r + 1
      BY <1>1, <2>3
    <3>0. t[n] = line[n - 1] + 1
      BY <1>4, <3>1
    <3>2. /\ t[n] = line[n - 1] + 1 /\ line[n - 1] > p
          /\ line[n - 1] \in Nat /\ p \in Nat
      BY <1>1, <1>10, <3>0, <3>1
    <3>3. CASE m <= r
      <4>1. m \in 1 .. L
        BY <1>1, <3>3
      <4>2. t[m] = line[m]
        BY <1>4, <3>3
      <4>3. line[m] <= p /\ line[m] \in Nat
        BY <1>10, <3>3, <4>1
      <4> QED
        BY <3>2, <4>2, <4>3
    <3>4. CASE m = r + 1
      <4>1. ~(m <= r)
        BY <1>1, <3>4
      <4>2. t[m] = p + 1
        BY <1>4, <3>4, <4>1
      <4> QED
        BY <3>2, <4>2
    <3>5. CASE m > r + 1
      <4>1. m - 1 \in 1 .. L /\ ~(m <= r) /\ m # r + 1 /\ m - 1 < n - 1
        BY <1>1, <1>6, <3>5
      <4>2. t[m] = line[m - 1] + 1
        BY <1>4, <4>1
      <4>3. line[m - 1] < line[n - 1] /\ line[m - 1] \in Nat
        BY <1>2, <1>10, <3>1, <4>1
      <4> QED
        BY <3>2, <4>2, <4>3
    <3>6. m <= r \/ m = r + 1 \/ m > r + 1
      BY <1>1
    <3> QED
      BY <3>3, <3>4, <3>5, <3>6
  <2>4. n <= r \/ n = r + 1 \/ n > r + 1
    BY <1>1
  <2> QED
    BY <2>1, <2>2, <2>3, <2>4
<1>7. ASSUME NEW n \in 2 .. L
      PROVE  s[t[n]] = NL
  <2>0. n \in 1 .. L + 1
    BY <1>1
  <2>1. CASE n <= r
    <3>0. n \in 2 .. L - 1 /\ n \in 1 .. L
      BY <1>1, <2>1
    <3>1. t[n] = line[n] /\ line[n] <= p
      BY <1>4, <1>10, <2>0, <2>1, <3>0
    <3>2. line[n] \in 1 .. K + 1 /\ item[line[n]] = NL
      BY <1>1, <1>10, <3>0
    <3> QED
      BY <1>3, <3>1, <3>2
  <2>2. CASE n = r + 1
    <3>1. t[n] = p + 1 /\ p + 1 \in 1 .. K + 1 /\ ~(p + 1 <= p)
      BY <1>1, <1>4, <2>0, <2>2
    <3> QED
      BY <1>3, <3>1
  <2>3. CASE n > r + 1
    <3>1. n - 1 \in 2 .. L - 1 /\ n - 1 > r /\ ~(n <= r) /\ n # r + 1
      BY <1>1, <2>3
    <3>0. t[n] = line[n - 1] + 1
      BY <1>4, <2>0, <3>1
    <3>2. /\ t[n] = line[n - 1] + 1 /\ line[n - 1] > p /\ line[n - 1] \in 1 .. K - 1
          /\ item[line[n - 1]] = NL
      BY <1>10, <3>0, <3>1
    <3> DEFINE x == line[n - 1]
    <3>3. x \in 1 .. K - 1 /\ x > p /\ K \in Nat /\ p \in Nat
      BY <1>1, <3>2
    <3>4. t[n] = x + 1 /\ item[x] = NL
      BY <3>2
    <3> HIDE DEF x
    <3>5. x + 1 \in 1 .. K + 1 /\ ~(x + 1 <= p) /\ x + 1 # p + 1 /\ (x + 1) - 1 = x
      BY <3>3
    <3>6. s[x + 1] = item[x]
      BY <1>3, <3>5
    <3> QED
      BY <3>4, <3>6
  <2>4. n <= r \/ n = r + 1 \/ n > r + 1
    BY <1>1
  <2> QED
    BY <2>1, <2>2, <2>3, <2>4
<1>8. ASSUME NEW j \in 1 .. K + 1, s[j] = NL
      PROVE  \E n \in 2 .. L : t[n] = j
  <2>1. CASE j <= p
    <3>0. j \in 1 .. K
      BY <1>1, <2>1
    <3>1. j \in 1 .. K /\ item[j] = NL
      BY <1>3, <1>8, <2>1, <3>0
    <3>2. PICK n \in 2 .. L - 1 : line[n] = j
      BY <3>1 DEF Laid, L, K
    <3>3. n \in 1 .. L + 1 /\ n <= r /\ n \in 2 .. L
      BY <1>1, <1>10, <2>1, <3>2
    <3>4. t[n] = j
      BY <1>4, <3>2, <3>3
    <3> QED
      BY <3>3, <3>4
  <2>2. CASE j = p + 1
    <3>1. r + 1 \in 2 .. L /\ r + 1 \in 1 .. L + 1 /\ ~(r + 1 <= r)
      BY <1>1
    <3>2. t[r + 1] = p + 1
      BY <1>4, <3>1
    <3> QED
      BY <2>2, <3>1, <3>2
  <2>3. CASE j > p + 1
    <3>1. j - 1 \in 1 .. K /\ item[j - 1] = NL /\ j - 1 > p
      BY <1>1, <1>3, <1>8, <2>3
    <3>2. PICK n \in 2 .. L - 1 : line[n] = j - 1
      BY <3>1 DEF Laid, L, K
    <3>3. n \in 1 .. L /\ n > r
      BY <1>1, <1>10, <3>1, <3>2
    <3>4. /\ n + 1 \in 1 .. L + 1 /\ n + 1 \in 2 .. L
          /\ ~(n + 1 <= r) /\ n + 1 # r + 1 /\ (n + 1) - 1 = n
      BY <1>1, <3>3
    <3>5. t[n + 1] = (j - 1) + 1
      BY <1>4, <3>2, <3>4
    <3> QED
      BY <3>4, <3>5
  <2>4. j <= p \/ j = p + 1 \/ j > p + 1
    BY <1>1
  <2> QED
    BY <2>1, <2>2, <2>3, <2>4
<1>9. Len(t) >= 2 /\ Len(t) - 1 = L
  BY <1>1, <1>2, <1>4
<1> QED
  BY <1>3, <1>4, <1>5, <1>6, <1>7, <1>8, <1>9 DEF Laid, s, t

\* edit_delc(): the character behind p goes, and the row r stays.
LEMMA LaidTaken ==
  ASSUME NEW item \in Seq(Glyph), NEW line, Laid(item, line),
         NEW r \in 1 .. Len(line) - 1, NEW p \in Nat,
         line[r] <= p, p + 1 < line[r + 1]
  PROVE  Laid(TakenOut(item, p), Shifted(line, r - 1, -1))
<1> DEFINE L == Len(line)
           K == Len(item)
           s == TakenOut(item, p)
           t == Shifted(line, r - 1, -1)
<1>0. line[r + 1] \in Nat /\ p < line[r + 1]
  BY SMTT(30) DEF Laid
<1>1. /\ line \in Seq(Nat) /\ L \in Nat /\ K \in Nat
      /\ 1 \in 1 .. L /\ L \in 1 .. L
      /\ r \in 1 .. L /\ r + 1 \in 1 .. L
      /\ p \in 0 .. K - 1 /\ p \in Nat /\ r \in Nat
  BY <1>0, LaidAt
<1>10. /\ \A n \in 1 .. L : /\ line[n] \in Nat /\ line[n] <= K
                            /\ n > r => line[n] > p
                            /\ n <= r => line[n] <= p
       /\ \A n \in 2 .. L - 1 : /\ n \in 1 .. L
                                /\ line[n] \in 1 .. K - 1 /\ item[line[n]] = NL
  BY <1>0, LaidAt
<1>2. /\ L >= 2 /\ line[1] = 0 /\ line[L] = K
      /\ \A m, n \in 1 .. L : m < n => line[m] < line[n]
      /\ \A j \in 1 .. K : item[j] = NL => \E n \in 2 .. L - 1 : line[n] = j
  BY DEF Laid
<1>3. /\ Len(s) = K - 1
      /\ \A i \in 1 .. K - 1 : s[i] = IF i <= p THEN item[i] ELSE item[i + 1]
  BY <1>1, TakenOutIs
<1>4. /\ t \in Seq(Nat) /\ Len(t) = L
      /\ \A n \in 1 .. L : t[n] = IF n > r THEN line[n] + (-1) ELSE line[n]
  <2>1. \A n \in 1 .. Len(line) : n > r => line[n] > 0
    BY <1>1, <1>10, SMTT(30)
  <2>2. r \in 1 .. Len(line) /\ -1 \in {1, -1} /\ line \in Seq(Nat)
    BY <1>1
  <2> QED
    BY ONLY <2>1, <2>2, ShiftedIs
<1>11. p + 1 < line[r + 1]
  OBVIOUS
<1> HIDE DEF L, K, s, t
<1>5. ASSUME NEW n \in 1 .. L, n > r
      PROVE  line[n] > p + 1 /\ line[n] \in Nat /\ t[n] = line[n] - 1
  <2>1. n = r + 1 \/ r + 1 < n
    BY <1>1, <1>5
  <2>2. line[n] \in Nat /\ line[r + 1] \in Nat
    BY <1>1, <1>10
  <2>3. r + 1 < n => line[r + 1] < line[n]
    BY <1>1, <1>2
  <2>4. t[n] = line[n] + (-1)
    BY <1>4, <1>5
  <2> QED
    BY <1>1, <1>11, <2>1, <2>2, <2>3, <2>4, SMTT(60)
<1>6. ASSUME NEW n \in 1 .. L, n <= r
      PROVE  line[n] <= p /\ line[n] \in Nat /\ t[n] = line[n]
  <2>1. ~(n > r)
    BY <1>1, <1>6
  <2> QED
    BY <1>4, <1>6, <1>10, <2>1
<1>7. t[1] = 0 /\ t[L] = K - 1
  <2>1. 1 <= r /\ L > r
    BY <1>1
  <2>2. t[1] = line[1]
    BY <1>1, <1>6, <2>1
  <2>3. t[L] = line[L] - 1
    BY <1>1, <1>5, <2>1
  <2> QED
    BY <1>2, <2>2, <2>3
<1>8. ASSUME NEW m \in 1 .. L, NEW n \in 1 .. L, m < n
      PROVE  t[m] < t[n]
  <2>1. line[m] < line[n]
    BY <1>2, <1>8
  <2>2. CASE n <= r
    <3>1. m <= r
      BY <1>1, <1>8, <2>2
    <3> QED
      BY <1>6, <2>1, <2>2, <3>1
  <2>3. CASE n > r /\ m <= r
    <3>1. line[n] > p + 1 /\ line[n] \in Nat /\ t[n] = line[n] - 1
      BY <1>5, <2>3
    <3>2. line[m] <= p /\ line[m] \in Nat /\ t[m] = line[m]
      BY <1>6, <2>3
    <3> QED
      BY <1>1, <3>1, <3>2
  <2>4. CASE m > r
    <3>1. n > r
      BY <1>1, <1>8, <2>4
    <3>2. line[n] \in Nat /\ t[n] = line[n] - 1
      BY <1>5, <3>1
    <3>3. line[m] \in Nat /\ t[m] = line[m] - 1
      BY <1>5, <2>4
    <3> QED
      BY <2>1, <3>2, <3>3
  <2>5. n <= r \/ (n > r /\ m <= r) \/ m > r
    BY <1>1
  <2> QED
    BY <2>2, <2>3, <2>4, <2>5
<1>9. ASSUME NEW n \in 2 .. L - 1
      PROVE  s[t[n]] = NL
  <2>0. n \in 1 .. L /\ line[n] \in 1 .. K - 1 /\ item[line[n]] = NL
    BY <1>10
  <2>1. CASE n <= r
    <3>1. line[n] <= p /\ t[n] = line[n]
      BY <1>6, <2>0, <2>1
    <3> QED
      BY <1>3, <2>0, <3>1
  <2>2. CASE n > r
    <3>1. line[n] > p + 1 /\ t[n] = line[n] - 1
      BY <1>5, <2>0, <2>2
    <3> DEFINE x == line[n]
    <3>2. x \in 1 .. K - 1 /\ x > p + 1 /\ item[x] = NL /\ t[n] = x - 1
      BY <2>0, <3>1
    <3> HIDE DEF x
    <3>3. x - 1 \in 1 .. K - 1 /\ ~(x - 1 <= p) /\ (x - 1) + 1 = x
      BY <1>1, <3>2
    <3>4. s[x - 1] = item[x]
      BY <1>3, <3>3
    <3> QED
      BY <3>2, <3>4
  <2>3. n <= r \/ n > r
    BY <1>1
  <2> QED
    BY <2>1, <2>2, <2>3
<1>12. ASSUME NEW j \in 1 .. K - 1, s[j] = NL
       PROVE  \E n \in 2 .. L - 1 : t[n] = j
  <2>1. CASE j <= p
    <3>1. j \in 1 .. K /\ item[j] = NL
      BY <1>1, <1>3, <1>12, <2>1
    <3>2. PICK n \in 2 .. L - 1 : line[n] = j
      BY <1>2, <3>1
    <3>3. n \in 1 .. L /\ n <= r
      BY <1>1, <1>10, <2>1, <3>2
    <3>4. t[n] = j
      BY <1>6, <3>2, <3>3
    <3> QED
      BY <3>4
  <2>2. CASE j > p
    <3>0. j + 1 \in 1 .. K /\ j + 1 > p /\ ~(j <= p)
      BY <1>1, <2>2
    <3>6. s[j] = item[j + 1]
      BY <1>3, <3>0
    <3>1. j + 1 \in 1 .. K /\ item[j + 1] = NL /\ j + 1 > p
      BY <1>12, <3>0, <3>6
    <3>2. PICK n \in 2 .. L - 1 : line[n] = j + 1
      BY <1>2, <3>1
    <3>3. n \in 1 .. L /\ n > r
      BY <1>1, <1>10, <3>1, <3>2
    <3>4. t[n] = line[n] - 1
      BY <1>5, <3>3
    <3>5. t[n] = j
      BY <3>2, <3>4
    <3> QED
      BY <3>5
  <2>3. j <= p \/ j > p
    BY <1>1
  <2> QED
    BY <2>1, <2>2, <2>3
<1> QED
  BY <1>2, <1>3, <1>4, <1>7, <1>8, <1>9, <1>12 DEF Laid, L, K, s, t

\* The pointers, when the row behind the row r is appended to it
MergedLines(line, r) ==
  SubSeq(line, 1, r) \o [n \in 1 .. Len(line) - r - 1 |-> line[r + 1 + n] - 1]

LEMMA MergedLinesIs ==
  ASSUME NEW line \in Seq(Nat), NEW r \in 1 .. Len(line) - 1,
         \A n \in 1 .. Len(line) : n > r => line[n] > 0
  PROVE  /\ MergedLines(line, r) \in Seq(Nat)
         /\ Len(MergedLines(line, r)) = Len(line) - 1
         /\ \A n \in 1 .. Len(line) - 1 :
              MergedLines(line, r)[n] = IF n <= r THEN line[n] ELSE line[n + 1] - 1
<1> DEFINE L == Len(line)
           a == SubSeq(line, 1, r)
           b == [n \in 1 .. L - r - 1 |-> line[r + 1 + n] - 1]
<1>0. /\ L \in Nat /\ r \in Nat /\ L - r - 1 \in Nat
      /\ \A n \in 1 .. L : line[n] \in Nat
      /\ \A n \in 1 .. L : n > r => line[n] > 0
  OBVIOUS
<1>1. /\ a \in Seq(Nat) /\ Len(a) = r
      /\ \A i \in 1 .. r : a[i] = line[i]
  BY SubSeqIs
<1> HIDE DEF L
<1>2. /\ b \in Seq(Nat) /\ Len(b) = L - r - 1
      /\ \A i \in 1 .. L - r - 1 : b[i] = line[r + 1 + i] - 1
  <2>1. ASSUME NEW n \in 1 .. L - r - 1
        PROVE  line[r + 1 + n] - 1 \in Nat
    <3>1. r + 1 + n \in 1 .. L /\ r + 1 + n > r
      BY <1>0
    <3>2. line[r + 1 + n] \in Nat /\ line[r + 1 + n] > 0
      BY <1>0, <3>1
    <3> QED
      BY <3>2
  <2>2. b \in [1 .. L - r - 1 -> Nat]
    BY <2>1
  <2> QED
    BY <1>0, <2>2
<1> HIDE DEF a, b
<1>4. /\ a \o b \in Seq(Nat) /\ Len(a \o b) = Len(a) + Len(b)
      /\ \A i \in 1 .. Len(a) + Len(b) :
           (a \o b)[i] = IF i <= Len(a) THEN a[i] ELSE b[i - Len(a)]
  BY <1>1, <1>2, ConcatProperties
<1>5. Len(a) + Len(b) = L - 1
  BY <1>0, <1>1, <1>2
<1>6. ASSUME NEW n \in 1 .. L - 1
      PROVE  (a \o b)[n] = IF n <= r THEN line[n] ELSE line[n + 1] - 1
  <2>1. CASE n <= r
    <3>1. n \in 1 .. r
      BY <1>0, <2>1
    <3> QED
      BY <1>1, <1>4, <1>5, <2>1, <3>1
  <2>2. CASE n > r
    <3> DEFINE j == n - r
    <3>1. j \in 1 .. L - r - 1 /\ n - Len(a) = j /\ r + 1 + j = n + 1
      BY <1>0, <1>1, <2>2
    <3>2. ~(n <= r) /\ ~(n <= Len(a))
      BY <1>0, <1>1, <2>2
    <3>3. (a \o b)[n] = b[j]
      BY <1>4, <1>5, <3>1, <3>2
    <3> HIDE DEF j
    <3>4. b[j] = line[n + 1] - 1
      BY <1>2, <3>1
    <3> QED
      BY <3>2, <3>3, <3>4
  <2>3. n <= r \/ n > r
    BY <1>0
  <2> QED
    BY <2>1, <2>2, <2>3
<1>7. MergedLines(line, r) = a \o b
  BY DEF MergedLines, a, b, L
<1> QED
  BY <1>4, <1>5, <1>6, <1>7 DEF L

\* edit_delc(): the end of the row r goes.
LEMMA LaidMerged ==
  ASSUME NEW item \in Seq(Glyph), NEW line, Laid(item, line),
         NEW r \in 1 .. Len(line) - 2, NEW p \in Nat,
         line[r] <= p, p + 1 = line[r + 1]
  PROVE  Laid(TakenOut(item, p), MergedLines(line, r))
<1> DEFINE L == Len(line)
           K == Len(item)
           s == TakenOut(item, p)
           t == MergedLines(line, r)
<1>00. L \in Nat /\ line \in Seq(Nat)
  BY DEF Laid
<1>01. r \in 1 .. L - 1 /\ r + 1 \in 1 .. L
  BY <1>00
<1>02. line[r + 1] \in Nat
  BY <1>00, <1>01
<1>0. line[r + 1] \in Nat /\ p < line[r + 1] /\ r \in 1 .. L - 1
  BY <1>01, <1>02
<1>1. /\ line \in Seq(Nat) /\ L \in Nat /\ K \in Nat
      /\ 1 \in 1 .. L /\ L \in 1 .. L
      /\ r \in 1 .. L /\ r + 1 \in 1 .. L
      /\ p \in 0 .. K - 1 /\ p \in Nat /\ r \in Nat /\ r < L - 1
  BY <1>0, LaidAt
<1>10. /\ \A n \in 1 .. L : /\ line[n] \in Nat /\ line[n] <= K
                            /\ n > r => line[n] > p
                            /\ n <= r => line[n] <= p
       /\ \A n \in 2 .. L - 1 : /\ n \in 1 .. L
                                /\ line[n] \in 1 .. K - 1 /\ item[line[n]] = NL
  BY <1>0, LaidAt
<1>2. /\ L >= 2 /\ line[1] = 0 /\ line[L] = K
      /\ \A m, n \in 1 .. L : m < n => line[m] < line[n]
      /\ \A j \in 1 .. K : item[j] = NL => \E n \in 2 .. L - 1 : line[n] = j
  BY DEF Laid
<1>3. /\ Len(s) = K - 1
      /\ \A i \in 1 .. K - 1 : s[i] = IF i <= p THEN item[i] ELSE item[i + 1]
  BY <1>1, TakenOutIs
<1>4. /\ t \in Seq(Nat) /\ Len(t) = L - 1
      /\ \A n \in 1 .. L - 1 : t[n] = IF n <= r THEN line[n] ELSE line[n + 1] - 1
  <2>1. ASSUME NEW n \in 1 .. Len(line), n > r
        PROVE  line[n] > 0
    <3>1. line[n] \in Nat /\ line[n] > p /\ p \in Nat
      BY <1>1, <1>10, <2>1
    <3> QED
      BY <3>1
  <2>2. r \in 1 .. Len(line) - 1 /\ line \in Seq(Nat)
    BY <1>0, <1>1
  <2>3. MergedLines(line, r) \in Seq(Nat)
    BY ONLY <2>1, <2>2, MergedLinesIs
  <2>4. Len(MergedLines(line, r)) = Len(line) - 1
    BY ONLY <2>1, <2>2, MergedLinesIs
  <2>5. \A n \in 1 .. Len(line) - 1 :
          MergedLines(line, r)[n] = IF n <= r THEN line[n] ELSE line[n + 1] - 1
    BY ONLY <2>1, <2>2, MergedLinesIs
  <2> QED
    BY <2>3, <2>4, <2>5
<1>11. p + 1 = line[r + 1]
  OBVIOUS
<1> HIDE DEF L, K, s, t
<1>5. ASSUME NEW n \in 1 .. L, n > r + 1
      PROVE  line[n] > p + 1 /\ line[n] \in Nat
  <2>1. line[r + 1] < line[n] /\ line[n] \in Nat
    BY <1>1, <1>2, <1>5, <1>10
  <2> QED
    BY <1>11, <2>1
<1>6. ASSUME NEW n \in 1 .. L - 1
      PROVE  /\ n <= r => /\ t[n] = line[n] /\ line[n] <= p /\ line[n] \in Nat
                          /\ n \in 1 .. L
             /\ n > r => /\ n + 1 \in 1 .. L /\ t[n] = line[n + 1] - 1
                         /\ line[n + 1] > p + 1 /\ line[n + 1] \in Nat
  <2>1. CASE n <= r
    <3>1. n \in 1 .. L /\ ~(n > r)
      BY <1>1, <2>1
    <3>2. t[n] = line[n]
      BY <1>4, <2>1
    <3> QED
      BY <1>10, <2>1, <3>1, <3>2
  <2>2. CASE n > r
    <3>1. n + 1 \in 1 .. L /\ n + 1 > r + 1 /\ ~(n <= r)
      BY <1>1, <2>2
    <3>2. t[n] = line[n + 1] - 1
      BY <1>4, <3>1
    <3>3. line[n + 1] > p + 1 /\ line[n + 1] \in Nat
      BY <1>5, <3>1
    <3> QED
      BY <3>1, <3>2, <3>3
  <2>3. n <= r \/ n > r
    BY <1>1
  <2> QED
    BY <2>1, <2>2, <2>3
<1>7. t[1] = 0 /\ t[L - 1] = K - 1
  <2>1. 1 <= r /\ L - 1 > r /\ 1 \in 1 .. L - 1 /\ L - 1 \in 1 .. L - 1 /\ (L - 1) + 1 = L
    BY <1>1
  <2>2. t[1] = line[1]
    BY <1>6, <2>1
  <2>3. t[L - 1] = line[(L - 1) + 1] - 1
    BY <1>6, <2>1
  <2> QED
    BY <1>2, <2>1, <2>2, <2>3
<1>8. ASSUME NEW m \in 1 .. L - 1, NEW n \in 1 .. L - 1, m < n
      PROVE  t[m] < t[n]
  <2>2. CASE n <= r
    <3>1. m <= r /\ m \in 1 .. L /\ n \in 1 .. L
      BY <1>1, <1>8, <2>2
    <3>2. line[m] < line[n]
      BY <1>2, <1>8, <3>1
    <3>3. t[m] = line[m] /\ t[n] = line[n]
      BY <1>6, <2>2, <3>1
    <3> QED
      BY <3>2, <3>3
  <2>3. CASE n > r /\ m <= r
    <3>1. line[n + 1] > p + 1 /\ line[n + 1] \in Nat /\ t[n] = line[n + 1] - 1
      BY <1>6, <2>3
    <3>2. line[m] <= p /\ line[m] \in Nat /\ t[m] = line[m]
      BY <1>6, <2>3
    <3> QED
      BY <1>1, <3>1, <3>2, SMTT(30)
  <2>4. CASE m > r
    <3>1. n > r /\ m + 1 < n + 1
      BY <1>1, <1>8, <2>4
    <3>2. line[n + 1] \in Nat /\ t[n] = line[n + 1] - 1 /\ n + 1 \in 1 .. L
      BY <1>6, <3>1
    <3>3. line[m + 1] \in Nat /\ t[m] = line[m + 1] - 1 /\ m + 1 \in 1 .. L
      BY <1>6, <2>4
    <3>4. line[m + 1] < line[n + 1]
      BY <1>2, <3>1, <3>2, <3>3
    <3> QED
      BY <3>2, <3>3, <3>4, SMTT(30)
  <2>5. n <= r \/ (n > r /\ m <= r) \/ m > r
    BY <1>1
  <2> QED
    BY <2>2, <2>3, <2>4, <2>5
<1>9. ASSUME NEW n \in 2 .. L - 2
      PROVE  s[t[n]] = NL
  <2>0. n \in 1 .. L - 1
    BY <1>1
  <2>1. CASE n <= r
    <3>1. n \in 2 .. L - 1 /\ line[n] <= p /\ t[n] = line[n]
      BY <1>1, <1>6, <2>0, <2>1
    <3>2. line[n] \in 1 .. K - 1 /\ item[line[n]] = NL
      BY <1>10, <3>1
    <3> QED
      BY <1>3, <3>1, <3>2
  <2>2. CASE n > r
    <3> DEFINE x == line[n + 1]
    <3>0. n + 1 \in 2 .. L - 1
      BY <1>1
    <3>1. x > p + 1 /\ t[n] = x - 1
      BY <1>6, <2>0, <2>2
    <3>2. x \in 1 .. K - 1 /\ item[x] = NL
      BY <1>10, <3>0
    <3> HIDE DEF x
    <3>3. x - 1 \in 1 .. K - 1 /\ ~(x - 1 <= p) /\ (x - 1) + 1 = x
      BY <1>1, <3>1, <3>2
    <3>4. s[x - 1] = item[x]
      BY <1>3, <3>3
    <3> QED
      BY <3>1, <3>2, <3>4
  <2>3. n <= r \/ n > r
    BY <1>1
  <2> QED
    BY <2>1, <2>2, <2>3
<1>12. ASSUME NEW j \in 1 .. K - 1, s[j] = NL
       PROVE  \E n \in 2 .. L - 2 : t[n] = j
  <2>1. CASE j <= p
    <3>1. j \in 1 .. K /\ item[j] = NL
      BY <1>1, <1>3, <1>12, <2>1
    <3>2. PICK n \in 2 .. L - 1 : line[n] = j
      BY <1>2, <3>1
    <3>6. n \in 1 .. L /\ ~(n > r)
      BY <1>1, <1>10, <2>1, <3>2
    <3>3. n \in 1 .. L - 1 /\ n <= r /\ n \in 2 .. L - 2
      BY <1>1, <3>6
    <3>4. t[n] = j
      BY <1>6, <3>2, <3>3
    <3> QED
      BY <3>3, <3>4
  <2>2. CASE j > p
    <3>0. j + 1 \in 1 .. K /\ j + 1 > p + 1 /\ ~(j <= p)
      BY <1>1, <2>2
    <3>6. s[j] = item[j + 1]
      BY <1>3, <3>0
    <3>1. item[j + 1] = NL
      BY <1>12, <3>6
    <3>2. PICK n \in 2 .. L - 1 : line[n] = j + 1
      BY <1>2, <3>0, <3>1
    <3>3. n # r + 1
      BY <1>1, <1>11, <3>0, <3>2
    <3>4. n \in 1 .. L /\ n > r
      BY <1>1, <1>10, <3>0, <3>2
    <3>5. n - 1 \in 1 .. L - 1 /\ n - 1 > r /\ n - 1 \in 2 .. L - 2 /\ (n - 1) + 1 = n
      BY <1>1, <3>2, <3>3, <3>4
    <3>7. t[n - 1] = line[n] - 1
      BY <1>6, <3>5
    <3>8. t[n - 1] = j
      BY <3>2, <3>7
    <3> QED
      BY <3>5, <3>8
  <2>3. j <= p \/ j > p
    BY <1>1
  <2> QED
    BY <2>1, <2>2, <2>3
<1>13. Len(t) >= 2 /\ Len(t) - 1 = L - 2
  BY <1>1, <1>4
<1> QED
  BY <1>3, <1>4, <1>7, <1>8, <1>9, <1>12, <1>13 DEF Laid, s, t

\* A field that is no area has one row.
LEMMA LaidOne ==
  ASSUME NEW item \in Seq(Glyph), Len(item) > 0,
         \A j \in 1 .. Len(item) : item[j] # NL,
         NEW line \in Seq(Nat), Len(line) = 2, line[1] = 0, line[2] = Len(item)
  PROVE  Laid(item, line)
<1>1. \A m, n \in 1 .. Len(line) : m < n => m = 1 /\ n = 2
  OBVIOUS
<1>2. \A m, n \in 1 .. Len(line) : m < n => line[m] < line[n]
  BY <1>1
<1>3. 2 .. Len(line) - 1 = {}
  OBVIOUS
<1> QED
  BY <1>2, <1>3 DEF Laid

\* What two rows of one field are: the text is behind no end of a line.
LEMMA OneRow ==
  ASSUME NEW item \in Seq(Glyph), NEW line, Laid(item, line), Len(line) = 2
  PROVE  /\ line \in Seq(Nat) /\ line[1] = 0 /\ line[2] = Len(item) /\ Len(item) > 0
         /\ \A j \in 1 .. Len(item) : item[j] # NL
<1>1. line[1] < line[2] /\ 2 .. Len(line) - 1 = {}
  <2>1. 1 \in 1 .. Len(line) /\ 2 \in 1 .. Len(line) /\ 1 < 2
    OBVIOUS
  <2> QED
    BY <2>1 DEF Laid
<1> QED
  BY <1>1 DEF Laid

\* A text with the \0 behind it
LEMMA EndedIs ==
  ASSUME NEW T, NEW s \in Seq(T), NEW x \in T
  PROVE  /\ s \o <<x>> \in Seq(T) /\ Len(s \o <<x>>) = Len(s) + 1
         /\ \A j \in 1 .. Len(s) : (s \o <<x>>)[j] = s[j]
         /\ (s \o <<x>>)[Len(s) + 1] = x
OBVIOUS

LEMMA LinesOfIs ==
  ASSUME NEW s \in Seq(Chars \cup {NL})
  PROVE  /\ LinesOf(s) \in Seq(Nat)
         /\ Laid(s \o <<NUL>>, LinesOf(s))
         /\ (\A k \in 1 .. Len(s) : s[k] # NL) => Len(LinesOf(s)) = 2
<1> DEFINE K == Len(s)
           B == Breaks(s)
           n == Cardinality(B)
           t == LinesOf(s)
           e == s \o <<NUL>>
<1>1. K \in Nat /\ B \in SUBSET (1 .. K) /\ B = {k \in 1 .. K : s[k] = NL}
  BY DEF Breaks
<1>2. /\ n \in 0 .. K
      /\ \A k \in 1 .. n : Nth(B, k) \in B
      /\ \A k, l \in 1 .. n : k < l => Nth(B, k) < Nth(B, l)
      /\ \A i \in B : \E k \in 1 .. n : Nth(B, k) = i
  BY <1>1, NthPlace
<1>3. Len(e) = K + 1 /\ e[K + 1] = NUL /\ \A j \in 1 .. K : e[j] = s[j]
  <2>1. s \in Seq(Glyph) /\ NUL \in Glyph
    BY DEF Glyph
  <2> QED
    BY <2>1, EndedIs
<1>4. t = [k \in 1 .. n + 2 |-> IF k = 1 THEN 0 ELSE IF k = n + 2 THEN K + 1
                                ELSE Nth(B, k - 1)]
  BY DEF LinesOf
<1> HIDE DEF K, B, n, t, e
<1>5. n \in Nat /\ n <= K
  BY <1>1, <1>2
<1>6. /\ t[1] = 0 /\ t[n + 2] = K + 1
      /\ \A k \in 2 .. n + 1 : /\ t[k] = Nth(B, k - 1) /\ k - 1 \in 1 .. n
                               /\ t[k] \in B /\ t[k] \in 1 .. K
  <2>1. 1 \in 1 .. n + 2 /\ n + 2 \in 1 .. n + 2 /\ n + 2 # 1
    BY <1>5
  <2>2. ASSUME NEW k \in 2 .. n + 1
        PROVE  /\ t[k] = Nth(B, k - 1) /\ k - 1 \in 1 .. n
               /\ t[k] \in B /\ t[k] \in 1 .. K
    <3>1. k \in 1 .. n + 2 /\ k # 1 /\ k # n + 2 /\ k - 1 \in 1 .. n
      BY <1>5
    <3>2. t[k] = Nth(B, k - 1)
      BY <1>4, <3>1
    <3>3. Nth(B, k - 1) \in B
      BY <1>2, <3>1
    <3> QED
      BY <1>1, <3>1, <3>2, <3>3
  <2> QED
    BY <1>4, <2>1, <2>2
<1>7. t \in Seq(Nat) /\ Len(t) = n + 2
  <2>1. ASSUME NEW k \in 1 .. n + 2
        PROVE  t[k] \in Nat
    <3>1. k = 1 \/ k = n + 2 \/ k \in 2 .. n + 1
      BY <1>5
    <3>2. CASE k \in 2 .. n + 1
      <4>1. t[k] \in 1 .. K
        BY <1>6, <3>2
      <4> QED
        BY <1>1, <4>1
    <3> QED
      BY <1>1, <1>6, <3>1, <3>2
  <2>2. t \in [1 .. n + 2 -> Nat]
    BY <1>4, <2>1
  <2> QED
    BY <1>5, <2>2
<1>8. ASSUME NEW k \in 1 .. n + 2, NEW l \in 1 .. n + 2, k < l
      PROVE  t[k] < t[l]
  <2>1. CASE k = 1
    <3>1. l = n + 2 \/ l \in 2 .. n + 1
      BY <1>5, <1>8, <2>1
    <3>2. l \in 2 .. n + 1 => t[l] \in 1 .. K
      BY <1>6
    <3> QED
      BY <1>1, <1>6, <2>1, <3>1, <3>2
  <2>2. CASE k # 1
    <3>1. k \in 2 .. n + 1 /\ (l = n + 2 \/ l \in 2 .. n + 1)
      BY <1>5, <1>8, <2>2
    <3>2. t[k] \in 1 .. K /\ t[k] = Nth(B, k - 1) /\ k - 1 \in 1 .. n
      BY <1>6, <3>1
    <3>3. CASE l = n + 2
      BY <1>1, <1>6, <3>2, <3>3
    <3>4. CASE l \in 2 .. n + 1
      <4>1. t[l] = Nth(B, l - 1) /\ l - 1 \in 1 .. n
        BY <1>6, <3>4
      <4>2. k - 1 < l - 1
        BY <1>5, <1>8
      <4>3. Nth(B, k - 1) < Nth(B, l - 1)
        BY <1>2, <3>2, <4>1, <4>2
      <4> QED
        BY <3>2, <4>1, <4>3
    <3> QED
      BY <3>1, <3>3, <3>4
  <2> QED
    BY <2>1, <2>2
<1>9. \A k \in 2 .. n + 1 : e[t[k]] = NL
  BY <1>1, <1>3, <1>6
<1>10. ASSUME NEW j \in 1 .. K + 1, e[j] = NL
       PROVE  \E k \in 2 .. n + 1 : t[k] = j
  <2>1. j # K + 1
    BY <1>3, <1>10 DEF NL, NUL
  <2>2. j \in 1 .. K
    BY <1>1, <2>1
  <2>3. j \in B
    BY <1>1, <1>3, <1>10, <2>2
  <2>4. PICK k \in 1 .. n : Nth(B, k) = j
    BY <1>2, <2>3
  <2>5. k + 1 \in 2 .. n + 1 /\ (k + 1) - 1 = k
    BY <1>5
  <2>6. t[k + 1] = j
    BY <1>6, <2>4, <2>5
  <2> QED
    BY <2>5, <2>6
<1>11. Len(t) >= 2 /\ Len(t) - 1 = n + 1
  BY <1>5, <1>7
<1>12. ASSUME \A k \in 1 .. K : s[k] # NL
       PROVE  Len(t) = 2
  <2>1. B = {}
    BY <1>1, <1>12
  <2>2. n = 0
    BY <2>1, FS_EmptySet DEF n
  <2> QED
    BY <1>7, <2>2
<1>13. Laid(e, t)
  BY <1>3, <1>6, <1>7, <1>8, <1>9, <1>10, <1>11 DEF Laid
<1> QED
  BY <1>7, <1>12, <1>13 DEF t, e, K

-----------------------------------------------------------------------------
(***************************************************************************)
(* The block of a field.                                                   *)
(***************************************************************************)
BlockType ==
  [item : Seq(Glyph), line : Seq(Nat), base : Nat, size : Nat,
   Value : Seq(Chars \cup {NL}), vsize : Nat]

\* What the characters of a text are: \0 is behind the last.
Texted(item) == \A j \in 1 .. Len(item) - 1 : item[j] \in Chars \cup {NL}

\* What is true of the memory of a field, whatever keys came
Sound(b) ==
  /\ b \in BlockType
  /\ Laid(b.item, b.line)
  /\ Len(b.item) <= b.base
  /\ b.size = b.base + PTR * Len(b.line)
  /\ input.Type # "TAREA" => Len(b.line) = 2
  /\ input.pwd => Len(b.Value) + 1 = Len(b.item) /\ b.base <= b.vsize
  /\ ~input.pwd => Texted(b.item)
  /\ input.TextMax > 0 => b.base = input.TextMax + 1

LEMMA InputIs ==
  ASSUME input \in Inputs
  PROVE  /\ input.pwd \in BOOLEAN /\ input.TextMax \in Nat
         /\ input.text \in Seq(Chars \cup {NL})
         /\ input.pwd \/ input.TextMax > 0 => input.Type # "TAREA"
         /\ input.Type # "TAREA" => \A k \in 1 .. Len(input.text) : input.text[k] # NL
         /\ PTR \in Nat /\ GROW \in Nat /\ GROW > PTR
<1>1. /\ input.pwd \in BOOLEAN /\ input.TextMax \in Nat
      /\ input.text \in Seq(Chars \cup {NL})
      /\ input.Type # "TAREA" => \A k \in DOMAIN input.text : input.text[k] # NL
  BY InputsAssumption
<1>2. input.Type = "TAREA" => input.TextMax = 0 /\ ~input.pwd
  BY EditAssumption
<1>3. DOMAIN input.text = 1 .. Len(input.text)
  BY <1>1
<1> QED
  BY <1>1, <1>2, <1>3, EditAssumption

LEMMA StarsIs ==
  ASSUME NEW n \in Nat
  PROVE  /\ Stars(n) \o <<NUL>> \in Seq(Glyph)
         /\ Len(Stars(n) \o <<NUL>>) = n + 1
         /\ \A j \in 1 .. n + 1 : (Stars(n) \o <<NUL>>)[j] # NL
<1>1. Stars(n) \in Seq(Glyph) /\ Len(Stars(n)) = n /\ \A j \in 1 .. n : Stars(n)[j] = "*"
  <2>1. Stars(n) = [k \in 1 .. n |-> "*"] /\ "*" \in Glyph
    BY DEF Stars, Glyph
  <2>2. Stars(n) \in [1 .. n -> Glyph]
    BY <2>1
  <2> QED
    BY <2>1, <2>2
<1> DEFINE s == Stars(n)
<1> HIDE DEF s
<1>2. NUL \in Glyph
  BY DEF Glyph
<1>3. /\ s \o <<NUL>> \in Seq(Glyph) /\ Len(s \o <<NUL>>) = n + 1
      /\ \A j \in 1 .. n : (s \o <<NUL>>)[j] = s[j]
      /\ (s \o <<NUL>>)[n + 1] = NUL
  BY <1>1, <1>2, EndedIs DEF s
<1>4. ASSUME NEW j \in 1 .. n + 1
      PROVE  (s \o <<NUL>>)[j] # NL
  <2>1. j = n + 1 \/ j \in 1 .. n
    OBVIOUS
  <2> QED
    BY <1>1, <1>3, <2>1 DEF NL, NUL, s
<1> QED
  BY <1>3, <1>4 DEF s

\* edit_init() and edit_feed()
LEMMA LoadedIs ==
  ASSUME input \in Inputs
  PROVE  Sound(Loaded(input))
<1> DEFINE i     == input
           room  == IF i.TextMax > 0 THEN i.TextMax ELSE Len(i.text)
           shown1 == IF room < Len(i.text) THEN SubSeq(i.text, 1, room) ELSE i.text
           spare == IF i.Type = "TAREA" THEN PTR ELSE 0
           item  == (IF i.pwd THEN Stars(Len(shown1)) ELSE shown1) \o <<NUL>>
           b     == Loaded(input)
<1>1. /\ i.pwd \in BOOLEAN /\ i.TextMax \in Nat
      /\ i.text \in Seq(Chars \cup {NL}) /\ Len(i.text) \in Nat
      /\ i.pwd \/ i.TextMax > 0 => i.Type # "TAREA"
      /\ i.Type # "TAREA" => \A k \in 1 .. Len(i.text) : i.text[k] # NL
      /\ PTR \in Nat
  BY InputIs
<1>2. /\ room \in Nat /\ spare \in Nat
      /\ i.TextMax = 0 => room = Len(i.text)
      /\ i.TextMax > 0 => room = i.TextMax
      /\ i.Type # "TAREA" => spare = 0
  BY <1>1
<1>3. b = [item  |-> item, line |-> LinesOf(shown1), base |-> room + 1 + spare,
           size  |-> room + 1 + spare + PTR * Len(LinesOf(shown1)),
           Value |-> IF i.pwd THEN shown1 ELSE <<>>,
           vsize |-> (IF Len(i.text) < room THEN room ELSE Len(i.text)) + 1]
  BY DEF Loaded
<1>4. /\ shown1 \in Seq(Chars \cup {NL}) /\ Len(shown1) \in Nat /\ Len(shown1) <= room
      /\ i.Type # "TAREA" => \A k \in 1 .. Len(shown1) : shown1[k] # NL
  <2> HIDE DEF room
  <2>1. CASE room < Len(i.text)
    <3>1. /\ SubSeq(i.text, 1, room) \in Seq(Chars \cup {NL})
          /\ Len(SubSeq(i.text, 1, room)) = room
          /\ \A k \in 1 .. room : SubSeq(i.text, 1, room)[k] = i.text[k]
      <4> DEFINE T == Chars \cup {NL}
      <4>1. i.text \in Seq(T) /\ 1 \in 1 .. Len(i.text) + 1 /\ room \in 0 .. Len(i.text)
            /\ 1 <= room + 1
        BY <1>1, <1>2, <2>1
      <4> HIDE DEF T
      <4>2. /\ SubSeq(i.text, 1, room) \in Seq(T)
            /\ Len(SubSeq(i.text, 1, room)) = room - 1 + 1
            /\ \A k \in 1 .. room - 1 + 1 : SubSeq(i.text, 1, room)[k] = i.text[1 + k - 1]
        BY <4>1, SubSeqIs
      <4> QED
        BY <1>2, <4>2 DEF T
    <3> QED
      BY <1>1, <1>2, <2>1, <3>1
  <2>2. CASE ~(room < Len(i.text))
    BY <1>1, <1>2, <2>2
  <2> QED
    BY <2>1, <2>2
<1> HIDE DEF room, shown1, spare, b
<1>5. /\ LinesOf(shown1) \in Seq(Nat)
      /\ Laid(shown1 \o <<NUL>>, LinesOf(shown1))
      /\ (\A k \in 1 .. Len(shown1) : shown1[k] # NL) => Len(LinesOf(shown1)) = 2
  BY <1>4, LinesOfIs
<1>6. shown1 \in Seq(Glyph) /\ NUL \in Glyph
  <2>1. \A k \in 1 .. Len(shown1) : shown1[k] \in Glyph
    BY <1>4 DEF Glyph
  <2> QED
    BY <1>4, <2>1 DEF Glyph
<1>7. /\ shown1 \o <<NUL>> \in Seq(Glyph) /\ Len(shown1 \o <<NUL>>) = Len(shown1) + 1
      /\ \A j \in 1 .. Len(shown1) : (shown1 \o <<NUL>>)[j] = shown1[j]
  BY <1>6, EndedIs
<1>8. /\ Stars(Len(shown1)) \o <<NUL>> \in Seq(Glyph)
      /\ Len(Stars(Len(shown1)) \o <<NUL>>) = Len(shown1) + 1
      /\ \A j \in 1 .. Len(shown1) + 1 : (Stars(Len(shown1)) \o <<NUL>>)[j] # NL
  BY <1>4, StarsIs
<1>9. item \in Seq(Glyph) /\ Len(item) = Len(shown1) + 1 /\ Laid(item, LinesOf(shown1))
  <2>1. CASE i.pwd
    <3>1. item = Stars(Len(shown1)) \o <<NUL>>
      BY <2>1
    <3>2. Len(LinesOf(shown1)) = 2
      BY <1>1, <1>4, <1>5, <2>1
    <3>3. LinesOf(shown1)[1] = 0 /\ LinesOf(shown1)[2] = Len(shown1) + 1
      BY <1>5, <1>7, <3>2 DEF Laid
    <3> DEFINE w == Stars(Len(shown1)) \o <<NUL>>
               l == LinesOf(shown1)
    <3>4. w \in Seq(Glyph) /\ Len(w) > 0 /\ (\A j \in 1 .. Len(w) : w[j] # NL)
          /\ l \in Seq(Nat) /\ Len(l) = 2 /\ l[1] = 0 /\ l[2] = Len(w)
      BY <1>4, <1>5, <1>8, <3>2, <3>3
    <3>5. Laid(w, l)
      <4> HIDE DEF w, l
      <4> QED
        BY <3>4, LaidOne
    <3> QED
      BY <1>8, <3>1, <3>5
  <2>2. CASE ~i.pwd
    BY <1>5, <1>7, <2>2
  <2> QED
    BY <2>1, <2>2
<1>10. ~i.pwd => \A j \in 1 .. Len(item) - 1 : item[j] \in Chars \cup {NL}
  <2>1. ASSUME ~i.pwd, NEW j \in 1 .. Len(item) - 1
        PROVE  item[j] \in Chars \cup {NL}
    <3>1. item = shown1 \o <<NUL>> /\ j \in 1 .. Len(shown1)
      BY <1>4, <1>9, <2>1
    <3>2. item[j] = shown1[j]
      BY <1>7, <3>1
    <3> QED
      BY <1>4, <3>1, <3>2
  <2> QED
    BY <2>1
<1> DEFINE line == LinesOf(shown1)
<1> HIDE DEF item, line
<1>11. /\ b.item = item /\ b.line = line /\ b.base = room + 1 + spare
       /\ b.size = room + 1 + spare + PTR * Len(line)
       /\ b.Value = (IF i.pwd THEN shown1 ELSE <<>>)
       /\ b.vsize = (IF Len(i.text) < room THEN room ELSE Len(i.text)) + 1
  BY <1>3 DEF line
<1>12. line \in Seq(Nat) /\ Len(line) \in Nat /\ Laid(item, line)
       /\ (i.Type # "TAREA" => Len(line) = 2)
  BY <1>4, <1>5, <1>9 DEF line
<1>13. b \in BlockType
  <2>1. PTR * Len(line) \in Nat
    BY <1>1, <1>12
  <2>2. room + 1 + spare + PTR * Len(line) \in Nat /\ room + 1 + spare \in Nat
    BY <1>2, <2>1
  <2>3. (IF Len(i.text) < room THEN room ELSE Len(i.text)) + 1 \in Nat
    BY <1>1, <1>2
  <2>4. (IF i.pwd THEN shown1 ELSE <<>>) \in Seq(Chars \cup {NL})
    BY <1>4
  <2> QED
    BY <1>3, <1>9, <1>12, <2>2, <2>3, <2>4 DEF BlockType, line
<1>14. Len(b.item) <= b.base
  BY <1>2, <1>4, <1>9, <1>11
<1>15. i.pwd => Len(b.Value) + 1 = Len(b.item) /\ b.base <= b.vsize
  BY <1>1, <1>2, <1>4, <1>9, <1>11
<1>16. i.TextMax > 0 => b.base = i.TextMax + 1
  BY <1>1, <1>2, <1>11
<1>17. ~i.pwd => Texted(b.item)
  BY <1>10, <1>11 DEF Texted
<1>18. Laid(b.item, b.line) /\ b.size = b.base + PTR * Len(b.line)
       /\ (i.Type # "TAREA" => Len(b.line) = 2)
  BY <1>11, <1>12
<1> QED
  BY <1>13, <1>14, <1>15, <1>16, <1>17, <1>18 DEF Sound, b

LEMMA RowOf ==
  ASSUME NEW item \in Seq(Glyph), NEW line, Laid(item, line),
         NEW row \in 0 .. Len(line) - 2
  PROVE  /\ line \in Seq(Nat) /\ Len(line) \in Nat /\ Len(line) >= 2
         /\ Len(item) \in Nat /\ row \in Nat
         /\ row + 1 \in 1 .. Len(line) - 1
         /\ line[row + 1] \in Nat /\ line[row + 2] \in Nat
         /\ line[row + 1] < line[row + 2] /\ line[row + 2] <= Len(item)
         /\ row + 2 = Len(line) => line[row + 2] = Len(item)
         /\ row + 2 # Len(line) => line[row + 2] < Len(item)
<1> DEFINE L == Len(line)
           K == Len(item)
<1>1. /\ line \in Seq(Nat) /\ L \in Nat /\ L >= 2 /\ K \in Nat
      /\ \A m, n \in 1 .. L : m < n => line[m] < line[n]
      /\ \A n \in 1 .. L : line[n] \in Nat
      /\ line[L] = K
  BY DEF Laid
<1> HIDE DEF K
<1>2. /\ row \in Nat /\ row + 1 \in 1 .. L - 1 /\ row + 1 \in 1 .. L
      /\ row + 2 \in 1 .. L /\ L \in 1 .. L
  BY <1>1
<1> HIDE DEF L
<1>3. line[row + 1] \in Nat /\ line[row + 2] \in Nat
  BY <1>1, <1>2
<1>4. line[row + 1] < line[row + 2]
  <2>1. row + 1 < row + 2
    BY <1>2
  <2> QED
    BY <1>1, <1>2, <2>1
<1>5. /\ row + 2 = L => line[row + 2] = K
      /\ row + 2 # L => line[row + 2] < K
  <2>1. row + 2 # L => row + 2 < L
    BY <1>1, <1>2
  <2> QED
    BY <1>1, <1>2, <2>1
<1>6. line[row + 2] <= K
  BY <1>1, <1>3, <1>5
<1> QED
  BY <1>1, <1>2, <1>3, <1>4, <1>5, <1>6 DEF L, K

LEMMA RowIs ==
  ASSUME NEW b, Sound(b), NEW row \in 0 .. Rows(b) - 1
  PROVE  /\ Rows(b) = Len(b.line) - 1 /\ row \in 0 .. Len(b.line) - 2
         /\ Line(b, row) = b.line[row + 1]
         /\ edit_rowln(b, row) = b.line[row + 2] - b.line[row + 1] - 1
         /\ edit_rowln(b, row) \in Nat
         /\ b.item \in Seq(Glyph) /\ Laid(b.item, b.line)
<1> DEFINE line == b.line
           item == b.item
<1>1. Laid(item, line) /\ item \in Seq(Glyph) /\ Rows(b) = Len(line) - 1
  BY DEF Sound, BlockType, Rows
<1>2. Len(line) \in Nat /\ row \in 0 .. Rows(b) - 1
  BY <1>1 DEF Laid
<1>3. row \in 0 .. Len(line) - 2 /\ row \in Nat
  BY <1>1, <1>2
<1>4. edit_rowln(b, row) = line[(row + 1) + 1] - line[row + 1] - 1 /\ Line(b, row) = line[row + 1]
  BY DEF edit_rowln, Line
<1> HIDE DEF line, item
<1>5. line[row + 1] \in Nat /\ line[row + 2] \in Nat /\ line[row + 1] < line[row + 2]
  BY <1>1, <1>3, RowOf
<1>6. (row + 1) + 1 = row + 2
  BY <1>3
<1>7. edit_rowln(b, row) = line[row + 2] - line[row + 1] - 1
  BY <1>4, <1>6
<1>8. edit_rowln(b, row) \in Nat
  BY <1>5, <1>7
<1> QED
  BY <1>1, <1>3, <1>4, <1>7, <1>8 DEF line, item

\* edit_space() is what is between the text and the pointers.
LEMMA SpaceIs ==
  ASSUME NEW b, Sound(b)
  PROVE  /\ Line(b, Rows(b)) = Len(b.item)
         /\ edit_space(b) = b.base - Len(b.item)
         /\ Rows(b) + 1 = Len(b.line) /\ Rows(b) \in Nat /\ Rows(b) > 0
         /\ b.base \in Nat /\ Len(b.item) \in Nat
<1>1. Len(b.line) \in Nat /\ Len(b.line) >= 2 /\ b.line[Len(b.line)] = Len(b.item)
      /\ b.base \in Nat /\ Len(b.item) \in Nat
  BY DEF Sound, Laid, BlockType
<1>2. Rows(b) + 1 = Len(b.line) /\ Rows(b) \in Nat /\ Rows(b) > 0
  BY <1>1 DEF Rows
<1> QED
  BY <1>1, <1>2 DEF Line, edit_space

\* edit_grow()
LEMMA GrownIs ==
  ASSUME input \in Inputs, NEW b, Sound(b), CanGrow
  PROVE  /\ Sound(Grown(b))
         /\ Grown(b).item = b.item /\ Grown(b).line = b.line /\ Grown(b).Value = b.Value
         /\ Grown(b).base >= b.base + GROW
<1> DEFINE n == b.base + GROW
           e == Even(n)
           z == e + PTR * Len(b.line)
           g == Grown(b)
<1>1. b \in BlockType /\ b.base \in Nat /\ PTR \in Nat /\ GROW \in Nat
      /\ input.TextMax = 0 /\ Len(b.line) \in Nat
  BY InputIs DEF Sound, BlockType, CanGrow
<1>2. n \in Nat /\ e \in Nat /\ n <= e /\ e <= n + 1
  BY <1>1 DEF Even
<1>3. Rows(b) + 1 = Len(b.line)
  BY SpaceIs
<1> HIDE DEF n, e
<1>4. g = [b EXCEPT !.base = e, !.size = z, !.vsize = n + 1]
  BY <1>3 DEF Grown, n, e
<1>5. z \in Nat /\ n + 1 \in Nat
  BY <1>1, <1>2
<1>10. z = e + PTR * Len(b.line)
  OBVIOUS
<1> HIDE DEF z, g
<1>6. /\ g \in BlockType /\ g.item = b.item /\ g.line = b.line /\ g.Value = b.Value
      /\ g.base = e /\ g.size = z /\ g.vsize = n + 1
  BY <1>1, <1>2, <1>4, <1>5 DEF BlockType
<1>7. Len(g.item) <= g.base /\ g.base >= b.base + GROW
  <2>1. Len(b.item) <= b.base /\ Len(b.item) \in Nat
    BY DEF Sound, BlockType
  <2> QED
    BY <1>1, <1>2, <1>6, <2>1 DEF n
<1>8. g.size = g.base + PTR * Len(g.line)
  BY <1>6, <1>10
<1>9. g.base <= g.vsize
  BY <1>2, <1>6
<1> QED
  BY <1>1, <1>6, <1>7, <1>8, <1>9 DEF Sound, g

LEMMA TextedPutIn ==
  ASSUME NEW item \in Seq(Glyph), Texted(item), NEW p \in 0 .. Len(item) - 1,
         NEW c \in Chars \cup {NL}
  PROVE  /\ PutIn(item, p, c) \in Seq(Glyph) /\ Len(PutIn(item, p, c)) = Len(item) + 1
         /\ Texted(PutIn(item, p, c))
<1> DEFINE K == Len(item)
           w == PutIn(item, p, c)
<1>1. K \in Nat /\ p \in Nat /\ p <= K - 1
  OBVIOUS
<1>2. /\ w \in Seq(Glyph) /\ Len(w) = K + 1
      /\ \A i \in 1 .. K + 1 : w[i] = IF i <= p THEN item[i]
                                      ELSE IF i = p + 1 THEN c ELSE item[i - 1]
  <2>1. p \in 0 .. Len(item) /\ c \in Glyph
    BY DEF Glyph
  <2>2. w \in Seq(Glyph) /\ Len(w) = K + 1
    BY <2>1, PutInIs
  <2>3. \A i \in 1 .. K + 1 : w[i] = IF i <= p THEN item[i]
                                      ELSE IF i = p + 1 THEN c ELSE item[i - 1]
    BY <2>1, PutInIs
  <2> QED
    BY <2>2, <2>3
<1>3. \A j \in 1 .. K - 1 : item[j] \in Chars \cup {NL}
  BY DEF Texted
<1> HIDE DEF K, w
<1>4. ASSUME NEW j \in 1 .. K
      PROVE  w[j] \in Chars \cup {NL}
  <2>0. j \in 1 .. K + 1
    BY <1>1
  <2>1. CASE j <= p
    <3>1. w[j] = item[j] /\ j \in 1 .. K - 1
      BY <1>1, <1>2, <2>0, <2>1
    <3> QED
      BY <1>3, <3>1
  <2>2. CASE j = p + 1
    <3>1. w[j] = c
      BY <1>1, <1>2, <2>0, <2>2
    <3> QED
      BY <3>1
  <2>3. CASE j > p + 1
    <3>1. ~(j <= p) /\ j # p + 1 /\ j - 1 \in 1 .. K - 1
      BY <1>1, <2>3
    <3>2. w[j] = item[j - 1]
      BY <1>2, <2>0, <3>1
    <3> QED
      BY <1>3, <3>1, <3>2
  <2>4. j <= p \/ j = p + 1 \/ j > p + 1
    BY <1>1
  <2> QED
    BY <2>1, <2>2, <2>3, <2>4
<1>5. Len(w) - 1 = K
  BY <1>1, <1>2
<1> QED
  BY <1>2, <1>4, <1>5 DEF Texted, w, K

LEMMA TextedTakenOut ==
  ASSUME NEW item \in Seq(Glyph), Texted(item), NEW p \in 0 .. Len(item) - 2
  PROVE  /\ TakenOut(item, p) \in Seq(Glyph) /\ Len(TakenOut(item, p)) = Len(item) - 1
         /\ Texted(TakenOut(item, p))
<1> DEFINE K == Len(item)
           w == TakenOut(item, p)
<1>1. K \in Nat /\ p \in Nat /\ p <= K - 2
  OBVIOUS
<1>2. /\ w \in Seq(Glyph) /\ Len(w) = K - 1
      /\ \A i \in 1 .. K - 1 : w[i] = IF i <= p THEN item[i] ELSE item[i + 1]
  <2>1. p \in 0 .. Len(item) - 1
    BY <1>1
  <2>2. w \in Seq(Glyph) /\ Len(w) = K - 1
    BY <2>1, TakenOutIs
  <2>3. \A i \in 1 .. K - 1 : w[i] = IF i <= p THEN item[i] ELSE item[i + 1]
    BY <2>1, TakenOutIs
  <2> QED
    BY <2>2, <2>3
<1>3. \A j \in 1 .. K - 1 : item[j] \in Chars \cup {NL}
  BY DEF Texted
<1> HIDE DEF K, w
<1>4. ASSUME NEW j \in 1 .. K - 2
      PROVE  w[j] \in Chars \cup {NL}
  <2>0. j \in 1 .. K - 1 /\ j + 1 \in 1 .. K - 1
    BY <1>1
  <2>1. w[j] = IF j <= p THEN item[j] ELSE item[j + 1]
    BY <1>2, <2>0
  <2> QED
    BY <1>3, <2>0, <2>1
<1>5. Len(w) - 1 = K - 2
  BY <1>1, <1>2
<1> QED
  BY <1>2, <1>4, <1>5 DEF Texted, w, K

\* The pointers of a row that gets n characters, 1 or -1, more
LEMMA RowMoved ==
  ASSUME NEW item \in Seq(Glyph), NEW line, Laid(item, line),
         NEW row \in 0 .. Len(line) - 2, NEW d \in {1, -1}
  PROVE  /\ Shifted(line, row, d) \in Seq(Nat)
         /\ Len(Shifted(line, row, d)) = Len(line)
         /\ Shifted(line, row, d)[row + 1] = line[row + 1]
         /\ Shifted(line, row, d)[row + 2] = line[row + 2] + d
<1> DEFINE r == row + 1
           L == Len(line)
           t == Shifted(line, row, d)
<1>1. /\ line \in Seq(Nat) /\ L \in Nat /\ row \in Nat /\ r \in Nat
      /\ \A m, n \in 1 .. L : m < n => line[m] < line[n]
      /\ \A n \in 1 .. L : line[n] \in Nat
  BY RowOf DEF Laid
<1>2. r \in 1 .. L /\ r - 1 = row /\ row + 2 \in 1 .. L /\ row + 2 > r /\ row + 1 = r
  BY <1>1
<1> HIDE DEF r, L
<1>3. ASSUME NEW n \in 1 .. L, n > r
      PROVE  line[n] > 0
  <2>1. line[r] < line[n] /\ line[r] \in Nat /\ line[n] \in Nat
    BY <1>1, <1>2, <1>3
  <2> QED
    BY <2>1
<1>4. Shifted(line, r - 1, d) \in Seq(Nat)
  BY <1>1, <1>2, <1>3, ShiftedIs DEF L
<1>5. Len(Shifted(line, r - 1, d)) = Len(line)
  BY <1>1, <1>2, <1>3, ShiftedIs DEF L
<1>6. \A n \in 1 .. L :
        Shifted(line, r - 1, d)[n] = IF n > r THEN line[n] + d ELSE line[n]
  <2>1. DOMAIN line = 1 .. L /\ (r - 1) + 1 = r
    BY <1>1, <1>2 DEF L
  <2> QED
    BY <2>1 DEF Shifted
<1>7. t \in Seq(Nat) /\ Len(t) = L /\ \A n \in 1 .. L : t[n] = IF n > r THEN line[n] + d ELSE line[n]
  BY <1>2, <1>4, <1>5, <1>6 DEF L
<1> HIDE DEF t
<1>8. t[r] = line[r] /\ t[row + 2] = line[row + 2] + d
  <2>1. ~(r > r)
    BY <1>1
  <2> QED
    BY <1>2, <1>7, <2>1
<1> QED
  BY <1>2, <1>7, <1>8 DEF t, L

\* A password has one row: as many asterisks as characters.
LEMMA StarsLaid ==
  ASSUME NEW item \in Seq(Glyph), NEW line, Laid(item, line), Len(line) = 2,
         NEW d \in {1, -1}, Len(item) + d > 0,
         NEW w \in Seq(Glyph), Len(w) = Len(item) + d,
         \A j \in 1 .. Len(w) : w[j] # NL
  PROVE  Laid(w, Shifted(line, 0, d))
<1>1. line[1] = 0 /\ line[2] = Len(item) /\ Len(item) \in Nat
  BY OneRow
<1> DEFINE t == Shifted(line, 0, d)
<1>2. t \in Seq(Nat) /\ Len(t) = 2 /\ t[1] = 0 /\ t[2] = Len(item) + d
  <2>1. 0 \in 0 .. Len(line) - 2 /\ 0 + 1 = 1 /\ 0 + 2 = 2
    OBVIOUS
  <2>2. /\ Shifted(line, 0, d) \in Seq(Nat)
        /\ Len(Shifted(line, 0, d)) = Len(line)
        /\ Shifted(line, 0, d)[0 + 1] = line[0 + 1]
        /\ Shifted(line, 0, d)[0 + 2] = line[0 + 2] + d
    BY <2>1, RowMoved
  <2> QED
    BY <1>1, <2>1, <2>2
<1> HIDE DEF t
<1> QED
  BY <1>1, <1>2, LaidOne DEF t

LEMMA SoundIs ==
  ASSUME input \in Inputs, NEW b, Sound(b)
  PROVE  /\ b \in BlockType
         /\ b.item \in Seq(Glyph) /\ b.line \in Seq(Nat) /\ b.base \in Nat
         /\ b.Value \in Seq(Chars \cup {NL}) /\ Len(b.Value) \in Nat
         /\ Len(b.item) \in Nat /\ Len(b.line) \in Nat /\ Len(b.line) >= 2
         /\ Rows(b) = Len(b.line) - 1
         /\ input.pwd => Len(b.line) = 2
         /\ input.pwd \in BOOLEAN /\ PTR \in Nat
<1>1. b \in BlockType /\ Laid(b.item, b.line) /\ (input.Type # "TAREA" => Len(b.line) = 2)
  BY DEF Sound
<1>2. /\ b.item \in Seq(Glyph) /\ b.line \in Seq(Nat) /\ b.base \in Nat
      /\ b.Value \in Seq(Chars \cup {NL})
  BY <1>1 DEF BlockType
<1>3. Len(b.line) >= 2
  BY <1>1 DEF Laid
<1>4. Len(b.Value) \in Nat /\ Len(b.item) \in Nat /\ Len(b.line) \in Nat
  BY <1>2
<1>5. Rows(b) = Len(b.line) - 1
  BY DEF Rows
<1>6. input.pwd \in BOOLEAN /\ PTR \in Nat /\ (input.pwd => input.Type # "TAREA")
  BY InputIs
<1> QED
  BY <1>1, <1>2, <1>3, <1>4, <1>5, <1>6

\* A block whose text and lines were changed
With(b, item, line, v, base) ==
  [b EXCEPT !.item = item, !.line = line, !.Value = v, !.base = base]

LEMMA SoundWith ==
  ASSUME input \in Inputs, NEW b, Sound(b),
         NEW item \in Seq(Glyph), NEW line, Laid(item, line),
         NEW v \in Seq(Chars \cup {NL}),
         NEW base \in Nat, Len(item) <= base,
         base + PTR * Len(line) = b.size,
         input.Type # "TAREA" => Len(line) = 2,
         input.pwd => Len(v) + 1 = Len(item),
         input.pwd \/ input.TextMax > 0 => base = b.base,
         ~input.pwd => Texted(item)
  PROVE  /\ Sound(With(b, item, line, v, base))
         /\ With(b, item, line, v, base).item = item
         /\ With(b, item, line, v, base).line = line
         /\ With(b, item, line, v, base).Value = v
         /\ With(b, item, line, v, base).base = base
<1> DEFINE n == With(b, item, line, v, base)
<1>1. line \in Seq(Nat)
  BY DEF Laid
<1>2. b \in BlockType
  BY DEF Sound
<1>3. /\ n \in BlockType /\ n.item = item /\ n.line = line /\ n.Value = v
      /\ n.base = base /\ n.size = b.size /\ n.vsize = b.vsize
  BY <1>1, <1>2 DEF BlockType, With
<1> HIDE DEF n
<1>4. /\ input.pwd => b.base <= b.vsize
      /\ input.TextMax > 0 => b.base = input.TextMax + 1
  BY DEF Sound
<1> QED
  BY <1>3, <1>4 DEF Sound, n

LEMMA TypedIs ==
  ASSUME input \in Inputs, NEW b, Sound(b), Len(b.item) < b.base,
         NEW row \in 0 .. Rows(b) - 1, NEW col \in 0 .. edit_rowln(b, row),
         NEW c \in Chars
  PROVE  /\ Sound(Typed(b, col, row, c))
         /\ Rows(Typed(b, col, row, c)) = Rows(b)
         /\ edit_rowln(Typed(b, col, row, c), row) = edit_rowln(b, row) + 1
         /\ Line(Typed(b, col, row, c), row) = Line(b, row)
<1> DEFINE item == b.item
           line == b.line
           L == Len(b.line)
           N == edit_rowln(b, row)
           p == line[row + 1] + col
           t == Shifted(line, row, 1)
           w == IF input.pwd THEN Stars(N + 1) \o <<NUL>> ELSE PutIn(item, p, c)
           v == IF input.pwd THEN PutIn(b.Value, col, c) ELSE b.Value
           n == Typed(b, col, row, c)
<1>0. /\ b \in BlockType /\ item \in Seq(Glyph) /\ Laid(item, line)
      /\ b.base \in Nat /\ L = Len(line) /\ L \in Nat /\ L >= 2
      /\ b.Value \in Seq(Chars \cup {NL}) /\ Len(b.Value) \in Nat
      /\ Len(item) \in Nat /\ PTR \in Nat
      /\ input.pwd \in BOOLEAN
      /\ input.pwd => L = 2
  BY SoundIs DEF Sound
<1>1. /\ row \in 0 .. L - 2 /\ Line(b, row) = line[row + 1]
      /\ N = line[row + 2] - line[row + 1] - 1 /\ N \in Nat
      /\ Rows(b) = L - 1
  BY RowIs
<1>2. /\ b.base + PTR * L = b.size
      /\ input.Type # "TAREA" => L = 2
      /\ input.pwd => Len(b.Value) + 1 = Len(item)
      /\ ~input.pwd => Texted(item)
      /\ Len(item) < b.base
  BY DEF Sound
<1>3. c \in Glyph /\ c # NL
  BY EditAssumption DEF Glyph
<1> HIDE DEF item, line, L, N
<1>4. /\ row \in Nat /\ row + 1 \in 1 .. L - 1 /\ line[row + 1] \in Nat
      /\ line[row + 2] \in Nat /\ line[row + 2] <= Len(item)
      /\ line[row + 1] < line[row + 2]
  BY <1>0, <1>1, RowOf
<1>5. p \in Nat /\ line[row + 1] <= p /\ p < line[row + 2] /\ col \in Nat /\ col <= N
  <2>1. col \in Nat /\ col <= N
    BY <1>1 DEF N
  <2> QED
    BY <1>1, <1>4, <2>1
<1>6. n = With(b, w, t, v, b.base)
  <2> HIDE DEF p, t
  <2>1. t = Shifted(b.line, row, 1) /\ p = Line(b, row) + col /\ line = b.line /\ item = b.item
    BY <1>1 DEF p, t, line, item
  <2>2. CASE input.pwd
    BY <1>0, <2>1, <2>2 DEF Typed, BlockType, N, With
  <2>3. CASE ~input.pwd
    BY <1>0, <2>1, <2>3 DEF Typed, BlockType, With
  <2> QED
    BY <2>2, <2>3
<1>7. /\ t \in Seq(Nat) /\ Len(t) = L
      /\ t[row + 1] = line[row + 1] /\ t[row + 2] = line[row + 2] + 1
  <2>1. 1 \in {1, -1} /\ row \in 0 .. Len(line) - 2
    BY <1>0, <1>1
  <2>2. /\ Shifted(line, row, 1) \in Seq(Nat)
        /\ Len(Shifted(line, row, 1)) = Len(line)
        /\ Shifted(line, row, 1)[row + 1] = line[row + 1]
        /\ Shifted(line, row, 1)[row + 2] = line[row + 2] + 1
    BY <1>0, <2>1, RowMoved
  <2> QED
    BY <1>0, <2>2
<1>8. /\ w \in Seq(Glyph) /\ Len(w) = Len(item) + 1 /\ Laid(w, t)
      /\ v \in Seq(Chars \cup {NL})
      /\ input.pwd => Len(v) = Len(b.Value) + 1
      /\ ~input.pwd => Texted(w)
  <2>1. CASE input.pwd
    <3>1. L = 2 /\ row = 0
      BY <1>0, <1>1, <2>1
    <3>2. line[1] = 0 /\ line[2] = Len(item)
      BY <1>0, <3>1, OneRow
    <3>3. N + 1 = Len(item)
      BY <1>0, <1>1, <3>1, <3>2
    <3>5. w = Stars(Len(item)) \o <<NUL>>
      BY <2>1, <3>3
    <3> HIDE DEF w
    <3>6. w \in Seq(Glyph) /\ Len(w) = Len(item) + 1 /\ \A j \in 1 .. Len(w) : w[j] # NL
      BY <1>0, <3>5, StarsIs
    <3>7. Laid(w, Shifted(line, 0, 1))
      <4>1. 1 \in {1, -1} /\ Len(item) + 1 > 0 /\ Len(line) = 2
        BY <1>0, <3>1
      <4> QED
        BY <1>0, <3>6, <4>1, StarsLaid
    <3>8. v \in Seq(Chars \cup {NL}) /\ Len(v) = Len(b.Value) + 1
      <4> DEFINE T == Chars \cup {NL}
      <4>1. b.Value \in Seq(T) /\ c \in T
        BY <1>0
      <4>5. Len(b.Value) + 1 = Len(item)
        BY <1>2, <2>1
      <4>6. col \in Nat /\ col <= N /\ N \in Nat /\ Len(b.Value) \in Nat
        BY <1>0, <1>1, <1>5
      <4>2. col \in 0 .. Len(b.Value)
        BY <3>3, <4>5, <4>6
      <4> HIDE DEF T
      <4>3. PutIn(b.Value, col, c) \in Seq(T) /\ Len(PutIn(b.Value, col, c)) = Len(b.Value) + 1
        BY <4>1, <4>2, PutInIs
      <4> QED
        BY <2>1, <4>3 DEF T
    <3> QED
      BY <2>1, <3>1, <3>6, <3>7, <3>8
  <2>2. CASE ~input.pwd
    <3>1. p \in 0 .. Len(item) - 1
      BY <1>0, <1>4, <1>5
    <3>2. w = PutIn(item, p, c) /\ v = b.Value
      BY <2>2
    <3>3. c \in Chars \cup {NL} /\ Texted(item)
      BY <1>2, <2>2
    <3> HIDE DEF w, v
    <3>4. /\ w \in Seq(Glyph) /\ Len(w) = Len(item) + 1 /\ Texted(w)
      BY <1>0, <3>1, <3>2, <3>3, TextedPutIn
    <3>5. Laid(w, t)
      <4> DEFINE r == row + 1
      <4>1. /\ r \in 1 .. Len(line) - 1 /\ r - 1 = row /\ r + 1 = row + 2
        BY <1>0, <1>1, <1>4
      <4>2. line[r] <= p /\ p < line[r + 1] /\ p \in Nat
        BY <1>5, <4>1
      <4> HIDE DEF r, p
      <4>3. Laid(PutIn(item, p, c), Shifted(line, r - 1, 1))
        BY <1>0, <1>3, <4>1, <4>2, LaidPutIn
      <4> QED
        BY <3>2, <4>1, <4>3
    <3> QED
      BY <1>0, <2>2, <3>2, <3>4, <3>5
  <2> QED
    BY <1>0, <2>1, <2>2
<1> HIDE DEF w, v, t, n, p
<1>9. Sound(n) /\ n.line = t
  <2>1. b.base + PTR * Len(t) = b.size /\ (input.Type # "TAREA" => Len(t) = 2)
    BY <1>2, <1>7
  <2>2. Len(w) <= b.base
    <3>1. Len(item) < b.base /\ Len(item) \in Nat /\ b.base \in Nat /\ Len(w) = Len(item) + 1
      BY <1>0, <1>2, <1>8
    <3> QED
      BY <3>1
  <2>3. input.pwd => Len(v) + 1 = Len(w)
    BY <1>2, <1>8
  <2>4. w \in Seq(Glyph) /\ Laid(w, t) /\ v \in Seq(Chars \cup {NL}) /\ b.base \in Nat
        /\ (~input.pwd => Texted(w))
    BY <1>0, <1>8
  <2>5. Sound(b) /\ input \in Inputs
    OBVIOUS
  <2> QED
    BY ONLY <1>6, <2>1, <2>2, <2>3, <2>4, <2>5, SoundWith
<1>13. Rows(n) = Rows(b)
  BY <1>1, <1>7, <1>9 DEF Rows
<1>14. edit_rowln(n, row) = N + 1
  <2>1. edit_rowln(n, row) = t[row + 2] - t[row + 1] - 1
    BY <1>9, <1>13, RowIs
  <2>2. N = line[row + 2] - line[row + 1] - 1
    BY <1>1
  <2>3. t[row + 1] = line[row + 1] /\ t[row + 2] = line[row + 2] + 1
    BY <1>7
  <2>4. line[row + 1] \in Nat /\ line[row + 2] \in Nat
    BY <1>4
  <2> QED
    BY ONLY <2>1, <2>2, <2>3, <2>4
<1>15. Line(n, row) = Line(b, row)
  BY <1>1, <1>7, <1>9 DEF Line
<1> QED
  BY <1>9, <1>13, <1>14, <1>15 DEF n, N

LEMMA edit_charIs ==
  ASSUME input \in Inputs, NEW b, Sound(b), CharFits(b),
         NEW row \in 0 .. Rows(b) - 1, NEW col \in 0 .. edit_rowln(b, row),
         NEW c \in Chars
  PROVE  /\ Sound(edit_char(b, col, row, c))
         /\ Rows(edit_char(b, col, row, c)) = Rows(b)
         /\ edit_rowln(edit_char(b, col, row, c), row) = edit_rowln(b, row) + 1
         /\ Line(edit_char(b, col, row, c), row) = Line(b, row)
<1>1. edit_space(b) = b.base - Len(b.item) /\ b.base \in Nat /\ Len(b.item) \in Nat
  BY SpaceIs
<1>2. CASE edit_space(b) > 0
  <2>1. Len(b.item) < b.base
    BY <1>1, <1>2
  <2> QED
    BY <1>2, <2>1, TypedIs DEF edit_char
<1>3. CASE ~(edit_space(b) > 0)
  <2> DEFINE g == Grown(b)
  <2>1. CanGrow
    BY <1>3 DEF CharFits
  <2>2. Sound(g) /\ g.item = b.item /\ g.line = b.line /\ g.base >= b.base + GROW
    BY <2>1, GrownIs
  <2>3. GROW \in Nat /\ GROW > 0 /\ g.base \in Nat /\ Len(b.item) <= b.base
    <3>1. PTR \in Nat /\ GROW \in Nat /\ GROW > PTR
      BY InputIs
    <3> QED
      BY <2>2, <3>1 DEF Sound, BlockType
  <2> HIDE DEF g
  <2>4. Len(g.item) < g.base
    BY <1>1, <2>2, <2>3
  <2>5. Rows(g) = Rows(b) /\ edit_rowln(g, row) = edit_rowln(b, row) /\ Line(g, row) = Line(b, row)
    BY <2>2 DEF Rows, edit_rowln, Line
  <2>6. /\ Sound(Typed(g, col, row, c))
        /\ Rows(Typed(g, col, row, c)) = Rows(g)
        /\ edit_rowln(Typed(g, col, row, c), row) = edit_rowln(g, row) + 1
        /\ Line(Typed(g, col, row, c), row) = Line(g, row)
    BY <2>2, <2>4, <2>5, TypedIs
  <2> QED
    BY <1>3, <2>5, <2>6 DEF edit_char, g
<1> QED
  BY <1>2, <1>3

LEMMA edit_zeroIs ==
  ASSUME input \in Inputs, NEW b, Sound(b)
  PROVE  Sound(edit_zero(b)) /\ Rows(edit_zero(b)) = 1
<1> DEFINE L == Len(b.line)
           m == b.base + PTR * (Rows(b) - 1)
           e == edit_zero(b)
<1>1. /\ b \in BlockType /\ L \in Nat /\ L >= 2 /\ Rows(b) = L - 1
      /\ b.base \in Nat /\ PTR \in Nat /\ Len(b.item) \in Nat
      /\ input.pwd => L = 2
  BY SoundIs
<1>2. /\ b.base + PTR * L = b.size /\ Len(b.item) <= b.base
      /\ input.Type # "TAREA" => L = 2
      /\ Laid(b.item, b.line)
  BY DEF Sound
<1>3. Len(b.item) > 0
  <2>1. 0 \in 0 .. Len(b.line) - 2 /\ b.item \in Seq(Glyph)
    BY <1>1, SoundIs
  <2>2. b.line[0 + 1] \in Nat /\ b.line[0 + 2] \in Nat
        /\ b.line[0 + 1] < b.line[0 + 2] /\ b.line[0 + 2] <= Len(b.item)
    BY <1>2, <2>1, RowOf
  <2> QED
    BY <1>1, <2>2
<1> HIDE DEF L
<1>4. m = b.base + PTR * (L - 2) /\ PTR * (L - 2) \in Nat /\ PTR * L = PTR * (L - 2) + PTR * 2
  BY <1>1
<1> HIDE DEF m
<1>5. m \in Nat /\ 1 <= m /\ m + PTR * 2 = b.size /\ (L = 2 => m = b.base)
  <2>1. PTR * 2 \in Nat
    BY <1>1
  <2>2. m \in Nat /\ 1 <= m
    BY <1>1, <1>2, <1>3, <1>4
  <2>3. m + PTR * 2 = b.size
    BY <1>1, <1>2, <1>4, <2>1
  <2>4. L = 2 => m = b.base
    BY <1>1, <1>4
  <2> QED
    BY <2>2, <2>3, <2>4
<1>6. /\ <<NUL>> \in Seq(Glyph) /\ Len(<<NUL>>) = 1 /\ \A j \in 1 .. Len(<<NUL>>) : <<NUL>>[j] # NL
      /\ <<0, 1>> \in Seq(Nat) /\ Len(<<0, 1>>) = 2
  BY DEF Glyph, NUL, NL
<1>7. Laid(<<NUL>>, <<0, 1>>)
  <2> DEFINE w == <<NUL>>
             t == <<0, 1>>
  <2>1. /\ w \in Seq(Glyph) /\ Len(w) = 1 /\ Len(w) > 0 /\ \A j \in 1 .. Len(w) : w[j] # NL
        /\ t \in Seq(Nat) /\ Len(t) = 2 /\ t[1] = 0 /\ t[2] = Len(w)
    BY <1>6
  <2> HIDE DEF w, t
  <2>2. Laid(w, t)
    BY <2>1, LaidOne
  <2> QED
    BY <2>2 DEF w, t
<1>8. Texted(<<NUL>>)
  BY DEF Texted
<1>9. <<>> \in Seq(Chars \cup {NL}) /\ Len(<<>>) = 0
  OBVIOUS
<1>10. e = With(b, <<NUL>>, <<0, 1>>, <<>>, m)
  BY <1>1 DEF edit_zero, With, BlockType, m
<1>11. input.TextMax > 0 => L = 2
  BY <1>2, InputIs
<1> DEFINE w == <<NUL>>
           t == <<0, 1>>
           v == <<>>
<1>12. /\ w \in Seq(Glyph) /\ Laid(w, t) /\ Len(w) <= m /\ m + PTR * Len(t) = b.size
       /\ Len(t) = 2 /\ Len(v) + 1 = Len(w) /\ v \in Seq(Chars \cup {NL}) /\ Texted(w)
  BY <1>5, <1>6, <1>7, <1>8, <1>9
<1>13. input.pwd \/ input.TextMax > 0 => m = b.base
  BY <1>1, <1>5, <1>11
<1> HIDE DEF w, t, v, e
<1>14. Sound(e) /\ e.line = t
  <2>1. /\ Len(w) <= m /\ m + PTR * Len(t) = b.size /\ m \in Nat
        /\ input.Type # "TAREA" => Len(t) = 2
        /\ input.pwd => Len(v) + 1 = Len(w)
        /\ ~input.pwd => Texted(w)
    BY <1>5, <1>12
  <2>2. w \in Seq(Glyph) /\ Laid(w, t) /\ v \in Seq(Chars \cup {NL})
    BY <1>12
  <2>3. Sound(b) /\ input \in Inputs
    OBVIOUS
  <2>4. Sound(With(b, w, t, v, m)) /\ With(b, w, t, v, m).line = t
    BY ONLY <1>13, <2>1, <2>2, <2>3, SoundWith
  <2> QED
    BY <1>10, <2>4 DEF w, t, v
<1> QED
  BY <1>12, <1>14 DEF Rows, e

LEMMA BrokenIs ==
  ASSUME input \in Inputs, input.Type = "TAREA", NEW b, Sound(b),
         Len(b.item) + 1 + PTR <= b.base,
         NEW row \in 0 .. Rows(b) - 1, NEW col \in 0 .. edit_rowln(b, row)
  PROVE  /\ Sound(Broken(b, col, row))
         /\ Rows(Broken(b, col, row)) = Rows(b) + 1
         /\ Line(Broken(b, col, row), row + 1) = Line(b, row) + col + 1
<1> DEFINE item == b.item
           line == b.line
           L == Len(b.line)
           N == edit_rowln(b, row)
           p == line[row + 1] + col
           t == BrokenLines(line, row + 1, p)
           w == PutIn(item, p, NL)
           v == b.Value
           m == b.base - PTR
           n == Broken(b, col, row)
<1>0. /\ b \in BlockType /\ item \in Seq(Glyph) /\ Laid(item, line)
      /\ b.base \in Nat /\ L = Len(line) /\ L \in Nat /\ L >= 2
      /\ v \in Seq(Chars \cup {NL})
      /\ Len(item) \in Nat /\ PTR \in Nat
  BY SoundIs DEF Sound
<1>1. /\ row \in 0 .. L - 2 /\ Line(b, row) = line[row + 1]
      /\ N = line[row + 2] - line[row + 1] - 1 /\ N \in Nat
      /\ Rows(b) = L - 1
  BY RowIs
<1>2. /\ b.base + PTR * L = b.size /\ Len(item) + 1 + PTR <= b.base
      /\ ~input.pwd => Texted(item)
  BY DEF Sound
<1>3. ~input.pwd /\ ~(input.TextMax > 0)
  BY InputIs
<1> HIDE DEF item, line, L, N, v
<1>4. /\ row \in Nat /\ row + 1 \in 1 .. L - 1 /\ line[row + 1] \in Nat
      /\ line[row + 2] \in Nat /\ line[row + 2] <= Len(item)
      /\ line[row + 1] < line[row + 2]
  BY <1>0, <1>1, RowOf
<1>5. p \in Nat /\ line[row + 1] <= p /\ p < line[row + 2] /\ col \in Nat /\ col <= N
  <2>1. col \in Nat /\ col <= N
    BY <1>1 DEF N
  <2> QED
    BY <1>1, <1>4, <2>1
<1>6. n = With(b, w, t, v, m)
  <2>1. /\ p = Line(b, row) + col /\ line = b.line /\ item = b.item /\ v = b.Value
        /\ L = Len(b.line)
    BY <1>1 DEF line, item, v, L
  <2>2. [k \in 1 .. Rows(b) - row |-> Line(b, row + k) + 1]
          = [k \in 1 .. Len(line) - (row + 1) |-> line[row + 1 + k] + 1]
    <3>1. Rows(b) - row = Len(line) - (row + 1)
      BY <1>0, <1>1, <1>4
    <3>2. ASSUME NEW k \in 1 .. Rows(b) - row
          PROVE  Line(b, row + k) + 1 = line[row + 1 + k] + 1
      <4>1. (row + k) + 1 = row + 1 + k
        BY <1>4
      <4> QED
        BY <2>1, <4>1 DEF Line
    <3> QED
      BY <3>1, <3>2
  <2> HIDE DEF p
  <2>3. SubSeq(b.line, 1, row + 1) \o <<Line(b, row) + col + 1>>
          \o [k \in 1 .. Rows(b) - row |-> Line(b, row + k) + 1] = t
    BY <2>1, <2>2 DEF BrokenLines
  <2>4. n = [b EXCEPT !.item = w, !.line = t, !.base = m]
    BY <2>1, <2>3, <1>0 DEF Broken, BlockType
  <2> HIDE DEF w, t, n, m
  <2> QED
    BY <1>0, <2>1, <2>4 DEF With, BlockType
<1> DEFINE r == row + 1
<1>7. /\ r \in 1 .. Len(line) - 1 /\ r + 1 = row + 2 /\ r = row + 1 /\ r \in 1 .. Len(line)
  BY <1>0, <1>1, <1>4
<1>8. line[r] <= p /\ p < line[r + 1] /\ p \in Nat
  BY <1>5, <1>7
<1> HIDE DEF r, p
<1>9. Laid(w, t)
  <2>1. Laid(PutIn(item, p, NL), BrokenLines(line, r, p))
    BY <1>0, <1>7, <1>8, LaidBroken
  <2> QED
    BY <1>7, <2>1
<1>10. w \in Seq(Glyph) /\ Len(w) = Len(item) + 1 /\ Texted(w)
  <2>1. p \in 0 .. Len(item) - 1 /\ NL \in Chars \cup {NL} /\ Texted(item)
    BY <1>0, <1>2, <1>3, <1>4, <1>7, <1>8
  <2> QED
    BY <1>0, <2>1, TextedPutIn
<1>11. Len(t) = L + 1
  <2>1. line \in Seq(Nat)
    BY <1>0 DEF Laid
  <2>2. Len(BrokenLines(line, r, p)) = Len(line) + 1
    BY <1>7, <1>8, <2>1, BrokenLinesIs
  <2> QED
    BY <1>0, <1>7, <2>2
<1>12. m \in Nat /\ Len(w) <= m /\ m + PTR * Len(t) = b.size
  <2>1. m \in Nat /\ Len(w) <= m
    BY <1>0, <1>2, <1>10
  <2> DEFINE x == PTR * L
  <2>2. PTR * (L + 1) = x + PTR /\ x \in Nat /\ b.base + x = b.size /\ PTR \in Nat
        /\ b.base \in Nat
    BY <1>0, <1>2
  <2>3. PTR * Len(t) = x + PTR /\ m = b.base - PTR
    BY <1>11, <2>2
  <2>4. m + (x + PTR) = b.base + x
    BY <2>2, <2>3
  <2> HIDE DEF x, m
  <2> QED
    BY <2>1, <2>2, <2>3, <2>4
<1>15. t[row + 2] = p + 1
  <2>1. line \in Seq(Nat)
    BY <1>0 DEF Laid
  <2>2. \A k \in 1 .. Len(line) + 1 :
          BrokenLines(line, r, p)[k] =
            IF k <= r THEN line[k] ELSE IF k = r + 1 THEN p + 1 ELSE line[k - 1] + 1
    BY <1>7, <1>8, <2>1, BrokenLinesIs
  <2>3. r + 1 \in 1 .. Len(line) + 1 /\ ~(r + 1 <= r)
    BY <1>0, <1>7
  <2> QED
    BY <1>7, <2>2, <2>3
<1> HIDE DEF w, t, m, n
<1>13. Sound(With(b, w, t, v, m)) /\ With(b, w, t, v, m).line = t
  BY <1>0, <1>3, <1>9, <1>10, <1>12, SoundWith, SMTT(20)
<1>14. Rows(n) = Len(t) - 1
  BY <1>6, <1>13 DEF Rows
<1>16. Line(n, row + 1) = Line(b, row) + col + 1
  <2>1. (row + 1) + 1 = row + 2
    BY <1>4
  <2> QED
    BY <1>1, <1>6, <1>13, <1>15, <2>1 DEF Line, p
<1> QED
  BY <1>0, <1>1, <1>6, <1>11, <1>13, <1>14, <1>16 DEF n

LEMMA edit_crlfIs ==
  ASSUME input \in Inputs, input.Type = "TAREA", NEW b, Sound(b),
         NEW row \in 0 .. Rows(b) - 1, NEW col \in 0 .. edit_rowln(b, row)
  PROVE  /\ Sound(edit_crlf(b, col, row))
         /\ Rows(edit_crlf(b, col, row)) = Rows(b) + 1
         /\ Line(edit_crlf(b, col, row), row + 1) = Line(b, row) + col + 1
<1>1. /\ edit_space(b) = b.base - Len(b.item) /\ b.base \in Nat /\ Len(b.item) \in Nat
      /\ PTR \in Nat /\ GROW \in Nat /\ GROW > PTR
  BY SpaceIs, InputIs
<1>2. CASE ~(edit_space(b) < 1 + PTR)
  <2>1. Len(b.item) + 1 + PTR <= b.base
    BY <1>1, <1>2
  <2> QED
    BY <1>2, <2>1, BrokenIs DEF edit_crlf
<1>3. CASE edit_space(b) < 1 + PTR
  <2> DEFINE g == Grown(b)
  <2>1. CanGrow
    BY InputIs DEF CanGrow
  <2>2. Sound(g) /\ g.item = b.item /\ g.line = b.line /\ g.base >= b.base + GROW
    BY <2>1, GrownIs
  <2>3. g.base \in Nat /\ Len(b.item) <= b.base
    BY <2>2 DEF Sound, BlockType
  <2> HIDE DEF g
  <2>4. Len(g.item) + 1 + PTR <= g.base
    BY <1>1, <2>2, <2>3
  <2>5. Rows(g) = Rows(b) /\ edit_rowln(g, row) = edit_rowln(b, row) /\ Line(g, row) = Line(b, row)
    BY <2>2 DEF Rows, edit_rowln, Line
  <2>6. /\ Sound(Broken(g, col, row)) /\ Rows(Broken(g, col, row)) = Rows(g) + 1
        /\ Line(Broken(g, col, row), row + 1) = Line(g, row) + col + 1
    BY <2>2, <2>4, <2>5, BrokenIs
  <2> QED
    BY <1>3, <2>5, <2>6 DEF edit_crlf, g
<1> QED
  BY <1>2, <1>3

\* Whether there is a character to delete at a place of a row
LEMMA HasNextIs ==
  ASSUME NEW b, Sound(b),
         NEW row \in 0 .. Rows(b) - 1, NEW col \in 0 .. edit_rowln(b, row)
  PROVE  /\ HasNext(b, col, row) <=> b.line[row + 1] + col < Len(b.item) - 1
         /\ col < edit_rowln(b, row) => HasNext(b, col, row)
         /\ row + 1 < Rows(b) => HasNext(b, col, row)
         /\ HasNext(b, col, row) /\ col = edit_rowln(b, row) => row + 1 < Rows(b)
<1> DEFINE item == b.item
           line == b.line
           N == edit_rowln(b, row)
           K == Len(item)
           L == Len(line)
           x == line[row + 1]
           y == line[row + 2]
<1>1. /\ row \in 0 .. L - 2 /\ Line(b, row) = x /\ N = y - x - 1 /\ N \in Nat
      /\ Rows(b) = L - 1 /\ item \in Seq(Glyph) /\ Laid(item, line)
  BY RowIs
<1>2. Line(b, Rows(b)) = K
  BY SpaceIs
<1>3. col \in Nat /\ col <= N
  BY <1>1
<1> HIDE DEF item, line, N
<1>4. /\ row \in Nat /\ x \in Nat /\ y \in Nat /\ x < y /\ y <= K /\ K \in Nat /\ L \in Nat
      /\ row + 2 = L => y = K
      /\ row + 2 # L => y < K
  BY <1>1, RowOf
<1> HIDE DEF x, y, K, L
<1>5. HasNext(b, col, row) <=> x + col < K - 1
  BY <1>1, <1>2 DEF HasNext
<1>6. row + 1 < Rows(b) <=> row + 2 # L
  BY <1>1, <1>4
<1>7. col < N => x + col < K - 1
  BY <1>1, <1>3, <1>4
<1>8. row + 2 # L => x + col < K - 1
  BY <1>1, <1>3, <1>4
<1>9. x + col < K - 1 /\ col = N => row + 2 # L
  BY <1>1, <1>3, <1>4
<1> QED
  BY <1>5, <1>6, <1>7, <1>8, <1>9 DEF N, x, K, item, line

\* A character of a row goes.
LEMMA edit_delcInRow ==
  ASSUME input \in Inputs, NEW b, Sound(b),
         NEW row \in 0 .. Rows(b) - 1, NEW col \in 0 .. edit_rowln(b, row) - 1
  PROVE  /\ Sound(edit_delc(b, col, row))
         /\ Rows(edit_delc(b, col, row)) = Rows(b)
         /\ edit_rowln(edit_delc(b, col, row), row) = edit_rowln(b, row) - 1
         /\ Line(edit_delc(b, col, row), row) = Line(b, row)
<1> DEFINE item == b.item
           line == b.line
           L == Len(b.line)
           N == edit_rowln(b, row)
           p == line[row + 1] + col
           t == Shifted(line, row, -1)
           w == IF input.pwd THEN SubSeq(item, 1, Len(item) - 1) ELSE TakenOut(item, p)
           v == IF input.pwd THEN TakenOut(b.Value, col) ELSE b.Value
           n == edit_delc(b, col, row)
<1>0. /\ b \in BlockType /\ item \in Seq(Glyph) /\ Laid(item, line)
      /\ b.base \in Nat /\ L = Len(line) /\ L \in Nat /\ L >= 2
      /\ b.Value \in Seq(Chars \cup {NL}) /\ Len(b.Value) \in Nat
      /\ Len(item) \in Nat /\ PTR \in Nat
      /\ input.pwd \in BOOLEAN
      /\ input.pwd => L = 2
  BY SoundIs DEF Sound
<1>1. /\ row \in 0 .. L - 2 /\ Line(b, row) = line[row + 1]
      /\ N = line[row + 2] - line[row + 1] - 1 /\ N \in Nat
      /\ Rows(b) = L - 1
  BY RowIs
<1>2. /\ b.base + PTR * L = b.size
      /\ input.Type # "TAREA" => L = 2
      /\ input.pwd => Len(b.Value) + 1 = Len(item)
      /\ ~input.pwd => Texted(item)
      /\ Len(item) <= b.base
  BY DEF Sound
<1>3. HasNext(b, col, row) /\ col \in Nat /\ col < N
  <2>1. col \in 0 .. edit_rowln(b, row) /\ col < edit_rowln(b, row) /\ col \in Nat
    BY <1>1
  <2> QED
    BY <2>1, HasNextIs
<1>15. ~Merges(b, col, row)
  <2>1. Line(b, row + 1) = line[row + 2]
    <3>1. (row + 1) + 1 = row + 2
      BY <1>1
    <3> QED
      BY <3>1 DEF Line
  <2> HIDE DEF line, N
  <2>2. line[row + 1] \in Nat /\ line[row + 2] \in Nat
    BY <1>0, <1>1, RowOf
  <2>3. Line(b, row) + col < Line(b, row + 1) - 1
    BY <1>1, <1>3, <2>1, <2>2
  <2> QED
    BY <1>1, <1>3, <2>1, <2>2, <2>3 DEF Merges
<1> HIDE DEF item, line, L, N
<1>4. /\ row \in Nat /\ row + 1 \in 1 .. L - 1 /\ line[row + 1] \in Nat
      /\ line[row + 2] \in Nat /\ line[row + 2] <= Len(item)
      /\ line[row + 1] < line[row + 2]
  BY <1>0, <1>1, RowOf
<1>5. p \in Nat /\ line[row + 1] <= p /\ p + 1 < line[row + 2]
  BY <1>1, <1>3, <1>4, SMTT(30)
<1>6. n = With(b, w, t, v, b.base)
  <2> HIDE DEF p, t
  <2>1. t = Shifted(b.line, row, -1) /\ p = Line(b, row) + col /\ line = b.line /\ item = b.item
    BY <1>1 DEF p, t, line, item
  <2>2. CASE input.pwd
    BY <1>0, <1>3, <1>15, <2>1, <2>2 DEF edit_delc, BlockType, N, With
  <2>3. CASE ~input.pwd
    BY <1>0, <1>3, <1>15, <2>1, <2>3 DEF edit_delc, BlockType, With
  <2> QED
    BY <2>2, <2>3
<1>7. /\ t \in Seq(Nat) /\ Len(t) = L
      /\ t[row + 1] = line[row + 1] /\ t[row + 2] = line[row + 2] + (-1)
  <2>1. -1 \in {1, -1} /\ row \in 0 .. Len(line) - 2
    BY <1>0, <1>1
  <2>2. /\ Shifted(line, row, -1) \in Seq(Nat)
        /\ Len(Shifted(line, row, -1)) = Len(line)
        /\ Shifted(line, row, -1)[row + 1] = line[row + 1]
        /\ Shifted(line, row, -1)[row + 2] = line[row + 2] + (-1)
    BY <1>0, <2>1, RowMoved
  <2> QED
    BY <1>0, <2>2
<1>8. /\ w \in Seq(Glyph) /\ Len(w) = Len(item) - 1 /\ Laid(w, t)
      /\ v \in Seq(Chars \cup {NL})
      /\ input.pwd => Len(v) = Len(b.Value) - 1
      /\ ~input.pwd => Texted(w)
  <2>1. CASE input.pwd
    <3>1. L = 2 /\ row = 0
      BY <1>0, <1>1, <2>1
    <3>2. /\ line[1] = 0 /\ line[2] = Len(item)
          /\ \A j \in 1 .. Len(item) : item[j] # NL
      BY <1>0, <3>1, OneRow
    <3>3. N + 1 = Len(item) /\ Len(item) > 1
      BY <1>0, <1>1, <1>3, <3>1, <3>2
    <3>4. w = SubSeq(item, 1, Len(item) - 1)
      BY <2>1
    <3> HIDE DEF w
    <3>5. 1 \in 1 .. Len(item) + 1 /\ Len(item) - 1 \in 0 .. Len(item) /\ 1 <= (Len(item) - 1) + 1
      BY <1>0, <3>3
    <3>9. /\ w \in Seq(Glyph) /\ Len(w) = (Len(item) - 1) - 1 + 1
          /\ \A j \in 1 .. (Len(item) - 1) - 1 + 1 : w[j] = item[1 + j - 1]
      BY <1>0, <3>4, <3>5, SubSeqIs, ZenonT(60)
    <3>6. w \in Seq(Glyph) /\ Len(w) = Len(item) - 1 /\ \A j \in 1 .. Len(w) : w[j] # NL
      <4>1. Len(w) = Len(item) - 1
        BY <1>0, <3>9
      <4>2. ASSUME NEW j \in 1 .. Len(w)
            PROVE  w[j] # NL
        <5>1. j \in 1 .. (Len(item) - 1) - 1 + 1 /\ 1 + j - 1 = j /\ j \in 1 .. Len(item)
          BY <1>0, <4>1
        <5> QED
          BY <3>2, <3>9, <5>1
      <4> QED
        BY <3>9, <4>1, <4>2
    <3>7. Laid(w, Shifted(line, 0, -1))
      <4>1. -1 \in {1, -1} /\ Len(item) + (-1) > 0 /\ Len(line) = 2 /\ Len(w) = Len(item) + (-1)
        BY <1>0, <3>1, <3>3, <3>6
      <4> QED
        BY <1>0, <3>6, <4>1, StarsLaid
    <3>8. v \in Seq(Chars \cup {NL}) /\ Len(v) = Len(b.Value) - 1
      <4> DEFINE T == Chars \cup {NL}
      <4>1. b.Value \in Seq(T)
        BY <1>0
      <4>5. Len(b.Value) + 1 = Len(item)
        BY <1>2, <2>1
      <4>6. col \in Nat /\ col < N /\ N \in Nat /\ Len(b.Value) \in Nat
        BY <1>0, <1>1, <1>3
      <4>2. col \in 0 .. Len(b.Value) - 1
        BY <3>3, <4>5, <4>6
      <4> HIDE DEF T
      <4>3. TakenOut(b.Value, col) \in Seq(T) /\ Len(TakenOut(b.Value, col)) = Len(b.Value) - 1
        BY <4>1, <4>2, TakenOutIs
      <4> QED
        BY <2>1, <4>3 DEF T
    <3> QED
      BY <2>1, <3>1, <3>6, <3>7, <3>8
  <2>2. CASE ~input.pwd
    <3>1. p \in 0 .. Len(item) - 2
      BY <1>0, <1>4, <1>5
    <3>2. w = TakenOut(item, p) /\ v = b.Value
      BY <2>2
    <3>3. Texted(item)
      BY <1>2, <2>2
    <3> HIDE DEF w, v
    <3>4. /\ w \in Seq(Glyph) /\ Len(w) = Len(item) - 1 /\ Texted(w)
      BY <1>0, <3>1, <3>2, <3>3, TextedTakenOut
    <3>5. Laid(w, t)
      <4> DEFINE r == row + 1
      <4>1. /\ r \in 1 .. Len(line) - 1 /\ r - 1 = row /\ r + 1 = row + 2
        BY <1>0, <1>1, <1>4
      <4>2. line[r] <= p /\ p + 1 < line[r + 1] /\ p \in Nat
        BY <1>5, <4>1
      <4> HIDE DEF r, p
      <4>3. Laid(TakenOut(item, p), Shifted(line, r - 1, -1))
        BY <1>0, <4>1, <4>2, LaidTaken
      <4> QED
        BY <3>2, <4>1, <4>3
    <3> QED
      BY <1>0, <2>2, <3>2, <3>4, <3>5
  <2> QED
    BY <1>0, <2>1, <2>2
<1> HIDE DEF w, v, t, n, p
<1>9. Sound(n) /\ n.line = t
  <2>1. b.base + PTR * Len(t) = b.size /\ (input.Type # "TAREA" => Len(t) = 2)
    BY <1>2, <1>7
  <2>2. Len(w) <= b.base
    <3>1. Len(item) <= b.base /\ Len(item) \in Nat /\ b.base \in Nat /\ Len(w) = Len(item) - 1
      BY <1>0, <1>2, <1>8
    <3> QED
      BY <3>1
  <2>3. input.pwd => Len(v) + 1 = Len(w)
    <3>1. input.pwd => Len(v) = Len(b.Value) - 1 /\ Len(b.Value) + 1 = Len(item)
      BY <1>2, <1>8
    <3>2. Len(w) = Len(item) - 1 /\ Len(b.Value) \in Nat /\ Len(item) \in Nat
      BY <1>0, <1>8
    <3> QED
      BY <3>1, <3>2
  <2>4. w \in Seq(Glyph) /\ Laid(w, t) /\ v \in Seq(Chars \cup {NL}) /\ b.base \in Nat
        /\ (~input.pwd => Texted(w))
    BY <1>0, <1>8
  <2>5. Sound(b) /\ input \in Inputs
    OBVIOUS
  <2> QED
    BY ONLY <1>6, <2>1, <2>2, <2>3, <2>4, <2>5, SoundWith
<1>13. Rows(n) = Rows(b)
  BY <1>1, <1>7, <1>9 DEF Rows
<1>14. edit_rowln(n, row) = N - 1
  <2>1. edit_rowln(n, row) = t[row + 2] - t[row + 1] - 1
    BY <1>9, <1>13, RowIs
  <2>2. N = line[row + 2] - line[row + 1] - 1
    BY <1>1
  <2>3. t[row + 1] = line[row + 1] /\ t[row + 2] = line[row + 2] + (-1)
    BY <1>7
  <2>4. line[row + 1] \in Nat /\ line[row + 2] \in Nat
    BY <1>4
  <2> QED
    BY ONLY <2>1, <2>2, <2>3, <2>4
<1>16. Line(n, row) = Line(b, row)
  BY <1>1, <1>7, <1>9 DEF Line
<1> QED
  BY <1>9, <1>13, <1>14, <1>16 DEF n, N

\* The end of a row goes: the next row is appended to it.
LEMMA edit_delcAtEnd ==
  ASSUME input \in Inputs, NEW b, Sound(b),
         NEW row \in 0 .. Rows(b) - 2
  PROVE  /\ Sound(edit_delc(b, edit_rowln(b, row), row))
         /\ Rows(edit_delc(b, edit_rowln(b, row), row)) = Rows(b) - 1
         /\ edit_rowln(edit_delc(b, edit_rowln(b, row), row), row) >= edit_rowln(b, row)
         /\ Line(edit_delc(b, edit_rowln(b, row), row), row) = Line(b, row)
<1> DEFINE item == b.item
           line == b.line
           L == Len(b.line)
           N == edit_rowln(b, row)
           p == line[row + 1] + N
           t == MergedLines(line, row + 1)
           w == TakenOut(item, p)
           v == b.Value
           m == b.base + PTR
           n == edit_delc(b, N, row)
<1>0. /\ b \in BlockType /\ item \in Seq(Glyph) /\ Laid(item, line)
      /\ b.base \in Nat /\ L = Len(line) /\ L \in Nat /\ L >= 2
      /\ v \in Seq(Chars \cup {NL})
      /\ Len(item) \in Nat /\ PTR \in Nat
      /\ input.pwd => L = 2
  BY SoundIs DEF Sound
<1>16. Rows(b) \in Nat /\ row \in 0 .. Rows(b) - 1 /\ row + 1 < Rows(b)
  BY SpaceIs
<1>1. /\ row \in 0 .. L - 2 /\ Line(b, row) = line[row + 1]
      /\ N = line[row + 2] - line[row + 1] - 1 /\ N \in Nat
      /\ Rows(b) = L - 1
  BY <1>16, RowIs
<1>2. /\ b.base + PTR * L = b.size
      /\ input.Type # "TAREA" => L = 2
      /\ ~input.pwd => Texted(item)
      /\ Len(item) <= b.base
  BY DEF Sound
<1>17. row \in 0 .. L - 3 /\ row \in Nat
  BY <1>0, <1>1, <1>16
<1>3. input.Type = "TAREA" /\ ~input.pwd /\ ~(input.TextMax > 0)
  <2>1. L # 2
    <3>1. L \in Nat /\ row \in Nat /\ row <= L - 3
      BY <1>0, <1>17
    <3> HIDE DEF L
    <3> QED
      BY ONLY <3>1
  <2>2. input.Type = "TAREA"
    BY <1>2, <2>1
  <2> QED
    BY <2>2, InputIs
<1>15. HasNext(b, N, row) /\ Merges(b, N, row)
  <2>1. N \in 0 .. N
    BY <1>1
  <2>2. HasNext(b, N, row)
    BY <1>16, <2>1, HasNextIs
  <2>3. Line(b, row + 1) = line[row + 2]
    <3>1. (row + 1) + 1 = row + 2
      BY <1>1
    <3> QED
      BY <3>1 DEF Line
  <2> HIDE DEF line, N
  <2>4. line[row + 1] \in Nat /\ line[row + 2] \in Nat
    BY <1>0, <1>1, RowOf
  <2>5. Line(b, row) + N >= Line(b, row + 1) - 1
    BY <1>1, <2>3, <2>4
  <2> QED
    BY <2>2, <2>5 DEF Merges
<1> HIDE DEF item, line, L, N, v
<1>4. /\ row + 1 \in 1 .. L - 1 /\ line[row + 1] \in Nat
      /\ line[row + 2] \in Nat /\ line[row + 2] < Len(item)
      /\ line[row + 1] < line[row + 2]
  <2>1. row + 2 # Len(line)
    BY <1>0, <1>17
  <2> QED
    BY <1>0, <1>1, <2>1, RowOf
<1>18. line[row + 3] \in Nat /\ line[row + 2] < line[row + 3] /\ row + 3 \in 1 .. L
       /\ row + 2 \in 1 .. L /\ row + 1 \in 1 .. L
  <2>1. row + 3 \in 1 .. L /\ row + 2 \in 1 .. L /\ row + 2 < row + 3 /\ row + 1 \in 1 .. L
    BY <1>0, <1>17
  <2> QED
    BY <1>0, <2>1 DEF Laid
<1>5. p \in Nat /\ line[row + 1] <= p /\ p + 1 = line[row + 2]
  BY <1>1, <1>4, SMTT(30)
<1>6. n = With(b, w, t, v, m)
  <2>1. /\ p = Line(b, row) + N /\ line = b.line /\ item = b.item /\ v = b.Value
        /\ L = Len(b.line)
    BY <1>1 DEF line, item, v, L
  <2>2. [k \in 1 .. Rows(b) - row - 1 |-> Line(b, row + 1 + k) - 1]
          = [k \in 1 .. Len(line) - (row + 1) - 1 |-> line[(row + 1) + 1 + k] - 1]
    <3>1. Rows(b) - row - 1 = Len(line) - (row + 1) - 1
      BY <1>0, <1>1, <1>17
    <3>2. ASSUME NEW k \in 1 .. Rows(b) - row - 1
          PROVE  Line(b, row + 1 + k) - 1 = line[(row + 1) + 1 + k] - 1
      <4>1. (row + 1 + k) + 1 = (row + 1) + 1 + k
        BY <1>17
      <4> QED
        BY <2>1, <4>1 DEF Line
    <3> QED
      BY <3>1, <3>2
  <2> HIDE DEF p
  <2>3. SubSeq(b.line, 1, row + 1)
          \o [k \in 1 .. Rows(b) - row - 1 |-> Line(b, row + 1 + k) - 1] = t
    BY <2>1, <2>2 DEF MergedLines
  <2>4. n = [b EXCEPT !.item = w, !.line = t, !.base = m]
    BY <1>0, <1>3, <1>15, <2>1, <2>3 DEF edit_delc, BlockType
  <2> HIDE DEF w, t, n, m
  <2> QED
    BY <1>0, <2>1, <2>4 DEF With, BlockType
<1> DEFINE r == row + 1
<1>7. /\ r \in 1 .. Len(line) - 2 /\ r + 1 = row + 2 /\ r = row + 1
      /\ r \in 1 .. Len(line) - 1 /\ (row + 2) + 1 = row + 3 /\ r \in Nat
  BY <1>0, <1>17
<1>8. line[r] <= p /\ p + 1 = line[r + 1] /\ p \in Nat
  BY <1>5, <1>7
<1> HIDE DEF r, p
<1>9. Laid(w, t)
  <2>1. Laid(TakenOut(item, p), MergedLines(line, r))
    BY <1>0, <1>7, <1>8, LaidMerged
  <2> QED
    BY <1>7, <2>1
<1>10. w \in Seq(Glyph) /\ Len(w) = Len(item) - 1 /\ Texted(w)
  <2>1. p \in 0 .. Len(item) - 2 /\ Texted(item)
    BY <1>0, <1>2, <1>3, <1>4, <1>5
  <2> QED
    BY <1>0, <2>1, TextedTakenOut
<1>11. /\ Len(t) = L - 1
       /\ t[row + 1] = line[row + 1] /\ t[row + 2] = line[row + 3] - 1
  <2>1. line \in Seq(Nat)
    BY <1>0 DEF Laid
  <2>2. ASSUME NEW k \in 1 .. Len(line), k > r
        PROVE  line[k] > 0
    <3>1. r \in 1 .. Len(line) /\ line[r] < line[k] /\ line[r] \in Nat /\ line[k] \in Nat
      BY <1>0, <1>7, <2>1, <2>2, SMTT(30) DEF Laid
    <3> QED
      BY <3>1
  <2>5. \A k \in 1 .. Len(line) : k > r => line[k] > 0
    BY <2>2
  <2>6. r \in 1 .. Len(line) - 1
    BY <1>7
  <2>3. Len(MergedLines(line, r)) = Len(line) - 1
    BY ONLY <2>1, <2>5, <2>6, MergedLinesIs
  <2>4. \A k \in 1 .. Len(line) - 1 :
          MergedLines(line, r)[k] = IF k <= r THEN line[k] ELSE line[k + 1] - 1
    BY ONLY <2>1, <2>5, <2>6, MergedLinesIs
  <2>7. /\ row + 1 \in 1 .. Len(line) - 1 /\ row + 2 \in 1 .. Len(line) - 1
        /\ row + 1 <= r /\ ~(row + 2 <= r)
    BY <1>0, <1>7, <1>17
  <2>8. MergedLines(line, r)[row + 1] = line[row + 1]
    BY <2>4, <2>7
  <2>9. MergedLines(line, r)[row + 2] = line[(row + 2) + 1] - 1
    BY <2>4, <2>7
  <2> QED
    BY <1>0, <1>7, <2>3, <2>8, <2>9
<1>12. m \in Nat /\ Len(w) <= m /\ m + PTR * Len(t) = b.size
  <2>1. m \in Nat /\ Len(w) <= m
    BY <1>0, <1>2, <1>10, SMTT(30)
  <2> DEFINE x == PTR * (L - 1)
  <2>2. PTR * L = x + PTR /\ x \in Nat /\ b.base + (x + PTR) = b.size
        /\ b.base \in Nat /\ PTR \in Nat
    BY <1>0, <1>2
  <2>3. PTR * Len(t) = x /\ m = b.base + PTR
    BY <1>11
  <2> HIDE DEF x, m
  <2>4. m + x = b.base + (x + PTR)
    BY <2>2, <2>3
  <2> QED
    BY <2>1, <2>2, <2>3, <2>4
<1>19. ~(input.pwd \/ input.TextMax > 0)
  BY <1>3
<1> HIDE DEF w, t, m, n
<1>13. Sound(With(b, w, t, v, m)) /\ With(b, w, t, v, m).line = t
  <2>1. Len(w) <= m /\ m + PTR * Len(t) = b.size /\ m \in Nat
    BY <1>12
  <2>2. /\ input.Type # "TAREA" => Len(t) = 2
        /\ input.pwd => Len(v) + 1 = Len(w)
        /\ input.pwd \/ input.TextMax > 0 => m = b.base
        /\ ~input.pwd => Texted(w)
    BY <1>3, <1>10
  <2>3. w \in Seq(Glyph) /\ Laid(w, t) /\ v \in Seq(Chars \cup {NL})
    BY <1>0, <1>9, <1>10
  <2>4. Sound(b) /\ input \in Inputs
    OBVIOUS
  <2> QED
    BY ONLY <2>1, <2>2, <2>3, <2>4, SoundWith
<1>14. Rows(n) = Rows(b) - 1
  <2>1. Rows(n) = Len(t) - 1
    BY <1>6, <1>13 DEF Rows
  <2> QED
    BY <1>0, <1>1, <1>11, <2>1
<1>20. edit_rowln(n, row) >= N
  <2>1. Sound(n) /\ n.line = t /\ row \in 0 .. Rows(n) - 1
    BY <1>6, <1>13, <1>14, <1>16
  <2>2. edit_rowln(n, row) = t[row + 2] - t[row + 1] - 1
    BY <2>1, RowIs
  <2>3. N = line[row + 2] - line[row + 1] - 1
    BY <1>1
  <2>4. t[row + 1] = line[row + 1] /\ t[row + 2] = line[row + 3] - 1
    BY <1>11
  <2>5. /\ line[row + 1] \in Nat /\ line[row + 2] \in Nat /\ line[row + 3] \in Nat
        /\ line[row + 2] < line[row + 3]
    BY <1>4, <1>18
  <2> QED
    BY ONLY <2>2, <2>3, <2>4, <2>5
<1>21. Line(n, row) = Line(b, row)
  BY <1>1, <1>6, <1>11, <1>13 DEF Line
<1> QED
  BY <1>6, <1>13, <1>14, <1>20, <1>21 DEF n, N

\* edit_delc()
LEMMA edit_delcIs ==
  ASSUME input \in Inputs, NEW b, Sound(b),
         NEW row \in 0 .. Rows(b) - 1, NEW col \in 0 .. edit_rowln(b, row)
  PROVE  /\ Sound(edit_delc(b, col, row))
         /\ Rows(edit_delc(b, col, row)) \in {Rows(b), Rows(b) - 1}
         /\ row \in 0 .. Rows(edit_delc(b, col, row)) - 1
         /\ col \in 0 .. edit_rowln(edit_delc(b, col, row), row)
         /\ Line(edit_delc(b, col, row), row) = Line(b, row)
<1>0. Rows(b) \in Nat /\ row \in Nat /\ edit_rowln(b, row) \in Nat /\ col \in Nat
  BY SpaceIs, RowIs
<1>1. CASE col < edit_rowln(b, row)
  <2>1. col \in 0 .. edit_rowln(b, row) - 1
    BY <1>0, <1>1
  <2>2. /\ Sound(edit_delc(b, col, row))
        /\ Rows(edit_delc(b, col, row)) = Rows(b)
        /\ edit_rowln(edit_delc(b, col, row), row) = edit_rowln(b, row) - 1
        /\ Line(edit_delc(b, col, row), row) = Line(b, row)
    BY <2>1, edit_delcInRow
  <2> QED
    BY <1>0, <1>1, <2>2
<1>2. CASE col = edit_rowln(b, row) /\ row + 1 < Rows(b)
  <2>1. row \in 0 .. Rows(b) - 2
    BY <1>0, <1>2
  <2> DEFINE n == edit_delc(b, edit_rowln(b, row), row)
  <2>2. /\ Sound(n) /\ Rows(n) = Rows(b) - 1
        /\ edit_rowln(n, row) >= edit_rowln(b, row) /\ Line(n, row) = Line(b, row)
    BY <2>1, edit_delcAtEnd
  <2> HIDE DEF n
  <2>3. row \in 0 .. Rows(n) - 1
    BY <1>0, <2>1, <2>2
  <2>4. edit_rowln(n, row) \in Nat
    BY <2>2, <2>3, RowIs
  <2>5. col \in 0 .. edit_rowln(n, row)
    BY <1>0, <1>2, <2>2, <2>4
  <2>6. edit_delc(b, col, row) = n
    BY <1>2 DEF n
  <2> QED
    BY <2>2, <2>3, <2>5, <2>6
<1>3. CASE col = edit_rowln(b, row) /\ ~(row + 1 < Rows(b))
  <2>1. ~HasNext(b, col, row)
    BY <1>3, HasNextIs
  <2>2. edit_delc(b, col, row) = b
    BY <2>1 DEF edit_delc
  <2> QED
    BY <2>2
<1>4. col < edit_rowln(b, row) \/ col = edit_rowln(b, row)
  BY <1>0
<1> QED
  BY <1>1, <1>2, <1>3, <1>4

-----------------------------------------------------------------------------
(***************************************************************************)
(* Words.                                                                  *)
(***************************************************************************)
LEMMA WordEndIs ==
  ASSUME NEW s \in Seq(Glyph)
  PROVE  WordLen(s) \in 0 .. Len(s)
<1> DEFINE K == Len(s)
           A == {k \in 0 .. K : k = K \/ s[k + 1] # Space}
<1>1. K \in Nat
  OBVIOUS
<1> HIDE DEF K
<1>2. PICK k \in A : \A j \in A : k <= j
  <2>1. A \in SUBSET Nat /\ K \in A
    BY <1>1
  <2> HIDE DEF A
  <2> QED
    BY <2>1, LeastNat
<1>3. k \in 0 .. K /\ (k = K \/ s[k + 1] # Space)
  BY <1>2
<1>4. ASSUME NEW j \in 1 .. k
      PROVE  s[j] = Space
  <2>1. j - 1 \in 0 .. K /\ j - 1 < k /\ j - 1 # K /\ (j - 1) + 1 = j
    BY <1>1, <1>3
  <2>2. j - 1 \notin A
    BY <1>2, <1>3, <2>1
  <2> QED
    BY <2>1, <2>2
<1> DEFINE B == {n \in 0 .. K : (k < n \/ n = K) /\ (n = K \/ s[n + 1] = Space)}
<1>5. PICK n \in B : \A j \in B : n <= j
  <2>1. B \in SUBSET Nat /\ K \in B
    BY <1>1
  <2> HIDE DEF B
  <2> QED
    BY <2>1, LeastNat
<1>6. n \in 0 .. K /\ (k < n \/ n = K) /\ (n = K \/ s[n + 1] = Space)
  BY <1>5
<1>7. ASSUME NEW j \in k + 1 .. n
      PROVE  s[j] # Space
  <2>1. CASE j = k + 1
    <3>1. k # K
      BY <1>1, <1>3, <1>6, <2>1
    <3> QED
      BY <1>3, <2>1, <3>1
  <2>2. CASE j # k + 1
    <3>1. j - 1 \in 0 .. K /\ k < j - 1 /\ j - 1 < n /\ (j - 1) + 1 = j /\ j - 1 # K
      BY <1>1, <1>3, <1>6, <2>2
    <3>2. j - 1 \notin B
      BY <1>5, <1>6, <3>1
    <3> QED
      BY <3>1, <3>2
  <2> QED
    BY <2>1, <2>2
<1>8. k \in 0 .. n
  BY <1>1, <1>3, <1>6
<1>9. n \in WordEnd(s)
  <2>1. /\ \A j \in 1 .. k : s[j] = Space
        /\ \A j \in k + 1 .. n : s[j] # Space
        /\ k < n \/ n = Len(s)
        /\ n < Len(s) => s[n + 1] = Space
    BY <1>1, <1>4, <1>6, <1>7 DEF K
  <2>2. n \in 0 .. Len(s)
    BY <1>6 DEF K
  <2> QED
    BY <1>8, <2>1, <2>2 DEF WordEnd
<1>10. WordEnd(s) \subseteq 0 .. Len(s)
  BY DEF WordEnd
<1> QED
  BY <1>9, <1>10 DEF WordLen

LEMMA WordsIn ==
  ASSUME input \in Inputs, NEW b, Sound(b),
         NEW row \in 0 .. Rows(b) - 1, NEW col \in 0 .. edit_rowln(b, row)
  PROVE  /\ ctrl_left(b, col, row) \in 0 .. col
         /\ ctrl_right(b, col, row) \in 0 .. edit_rowln(b, row) - col
<1> DEFINE item == b.item
           line == b.line
           N == edit_rowln(b, row)
           x == line[row + 1]
           K == Len(item)
<1>1. /\ row \in 0 .. Len(line) - 2 /\ Line(b, row) = x
      /\ N = line[row + 2] - x - 1 /\ N \in Nat
      /\ item \in Seq(Glyph) /\ Laid(item, line)
  BY RowIs
<1>2. col \in Nat /\ col <= N
  BY <1>1
<1> HIDE DEF item, line, N
<1>3. x \in Nat /\ x + N < K /\ K \in Nat
  <2>1. x \in Nat /\ line[row + 2] \in Nat /\ line[row + 2] <= Len(item) /\ Len(item) \in Nat
    BY <1>1, RowOf
  <2> QED
    BY <1>1, <2>1
<1> HIDE DEF x, K
<1>4. ASSUME NEW from \in 0 .. N, NEW to \in 0 .. N, from <= to
      PROVE  /\ InRow(b, row, from, to) \in Seq(Glyph)
             /\ Len(InRow(b, row, from, to)) = to - from
  <2> DEFINE i == x + from + 1
             j == x + to
  <2>1. i \in 1 .. K + 1 /\ j \in 0 .. K /\ i <= j + 1 /\ j - i + 1 = to - from
    BY <1>1, <1>3, <1>4
  <2>2. InRow(b, row, from, to) = SubSeq(item, i, j)
    BY <1>1 DEF InRow, item
  <2> HIDE DEF i, j
  <2>3. SubSeq(item, i, j) \in Seq(Glyph) /\ Len(SubSeq(item, i, j)) = j - i + 1
    BY <1>1, <2>1, SubSeqIs DEF K
  <2> QED
    BY <2>1, <2>2, <2>3
<1>5. 0 \in 0 .. N /\ col \in 0 .. N /\ N \in 0 .. N /\ 0 <= col
  BY <1>1, <1>2
<1>6. InRow(b, row, 0, col) \in Seq(Glyph) /\ Len(InRow(b, row, 0, col)) = col
  BY <1>2, <1>4, <1>5
<1>7. InRow(b, row, col, N) \in Seq(Glyph) /\ Len(InRow(b, row, col, N)) = N - col
  BY <1>2, <1>4, <1>5
<1>8. ctrl_right(b, col, row) \in 0 .. N - col
  <2> DEFINE s == InRow(b, row, col, N)
  <2> HIDE DEF s
  <2>1. WordLen(s) \in 0 .. Len(s)
    BY <1>7, WordEndIs DEF s
  <2> QED
    BY <1>7, <2>1 DEF ctrl_right, N, s
<1>9. ctrl_left(b, col, row) \in 0 .. col
  <2> DEFINE s == InRow(b, row, 0, col)
             t == Backwards(s)
  <2> HIDE DEF s
  <2>1. s \in Seq(Glyph) /\ Len(s) = col
    BY <1>6 DEF s
  <2>2. t \in Seq(Glyph) /\ Len(t) = col
    <3>1. t = [k \in 1 .. col |-> s[col + 1 - k]]
      BY <2>1 DEF Backwards
    <3>2. \A k \in 1 .. col : s[col + 1 - k] \in Glyph
      BY <1>2, <2>1
    <3>3. t \in [1 .. col -> Glyph]
      BY <3>1, <3>2
    <3> QED
      BY <1>2, <3>3
  <2> HIDE DEF t
  <2>3. WordLen(t) \in 0 .. Len(t)
    BY <2>2, WordEndIs
  <2> QED
    BY <2>2, <2>3 DEF ctrl_left, s, t
<1> QED
  BY <1>8, <1>9 DEF N

-----------------------------------------------------------------------------
(***************************************************************************)
(* del_chars(): characters are deleted one after the other.                *)
(***************************************************************************)
SoundBlocks == {x \in BlockType : Sound(x)}

\* f has the blocks after each of the n deletions, at the columns c.
DeletedOnes(f, b, row, n, c) ==
  f = [k \in 0 .. n |-> IF k = 0 THEN b ELSE edit_delc(f[k - 1], c[k], row)]

LEMMA DeletedOnesIn ==
  ASSUME NEW b, NEW row, NEW n \in Nat, NEW c,
         NEW Q \in [0 .. n -> SUBSET SoundBlocks], b \in Q[0],
         \A k \in 1 .. n : \A x \in Q[k - 1] : edit_delc(x, c[k], row) \in Q[k]
  PROVE  /\ \E f : DeletedOnes(f, b, row, n, c)
         /\ \A f : DeletedOnes(f, b, row, n, c) => f[n] \in Q[n]
<1> DEFINE T == SoundBlocks
           G == [x \in (1 .. n) \X T |-> IF edit_delc(x[2], c[x[1]], row) \in T
                                         THEN edit_delc(x[2], c[x[1]], row) ELSE b]
<1>1. n \in Nat /\ b \in T /\ \A k \in 0 .. n : Q[k] \subseteq T
  BY DEF T
<1> HIDE DEF T
<1>2. G \in [(1 .. n) \X T -> T]
  BY <1>1
<1>3. \A k \in 1 .. n, x \in T :
        edit_delc(x, c[k], row) \in T => G[<<k, x>>] = edit_delc(x, c[k], row)
  OBVIOUS
<1> HIDE DEF G
<1>4. PICK g \in [0 .. n -> T] : Rounds(g, n, b, G)
  BY <1>1, <1>2, IteratedAt
<1>5. /\ g[0] = b
      /\ \A k \in 1 .. n : g[k] = G[<<k, g[k - 1]>>] /\ k - 1 \in 0 .. n /\ g[k - 1] \in T
  <2>1. 0 \in 0 .. n /\ \A k \in 1 .. n : k \in 0 .. n /\ k # 0 /\ k - 1 \in 0 .. n
    BY <1>1
  <2>2. g = [k \in 0 .. n |-> IF k = 0 THEN b ELSE G[<<k, g[k - 1]>>]]
    BY <1>4 DEF Rounds
  <2> QED
    BY <1>4, <2>1, <2>2
<1> DEFINE S == {k \in 0 .. n : g[k] \in Q[k]}
<1>6. \A k \in 0 .. n - 1 : k \in S => k + 1 \in S
  <2> SUFFICES ASSUME NEW k \in 0 .. n - 1, g[k] \in Q[k]
               PROVE  k + 1 \in 0 .. n /\ g[k + 1] \in Q[k + 1]
    OBVIOUS
  <2>1. k + 1 \in 1 .. n /\ (k + 1) - 1 = k /\ k + 1 \in 0 .. n
    BY <1>1
  <2>2. edit_delc(g[k], c[k + 1], row) \in Q[k + 1]
    BY <2>1
  <2>3. edit_delc(g[k], c[k + 1], row) \in T /\ g[k] \in T
    BY <1>1, <1>5, <2>1, <2>2
  <2>4. g[k + 1] = edit_delc(g[k], c[k + 1], row)
    BY <1>3, <1>5, <2>1, <2>3
  <2> QED
    BY <2>1, <2>2, <2>4
<1>7. \A k \in 0 .. n : g[k] \in Q[k]
  <2>1. 0 \in S
    BY <1>1, <1>5
  <2> HIDE DEF S
  <2>2. \A k \in 0 .. n : k \in S
    BY <1>1, <1>6, <2>1, UpTo
  <2> QED
    BY <2>2 DEF S
<1>8. \A k \in 1 .. n : g[k] = edit_delc(g[k - 1], c[k], row)
  <2> SUFFICES ASSUME NEW k \in 1 .. n
               PROVE  g[k] = edit_delc(g[k - 1], c[k], row)
    OBVIOUS
  <2>1. k \in 0 .. n /\ g[k - 1] \in Q[k - 1] /\ g[k - 1] \in T
    BY <1>1, <1>5, <1>7
  <2>2. edit_delc(g[k - 1], c[k], row) \in T
    BY <1>1, <2>1
  <2> QED
    BY <1>3, <1>5, <2>1, <2>2
<1>9. DeletedOnes(g, b, row, n, c)
  <2>1. \A k \in 0 .. n : k = 0 \/ k \in 1 .. n
    BY <1>1
  <2>2. \A k \in 0 .. n : g[k] = IF k = 0 THEN b ELSE edit_delc(g[k - 1], c[k], row)
    BY <1>5, <1>8, <2>1
  <2>3. DOMAIN g = 0 .. n /\ g = [k \in 0 .. n |-> g[k]]
    BY <1>4
  <2> QED
    BY <2>2, <2>3 DEF DeletedOnes
<1>10. ASSUME NEW f, DeletedOnes(f, b, row, n, c)
       PROVE  f[n] \in Q[n]
  <2>1. /\ 0 \in 0 .. n
        /\ \A k \in 0 .. n - 1 : k + 1 \in 0 .. n /\ k + 1 # 0 /\ (k + 1) - 1 = k
                                 /\ k + 1 \in 1 .. n
    BY <1>1
  <2>2. f[0] = b /\ \A k \in 0 .. n - 1 : f[k + 1] = edit_delc(f[k], c[k + 1], row)
    BY <1>10, <2>1 DEF DeletedOnes
  <2>3. \A k \in 0 .. n - 1 : g[k + 1] = edit_delc(g[k], c[k + 1], row)
    BY <1>8, <2>1
  <2> DEFINE E == {k \in 0 .. n : f[k] = g[k]}
  <2>4. 0 \in E
    BY <1>5, <2>1, <2>2
  <2>5. \A k \in 0 .. n - 1 : k \in E => k + 1 \in E
    BY <2>1, <2>2, <2>3
  <2> HIDE DEF E
  <2>6. \A k \in 0 .. n : k \in E
    BY <1>1, <2>4, <2>5, UpTo
  <2>7. n \in 0 .. n
    BY <1>1
  <2> QED
    BY <1>7, <2>6, <2>7 DEF E
<1> QED
  BY <1>9, <1>10

-----------------------------------------------------------------------------
(***************************************************************************)
(* The text of a field.                                                    *)
(***************************************************************************)
Symbol == Chars \cup {NL}

LEMMA TextIs ==
  ASSUME input \in Inputs, NEW b, Sound(b)
  PROVE  /\ Text(b) \in Seq(Symbol)
         /\ Len(Text(b)) = Len(b.item) - 1
         /\ \A k \in 1 .. Len(b.item) - 1 :
              Text(b)[k] = IF input.pwd THEN b.Value[k] ELSE b.item[k]
<1> DEFINE item == b.item
           K == Len(item)
<1>1. /\ item \in Seq(Glyph) /\ K \in Nat /\ input.pwd \in BOOLEAN
      /\ b.Value \in Seq(Symbol)
      /\ input.pwd => Len(b.Value) + 1 = K
      /\ ~input.pwd => Texted(item)
      /\ Line(b, Rows(b)) = K
      /\ Len(b.Value) \in Nat
  BY SoundIs, SpaceIs DEF Sound, Symbol
<1>2. K > 0
  <2>1. 0 \in 0 .. Rows(b) - 1
    BY SpaceIs
  <2>2. /\ 0 \in 0 .. Len(b.line) - 2 /\ Laid(item, b.line)
    BY <2>1, RowIs
  <2> HIDE DEF item
  <2>3. b.line[0 + 1] \in Nat /\ b.line[0 + 2] \in Nat
        /\ b.line[0 + 1] < b.line[0 + 2] /\ b.line[0 + 2] <= Len(item)
    BY <1>1, <2>2, RowOf
  <2> QED
    BY <1>1, <2>3
<1> HIDE DEF item
<1>3. CASE input.pwd
  <2>1. Text(b) = b.Value /\ Len(b.Value) = K - 1
    BY <1>1, <1>3 DEF Text
  <2> QED
    BY <1>1, <1>3, <2>1 DEF item
<1>4. CASE ~input.pwd
  <2>1. Text(b) = SubSeq(item, 1, K - 1)
    BY <1>1, <1>4 DEF Text, item
  <2>2. 1 \in 1 .. K + 1 /\ K - 1 \in 0 .. K /\ 1 <= (K - 1) + 1
    BY <1>1, <1>2
  <2> DEFINE t == Text(b)
  <2>3. /\ t \in Seq(Glyph) /\ Len(t) = (K - 1) - 1 + 1
        /\ \A k \in 1 .. (K - 1) - 1 + 1 : t[k] = item[1 + k - 1]
    BY <1>1, <2>1, <2>2, SubSeqIs
  <2> HIDE DEF t
  <2>4. Len(t) = K - 1 /\ \A k \in 1 .. K - 1 : t[k] = item[k]
    <3>1. (K - 1) - 1 + 1 = K - 1
      BY <1>1
    <3>2. \A k \in 1 .. K - 1 : 1 + k - 1 = k
      BY <1>1
    <3> QED
      BY <2>3, <3>1, <3>2
  <2>5. \A k \in 1 .. Len(t) : t[k] \in Symbol
    BY <1>1, <1>4, <2>4 DEF Texted, Symbol
  <2>6. t \in Seq(Symbol)
    BY <2>3, <2>5
  <2> QED
    BY <1>4, <2>4, <2>6 DEF t, item
<1> QED
  BY <1>1, <1>3, <1>4

LEMMA WithoutMore ==
  ASSUME NEW s, Len(s) \in Nat, NEW t, NEW u, NEW i \in Nat, NEW j \in Nat, NEW n \in Nat,
         Len(t) \in Nat, Len(u) \in Nat,
         Without(t, s, i, n), Without(u, t, j, 1), j \in {i, i - 1}
  PROVE  Without(u, s, j, n + 1)
<1> DEFINE S == Len(s)
<1>1. S \in Nat /\ Len(t) = S - n /\ Len(u) = S - n - 1 /\ Len(u) = Len(t) - 1
  BY DEF Without
<1>2. /\ \A k \in 1 .. S - n : t[k] = IF k <= i THEN s[k] ELSE s[k + n]
      /\ \A k \in 1 .. Len(t) - 1 : u[k] = IF k <= j THEN t[k] ELSE t[k + 1]
  BY DEF Without
<1> HIDE DEF S
<1>3. ASSUME NEW k \in 1 .. S - (n + 1)
      PROVE  u[k] = IF k <= j THEN s[k] ELSE s[k + (n + 1)]
  <2>1. k \in 1 .. S - n /\ k + 1 \in 1 .. S - n /\ k \in 1 .. Len(t) - 1
    BY <1>1
  <2>2. CASE k <= j
    <3>1. k <= i
      BY <2>2
    <3> QED
      BY <1>2, <2>1, <2>2, <3>1
  <2>3. CASE ~(k <= j)
    <3>1. ~(k + 1 <= i) /\ (k + 1) + n = k + (n + 1)
      BY <2>3
    <3>2. u[k] = t[k + 1]
      BY <1>2, <2>1, <2>3
    <3>3. t[k + 1] = s[(k + 1) + n]
      BY <1>2, <2>1, <3>1
    <3> QED
      BY <2>3, <3>1, <3>2, <3>3
  <2> QED
    BY <2>2, <2>3
<1>4. Len(u) = S - (n + 1)
  BY <1>1
<1> QED
  BY <1>3, <1>4 DEF Without, S

\* A place of a row is a place of the text.
LEMMA PlaceIs ==
  ASSUME input \in Inputs, NEW b, Sound(b),
         NEW row \in 0 .. Rows(b) - 1, NEW col \in 0 .. edit_rowln(b, row)
  PROVE  /\ Line(b, row) + col \in 0 .. Len(Text(b))
         /\ Line(b, row) \in Nat /\ col \in Nat /\ Len(Text(b)) \in Nat
         /\ Len(Text(b)) = Len(b.item) - 1 /\ Len(b.item) \in Nat
         /\ HasNext(b, col, row) <=> Line(b, row) + col < Len(Text(b))
         /\ input.pwd => row = 0 /\ Line(b, row) = 0 /\ Len(b.Value) + 1 = Len(b.item)
<1> DEFINE item == b.item
           line == b.line
           N == edit_rowln(b, row)
           x == line[row + 1]
           K == Len(item)
<1>1. /\ row \in 0 .. Len(line) - 2 /\ Line(b, row) = x
      /\ N = line[row + 2] - x - 1 /\ N \in Nat
      /\ item \in Seq(Glyph) /\ Laid(item, line)
  BY RowIs
<1>2. col \in Nat /\ col <= N
  BY <1>1
<1>3. HasNext(b, col, row) <=> x + col < K - 1
  BY HasNextIs
<1>4. Len(Text(b)) = K - 1 /\ Text(b) \in Seq(Symbol)
  BY TextIs
<1>5. input.pwd => Len(line) = 2 /\ Len(b.Value) + 1 = K
  BY SoundIs DEF Sound
<1> HIDE DEF item, line, N
<1>6. x \in Nat /\ x + N < K /\ K \in Nat
  <2>1. x \in Nat /\ line[row + 2] \in Nat /\ line[row + 2] <= Len(item) /\ Len(item) \in Nat
    BY <1>1, RowOf
  <2> QED
    BY <1>1, <2>1
<1>7. input.pwd => row = 0 /\ x = 0
  <2>1. ASSUME Len(line) = 2
        PROVE  row = 0 /\ x = 0
    <3>1. row = 0
      BY <1>1, <2>1
    <3>2. line[1] = 0
      BY <1>1 DEF Laid
    <3> QED
      BY <3>1, <3>2
  <2> QED
    BY <1>5, <2>1
<1> HIDE DEF x, K
<1> DEFINE J == Len(Text(b))
<1>8. J = K - 1 /\ J \in Nat
  BY <1>4
<1> HIDE DEF J
<1>9. x + col \in 0 .. J /\ (HasNext(b, col, row) <=> x + col < J)
  BY <1>2, <1>1, <1>3, <1>6, <1>8
<1> QED
  BY <1>1, <1>2, <1>5, <1>6, <1>7, <1>8, <1>9 DEF J, K, item, x

\* What a text has of an item into which x was put, or without one of its places
LEMMA InsertedPart ==
  ASSUME NEW K \in Nat, NEW p \in 0 .. K, NEW x, NEW s, NEW t, NEW u, NEW w,
         Len(s) = K, Len(u) = K + 1, Len(t) = Len(w) - 1,
         \A k \in 1 .. K : s[k] = u[k],
         \A k \in 1 .. Len(w) - 1 : t[k] = w[k],
         Inserted(w, u, p, x)
  PROVE  Inserted(t, s, p, x)
<1>1. /\ Len(w) = K + 2
      /\ \A k \in 1 .. K + 2 : w[k] = IF k <= p THEN u[k] ELSE IF k = p + 1 THEN x ELSE u[k - 1]
  <2>1. (K + 1) + 1 = K + 2
    OBVIOUS
  <2> QED
    BY <2>1 DEF Inserted
<1>2. ASSUME NEW k \in 1 .. K + 1
      PROVE  t[k] = IF k <= p THEN s[k] ELSE IF k = p + 1 THEN x ELSE s[k - 1]
  <2>1. k \in 1 .. K + 2 /\ k \in 1 .. Len(w) - 1
    BY <1>1
  <2>2. t[k] = IF k <= p THEN u[k] ELSE IF k = p + 1 THEN x ELSE u[k - 1]
    BY <1>1, <2>1
  <2>3. /\ k <= p => k \in 1 .. K
        /\ ~(k <= p) /\ k # p + 1 => k - 1 \in 1 .. K
    OBVIOUS
  <2> QED
    BY <2>2, <2>3
<1>3. Len(t) = K + 1
  BY <1>1
<1> QED
  BY <1>2, <1>3 DEF Inserted

LEMMA WithoutPart ==
  ASSUME NEW K \in Nat, NEW p \in 0 .. K - 1, NEW s, NEW t, NEW u, NEW w,
         Len(s) = K, Len(u) = K + 1, Len(t) = Len(w) - 1,
         \A k \in 1 .. K : s[k] = u[k],
         \A k \in 1 .. Len(w) - 1 : t[k] = w[k],
         Without(w, u, p, 1)
  PROVE  Without(t, s, p, 1)
<1>1. /\ Len(w) = K
      /\ \A k \in 1 .. K : w[k] = IF k <= p THEN u[k] ELSE u[k + 1]
  <2>1. (K + 1) - 1 = K
    OBVIOUS
  <2> QED
    BY <2>1 DEF Without
<1>2. ASSUME NEW k \in 1 .. K - 1
      PROVE  t[k] = IF k <= p THEN s[k] ELSE s[k + 1]
  <2>1. k \in 1 .. K /\ k + 1 \in 1 .. K
    OBVIOUS
  <2>2. t[k] = IF k <= p THEN u[k] ELSE u[k + 1]
    BY <1>1, <2>1
  <2> QED
    BY <2>1, <2>2
<1>3. Len(t) = K - 1
  BY <1>1
<1> QED
  BY <1>2, <1>3 DEF Without

\* A character, or the end of a line, is typed at a place of the text.
LEMMA PutInText ==
  ASSUME input \in Inputs, NEW b, Sound(b), NEW n, Sound(n),
         NEW p \in 0 .. Len(Text(b)), NEW x \in Symbol,
         input.pwd => n.Value = PutIn(b.Value, p, x),
         ~input.pwd => n.item = PutIn(b.item, p, x)
  PROVE  Inserted(Text(n), Text(b), p, x)
<1>0. input.pwd \in BOOLEAN /\ b.item \in Seq(Glyph) /\ b.Value \in Seq(Symbol) /\ x \in Glyph
  BY SoundIs DEF Symbol, Glyph
<1>1. CASE input.pwd
  <2>1. Text(b) = b.Value /\ Text(n) = n.Value
    BY <1>1 DEF Text
  <2>2. p \in 0 .. Len(b.Value)
    BY <2>1
  <2> QED
    BY <1>0, <1>1, <2>1, <2>2, InsertedPutIn
<1>2. CASE ~input.pwd
  <2> DEFINE K == Len(Text(b))
             u == b.item
             w == n.item
             s == Text(b)
             t == Text(n)
  <2>1. /\ Len(s) = Len(u) - 1 /\ s \in Seq(Symbol) /\ u \in Seq(Glyph)
        /\ \A k \in 1 .. Len(u) - 1 : s[k] = IF input.pwd THEN b.Value[k] ELSE u[k]
    BY <1>0, TextIs
  <2>2. /\ Len(t) = Len(w) - 1
        /\ \A k \in 1 .. Len(w) - 1 : t[k] = IF input.pwd THEN n.Value[k] ELSE w[k]
    BY TextIs
  <2>3. w = PutIn(u, p, x)
    BY <1>2
  <2>4. p \in 0 .. K
    OBVIOUS
  <2>5. K = Len(s)
    OBVIOUS
  <2> HIDE DEF K, u, w, s, t
  <2>6. K \in Nat /\ Len(u) = K + 1 /\ p \in 0 .. Len(u) /\ Len(u) - 1 = K
    BY <2>1, <2>4, <2>5
  <2>7. Inserted(w, u, p, x)
    BY <1>0, <2>1, <2>3, <2>6, InsertedPutIn
  <2>8. \A k \in 1 .. K : s[k] = u[k]
    BY <1>2, <2>1, <2>6
  <2>9. \A k \in 1 .. Len(w) - 1 : t[k] = w[k]
    BY <1>2, <2>2
  <2>10. K \in Nat /\ p \in 0 .. K /\ Len(s) = K /\ Len(u) = K + 1 /\ Len(t) = Len(w) - 1
    BY <2>2, <2>4, <2>5, <2>6
  <2>11. Inserted(t, s, p, x)
    BY ONLY <2>7, <2>8, <2>9, <2>10, InsertedPart
  <2> QED
    BY <2>11 DEF s, t
<1> QED
  BY <1>0, <1>1, <1>2

LEMMA TakenOutText ==
  ASSUME input \in Inputs, NEW b, Sound(b), NEW n, Sound(n),
         NEW p \in 0 .. Len(Text(b)) - 1,
         input.pwd => n.Value = TakenOut(b.Value, p),
         ~input.pwd => n.item = TakenOut(b.item, p)
  PROVE  Without(Text(n), Text(b), p, 1)
<1>0. input.pwd \in BOOLEAN /\ b.item \in Seq(Glyph) /\ b.Value \in Seq(Symbol)
  BY SoundIs DEF Symbol, Glyph
<1>1. CASE input.pwd
  <2>1. Text(b) = b.Value /\ Text(n) = n.Value
    BY <1>1 DEF Text
  <2>2. p \in 0 .. Len(b.Value) - 1
    BY <2>1
  <2> QED
    BY <1>0, <1>1, <2>1, <2>2, WithoutTakenOut
<1>2. CASE ~input.pwd
  <2> DEFINE K == Len(Text(b))
             u == b.item
             w == n.item
             s == Text(b)
             t == Text(n)
  <2>1. /\ Len(s) = Len(u) - 1 /\ s \in Seq(Symbol) /\ u \in Seq(Glyph)
        /\ \A k \in 1 .. Len(u) - 1 : s[k] = IF input.pwd THEN b.Value[k] ELSE u[k]
    BY <1>0, TextIs
  <2>2. /\ Len(t) = Len(w) - 1
        /\ \A k \in 1 .. Len(w) - 1 : t[k] = IF input.pwd THEN n.Value[k] ELSE w[k]
    BY TextIs
  <2>3. w = TakenOut(u, p)
    BY <1>2
  <2>4. p \in 0 .. K - 1
    OBVIOUS
  <2>5. K = Len(s)
    OBVIOUS
  <2> HIDE DEF K, u, w, s, t
  <2>6. K \in Nat /\ Len(u) = K + 1 /\ p \in 0 .. Len(u) - 1 /\ Len(u) - 1 = K
    BY <2>1, <2>4, <2>5
  <2>7. Without(w, u, p, 1)
    BY <1>0, <2>1, <2>3, <2>6, WithoutTakenOut
  <2>8. \A k \in 1 .. K : s[k] = u[k]
    BY <1>2, <2>1, <2>6
  <2>9. \A k \in 1 .. Len(w) - 1 : t[k] = w[k]
    BY <1>2, <2>2
  <2>10. K \in Nat /\ p \in 0 .. K - 1 /\ Len(s) = K /\ Len(u) = K + 1 /\ Len(t) = Len(w) - 1
    BY <2>2, <2>4, <2>5, <2>6
  <2>11. Without(t, s, p, 1)
    BY ONLY <2>7, <2>8, <2>9, <2>10, WithoutPart
  <2> QED
    BY <2>11 DEF s, t
<1> QED
  BY <1>0, <1>1, <1>2

LEMMA TypedText ==
  ASSUME input \in Inputs, NEW b, Sound(b),
         NEW row \in 0 .. Rows(b) - 1, NEW col \in 0 .. edit_rowln(b, row),
         NEW c \in Chars, Sound(Typed(b, col, row, c))
  PROVE  Inserted(Text(Typed(b, col, row, c)), Text(b), Line(b, row) + col, c)
<1> DEFINE n == Typed(b, col, row, c)
           p == Line(b, row) + col
<1>1. /\ p \in 0 .. Len(Text(b))
      /\ col \in Nat
      /\ input.pwd => Line(b, row) = 0
  BY PlaceIs
<1>2. c \in Symbol /\ b \in BlockType
  BY SoundIs DEF Symbol
<1>3. /\ input.pwd => n.Value = PutIn(b.Value, col, c)
      /\ ~input.pwd => n.item = PutIn(b.item, p, c)
  BY <1>2 DEF Typed, BlockType
<1>4. input.pwd => p = col
  BY <1>1
<1>5. Sound(n)
  OBVIOUS
<1> HIDE DEF n, p
<1>6. Inserted(Text(n), Text(b), p, c)
  BY <1>1, <1>2, <1>3, <1>4, <1>5, PutInText
<1> QED
  BY <1>6 DEF n, p

LEMMA edit_charText ==
  ASSUME input \in Inputs, NEW b, Sound(b), CharFits(b),
         NEW row \in 0 .. Rows(b) - 1, NEW col \in 0 .. edit_rowln(b, row),
         NEW c \in Chars
  PROVE  Inserted(Text(edit_char(b, col, row, c)), Text(b), Line(b, row) + col, c)
<1> DEFINE n == edit_char(b, col, row, c)
<1>0. Sound(n)
  BY edit_charIs
<1>1. CASE edit_space(b) > 0
  <2>1. n = Typed(b, col, row, c)
    BY <1>1 DEF edit_char
  <2> QED
    BY <1>0, <2>1, TypedText
<1>2. CASE ~(edit_space(b) > 0)
  <2> DEFINE g == Grown(b)
  <2>1. CanGrow
    BY <1>2 DEF CharFits
  <2>2. Sound(g) /\ g.item = b.item /\ g.line = b.line /\ g.Value = b.Value
    BY <2>1, GrownIs
  <2>3. n = Typed(g, col, row, c)
    BY <1>2 DEF edit_char
  <2> HIDE DEF g
  <2>4. /\ Rows(g) = Rows(b) /\ edit_rowln(g, row) = edit_rowln(b, row)
        /\ Line(g, row) = Line(b, row) /\ Text(g) = Text(b)
    BY <2>2 DEF Rows, edit_rowln, Line, Text
  <2>5. Inserted(Text(Typed(g, col, row, c)), Text(g), Line(g, row) + col, c)
    BY <1>0, <2>2, <2>3, <2>4, TypedText
  <2> QED
    BY <2>3, <2>4, <2>5
<1> QED
  BY <1>1, <1>2

LEMMA BrokenText ==
  ASSUME input \in Inputs, input.Type = "TAREA", NEW b, Sound(b),
         NEW row \in 0 .. Rows(b) - 1, NEW col \in 0 .. edit_rowln(b, row),
         Sound(Broken(b, col, row))
  PROVE  Inserted(Text(Broken(b, col, row)), Text(b), Line(b, row) + col, NL)
<1> DEFINE n == Broken(b, col, row)
           p == Line(b, row) + col
<1>1. p \in 0 .. Len(Text(b))
  BY PlaceIs
<1>2. NL \in Symbol /\ b \in BlockType /\ ~input.pwd
  BY SoundIs, InputIs DEF Symbol
<1>3. n.item = PutIn(b.item, p, NL)
  BY <1>2 DEF Broken, BlockType
<1>4. Sound(n)
  OBVIOUS
<1> HIDE DEF n, p
<1>5. Inserted(Text(n), Text(b), p, NL)
  BY <1>1, <1>2, <1>3, <1>4, PutInText
<1> QED
  BY <1>5 DEF n, p

LEMMA edit_crlfText ==
  ASSUME input \in Inputs, input.Type = "TAREA", NEW b, Sound(b),
         NEW row \in 0 .. Rows(b) - 1, NEW col \in 0 .. edit_rowln(b, row)
  PROVE  Inserted(Text(edit_crlf(b, col, row)), Text(b), Line(b, row) + col, NL)
<1> DEFINE n == edit_crlf(b, col, row)
<1>0. Sound(n)
  BY edit_crlfIs
<1>1. CASE ~(edit_space(b) < 1 + PTR)
  <2>1. n = Broken(b, col, row)
    BY <1>1 DEF edit_crlf
  <2> QED
    BY <1>0, <2>1, BrokenText
<1>2. CASE edit_space(b) < 1 + PTR
  <2> DEFINE g == Grown(b)
  <2>1. CanGrow
    BY InputIs DEF CanGrow
  <2>2. Sound(g) /\ g.item = b.item /\ g.line = b.line /\ g.Value = b.Value
    BY <2>1, GrownIs
  <2>3. n = Broken(g, col, row)
    BY <1>2 DEF edit_crlf
  <2> HIDE DEF g
  <2>4. /\ Rows(g) = Rows(b) /\ edit_rowln(g, row) = edit_rowln(b, row)
        /\ Line(g, row) = Line(b, row) /\ Text(g) = Text(b)
    BY <2>2 DEF Rows, edit_rowln, Line, Text
  <2>5. Inserted(Text(Broken(g, col, row)), Text(g), Line(g, row) + col, NL)
    BY <1>0, <2>2, <2>3, <2>4, BrokenText
  <2> QED
    BY <2>3, <2>4, <2>5
<1> QED
  BY <1>1, <1>2

LEMMA edit_delcText ==
  ASSUME input \in Inputs, NEW b, Sound(b),
         NEW row \in 0 .. Rows(b) - 1, NEW col \in 0 .. edit_rowln(b, row),
         HasNext(b, col, row)
  PROVE  Without(Text(edit_delc(b, col, row)), Text(b), Line(b, row) + col, 1)
<1> DEFINE n == edit_delc(b, col, row)
           p == Line(b, row) + col
<1>1. /\ p \in 0 .. Len(Text(b)) - 1 /\ col \in Nat
      /\ input.pwd => Line(b, row) = 0
  BY PlaceIs
<1>2. b \in BlockType
  BY SoundIs
<1>3. /\ input.pwd => n.Value = TakenOut(b.Value, col)
      /\ ~input.pwd => n.item = TakenOut(b.item, p)
  BY <1>2 DEF edit_delc, BlockType
<1>4. Sound(n)
  BY edit_delcIs
<1>5. input.pwd => p = col
  BY <1>1
<1> HIDE DEF n, p
<1>6. Without(Text(n), Text(b), p, 1)
  BY <1>1, <1>3, <1>4, <1>5, TakenOutText
<1> QED
  BY <1>6 DEF n, p

LEMMA edit_zeroText ==
  ASSUME input \in Inputs, NEW b, Sound(b)
  PROVE  Text(edit_zero(b)) = <<>>
<1> DEFINE n == edit_zero(b)
<1>1. b \in BlockType
  BY SoundIs
<1>2. n.item = <<NUL>> /\ Sound(n)
  BY <1>1, edit_zeroIs DEF edit_zero, BlockType
<1> HIDE DEF n
<1>3. Len(Text(n)) = Len(n.item) - 1 /\ Text(n) \in Seq(Symbol)
  BY <1>2, TextIs
<1>4. Len(Text(n)) = 0
  BY <1>2, <1>3
<1>5. Text(n) = <<>>
  BY <1>3, <1>4, EmptySeq
<1> QED
  BY <1>5 DEF n

LEMMA WithoutNone ==
  ASSUME NEW s, Len(s) \in Nat, NEW i
  PROVE  Without(s, s, i, 0)
<1>1. Len(s) = Len(s) - 0
  OBVIOUS
<1>2. \A k \in 1 .. Len(s) - 0 : k + 0 = k
  OBVIOUS
<1> QED
  BY <1>1, <1>2 DEF Without

-----------------------------------------------------------------------------
(***************************************************************************)
(* Several characters are deleted.                                         *)
(***************************************************************************)
\* To the left: never over the begin of the row
LEMMA DelLeftIs ==
  ASSUME input \in Inputs, NEW b, Sound(b),
         NEW row \in 0 .. Rows(b) - 1, NEW col \in 0 .. edit_rowln(b, row),
         NEW n \in 0 .. col
  PROVE  /\ Sound(DelLeft(b, col, row, n))
         /\ Rows(DelLeft(b, col, row, n)) = Rows(b)
         /\ edit_rowln(DelLeft(b, col, row, n), row) = edit_rowln(b, row) - n
         /\ Line(DelLeft(b, col, row, n), row) = Line(b, row)
         /\ Without(Text(DelLeft(b, col, row, n)), Text(b), Line(b, row) + col - n, n)
<1> DEFINE N == edit_rowln(b, row)
           R == Rows(b)
           L == Line(b, row)
           s == Text(b)
           c == [k \in 1 .. n |-> col - k]
           LessLeft(x, k) == /\ Rows(x) = R /\ edit_rowln(x, row) = N - k
                            /\ Line(x, row) = L /\ Without(Text(x), s, L + col - k, k)
           Q == [k \in 0 .. n |-> {x \in SoundBlocks : LessLeft(x, k)}]
<1>1. N \in Nat /\ R \in Nat /\ row \in Nat /\ col \in Nat /\ n \in Nat
      /\ n <= col /\ col <= N /\ row \in 0 .. R - 1 /\ L \in Nat /\ Len(s) \in Nat
  BY SpaceIs, RowIs, PlaceIs
<1> HIDE DEF N, R, L, s
<1>2. b \in Q[0]
  <2>1. b \in SoundBlocks /\ Rows(b) = R /\ edit_rowln(b, row) = N /\ Line(b, row) = L
        /\ Text(b) = s
    BY SoundIs DEF SoundBlocks, N, R, L, s
  <2>2. 0 \in 0 .. n /\ N - 0 = N
    BY <1>1
  <2>3. Without(s, s, L + col - 0, 0)
    BY <1>1, WithoutNone
  <2> QED
    BY <2>1, <2>2, <2>3
<1>3. ASSUME NEW k \in 1 .. n, NEW x \in Q[k - 1]
      PROVE  edit_delc(x, c[k], row) \in Q[k]
  <2>1. k - 1 \in 0 .. n /\ k \in 0 .. n /\ c[k] = col - k
    BY <1>1
  <2>2. x \in SoundBlocks /\ LessLeft(x, k - 1)
    BY <2>1
  <2> HIDE DEF c, Q
  <2>3. Sound(x) /\ row \in 0 .. Rows(x) - 1 /\ col - k \in 0 .. edit_rowln(x, row) - 1
        /\ col - k \in 0 .. edit_rowln(x, row) /\ col - k < edit_rowln(x, row)
    <3>1. col - k \in 0 .. (N - (k - 1)) - 1 /\ col - k \in 0 .. N - (k - 1)
          /\ col - k < N - (k - 1)
      BY <1>1
    <3> QED
      BY <1>1, <2>2, <3>1 DEF SoundBlocks
  <2> DEFINE y == edit_delc(x, col - k, row)
  <2>4. Sound(y) /\ Rows(y) = Rows(x) /\ edit_rowln(y, row) = edit_rowln(x, row) - 1
        /\ Line(y, row) = Line(x, row)
    BY <2>3, edit_delcInRow
  <2>5. HasNext(x, col - k, row)
    BY <2>3, HasNextIs
  <2>6. Without(Text(y), Text(x), Line(x, row) + (col - k), 1)
    BY <2>3, <2>5, edit_delcText
  <2> HIDE DEF y
  <2>7. y \in SoundBlocks
    BY <2>4, SoundIs DEF SoundBlocks
  <2>8. edit_rowln(y, row) = N - k
    BY <1>1, <2>2, <2>4
  <2>9. Without(Text(y), s, L + col - k, k)
    <3> DEFINE t == Text(x)
               u == Text(y)
    <3>1. Len(t) \in Nat /\ Len(u) \in Nat
      BY <2>3, <2>4, TextIs
    <3>2. Without(t, s, L + col - (k - 1), k - 1) /\ Without(u, t, L + (col - k), 1)
      BY <2>2, <2>6
    <3> DEFINE i == L + col - (k - 1)
               j == L + (col - k)
               m == k - 1
    <3>3. i \in Nat /\ j \in Nat /\ m \in Nat /\ j \in {i, i - 1} /\ m + 1 = k
          /\ j = L + col - k
      BY <1>1, <2>1, SMTT(30)
    <3>4. Without(t, s, i, m) /\ Without(u, t, j, 1)
      BY <3>2
    <3> HIDE DEF i, j, m, t, u
    <3>5. Without(u, s, j, m + 1)
      BY ONLY <1>1, <3>1, <3>3, <3>4, WithoutMore
    <3> QED
      BY <3>3, <3>5 DEF u
  <2>10. LessLeft(y, k)
    BY <2>2, <2>4, <2>8, <2>9
  <2> HIDE DEF Left
  <2>11. y \in Q[k]
    BY <2>1, <2>7, <2>10 DEF Q
  <2> QED
    BY <2>1, <2>11 DEF y
<1> HIDE DEF Left
<1>4. Q \in [0 .. n -> SUBSET SoundBlocks]
  OBVIOUS
<1> DEFINE Del(f) ==
      f = [k \in 0 .. n |-> IF k = 0 THEN b ELSE edit_delc(f[k - 1], LeftColumn(col, k), row)]
<1>5. \A f : Del(f) <=> DeletedOnes(f, b, row, n, c)
  <2>1. \A k \in 0 .. n : k # 0 => LeftColumn(col, k) = c[k]
    BY <1>1 DEF LeftColumn
  <2> HIDE DEF c
  <2>2. \A f : [k \in 0 .. n |-> IF k = 0 THEN b ELSE edit_delc(f[k - 1], LeftColumn(col, k), row)]
               = [k \in 0 .. n |-> IF k = 0 THEN b ELSE edit_delc(f[k - 1], c[k], row)]
    BY <2>1
  <2> QED
    BY <2>2 DEF DeletedOnes
<1> DEFINE del == CHOOSE f : Del(f)
<1>6. DelLeft(b, col, row, n) = del[n]
  BY DEF DelLeft
<1> HIDE DEF Q, c
<1>7. del[n] \in Q[n]
  <2>1. /\ \E f : DeletedOnes(f, b, row, n, c)
        /\ \A f : DeletedOnes(f, b, row, n, c) => f[n] \in Q[n]
    BY <1>1, <1>2, <1>3, <1>4, DeletedOnesIn
  <2> HIDE DEF Del
  <2>2. Del(del)
    BY <1>5, <2>1
  <2> QED
    BY <1>5, <2>1, <2>2
<1>8. n \in 0 .. n
  BY <1>1
<1> DEFINE d == DelLeft(b, col, row, n)
<1> HIDE DEF del
<1>9. d \in SoundBlocks /\ LessLeft(d, n)
  BY <1>6, <1>7, <1>8 DEF Q
<1> QED
  BY <1>9 DEF SoundBlocks, Left, N, R, L, s

\* To the right: the last deletion may append the next line.
LEMMA DelRightIs ==
  ASSUME input \in Inputs, NEW b, Sound(b),
         NEW row \in 0 .. Rows(b) - 1, NEW col \in 0 .. edit_rowln(b, row),
         NEW n \in 0 .. edit_rowln(b, row) - col
  PROVE  /\ Sound(DelRight(b, col, row, n))
         /\ Rows(DelRight(b, col, row, n)) \in {Rows(b), Rows(b) - 1}
         /\ row \in 0 .. Rows(DelRight(b, col, row, n)) - 1
         /\ col \in 0 .. edit_rowln(DelRight(b, col, row, n), row)
         /\ Line(DelRight(b, col, row, n), row) = Line(b, row)
         /\ \E j \in Nat : Without(Text(DelRight(b, col, row, n)), Text(b),
                                   Line(b, row) + col, j)
<1> DEFINE N == edit_rowln(b, row)
           R == Rows(b)
           L == Line(b, row)
           s == Text(b)
           M == n + 1
           c == [k \in 1 .. M |-> col]
           Less(x) == \E j \in Nat : Without(Text(x), s, L + col, j)
           Stays(x) == /\ Rows(x) \in {R, R - 1} /\ row \in 0 .. Rows(x) - 1
                       /\ col \in 0 .. edit_rowln(x, row) /\ Line(x, row) = L
           InRowStill(x, k) == k <= N - col => Rows(x) = R /\ edit_rowln(x, row) = N - k
           Q == [k \in 0 .. M |-> {x \in SoundBlocks : Stays(x) /\ InRowStill(x, k) /\ Less(x)}]
<1>1. N \in Nat /\ R \in Nat /\ row \in Nat /\ col \in Nat /\ n \in Nat /\ M \in Nat
      /\ M = n + 1 /\ n <= N - col /\ col <= N /\ row \in 0 .. R - 1 /\ L \in Nat
      /\ Len(s) \in Nat
  BY SpaceIs, RowIs, PlaceIs
<1> HIDE DEF N, R, L, s, M
<1>2. b \in Q[0]
  <2>1. b \in SoundBlocks /\ Rows(b) = R /\ edit_rowln(b, row) = N /\ Line(b, row) = L
        /\ Text(b) = s
    BY SoundIs DEF SoundBlocks, N, R, L, s
  <2>2. 0 \in 0 .. M /\ N - 0 = N /\ col \in 0 .. N
    BY <1>1
  <2>3. Less(b)
    <3>1. Without(s, s, L + col, 0) /\ 0 \in Nat
      BY <1>1, WithoutNone
    <3> QED
      BY <2>1, <3>1
  <2>4. Stays(b) /\ InRowStill(b, 0)
    BY <1>1, <2>1, <2>2
  <2> HIDE DEF Stays, InRowStill, Less
  <2> QED
    BY <2>1, <2>2, <2>3, <2>4
<1>3. ASSUME NEW k \in 1 .. M, NEW x \in Q[k - 1]
      PROVE  edit_delc(x, c[k], row) \in Q[k]
  <2>1. k - 1 \in 0 .. M /\ k \in 0 .. M /\ c[k] = col /\ k - 1 <= N - col /\ k \in Nat
    BY <1>1
  <2>2. x \in SoundBlocks /\ Stays(x) /\ InRowStill(x, k - 1) /\ Less(x)
    BY <2>1
  <2> HIDE DEF c, Q, Less
  <2>3. Sound(x) /\ row \in 0 .. Rows(x) - 1 /\ col \in 0 .. edit_rowln(x, row)
        /\ Rows(x) = R /\ edit_rowln(x, row) = N - (k - 1) /\ Line(x, row) = L
    BY <2>1, <2>2 DEF SoundBlocks
  <2> DEFINE y == edit_delc(x, col, row)
  <2>4. /\ Sound(y) /\ Rows(y) \in {Rows(x), Rows(x) - 1} /\ row \in 0 .. Rows(y) - 1
        /\ col \in 0 .. edit_rowln(y, row) /\ Line(y, row) = Line(x, row)
    BY <2>3, edit_delcIs
  <2>5. InRowStill(y, k)
    <3> SUFFICES ASSUME k <= N - col
                 PROVE  Rows(y) = R /\ edit_rowln(y, row) = N - k
      OBVIOUS
    <3>1. col \in 0 .. (N - (k - 1)) - 1
      BY <1>1, <2>1
    <3>2. col \in 0 .. edit_rowln(x, row) - 1
      BY <2>3, <3>1
    <3>3. Rows(y) = Rows(x) /\ edit_rowln(y, row) = edit_rowln(x, row) - 1
      BY <2>3, <3>2, edit_delcInRow
    <3>4. (N - (k - 1)) - 1 = N - k
      BY <1>1, <2>1
    <3> QED
      BY <2>3, <3>3, <3>4
  <2>6. Less(y)
    <3>1. PICK j \in Nat : Without(Text(x), s, L + col, j)
      BY <2>2 DEF Less
    <3>2. CASE HasNext(x, col, row)
      <4> DEFINE t == Text(x)
                 u == Text(y)
                 i == L + col
      <4>1. Without(u, t, i, 1)
        BY <2>3, <3>2, edit_delcText
      <4>2. Len(t) \in Nat /\ Len(u) \in Nat
        BY <2>3, <2>4, TextIs
      <4>3. i \in Nat /\ j \in Nat /\ i \in {i, i - 1} /\ j + 1 \in Nat
        BY <1>1, SMTT(20)
      <4>4. Without(t, s, i, j)
        BY <3>1
      <4> HIDE DEF i, t, u
      <4>5. Without(u, s, i, j + 1)
        BY ONLY <1>1, <4>1, <4>2, <4>3, <4>4, WithoutMore
      <4> QED
        BY <4>3, <4>5 DEF Less, u, i
    <3>3. CASE ~HasNext(x, col, row)
      <4>1. y = x
        BY <3>3 DEF edit_delc
      <4> QED
        BY <2>2, <4>1
    <3> QED
      BY <3>2, <3>3
  <2>7. y \in SoundBlocks
    BY <2>4, SoundIs DEF SoundBlocks
  <2> HIDE DEF y
  <2>8. Stays(y)
    BY <2>3, <2>4
  <2> HIDE DEF Stays, InRowStill
  <2>9. y \in Q[k]
    BY <2>1, <2>5, <2>6, <2>7, <2>8 DEF Q
  <2> QED
    BY <2>1, <2>9 DEF y
<1> HIDE DEF Stays, InRowStill, Less
<1>4. Q \in [0 .. M -> SUBSET SoundBlocks]
  OBVIOUS
<1> DEFINE Del(f) ==
      f = [k \in 0 .. n + 1 |-> IF k = 0 THEN b ELSE edit_delc(f[k - 1], col, row)]
<1>5. \A f : Del(f) <=> DeletedOnes(f, b, row, M, c)
  <2>1. \A k \in 0 .. M : k # 0 => c[k] = col
    BY <1>1
  <2> HIDE DEF c
  <2>2. \A f : [k \in 0 .. M |-> IF k = 0 THEN b ELSE edit_delc(f[k - 1], col, row)]
               = [k \in 0 .. M |-> IF k = 0 THEN b ELSE edit_delc(f[k - 1], c[k], row)]
    BY <2>1
  <2> QED
    BY <1>1, <2>2 DEF DeletedOnes
<1> DEFINE del == CHOOSE f : Del(f)
<1>6. DelRight(b, col, row, n) = del[M]
  BY DEF DelRight, M
<1> HIDE DEF Q, c
<1>7. del[M] \in Q[M]
  <2>1. /\ \E f : DeletedOnes(f, b, row, M, c)
        /\ \A f : DeletedOnes(f, b, row, M, c) => f[M] \in Q[M]
    BY <1>1, <1>2, <1>3, <1>4, DeletedOnesIn
  <2> HIDE DEF Del
  <2>2. Del(del)
    BY <1>5, <2>1
  <2> QED
    BY <1>5, <2>1, <2>2
<1>8. M \in 0 .. M
  BY <1>1
<1> DEFINE d == DelRight(b, col, row, n)
<1> HIDE DEF del
<1>9. d \in SoundBlocks /\ Stays(d) /\ Less(d)
  BY <1>6, <1>7, <1>8 DEF Q
<1> QED
  BY <1>9 DEF SoundBlocks, Stays, Less, N, R, L, s

-----------------------------------------------------------------------------
(***************************************************************************)
(* The cursor.                                                             *)
(***************************************************************************)
FieldInv ==
  /\ input \in Inputs /\ active \in BOOLEAN
  /\ Sound(buf)
  /\ TextCursrX \in Nat /\ TextCursrY \in Nat
  /\ TextShiftX \in Int /\ TextShiftY \in Nat
  /\ Cursor

\* The first row shown follows the cursor.
LEMMA RowShown ==
  ASSUME NEW V \in Nat \ {0}, NEW R \in Nat, NEW M \in Nat, NEW S \in Nat, NEW Y \in Nat,
         NEW lift \in Int, NEW row \in 0 .. M - 1, NEW Z,
         S = 0 \/ S + V <= R, Y - S \in 0 .. V, Y < R, row = Y + lift,
         lift > 0 => M >= R, ~(lift > 0) => M >= R - 1,
         Z = IF lift > 0 THEN IF S < row - (V - 1) THEN row - (V - 1) ELSE S
             ELSE IF S > row THEN row
             ELSE IF S > 0 /\ M < S + V THEN M - V ELSE S
  PROVE  Z \in Nat /\ (Z = 0 \/ Z + V <= M) /\ row - Z \in 0 .. V
<1>1. CASE lift > 0
  BY <1>1
<1>2. CASE ~(lift > 0) /\ S > row
  BY <1>2
<1>3. CASE ~(lift > 0) /\ ~(S > row) /\ S > 0 /\ M < S + V
  BY <1>3
<1>4. CASE ~(lift > 0) /\ ~(S > row) /\ ~(S > 0 /\ M < S + V)
  BY <1>4
<1> QED
  BY <1>1, <1>2, <1>3, <1>4

\* ... and so does the first column.
LEMMA ColumnShown ==
  ASSUME NEW W \in Nat \ {0}, NEW n \in Nat, NEW T \in Int, NEW X \in Nat,
         NEW scrl \in Int, NEW s, NEW col, NEW Z,
         X - T \in 0 .. W, scrl # 0 => X + scrl \in 0 .. n,
         s = IF scrl = 0 /\ n < X THEN n - X ELSE scrl,
         col = X + s,
         Z = IF s > 0 THEN IF T < col - W THEN col - W ELSE T
             ELSE IF T > col THEN col
             ELSE IF T # 0 /\ n < T + W THEN n - W ELSE T
  PROVE  Z \in Int /\ col \in 0 .. n /\ col - Z \in 0 .. W
<1>1. s \in Int /\ col \in Int /\ col \in 0 .. n
  BY DEF Nat
<1>2. ~(s > 0) => col <= X
  BY <1>1
<1>3. CASE s > 0
  BY <1>1, <1>3
<1>4. CASE ~(s > 0) /\ T > col
  BY <1>1, <1>4
<1>5. CASE ~(s > 0) /\ ~(T > col) /\ T # 0 /\ n < T + W
  BY <1>1, <1>2, <1>5
<1>6. CASE ~(s > 0) /\ ~(T > col) /\ ~(T # 0 /\ n < T + W)
  BY <1>1, <1>2, <1>6
<1> QED
  BY <1>3, <1>4, <1>5, <1>6

LEMMA SoundNext ==
  ASSUME NEW b, Sound(b), buf' = b, input' = input
  PROVE  Sound(buf)'
BY DEF Sound, BlockType, Laid, Texted, Glyph

LEMMA KeyKeeps ==
  ASSUME FieldInv, NEW b, Sound(b), NEW lift \in Int, NEW scrl \in Int,
         Key(b, lift, scrl),
         TextCursrY + lift \in 0 .. Rows(b) - 1,
         scrl # 0 => TextCursrX + scrl \in 0 .. edit_rowln(b, TextCursrY + lift),
         lift > 0 => Rows(b) >= Rows(buf), ~(lift > 0) => Rows(b) >= Rows(buf) - 1
  PROVE  FieldInv'
<1> DEFINE row == TextCursrY + lift
           n == edit_rowln(b, row)
           s == Scroll(b, scrl, row)
           col == TextCursrX + s
           Y == ShiftY(b, lift, row)
           X == ShiftX(b, s, row, col)
<1>1. /\ VisibleX \in Nat \ {0} /\ VisibleY \in Nat \ {0}
      /\ Rows(buf) \in Nat /\ Rows(b) \in Nat /\ n \in Nat
  BY EditAssumption, SpaceIs, RowIs DEF FieldInv
<1>2. /\ input \in Inputs /\ active \in BOOLEAN
      /\ TextCursrX \in Nat /\ TextCursrY \in Nat
      /\ TextShiftX \in Int /\ TextShiftY \in Nat
      /\ TextCursrY < Rows(buf)
      /\ TextShiftY = 0 \/ TextShiftY + VisibleY <= Rows(buf)
      /\ TextCursrY - TextShiftY \in 0 .. VisibleY
      /\ TextCursrX - TextShiftX \in 0 .. VisibleX
  BY DEF FieldInv, Cursor, CursorInText, CursorInView
<1>3. /\ buf' = b /\ TextCursrY' = row /\ TextCursrX' = col
      /\ TextShiftY' = Y /\ TextShiftX' = X
      /\ input' = input /\ active' = active
  BY DEF Key
<1>4. /\ row \in 0 .. Rows(b) - 1
      /\ scrl # 0 => TextCursrX + scrl \in 0 .. n
      /\ row = TextCursrY + lift
  OBVIOUS
<1>5. /\ Y = IF lift > 0
             THEN IF TextShiftY < row - (VisibleY - 1) THEN row - (VisibleY - 1)
                  ELSE TextShiftY
             ELSE IF TextShiftY > row THEN row
             ELSE IF TextShiftY > 0 /\ Rows(b) < TextShiftY + VisibleY
                  THEN Rows(b) - VisibleY ELSE TextShiftY
  BY DEF ShiftY
<1>6. X = IF s > 0 THEN IF TextShiftX < col - VisibleX THEN col - VisibleX ELSE TextShiftX
          ELSE IF TextShiftX > col THEN col
          ELSE IF TextShiftX # 0 /\ n < TextShiftX + VisibleX
               THEN n - VisibleX ELSE TextShiftX
  BY DEF ShiftX
<1>7. s = IF scrl = 0 /\ n < TextCursrX THEN n - TextCursrX ELSE scrl
  BY DEF Scroll
<1>8. col = TextCursrX + s
  OBVIOUS
<1> DEFINE R == Rows(buf)
           M == Rows(b)
<1>9. lift > 0 => M >= R
  OBVIOUS
<1>10. ~(lift > 0) => M >= R - 1
  OBVIOUS
<1> HIDE DEF row, n, s, col, Y, X, R, M
<1>11. Y \in Nat /\ (Y = 0 \/ Y + VisibleY <= M) /\ row - Y \in 0 .. VisibleY
  BY <1>1, <1>2, <1>4, <1>5, <1>9, <1>10, RowShown DEF R, M
<1>12. X \in Int /\ col \in 0 .. n /\ col - X \in 0 .. VisibleX
  <2>1. /\ VisibleX \in Nat \ {0} /\ n \in Nat /\ TextShiftX \in Int /\ TextCursrX \in Nat
        /\ scrl \in Int
        /\ TextCursrX - TextShiftX \in 0 .. VisibleX
    BY <1>1, <1>2
  <2>2. scrl # 0 => TextCursrX + scrl \in 0 .. n
    BY <1>4
  <2> QED
    BY ONLY <2>1, <2>2, <1>6, <1>7, <1>8, ColumnShown
<1>13. Sound(buf)'
  BY <1>3, SoundNext
<1>14. Rows(buf)' = M /\ edit_rowln(buf, TextCursrY)' = n /\ M \in Nat
  BY <1>1, <1>3 DEF Rows, edit_rowln, Line, M, n
<1>15. row \in Nat /\ row < M /\ col \in Nat /\ col <= n
  BY <1>1, <1>4, <1>12, <1>14 DEF M
<1>16. Cursor'
  BY <1>3, <1>11, <1>12, <1>14, <1>15 DEF Cursor, CursorInText, CursorInView, Here
<1> QED
  BY <1>2, <1>3, <1>11, <1>12, <1>13, <1>15, <1>16 DEF FieldInv

LEMMA FieldFacts ==
  ASSUME FieldInv
  PROVE  /\ input \in Inputs /\ Sound(buf) /\ Rows(buf) \in Nat /\ Rows(buf) > 0
         /\ TextCursrY \in 0 .. Rows(buf) - 1 /\ TextCursrY \in Nat
         /\ TextCursrX \in 0 .. edit_rowln(buf, TextCursrY) /\ TextCursrX \in Nat
         /\ edit_rowln(buf, TextCursrY) \in Nat /\ Here = edit_rowln(buf, TextCursrY)
         /\ LastRow = Rows(buf) - 1
<1>1. /\ input \in Inputs /\ Sound(buf) /\ TextCursrY \in Nat /\ TextCursrX \in Nat
      /\ TextCursrY < Rows(buf) /\ TextCursrX <= Here
  BY DEF FieldInv, Cursor, CursorInText
<1>2. Rows(buf) \in Nat
  BY <1>1, SpaceIs
<1>3. TextCursrY \in 0 .. Rows(buf) - 1
  BY <1>1, <1>2
<1>4. edit_rowln(buf, TextCursrY) \in Nat
  BY <1>1, <1>3, RowIs
<1> QED
  BY <1>1, <1>2, <1>3, <1>4 DEF Here, LastRow

\* A key that leaves the memory as it is
LEMMA MoveKeeps ==
  ASSUME FieldInv, NEW lift \in Int, NEW scrl \in Int, Key(buf, lift, scrl),
         TextCursrY + lift \in 0 .. Rows(buf) - 1,
         scrl # 0 => TextCursrX + scrl \in 0 .. edit_rowln(buf, TextCursrY + lift)
  PROVE  FieldInv'
<1>1. Sound(buf) /\ Rows(buf) >= Rows(buf) /\ Rows(buf) >= Rows(buf) - 1
  BY FieldFacts
<1> QED
  BY <1>1, KeyKeeps

LEMMA MovesKeep ==
  ASSUME FieldInv, Moves
  PROVE  FieldInv'
<1> DEFINE X == TextCursrX
           Y == TextCursrY
           R == Rows(buf)
           N == edit_rowln(buf, Y)
<1>1. /\ input \in Inputs /\ Sound(buf) /\ R \in Nat /\ R > 0
      /\ Y \in 0 .. R - 1 /\ Y \in Nat /\ X \in 0 .. N /\ X \in Nat /\ N \in Nat
      /\ Here = N /\ LastRow = R - 1
  BY FieldFacts
<1>2. \A r \in 0 .. R - 1 : edit_rowln(buf, r) \in Nat
  BY <1>1, RowIs
<1>3. ASSUME NEW r \in 0 .. R - 1, NEW scrl \in Int, Key(buf, r - Y, scrl),
             scrl # 0 => X + scrl \in 0 .. edit_rowln(buf, r)
      PROVE  FieldInv'
  <2>1. Y + (r - Y) = r /\ r - Y \in Int
    BY <1>1
  <2> QED
    BY <1>1, <1>3, <2>1, MoveKeeps
<1>4. ASSUME NEW scrl \in Int, Key(buf, 0, scrl), scrl # 0 => X + scrl \in 0 .. N
      PROVE  FieldInv'
  <2>1. Y - Y = 0
    BY <1>1
  <2> QED
    BY <1>1, <1>3, <1>4, <2>1
<1>5. ASSUME Up
      PROVE  FieldInv'
  <2> DEFINE n == edit_rowln(buf, Y - 1)
             scrl == IF X > n THEN n - X ELSE 0
  <2>1. Y - 1 \in 0 .. R - 1 /\ (Y - 1) - Y = -1 /\ Key(buf, -1, scrl)
    BY <1>1, <1>5 DEF Up
  <2>2. n \in Nat
    BY <1>2, <2>1
  <2> HIDE DEF n
  <2>3. scrl \in Int /\ (scrl # 0 => X + scrl \in 0 .. n)
    BY <1>1, <2>2
  <2> HIDE DEF scrl
  <2>4. Key(buf, (Y - 1) - Y, scrl)
    BY <2>1
  <2> QED
    BY <1>3, <2>1, <2>3, <2>4 DEF n
<1>6. ASSUME Down
      PROVE  FieldInv'
  <2>1. Y + 1 \in 0 .. R - 1 /\ (Y + 1) - Y = 1 /\ Key(buf, 1, 0)
    BY <1>1, <1>6 DEF Down
  <2>2. Key(buf, (Y + 1) - Y, 0) /\ 0 \in Int
    BY <2>1
  <2> QED
    BY <1>3, <2>1, <2>2
<1>7. ASSUME Left
      PROVE  FieldInv'
  <2>1. CASE X > 0 /\ Key(buf, 0, -1)
    <3>1. -1 \in Int /\ X + (-1) \in 0 .. N
      BY <1>1, <2>1
    <3> QED
      BY <1>4, <2>1, <3>1
  <2>2. CASE X = 0 /\ Y > 0 /\ Key(buf, -1, edit_rowln(buf, Y - 1))
    <3> DEFINE n == edit_rowln(buf, Y - 1)
    <3>1. Y - 1 \in 0 .. R - 1 /\ (Y - 1) - Y = -1
      BY <1>1, <2>2
    <3>2. n \in Nat
      BY <1>2, <3>1
    <3>3. Key(buf, (Y - 1) - Y, n)
      BY <2>2, <3>1
    <3> HIDE DEF n
    <3>4. n \in Int /\ X + n \in 0 .. n
      BY <2>2, <3>2
    <3> QED
      BY <1>3, <3>1, <3>3, <3>4 DEF n
  <2> QED
    BY <1>7, <2>1, <2>2 DEF Left
<1>8. ASSUME LeftWord
      PROVE  FieldInv'
  <2> DEFINE n == ctrl_left(buf, X, Y)
  <2>1. n \in 0 .. X /\ Key(buf, 0, -n)
    BY <1>1, <1>8, WordsIn DEF LeftWord
  <2> HIDE DEF n
  <2>2. -n \in Int /\ X + (-n) \in 0 .. N
    BY <1>1, <2>1
  <2> QED
    BY <1>4, <2>1, <2>2
<1>9. ASSUME LeftAll
      PROVE  FieldInv'
  <2>1. Key(buf, 0, -X) /\ -X \in Int /\ X + (-X) \in 0 .. N
    BY <1>1, <1>9 DEF LeftAll
  <2> QED
    BY <1>4, <2>1
<1>10. ASSUME Right
       PROVE  FieldInv'
  <2>1. CASE X < Here /\ Key(buf, 0, 1)
    <3>1. 1 \in Int /\ X + 1 \in 0 .. N
      BY <1>1, <2>1
    <3> QED
      BY <1>4, <2>1, <3>1
  <2>2. CASE Y < LastRow /\ Key(buf, 1, -X)
    <3>1. Y + 1 \in 0 .. R - 1 /\ (Y + 1) - Y = 1
      BY <1>1, <2>2
    <3> DEFINE n == edit_rowln(buf, Y + 1)
    <3>2. n \in Nat
      BY <1>2, <3>1
    <3> HIDE DEF n
    <3>3. -X \in Int /\ X + (-X) \in 0 .. n
      BY <1>1, <3>2
    <3>4. Key(buf, (Y + 1) - Y, -X)
      BY <2>2, <3>1
    <3> QED
      BY <1>3, <3>1, <3>3, <3>4 DEF n
  <2> QED
    BY <1>10, <2>1, <2>2 DEF Right
<1>11. ASSUME RightWord
       PROVE  FieldInv'
  <2> DEFINE n == ctrl_right(buf, X, Y)
  <2>1. n \in 0 .. N - X /\ Key(buf, 0, n)
    BY <1>1, <1>11, WordsIn DEF RightWord
  <2> HIDE DEF n
  <2>2. n \in Int /\ X + n \in 0 .. N
    BY <1>1, <2>1
  <2> QED
    BY <1>4, <2>1, <2>2
<1>12. ASSUME RightAll
       PROVE  FieldInv'
  <2>1. Key(buf, 0, N - X)
    BY <1>1, <1>12 DEF RightAll
  <2>2. N - X \in Int /\ X + (N - X) \in 0 .. N
    BY <1>1
  <2> QED
    BY <1>4, <2>1, <2>2
<1>13. ASSUME Home
       PROVE  FieldInv'
  <2>1. Key(buf, 0 - Y, -X)
    <3>1. 0 - Y = -Y
      BY <1>1
    <3> QED
      BY <1>13, <3>1 DEF Home
  <2> DEFINE n == edit_rowln(buf, 0)
  <2>2. 0 \in 0 .. R - 1
    BY <1>1
  <2>3. n \in Nat
    BY <1>2, <2>2
  <2> HIDE DEF n
  <2>4. -X \in Int /\ X + (-X) \in 0 .. n
    BY <1>1, <2>3
  <2> QED
    BY <1>3, <2>1, <2>2, <2>4 DEF n
<1>14. ASSUME End
       PROVE  FieldInv'
  <2> DEFINE n == edit_rowln(buf, R - 1)
  <2>1. Key(buf, (R - 1) - Y, n - X)
    BY <1>1, <1>14 DEF End
  <2>2. R - 1 \in 0 .. R - 1
    BY <1>1
  <2>3. n \in Nat
    BY <1>2, <2>2
  <2>4. n - X \in Int /\ X + (n - X) \in 0 .. n
    BY <1>1, <2>3
  <2> HIDE DEF n
  <2> QED
    BY <1>3, <2>1, <2>2, <2>4 DEF n
<1> QED
  BY <1>5, <1>6, <1>7, <1>8, <1>9, <1>10, <1>11, <1>12, <1>13, <1>14 DEF Moves

LEMMA EditsKeep ==
  ASSUME FieldInv, Edits
  PROVE  FieldInv'
<1> DEFINE X == TextCursrX
           Y == TextCursrY
           R == Rows(buf)
           N == edit_rowln(buf, Y)
<1>1. /\ input \in Inputs /\ Sound(buf) /\ R \in Nat /\ R > 0
      /\ Y \in 0 .. R - 1 /\ Y \in Nat /\ X \in 0 .. N /\ X \in Nat /\ N \in Nat
      /\ Here = N
  BY FieldFacts
\* A key that keeps the row
<1>2. ASSUME NEW b, Sound(b), NEW scrl \in Int, Key(b, 0, scrl),
             Rows(b) >= R - 1, Y \in 0 .. Rows(b) - 1,
             scrl # 0 => X + scrl \in 0 .. edit_rowln(b, Y)
      PROVE  FieldInv'
  <2>1. Y + 0 = Y /\ 0 \in Int /\ ~(0 > 0)
    BY <1>1
  <2> QED
    BY <1>1, <1>2, <2>1, KeyKeeps
<1>3. ASSUME Char
      PROVE  FieldInv'
  <2>1. PICK c \in Chars : CharFits(buf) /\ Key(edit_char(buf, X, Y, c), 0, 1)
    BY <1>3 DEF Char
  <2> DEFINE b == edit_char(buf, X, Y, c)
  <2>2. Sound(b) /\ Rows(b) = R /\ edit_rowln(b, Y) = N + 1
    BY <1>1, <2>1, edit_charIs
  <2> HIDE DEF b
  <2>3. 1 \in Int /\ X + 1 \in 0 .. N + 1 /\ R >= R - 1
    BY <1>1
  <2> QED
    BY <1>1, <1>2, <2>1, <2>2, <2>3 DEF b
<1>4. ASSUME Return
      PROVE  FieldInv'
  <2> DEFINE b == edit_crlf(buf, X, Y)
  <2>1. Key(b, 1, -X) /\ Sound(b) /\ Rows(b) = R + 1
    BY <1>1, <1>4, edit_crlfIs DEF Return
  <2> HIDE DEF b
  <2>2. Y + 1 \in 0 .. Rows(b) - 1
    BY <1>1, <2>1
  <2> DEFINE n == edit_rowln(b, Y + 1)
  <2>3. n \in Nat
    BY <2>1, <2>2, RowIs
  <2> HIDE DEF n
  <2>4. -X \in Int /\ X + (-X) \in 0 .. n /\ 1 \in Int /\ R + 1 >= R
    BY <1>1, <2>3
  <2> QED
    BY <2>1, <2>2, <2>4, KeyKeeps DEF n
<1>5. ASSUME Escape
      PROVE  FieldInv'
  <2>1. /\ buf' = edit_zero(buf) /\ input' = input /\ active' = active
        /\ TextCursrX' = 0 /\ TextCursrY' = 0 /\ TextShiftX' = 0 /\ TextShiftY' = 0
    BY <1>5 DEF Escape
  <2> DEFINE b == edit_zero(buf)
  <2>2. Sound(b) /\ Rows(b) = 1
    BY <1>1, edit_zeroIs
  <2> HIDE DEF b
  <2>3. Sound(buf)'
    BY <2>1, <2>2, SoundNext DEF b
  <2>4. edit_rowln(b, 0) \in Nat
    <3>1. 0 \in 0 .. Rows(b) - 1
      BY <2>2
    <3> QED
      BY <2>2, <3>1, RowIs
  <2>5. Rows(buf)' = 1 /\ Here' \in Nat
    BY <2>1, <2>2, <2>4 DEF Rows, Here, edit_rowln, Line, b
  <2>6. VisibleX \in Nat /\ VisibleY \in Nat
    BY EditAssumption
  <2> QED
    BY <2>1, <2>3, <2>5, <2>6 DEF FieldInv, Cursor, CursorInText, CursorInView
<1>6. ASSUME Backspace
      PROVE  FieldInv'
  <2>1. ASSUME NEW n \in 0 .. X, Erases(n)
        PROVE  FieldInv'
    <3> DEFINE b == DelLeft(buf, X, Y, n)
    <3>1. Key(b, 0, -n) /\ Sound(b) /\ Rows(b) = R /\ edit_rowln(b, Y) = N - n
      BY <1>1, <2>1, DelLeftIs DEF Erases
    <3> HIDE DEF b
    <3>2. -n \in Int /\ X + (-n) \in 0 .. N - n /\ R >= R - 1
      BY <1>1
    <3> QED
      BY <1>1, <1>2, <3>1, <3>2
  <2>2. ASSUME X = 0, Y > 0,
               Key(edit_delc(buf, edit_rowln(buf, Y - 1), Y - 1), -1, edit_rowln(buf, Y - 1))
        PROVE  FieldInv'
    <3> DEFINE n == edit_rowln(buf, Y - 1)
               b == edit_delc(buf, n, Y - 1)
    <3>1. Y - 1 \in 0 .. R - 2 /\ Y - 1 \in 0 .. R - 1
      BY <1>1, <2>2
    <3>2. Sound(b) /\ Rows(b) = R - 1 /\ edit_rowln(b, Y - 1) >= n
      BY <1>1, <3>1, edit_delcAtEnd
    <3>3. n \in Nat
      BY <1>1, <3>1, RowIs
    <3>4. Key(b, -1, n)
      BY <2>2
    <3> HIDE DEF b, n
    <3>5. Y - 1 \in 0 .. Rows(b) - 1
      BY <1>1, <3>1, <3>2
    <3> DEFINE m == edit_rowln(b, Y - 1)
    <3>6. m \in Nat
      BY <3>2, <3>5, RowIs
    <3>7. m >= n
      BY <3>2
    <3> HIDE DEF m
    <3>8. X + n \in 0 .. m /\ n \in Int /\ -1 \in Int /\ ~(-1 > 0) /\ Y + (-1) = Y - 1
          /\ R - 1 >= R - 1
      BY <1>1, <2>2, <3>3, <3>6, <3>7
    <3>9. X + n \in 0 .. edit_rowln(b, Y + (-1)) /\ Y + (-1) \in 0 .. Rows(b) - 1
      BY <3>5, <3>8 DEF m
    <3> QED
      BY <3>2, <3>4, <3>8, <3>9, KeyKeeps
  <2>3. ctrl_left(buf, X, Y) \in 0 .. X /\ X \in 0 .. X
    BY <1>1, WordsIn
  <2>4. X > 0 => 1 \in 0 .. X
    BY <1>1
  <2> QED
    BY <1>6, <2>1, <2>2, <2>3, <2>4 DEF Backspace
<1>7. ASSUME Delete
      PROVE  FieldInv'
  <2>1. ASSUME NEW n \in 0 .. N - X, Deletes(n)
        PROVE  FieldInv'
    <3> DEFINE b == DelRight(buf, X, Y, n)
    <3>1. /\ Key(b, 0, 0) /\ Sound(b) /\ Rows(b) \in {R, R - 1}
          /\ Y \in 0 .. Rows(b) - 1 /\ X \in 0 .. edit_rowln(b, Y)
      BY <1>1, <2>1, DelRightIs DEF Deletes
    <3> HIDE DEF b
    <3>2. 0 \in Int /\ X + 0 = X /\ Rows(b) >= R - 1
      BY <1>1, <3>1
    <3> QED
      BY <1>1, <1>2, <3>1, <3>2
  <2>2. ctrl_right(buf, X, Y) \in 0 .. N - X
    BY <1>1, WordsIn
  <2>3. 0 \in 0 .. N - X /\ (N - X > 1 => N - X - 1 \in 0 .. N - X)
    BY <1>1
  <2> QED
    BY <1>1, <1>7, <2>1, <2>2, <2>3 DEF Delete
<1> QED
  BY <1>3, <1>4, <1>5, <1>6, <1>7 DEF Edits

\* The other steps leave the text as it is.
LEMMA FieldUntouched ==
  ASSUME FieldInv, input' = input, buf' = buf, active' \in BOOLEAN,
         TextCursrX' = TextCursrX, TextCursrY' = TextCursrY,
         TextShiftX' = TextShiftX, TextShiftY' = TextShiftY
  PROVE  FieldInv'
<1>1. Sound(buf)'
  BY SoundNext DEF FieldInv
<1> QED
  BY <1>1 DEF FieldInv, Cursor, CursorInText, CursorInView, Here, Rows, edit_rowln, Line

LEMMA ClickKeeps ==
  ASSUME FieldInv, Click
  PROVE  FieldInv'
<1>1. PICK row \in 0 .. VisibleY, col \in 0 .. VisibleX :
        /\ active' = TRUE /\ TextShiftX' = 0 /\ TextShiftY' = 0
        /\ TextCursrY' = IF row > LastRow THEN LastRow ELSE row
        /\ TextCursrX' = IF col > edit_rowln(buf, TextCursrY')
                         THEN edit_rowln(buf, TextCursrY') ELSE col
        /\ input' = input /\ buf' = buf
  BY DEF Click
<1>2. /\ Rows(buf) \in Nat /\ Rows(buf) > 0 /\ LastRow = Rows(buf) - 1 /\ Sound(buf)
      /\ VisibleX \in Nat /\ VisibleY \in Nat /\ input \in Inputs
  BY FieldFacts, EditAssumption
<1> DEFINE R == Rows(buf)
           Y == IF row > LastRow THEN LastRow ELSE row
           n == edit_rowln(buf, Y)
           X == IF col > n THEN n ELSE col
<1> HIDE DEF R
<1>3. Y \in 0 .. R - 1 /\ Y \in 0 .. VisibleY /\ Y \in Nat /\ Y < R
  BY <1>2 DEF R
<1>4. TextCursrY' = Y /\ TextCursrX' = X
  BY <1>1
<1> HIDE DEF Y
<1>5. n \in Nat
  BY <1>2, <1>3, RowIs DEF R
<1> HIDE DEF n
<1>6. X \in 0 .. VisibleX /\ X \in Nat /\ X <= n
  BY <1>2, <1>5
<1> HIDE DEF X
<1>7. Sound(buf)'
  BY <1>1, <1>2, SoundNext
<1>8. Rows(buf)' = R /\ Here' = n
  BY <1>1, <1>4 DEF Rows, Here, edit_rowln, Line, R, n
<1>9. Cursor'
  <2>1. Y - 0 \in 0 .. VisibleY /\ X - 0 \in 0 .. VisibleX
    BY <1>3, <1>6
  <2> QED
    BY <1>1, <1>3, <1>4, <1>6, <1>8, <2>1 DEF Cursor, CursorInText, CursorInView
<1> QED
  BY <1>1, <1>2, <1>3, <1>4, <1>6, <1>7, <1>9 DEF FieldInv

\* What the steps of a form do to the field
FieldSame ==
  /\ UNCHANGED <<input, buf, TextCursrX, TextCursrY, TextShiftX, TextShiftY>>
  /\ active' \in BOOLEAN

LEMMA FormSteps ==
  ASSUME active \in BOOLEAN, [FormNext]_formVars
  PROVE  Edits \/ Moves \/ Click \/ FieldSame
<1>1. ASSUME Untouched
      PROVE  FieldSame
  BY <1>1 DEF Untouched, FieldActive, FieldSame, cursor
<1>2. ASSUME vars' = vars
      PROVE  FieldSame
  BY <1>2 DEF vars, FieldSame
<1>3. CASE Parse \/ PageFinished \/ OtherFinished \/ UNCHANGED formVars
  BY <1>2, <1>3 DEF Parse, PageFinished, OtherFinished, formVars
<1>4. CASE PageCleared
  BY <1>4, ZenonT(60) DEF PageCleared, FieldSame, cursor
<1>5. CASE Clicks
  <2>1. ASSUME NEW k \in DOMAIN ctl,
               ClickCheck(k) \/ ClickRadio(k) \/ ClickSelect(k) \/ ClickFile(k) \/ ClickSubmit(k)
        PROVE  FieldSame
    BY <1>1, <2>1, ZenonT(60) DEF ClickCheck, ClickRadio, ClickSelect, ClickFile, ClickSubmit, Beside
  <2>2. ASSUME NEW k \in DOMAIN ctl, ClickField(k)
        PROVE  Click \/ FieldSame
    BY <1>1, <2>2 DEF ClickField
  <2>3. ASSUME NEW frame \in {"this", "other"}, ClickElsewhere(frame) \/ ClickBar(frame)
        PROVE  FieldSame
    BY <1>1, <1>2, <2>3 DEF ClickElsewhere, ClickBar
  <2> QED
    BY <1>5, <2>1, <2>2, <2>3, SMTT(30) DEF Clicks
<1>6. CASE Keys
  <2>1. ASSUME Submit \/ Leave
        PROVE  FieldSame
    BY <2>1 DEF Submit, Leave, FieldSame, cursor
  <2>2. CASE Typing
    BY <2>2 DEF Typing
  <2>3. ASSUME NEW k \in DOMAIN ctl, KeyReturn(k) \/ KeyCtrlTab(k)
        PROVE  FieldSame
    BY <1>1, <2>1, <2>3 DEF KeyReturn, KeyCtrlTab
  <2>4. ASSUME NEW k, NEW n, GoTo(k, n)
        PROVE  Click \/ FieldSame
    BY <1>1, <1>2, <2>4 DEF GoTo, formVars
  <2>5. ASSUME NEW k \in DOMAIN ctl, KeyTab(k) \/ KeyShiftTab(k)
        PROVE  Click \/ FieldSame
    BY <2>4, <2>5 DEF KeyTab, KeyShiftTab
  <2> QED
    BY <1>6, <2>2, <2>3, <2>5 DEF Keys
<1> QED
  BY <1>3, <1>4, <1>5, <1>6 DEF FormNext

LEMMA FieldStep ==
  ASSUME FieldInv, [FormNext]_formVars
  PROVE  FieldInv'
<1>1. active \in BOOLEAN
  BY DEF FieldInv
<1>2. Edits \/ Moves \/ Click \/ FieldSame
  BY <1>1, FormSteps
<1>3. FieldSame => FieldInv'
  BY FieldUntouched DEF FieldSame
<1> QED
  BY <1>2, <1>3, EditsKeep, MovesKeep, ClickKeeps

LEMMA FieldStarts ==
  ASSUME FormInit
  PROVE  FieldInv
<1>1. /\ input \in Inputs /\ buf = Loaded(input) /\ active = FALSE
      /\ TextCursrX = 0 /\ TextCursrY = 0 /\ TextShiftX = 0 /\ TextShiftY = 0
  BY DEF FormInit, Init
<1>2. Sound(buf)
  BY <1>1, LoadedIs
<1>3. Rows(buf) \in Nat /\ Rows(buf) > 0
  BY <1>2, SpaceIs
<1>4. Here \in Nat
  <2>1. 0 \in 0 .. Rows(buf) - 1
    BY <1>3
  <2> QED
    BY <1>1, <1>2, <2>1, RowIs DEF Here
<1>5. VisibleX \in Nat /\ VisibleY \in Nat
  BY EditAssumption
<1> QED
  <2>1. /\ 0 - 0 \in 0 .. VisibleX /\ 0 - 0 \in 0 .. VisibleY
        /\ 0 < Rows(buf) /\ 0 <= Here
    BY <1>3, <1>4, <1>5
  <2>2. Cursor
    BY <1>1, <2>1 DEF Cursor, CursorInText, CursorInView
  <2>3. active \in BOOLEAN /\ input \in Inputs
    BY <1>1
  <2>4. /\ TextCursrX \in Nat /\ TextCursrY \in Nat /\ TextShiftX \in Int /\ TextShiftY \in Nat
    <3>1. /\ TextCursrX = 0 /\ TextCursrY = 0 /\ TextShiftX = 0 /\ TextShiftY = 0
      BY <1>1
    <3> QED
      BY ONLY <3>1
  <2> QED
    BY ONLY <1>2, <2>2, <2>3, <2>4 DEF FieldInv

LEMMA FieldInvIs ==
  ASSUME FieldInv
  PROVE  Field
<1> DEFINE item == buf.item
           line == buf.line
           L == Len(line)
<1>1. /\ input \in Inputs /\ active \in BOOLEAN /\ Sound(buf)
      /\ TextCursrX \in Nat /\ TextCursrY \in Nat
      /\ TextShiftX \in Int /\ TextShiftY \in Nat
      /\ Cursor
  BY DEF FieldInv
<1>2. /\ buf \in BlockType /\ Laid(item, line) /\ Len(item) <= buf.base
      /\ buf.size = buf.base + PTR * L
      /\ item \in Seq(Glyph) /\ line \in Seq(Nat) /\ L \in Nat /\ L >= 2
      /\ Rows(buf) = L - 1 /\ Len(item) \in Nat
      /\ input.pwd => Len(buf.Value) + 1 = Len(item) /\ buf.base <= buf.vsize /\ L = 2
      /\ input.pwd \in BOOLEAN /\ Len(buf.Value) \in Nat
  BY <1>1, SoundIs DEF Sound
<1>3. buf.base \in Nat /\ buf.size \in Nat /\ buf.vsize \in Nat
  BY <1>2 DEF BlockType
<1> HIDE DEF item, line, L
<1>4. \A n \in 0 .. Rows(buf) : Line(buf, n) = line[n + 1] /\ n + 1 \in 1 .. L
  BY <1>2 DEF Line, line
<1>5. L = Len(line)
  BY DEF L
<1>6. TypeOK
  <2>1. \A n \in 1 .. L : line[n] \in Nat
    BY <1>2, <1>5
  <2>2. \A n \in 0 .. Rows(buf) : Line(buf, n) \in Nat
    BY <1>4, <2>1
  <2>3. Rows(buf) > 0
    BY <1>2
  <2> QED
    BY <1>1, <1>3, <2>2, <2>3 DEF TypeOK
<1>7. Pointers
  <2>1. 0 \in 0 .. Rows(buf) /\ Rows(buf) \in 0 .. Rows(buf) /\ Rows(buf) + 1 = L
    BY <1>2
  <2>2. line[1] = 0 /\ line[L] = Len(item)
    BY <1>2, <1>5 DEF Laid
  <2>3. Line(buf, 0) = 0 /\ Line(buf, Rows(buf)) = Len(item)
    BY <1>4, <2>1, <2>2
  <2>4. \A n \in 1 .. Rows(buf) : Line(buf, n - 1) < Line(buf, n)
    <3> SUFFICES ASSUME NEW n \in 1 .. Rows(buf)
                 PROVE  Line(buf, n - 1) < Line(buf, n)
      OBVIOUS
    <3>1. n - 1 \in 0 .. Rows(buf) /\ n \in 0 .. Rows(buf) /\ (n - 1) + 1 = n
          /\ n \in 1 .. L - 1
      BY <1>2
    <3>2. line[n] < line[n + 1]
      BY <1>2, <1>5, <3>1 DEF Laid
    <3> QED
      BY <1>4, <3>1, <3>2
  <2>5. {Line(buf, n) : n \in 1 .. Rows(buf) - 1} = Breaks(item)
    <3>1. ASSUME NEW n \in 1 .. Rows(buf) - 1
          PROVE  Line(buf, n) \in Breaks(item)
      <4>1. n \in 0 .. Rows(buf) /\ n + 1 \in 2 .. L - 1 /\ n + 1 \in 1 .. L /\ n + 1 < L
            /\ L \in 1 .. L /\ 1 < n + 1 /\ 1 \in 1 .. L
        BY <1>2
      <4>2. item[line[n + 1]] = NL /\ line[n + 1] \in Nat
        BY <1>2, <1>5, <4>1 DEF Laid
      <4>3. 0 < line[n + 1] /\ line[n + 1] < Len(item)
        <5>1. line[1] < line[n + 1] /\ line[n + 1] < line[L]
          BY <1>2, <1>5, <4>1 DEF Laid
        <5> QED
          BY <2>2, <5>1
      <4>4. line[n + 1] \in 1 .. Len(item)
        BY <1>2, <4>2, <4>3
      <4>5. line[n + 1] \in DOMAIN item
        BY <1>2, <4>4
      <4> QED
        BY <1>4, <4>1, <4>2, <4>5 DEF Breaks
    <3>2. ASSUME NEW j \in Breaks(item)
          PROVE  \E n \in 1 .. Rows(buf) - 1 : Line(buf, n) = j
      <4>1. j \in 1 .. Len(item) /\ item[j] = NL
        BY <1>2 DEF Breaks
      <4>2. PICK m \in 2 .. L - 1 : line[m] = j
        BY <1>2, <1>5, <4>1 DEF Laid
      <4>3. m - 1 \in 1 .. Rows(buf) - 1 /\ m - 1 \in 0 .. Rows(buf) /\ (m - 1) + 1 = m
        BY <1>2
      <4>4. Line(buf, m - 1) = j
        BY <1>4, <4>2, <4>3
      <4> QED
        BY <4>3, <4>4
    <3> DEFINE B == Breaks(item)
    <3> HIDE DEF B
    <3>3. \A n \in 1 .. Rows(buf) - 1 : Line(buf, n) \in B
      BY <3>1 DEF B
    <3>4. \A j \in B : \E n \in 1 .. Rows(buf) - 1 : Line(buf, n) = j
      BY <3>2 DEF B
    <3>5. {Line(buf, n) : n \in 1 .. Rows(buf) - 1} = B
      BY <3>3, <3>4
    <3> QED
      BY <3>5 DEF B
  <2> QED
    BY <2>3, <2>4, <2>5 DEF Pointers, item
<1>8. Fits
  <2>1. Line(buf, Rows(buf)) = Len(item)
    BY <1>1, SpaceIs DEF item
  <2>2. Rows(buf) + 1 = L
    BY <1>2
  <2>3. ASSUME input.pwd
        PROVE  Len(buf.Value) + 1 <= buf.vsize /\ Len(buf.Value) = edit_rowln(buf, 0)
    <3>1. Len(buf.Value) + 1 = Len(item) /\ buf.base <= buf.vsize /\ L = 2
      BY <1>2, <2>3
    <3>2. line[1] = 0 /\ line[2] = Len(item)
      BY <1>2, <1>5, <3>1 DEF Laid
    <3>3. edit_rowln(buf, 0) = line[2] - line[1] - 1
      <4>1. 0 \in 0 .. Rows(buf) /\ 1 \in 0 .. Rows(buf) /\ 0 + 1 = 1 /\ 1 + 1 = 2
        BY <1>2, <3>1
      <4> QED
        BY <1>4, <4>1 DEF edit_rowln
    <3> QED
      BY <1>2, <1>3, <3>1, <3>2, <3>3, SMTT(30)
  <2> QED
    BY <1>2, <2>1, <2>2, <2>3 DEF Fits
<1> QED
  BY <1>1, <1>6, <1>7, <1>8 DEF Field, Buffer

\* Whatever was typed, deleted and clicked, the pointers to the lines of a field
\* agree with its text and do not meet it, a password stays in its memory, and
\* the cursor is in the text and in the part of it that is shown.
THEOREM FieldAgrees == FormSpec => []Field
<1>1. FormInit => FieldInv
  BY FieldStarts
<1>2. FieldInv /\ [FormNext]_formVars => FieldInv'
  BY FieldStep
<1>3. FieldInv => Field
  BY FieldInvIs
<1> QED
  BY <1>1, <1>2, <1>3, PTL DEF FormSpec

-----------------------------------------------------------------------------
(***************************************************************************)
(* The field is an editor: its text before the cursor, and after it.       *)
(***************************************************************************)
FirstOf(s, p) == SubSeq(s, 1, p)
RestOf(s, p) == SubSeq(s, p + 1, Len(s))

LEMMA CutIs ==
  ASSUME NEW T, NEW s \in Seq(T), NEW p \in 0 .. Len(s)
  PROVE  /\ FirstOf(s, p) \in Seq(T) /\ Len(FirstOf(s, p)) = p
         /\ \A i \in 1 .. p : FirstOf(s, p)[i] = s[i]
         /\ RestOf(s, p) \in Seq(T) /\ Len(RestOf(s, p)) = Len(s) - p
         /\ \A i \in 1 .. Len(s) - p : RestOf(s, p)[i] = s[p + i]
         /\ p \in Nat /\ Len(s) \in Nat
<1>0. Len(s) \in Nat /\ p \in Nat
  OBVIOUS
<1>1. /\ FirstOf(s, p) \in Seq(T) /\ Len(FirstOf(s, p)) = p
      /\ \A i \in 1 .. p : FirstOf(s, p)[i] = s[i]
  <2>1. 1 \in 1 .. Len(s) + 1 /\ p - 1 + 1 = p /\ 1 <= p + 1
    BY <1>0
  <2>2. \A i \in 1 .. p : 1 + i - 1 = i
    BY <1>0
  <2> DEFINE a == SubSeq(s, 1, p)
  <2>3. a \in Seq(T) /\ Len(a) = p - 1 + 1 /\ \A i \in 1 .. p - 1 + 1 : a[i] = s[1 + i - 1]
    BY <2>1, SubSeqIs
  <2> HIDE DEF a
  <2> QED
    BY <2>1, <2>2, <2>3 DEF FirstOf, a
<1>2. /\ RestOf(s, p) \in Seq(T) /\ Len(RestOf(s, p)) = Len(s) - p
      /\ \A i \in 1 .. Len(s) - p : RestOf(s, p)[i] = s[p + i]
  <2> DEFINE a == SubSeq(s, p + 1, Len(s))
             K == Len(s)
  <2>1. p + 1 \in 1 .. K + 1 /\ K \in 0 .. K /\ p + 1 <= K + 1
    BY <1>0
  <2>2. a \in Seq(T) /\ Len(a) = K - (p + 1) + 1
        /\ \A i \in 1 .. K - (p + 1) + 1 : a[i] = s[(p + 1) + i - 1]
    BY <2>1, SubSeqIs
  <2> HIDE DEF a, K
  <2>3. K \in Nat /\ K - (p + 1) + 1 = K - p
    BY <1>0 DEF K
  <2>4. \A i \in 1 .. K - p : (p + 1) + i - 1 = p + i
    BY <1>0, <2>3
  <2> QED
    BY <2>2, <2>3, <2>4 DEF RestOf, a, K
<1> QED
  BY <1>0, <1>1, <1>2

LEMMA CutJoined ==
  ASSUME NEW T, NEW s \in Seq(T), NEW p \in 0 .. Len(s)
  PROVE  FirstOf(s, p) \o RestOf(s, p) = s
<1> DEFINE a == FirstOf(s, p)
           b == RestOf(s, p)
           K == Len(s)
<1>1. /\ a \in Seq(T) /\ Len(a) = p /\ \A i \in 1 .. p : a[i] = s[i]
      /\ b \in Seq(T) /\ Len(b) = K - p /\ \A i \in 1 .. K - p : b[i] = s[p + i]
      /\ p \in Nat /\ K \in Nat /\ p <= K
  BY CutIs
<1> DEFINE c == a \o b
<1>2. /\ c \in Seq(T) /\ Len(c) = Len(a) + Len(b)
      /\ \A i \in 1 .. Len(a) + Len(b) : c[i] = IF i <= Len(a) THEN a[i] ELSE b[i - Len(a)]
  BY <1>1, ConcatProperties
<1> HIDE DEF a, b, c
<1>3. Len(c) = K /\ Len(a) + Len(b) = K
  BY <1>1, <1>2
<1>4. ASSUME NEW i \in 1 .. K
      PROVE  c[i] = s[i]
  <2>1. CASE i <= p
    BY <1>1, <1>2, <1>3, <2>1
  <2>2. CASE ~(i <= p)
    <3>1. i - p \in 1 .. K - p /\ p + (i - p) = i
      BY <1>1, <2>2
    <3>2. c[i] = b[i - p]
      BY <1>1, <1>2, <1>3, <2>2
    <3> QED
      BY <1>1, <3>1, <3>2
  <2> QED
    BY <2>1, <2>2
<1>5. c = s
  BY <1>2, <1>3, <1>4, SeqEqual DEF K
<1> QED
  BY <1>5 DEF c, a, b

LEMMA SameFirst ==
  ASSUME NEW T, NEW s \in Seq(T), NEW t \in Seq(T), NEW p \in 0 .. Len(s), p \in 0 .. Len(t),
         \A i \in 1 .. p : t[i] = s[i]
  PROVE  FirstOf(t, p) = FirstOf(s, p)
<1>1. FirstOf(s, p) \in Seq(T) /\ Len(FirstOf(s, p)) = p /\ FirstOf(t, p) \in Seq(T)
      /\ Len(FirstOf(t, p)) = p
  BY CutIs
<1>2. \A i \in 1 .. p : FirstOf(t, p)[i] = FirstOf(s, p)[i]
  <2>1. \A i \in 1 .. p : FirstOf(s, p)[i] = s[i]
    BY CutIs
  <2>2. \A i \in 1 .. p : FirstOf(t, p)[i] = t[i]
    BY CutIs
  <2> QED
    BY <2>1, <2>2
<1> QED
  BY <1>1, <1>2, SeqEqual

LEMMA SameRest ==
  ASSUME NEW T, NEW s \in Seq(T), NEW t \in Seq(T), NEW p \in 0 .. Len(s), NEW q \in 0 .. Len(t),
         Len(t) - q = Len(s) - p,
         \A i \in 1 .. Len(s) - p : t[q + i] = s[p + i]
  PROVE  RestOf(t, q) = RestOf(s, p)
<1>1. RestOf(s, p) \in Seq(T) /\ Len(RestOf(s, p)) = Len(s) - p /\ RestOf(t, q) \in Seq(T)
      /\ Len(RestOf(t, q)) = Len(s) - p
  BY CutIs, ZenonT(60)
<1>2. \A i \in 1 .. Len(s) - p : RestOf(t, q)[i] = RestOf(s, p)[i]
  <2>1. \A i \in 1 .. Len(s) - p : RestOf(s, p)[i] = s[p + i]
    BY CutIs
  <2>2. \A i \in 1 .. Len(s) - p : RestOf(t, q)[i] = t[q + i]
    BY CutIs
  <2> QED
    BY <2>1, <2>2
<1> QED
  BY <1>1, <1>2, SeqEqual

LEMMA InsertedCut ==
  ASSUME NEW T, NEW s \in Seq(T), NEW t \in Seq(T), NEW p \in 0 .. Len(s), NEW x \in T,
         Inserted(t, s, p, x)
  PROVE  /\ FirstOf(t, p + 1) = Append(FirstOf(s, p), x)
         /\ RestOf(t, p + 1) = RestOf(s, p)
<1> DEFINE K == Len(s)
<1>1. /\ K \in Nat /\ p \in Nat /\ p <= K /\ Len(t) = K + 1
      /\ \A k \in 1 .. K + 1 : t[k] = IF k <= p THEN s[k] ELSE IF k = p + 1 THEN x ELSE s[k - 1]
  BY DEF Inserted
<1>2. p + 1 \in 0 .. Len(t) /\ p \in 0 .. Len(s) /\ K = Len(s)
  BY <1>1
<1> HIDE DEF K
<1>3. RestOf(t, p + 1) = RestOf(s, p)
  <2>1. ASSUME NEW i \in 1 .. K - p
        PROVE  t[(p + 1) + i] = s[p + i]
    <3>1. (p + 1) + i \in 1 .. K + 1 /\ ~((p + 1) + i <= p) /\ (p + 1) + i # p + 1
          /\ (p + 1) + i - 1 = p + i
      BY <1>1
    <3> QED
      BY <1>1, <3>1
  <2>2. Len(t) - (p + 1) = Len(s) - p
    BY <1>1, <1>2
  <2> QED
    BY <1>2, <2>1, <2>2, SameRest, ZenonT(60)
<1>4. FirstOf(t, p + 1) = Append(FirstOf(s, p), x)
  <2> DEFINE a == FirstOf(s, p)
             b == FirstOf(t, p + 1)
             c == Append(a, x)
  <2>1. a \in Seq(T) /\ Len(a) = p /\ \A i \in 1 .. p : a[i] = s[i]
    BY CutIs
  <2>2. b \in Seq(T) /\ Len(b) = p + 1 /\ \A i \in 1 .. p + 1 : b[i] = t[i]
    BY <1>2, CutIs
  <2>3. c \in Seq(T) /\ Len(c) = p + 1 /\ (\A i \in 1 .. p : c[i] = a[i]) /\ c[p + 1] = x
    BY <2>1, AppendProperties
  <2> HIDE DEF a, b, c
  <2>4. ASSUME NEW i \in 1 .. p + 1
        PROVE  b[i] = c[i]
    <3>1. i \in 1 .. K + 1
      BY <1>1
    <3>2. CASE i <= p
      <4>1. i \in 1 .. p
        BY <1>1, <3>2
      <4> QED
        BY <1>1, <2>1, <2>2, <2>3, <3>1, <3>2, <4>1
    <3>3. CASE i = p + 1
      <4>1. ~(i <= p)
        BY <1>1, <3>3
      <4> QED
        BY <1>1, <2>2, <2>3, <3>1, <3>3, <4>1
    <3>4. i <= p \/ i = p + 1
      BY <1>1
    <3> QED
      BY <3>2, <3>3, <3>4
  <2>5. b = c
    <3>1. Len(b) = Len(c) /\ \A i \in 1 .. Len(b) : b[i] = c[i]
      BY <2>2, <2>3, <2>4
    <3> QED
      BY <2>2, <2>3, <3>1, SeqEqual
  <2> QED
    BY <2>5 DEF a, b, c
<1> QED
  BY <1>3, <1>4

LEMMA ErasedCut ==
  ASSUME NEW T, NEW s \in Seq(T), NEW t \in Seq(T), NEW p \in 0 .. Len(s), NEW n \in 0 .. p,
         Without(t, s, p - n, n)
  PROVE  /\ FirstOf(t, p - n) = SubSeq(FirstOf(s, p), 1, p - n)
         /\ RestOf(t, p - n) = RestOf(s, p)
<1> DEFINE K == Len(s)
           q == p - n
<1>1. /\ K \in Nat /\ p \in Nat /\ p <= K /\ n \in Nat /\ n <= p
  OBVIOUS
<1>2. Len(t) = K - n /\ \A k \in 1 .. K - n : t[k] = IF k <= q THEN s[k] ELSE s[k + n]
  BY DEF Without
<1>3. K = Len(s) /\ q = p - n
  OBVIOUS
<1> HIDE DEF K, q
<1>4. q \in Nat /\ q \in 0 .. p /\ q \in 0 .. Len(t) /\ q \in 0 .. Len(s) /\ q <= K - n
  BY <1>1, <1>2, <1>3
<1>5. RestOf(t, q) = RestOf(s, p)
  <2>1. ASSUME NEW i \in 1 .. Len(s) - p
        PROVE  t[q + i] = s[p + i]
    <3>1. q + i \in 1 .. K - n /\ ~(q + i <= q) /\ (q + i) + n = p + i
      BY <1>1, <1>3, <1>4
    <3> QED
      BY <1>2, <3>1
  <2>2. Len(t) - q = Len(s) - p
    BY <1>1, <1>2, <1>3
  <2>3. s \in Seq(T) /\ t \in Seq(T) /\ p \in 0 .. Len(s) /\ q \in 0 .. Len(t)
    BY <1>4
  <2>4. \A i \in 1 .. Len(s) - p : t[q + i] = s[p + i]
    BY <2>1
  <2> QED
    BY ONLY <2>2, <2>3, <2>4, SameRest, ZenonT(60)
<1>6. FirstOf(t, q) = FirstOf(s, q)
  <2>1. ASSUME NEW i \in 1 .. q
        PROVE  t[i] = s[i]
    <3>1. i \in 1 .. K - n /\ i <= q
      BY <1>1, <1>3, <1>4
    <3> QED
      BY <1>2, <3>1
  <2> QED
    BY <1>4, <2>1, SameFirst
<1>7. FirstOf(s, q) = FirstOf(FirstOf(s, p), q)
  <2> DEFINE a == FirstOf(s, p)
  <2>1. a \in Seq(T) /\ Len(a) = p /\ \A i \in 1 .. p : a[i] = s[i]
    BY CutIs
  <2> HIDE DEF a
  <2>2. \A i \in 1 .. q : s[i] = a[i]
    <3>1. \A i \in 1 .. q : i \in 1 .. p
      BY <1>1, <1>4
    <3> QED
      BY <2>1, <3>1
  <2>3. q \in 0 .. Len(a)
    BY <1>4, <2>1
  <2>4. FirstOf(s, q) = FirstOf(a, q)
    BY <1>4, <2>1, <2>2, <2>3, SameFirst
  <2> QED
    BY <2>4 DEF a
<1> QED
  BY <1>5, <1>6, <1>7 DEF FirstOf, q

LEMMA DeletedCut ==
  ASSUME NEW T, NEW s \in Seq(T), NEW t \in Seq(T), NEW p \in 0 .. Len(s), NEW n \in Nat,
         Without(t, s, p, n), p <= Len(t)
  PROVE  /\ FirstOf(t, p) = FirstOf(s, p)
         /\ n + 1 \in 1 .. Len(RestOf(s, p)) + 1
         /\ RestOf(t, p) = SubSeq(RestOf(s, p), n + 1, Len(RestOf(s, p)))
<1> DEFINE K == Len(s)
           b == RestOf(s, p)
<1>1. /\ K \in Nat /\ p \in Nat /\ p <= K /\ n \in Nat /\ K = Len(s)
  OBVIOUS
<1>2. Len(t) = K - n /\ (\A k \in 1 .. K - n : t[k] = IF k <= p THEN s[k] ELSE s[k + n])
  BY DEF Without
<1>3. b \in Seq(T) /\ Len(b) = K - p /\ \A i \in 1 .. K - p : b[i] = s[p + i]
  BY CutIs
<1> HIDE DEF K, b
<1>4. p <= K - n /\ p \in 0 .. Len(t) /\ p \in 0 .. Len(s) /\ n \in 0 .. Len(b)
      /\ n + 1 \in 1 .. Len(b) + 1
  BY <1>1, <1>2, <1>3
<1>5. FirstOf(t, p) = FirstOf(s, p)
  <2>1. ASSUME NEW i \in 1 .. p
        PROVE  t[i] = s[i]
    <3>1. i \in 1 .. K - n /\ i <= p
      BY <1>1, <1>4
    <3> QED
      BY <1>2, <3>1
  <2> QED
    BY <1>4, <2>1, SameFirst
<1>6. RestOf(t, p) = RestOf(b, n)
  <2>1. ASSUME NEW i \in 1 .. Len(b) - n
        PROVE  t[p + i] = b[n + i]
    <3>1. p + i \in 1 .. K - n /\ ~(p + i <= p) /\ (p + i) + n = p + (n + i)
          /\ n + i \in 1 .. K - p
      BY <1>1, <1>3, <1>4
    <3> QED
      BY <1>2, <1>3, <3>1
  <2>2. Len(t) - p = Len(b) - n
    BY <1>1, <1>2, <1>3
  <2>3. b \in Seq(T) /\ t \in Seq(T) /\ n \in 0 .. Len(b) /\ p \in 0 .. Len(t)
    BY <1>3, <1>4
  <2>4. \A i \in 1 .. Len(b) - n : t[p + i] = b[n + i]
    BY <2>1
  <2> QED
    BY ONLY <2>2, <2>3, <2>4, SameRest, ZenonT(60)
<1> QED
  BY <1>4, <1>5, <1>6 DEF RestOf, b

\* Where a key leaves the cursor, and what text
LEMMA KeyTo ==
  ASSUME TextCursrX \in Nat, TextCursrY \in Nat, NEW b, NEW lift \in Int, NEW scrl \in Int,
         Key(b, lift, scrl),
         edit_rowln(b, TextCursrY + lift) \in Nat,
         scrl = 0 => TextCursrX <= edit_rowln(b, TextCursrY + lift)
  PROVE  /\ Text(buf)' = Text(b)
         /\ Position' = Line(b, TextCursrY + lift) + (TextCursrX + scrl)
<1>1. /\ buf' = b /\ input' = input /\ TextCursrY' = TextCursrY + lift
      /\ TextCursrX' = TextCursrX + Scroll(b, scrl, TextCursrY + lift)
  BY DEF Key
<1>2. Scroll(b, scrl, TextCursrY + lift) = scrl
  <2> DEFINE n == edit_rowln(b, TextCursrY + lift)
  <2>1. scrl = 0 => ~(n < TextCursrX)
    BY DEF Nat
  <2> HIDE DEF n
  <2> QED
    BY <2>1 DEF Scroll, n
<1>3. Text(buf)' = Text(b)
  BY <1>1 DEF Text, Line, Rows
<1>4. Position' = Line(b, TextCursrY + lift) + (TextCursrX + scrl)
  BY <1>1, <1>2 DEF Position, Line
<1> QED
  BY <1>3, <1>4

\* The keys that change the text, in terms of it
Types == \E x \in Symbol : /\ Inserted(Text(buf)', Text(buf), Position, x)
                           /\ Position' = Position + 1
TakesLeft == \E n \in 0 .. Position : /\ Without(Text(buf)', Text(buf), Position - n, n)
                                      /\ Position' = Position - n
TakesRight == \E n \in Nat : /\ Without(Text(buf)', Text(buf), Position, n)
                             /\ Position' = Position
TakesAll == Text(buf)' = <<>> /\ Position' = 0

LEMMA EditsAre ==
  ASSUME FieldInv, Edits
  PROVE  Types \/ TakesLeft \/ TakesRight \/ TakesAll
<1> DEFINE X == TextCursrX
           Y == TextCursrY
           R == Rows(buf)
           N == edit_rowln(buf, Y)
           L == Line(buf, Y)
<1>1. /\ input \in Inputs /\ Sound(buf) /\ R \in Nat /\ R > 0
      /\ Y \in 0 .. R - 1 /\ Y \in Nat /\ X \in 0 .. N /\ X \in Nat /\ N \in Nat
      /\ Here = N
  BY FieldFacts
<1>2. L \in Nat /\ Position = L + X /\ Position \in Nat
  <2>1. L \in Nat
    BY <1>1, PlaceIs
  <2> HIDE DEF L
  <2> QED
    BY <1>1, <2>1 DEF Position, L
\* A key that keeps the row
<1>3. ASSUME NEW b, Sound(b), NEW scrl \in Int, Key(b, 0, scrl), Y \in 0 .. Rows(b) - 1,
             Line(b, Y) = L, scrl = 0 => X <= edit_rowln(b, Y)
      PROVE  Text(buf)' = Text(b) /\ Position' = L + (X + scrl)
  <2>1. Y + 0 = Y /\ 0 \in Int
    BY <1>1
  <2>2. edit_rowln(b, Y) \in Nat
    BY <1>3, RowIs
  <2> HIDE DEF L
  <2> QED
    BY <1>1, <1>3, <2>1, <2>2, KeyTo
<1>4. ASSUME Char
      PROVE  Types
  <2>1. PICK c \in Chars : CharFits(buf) /\ Key(edit_char(buf, X, Y, c), 0, 1)
    BY <1>4 DEF Char
  <2> DEFINE b == edit_char(buf, X, Y, c)
  <2>2. Sound(b) /\ Rows(b) = R /\ Line(b, Y) = L
    BY <1>1, <2>1, edit_charIs
  <2>3. Inserted(Text(b), Text(buf), L + X, c)
    BY <1>1, <2>1, edit_charText
  <2> HIDE DEF b, L
  <2>4. Text(buf)' = Text(b) /\ Position' = L + (X + 1)
    BY <1>1, <1>3, <2>1, <2>2 DEF b
  <2>5. L + (X + 1) = (L + X) + 1 /\ c \in Symbol
    BY <1>1, <1>2 DEF Symbol
  <2> QED
    BY <1>2, <2>3, <2>4, <2>5 DEF Types
<1>5. ASSUME Return
      PROVE  Types
  <2> DEFINE b == edit_crlf(buf, X, Y)
  <2>1. Key(b, 1, -X) /\ Sound(b) /\ Rows(b) = R + 1 /\ Line(b, Y + 1) = L + X + 1
    BY <1>1, <1>5, edit_crlfIs DEF Return
  <2>2. Inserted(Text(b), Text(buf), L + X, NL)
    BY <1>1, <1>5, edit_crlfText DEF Return
  <2> HIDE DEF b, L
  <2>3. Y + 1 \in 0 .. Rows(b) - 1
    BY <1>1, <2>1
  <2> DEFINE n == edit_rowln(b, Y + 1)
  <2>4. n \in Nat
    BY <2>1, <2>3, RowIs
  <2>5. -X \in Int /\ 1 \in Int /\ (-X = 0 => X <= n)
    BY <1>1, <2>4
  <2>6. Text(buf)' = Text(b) /\ Position' = Line(b, Y + 1) + (X + (-X))
    BY <1>1, <2>1, <2>4, <2>5, KeyTo
  <2>7. Position' = (L + X) + 1 /\ NL \in Symbol
    BY <1>1, <1>2, <2>1, <2>6 DEF Symbol
  <2> QED
    BY <1>2, <2>2, <2>6, <2>7 DEF Types
<1>6. ASSUME Escape
      PROVE  TakesAll
  <2> DEFINE b == edit_zero(buf)
  <2>1. buf' = b /\ input' = input /\ TextCursrX' = 0 /\ TextCursrY' = 0
    BY <1>6 DEF Escape
  <2>2. Sound(b) /\ Text(b) = <<>>
    BY <1>1, edit_zeroIs, edit_zeroText
  <2> HIDE DEF b
  <2>3. Line(b, 0) = 0
    BY <2>2 DEF Sound, Laid, Line
  <2>4. Text(buf)' = Text(b) /\ Position' = Line(b, 0) + 0
    BY <2>1 DEF Text, Line, Rows, Position
  <2> QED
    BY <2>2, <2>3, <2>4 DEF TakesAll
<1>7. ASSUME Backspace
      PROVE  TakesLeft
  <2>1. ASSUME NEW n \in 0 .. X, Erases(n)
        PROVE  TakesLeft
    <3> DEFINE b == DelLeft(buf, X, Y, n)
    <3>1. /\ Key(b, 0, -n) /\ Sound(b) /\ Rows(b) = R /\ edit_rowln(b, Y) = N - n
          /\ Line(b, Y) = L
      BY <1>1, <2>1, DelLeftIs DEF Erases
    <3>2. Without(Text(b), Text(buf), L + X - n, n)
      BY <1>1, DelLeftIs
    <3> HIDE DEF b, L
    <3>3. -n \in Int /\ (-n = 0 => X <= N - n)
      BY <1>1
    <3>4. Text(buf)' = Text(b) /\ Position' = L + (X + (-n))
      BY <1>1, <1>3, <3>1, <3>3
    <3>5. L + (X + (-n)) = (L + X) - n /\ n \in 0 .. L + X
      BY <1>1, <1>2
    <3> QED
      BY <1>2, <3>2, <3>4, <3>5 DEF TakesLeft
  <2>2. ASSUME X = 0, Y > 0,
               Key(edit_delc(buf, edit_rowln(buf, Y - 1), Y - 1), -1, edit_rowln(buf, Y - 1))
        PROVE  TakesLeft
    <3> DEFINE n == edit_rowln(buf, Y - 1)
               M == Line(buf, Y - 1)
               b == edit_delc(buf, n, Y - 1)
    <3>1. Y - 1 \in 0 .. R - 2 /\ Y - 1 \in 0 .. R - 1 /\ (Y - 1) + 1 < R
          /\ (Y - 1) + 1 = Y /\ Y + (-1) = Y - 1
      BY <1>1, <2>2
    <3>2. Sound(b) /\ Rows(b) = R - 1 /\ edit_rowln(b, Y - 1) >= n /\ Line(b, Y - 1) = M
      BY <1>1, <3>1, edit_delcAtEnd
    <3>3. n \in Nat /\ n \in 0 .. n
      BY <1>1, <3>1, RowIs
    <3>4. M \in Nat
      BY <1>1, <3>1, <3>3, PlaceIs
    <3>5. n = L - M - 1
      BY <3>1 DEF edit_rowln
    <3>6. HasNext(buf, n, Y - 1)
      BY <1>1, <3>1, <3>3, HasNextIs
    <3>7. Without(Text(b), Text(buf), M + n, 1)
      BY <1>1, <3>1, <3>3, <3>6, edit_delcText
    <3>8. Key(b, -1, n)
      BY <2>2
    <3> HIDE DEF b, n, M, L
    <3>9. Y - 1 \in 0 .. Rows(b) - 1
      BY <1>1, <3>1, <3>2
    <3> DEFINE m == edit_rowln(b, Y - 1)
    <3>10. m \in Nat
      BY <3>2, <3>9, RowIs
    <3>11. n \in Int /\ -1 \in Int /\ (n = 0 => X <= m)
      BY <2>2, <3>3, <3>10
    <3>12. Text(buf)' = Text(b) /\ Position' = Line(b, Y - 1) + (X + n)
      BY <1>1, <3>1, <3>8, <3>10, <3>11, KeyTo
    <3>13. Position' = Position - 1 /\ M + n = Position - 1 /\ 1 \in 0 .. Position
      BY <1>1, <1>2, <2>2, <3>2, <3>3, <3>4, <3>5, <3>12
    <3> QED
      BY <3>7, <3>12, <3>13 DEF TakesLeft
  <2>3. ctrl_left(buf, X, Y) \in 0 .. X /\ X \in 0 .. X
    BY <1>1, WordsIn
  <2>4. X > 0 => 1 \in 0 .. X
    BY <1>1
  <2> QED
    BY <1>7, <2>1, <2>2, <2>3, <2>4 DEF Backspace
<1>8. ASSUME Delete
      PROVE  TakesRight
  <2>1. ASSUME NEW n \in 0 .. N - X, Deletes(n)
        PROVE  TakesRight
    <3> DEFINE b == DelRight(buf, X, Y, n)
    <3>1. /\ Key(b, 0, 0) /\ Sound(b)
          /\ Y \in 0 .. Rows(b) - 1 /\ X \in 0 .. edit_rowln(b, Y) /\ Line(b, Y) = L
      BY <1>1, <2>1, DelRightIs DEF Deletes
    <3>2. \E j \in Nat : Without(Text(b), Text(buf), L + X, j)
      BY <1>1, DelRightIs
    <3> HIDE DEF b, L
    <3>3. 0 \in Int /\ X <= edit_rowln(b, Y) /\ X + 0 = X
      BY <1>1, <3>1
    <3>4. Text(buf)' = Text(b) /\ Position' = L + (X + 0)
      BY <1>1, <1>3, <3>1, <3>3
    <3> QED
      BY <1>2, <3>2, <3>3, <3>4 DEF TakesRight
  <2>2. ctrl_right(buf, X, Y) \in 0 .. N - X
    BY <1>1, WordsIn
  <2>3. 0 \in 0 .. N - X /\ (N - X > 1 => N - X - 1 \in 0 .. N - X)
    BY <1>1
  <2> QED
    BY <1>1, <1>8, <2>1, <2>2, <2>3 DEF Delete
<1> QED
  BY <1>4, <1>5, <1>6, <1>7, <1>8 DEF Edits

LEMMA TextStays ==
  ASSUME Moves \/ Click \/ FieldSame
  PROVE  Text(buf)' = Text(buf)
<1>1. ASSUME input' = input, buf' = buf
      PROVE  Text(buf)' = Text(buf)
  BY <1>1 DEF Text, Line, Rows
<1>2. ASSUME NEW lift, NEW scrl, Key(buf, lift, scrl)
      PROVE  input' = input /\ buf' = buf
  BY <1>2 DEF Key
<1>3. CASE Moves
  BY <1>1, <1>2, <1>3 DEF Moves, Up, Down, Left, LeftWord, LeftAll, Right, RightWord,
                          RightAll, Home, End
<1>4. CASE Click \/ FieldSame
  BY <1>1, <1>4 DEF Click, FieldSame
<1> QED
  BY <1>3, <1>4

EditorFacts ==
  /\ Text(buf) \in Seq(Symbol) /\ Position \in 0 .. Len(Text(buf))
  /\ input.TextMax \in Nat
  /\ input.TextMax > 0 => Len(Text(buf)) <= input.TextMax

LEMMA EditorFactsHold ==
  ASSUME FieldInv
  PROVE  EditorFacts
<1>1. /\ input \in Inputs /\ Sound(buf) /\ TextCursrY \in 0 .. Rows(buf) - 1
      /\ TextCursrX \in 0 .. edit_rowln(buf, TextCursrY)
  BY FieldFacts
<1>2. Position \in 0 .. Len(Text(buf))
  BY <1>1, PlaceIs DEF Position
<1>3. /\ Text(buf) \in Seq(Symbol) /\ Len(Text(buf)) = Len(buf.item) - 1
      /\ Len(buf.item) \in Nat /\ buf.base \in Nat /\ Len(buf.item) <= buf.base
      /\ input.TextMax > 0 => buf.base = input.TextMax + 1
  BY <1>1, TextIs, SoundIs DEF Sound
<1>4. input.TextMax \in Nat
  BY <1>1, InputIs
<1> QED
  BY <1>2, <1>3, <1>4 DEF EditorFacts

\* A key puts something in at the cursor, takes something away beside it, or
\* moves it: the field implements Editor.
THEOREM FieldIsEditor == FormSpec => Refines
<1>1. FormInit => FieldInv
  BY FieldStarts
<1>2. FieldInv /\ [FormNext]_formVars => FieldInv'
  BY FieldStep
<1>3. FieldInv => EditorFacts
  BY EditorFactsHold
<1>4. EditorFacts => AnEditor!Init
  <2> SUFFICES ASSUME EditorFacts PROVE AnEditor!TypeOK
    BY DEF AnEditor!Init
  <2> DEFINE s == Text(buf)
             p == Position
             m == input.TextMax
  <2>1. /\ s \in Seq(Symbol) /\ p \in 0 .. Len(s) /\ m \in Nat /\ (m > 0 => Len(s) <= m)
    BY DEF EditorFacts
  <2> HIDE DEF s, p, m
  <2>2. /\ FirstOf(s, p) \in Seq(Symbol) /\ Len(FirstOf(s, p)) = p
        /\ RestOf(s, p) \in Seq(Symbol) /\ Len(RestOf(s, p)) = Len(s) - p
        /\ p \in Nat /\ Len(s) \in Nat
    BY <2>1, CutIs
  <2>3. p + (Len(s) - p) = Len(s)
    BY <2>2
  <2>4. /\ FirstOf(s, p) = SubSeq(Text(buf), 1, Position)
        /\ RestOf(s, p) = SubSeq(Text(buf), Position + 1, Len(Text(buf)))
    BY DEF FirstOf, RestOf, s, p
  <2> QED
    BY <2>1, <2>2, <2>3, <2>4 DEF AnEditor!TypeOK, Symbol, m
<1>5. FieldInv /\ EditorFacts /\ EditorFacts' /\ [FormNext]_formVars
        => [AnEditor!Next]_(AnEditor!vars)
  <2> SUFFICES ASSUME FieldInv, EditorFacts, EditorFacts', [FormNext]_formVars
               PROVE  AnEditor!Next
    OBVIOUS
  <2> DEFINE s == Text(buf)
             p == Position
             t == Text(buf)'
             q == Position'
             m == input.TextMax
  <2>1. /\ s \in Seq(Symbol) /\ p \in 0 .. Len(s) /\ m \in Nat
        /\ t \in Seq(Symbol) /\ q \in 0 .. Len(t)
    BY DEF EditorFacts
  <2>2. Edits \/ Moves \/ Click \/ FieldSame
    <3>1. active \in BOOLEAN
      BY DEF FieldInv
    <3> QED
      BY <3>1, FormSteps
  <2>3. input' = input
    <3>1. ASSUME NEW b, NEW lift, NEW scrl, Key(b, lift, scrl)
          PROVE  input' = input
      BY <3>1 DEF Key
    <3>2. CASE Moves
      BY <3>1, <3>2 DEF Moves, Up, Down, Left, LeftWord, LeftAll, Right, RightWord,
                        RightAll, Home, End
    <3>3. CASE Edits
      BY <3>1, <3>3 DEF Edits, Char, Return, Escape, Backspace, Delete, Erases, Deletes
    <3>4. CASE Click \/ FieldSame
      BY <3>4 DEF Click, FieldSame
    <3> QED
      BY <2>2, <3>2, <3>3, <3>4
  <2>4. m > 0 => Len(t) <= m
    BY <2>3 DEF EditorFacts
  <2>5. /\ FirstOf(s, p) = SubSeq(Text(buf), 1, Position)
        /\ RestOf(s, p) = SubSeq(Text(buf), Position + 1, Len(Text(buf)))
    BY DEF FirstOf, RestOf, s, p
  <2>6. /\ FirstOf(t, q) = SubSeq(Text(buf), 1, Position)'
        /\ RestOf(t, q) = SubSeq(Text(buf), Position + 1, Len(Text(buf)))'
    BY DEF FirstOf, RestOf, t, q
  <2>7. CASE Moves \/ Click \/ FieldSame
    <3>1. t = s
      BY <2>7, TextStays
    <3> HIDE DEF s, p, t, q
    <3>2. FirstOf(t, q) \o RestOf(t, q) = FirstOf(s, p) \o RestOf(s, p)
      BY <2>1, <3>1, CutJoined
    <3>3. AnEditor!Move
      BY <2>5, <2>6, <3>2 DEF AnEditor!Move
    <3> QED
      BY <2>3, <3>3 DEF AnEditor!Next
  <2>8. CASE Types
    <3>1. PICK x \in Symbol : Inserted(t, s, p, x) /\ q = p + 1
      BY <2>8 DEF Types
    <3> HIDE DEF s, p, t, q
    <3>2. FirstOf(t, q) = Append(FirstOf(s, p), x) /\ RestOf(t, q) = RestOf(s, p)
      BY <2>1, <3>1, InsertedCut
    <3>3. Len(FirstOf(s, p)) = p /\ Len(RestOf(s, p)) = Len(s) - p /\ p \in Nat /\ Len(s) \in Nat
      BY <2>1, CutIs
    <3>4. Len(t) = Len(s) + 1
      BY <3>1 DEF Inserted
    <3>5. m > 0 => Len(FirstOf(s, p)) + Len(RestOf(s, p)) < m
      <4> HIDE DEF m
      <4> QED
        BY <2>1, <2>4, <3>3, <3>4
    <3>6. AnEditor!Insert
      BY <2>5, <2>6, <3>2, <3>5 DEF AnEditor!Insert, Symbol
    <3> QED
      BY <2>3, <3>6 DEF AnEditor!Next
  <2>9. CASE TakesLeft
    <3>1. PICK n \in 0 .. p : Without(t, s, p - n, n) /\ q = p - n
      BY <2>9 DEF TakesLeft
    <3> HIDE DEF s, p, t, q
    <3>2. FirstOf(t, q) = SubSeq(FirstOf(s, p), 1, p - n) /\ RestOf(t, q) = RestOf(s, p)
      BY <2>1, <3>1, ErasedCut
    <3>3. Len(FirstOf(s, p)) = p /\ p \in Nat
      BY <2>1, CutIs
    <3>4. p - n \in 0 .. Len(FirstOf(s, p))
      BY <3>1, <3>3
    <3>5. AnEditor!Erase
      BY <2>5, <2>6, <3>2, <3>4 DEF AnEditor!Erase
    <3> QED
      BY <2>3, <3>5 DEF AnEditor!Next
  <2>10. CASE TakesRight
    <3>1. PICK n \in Nat : Without(t, s, p, n) /\ q = p
      BY <2>10 DEF TakesRight
    <3> HIDE DEF s, p, t, q
    <3>2. p <= Len(t)
      BY <2>1, <3>1
    <3>3. /\ FirstOf(t, q) = FirstOf(s, p) /\ n + 1 \in 1 .. Len(RestOf(s, p)) + 1
          /\ RestOf(t, q) = SubSeq(RestOf(s, p), n + 1, Len(RestOf(s, p)))
      BY <2>1, <3>1, <3>2, DeletedCut
    <3>4. AnEditor!Delete
      BY <2>5, <2>6, <3>3 DEF AnEditor!Delete
    <3> QED
      BY <2>3, <3>4 DEF AnEditor!Next
  <2>11. CASE TakesAll
    <3>1. t = <<>> /\ q = 0
      BY <2>11 DEF TakesAll
    <3> HIDE DEF s, p, t, q
    <3>2. Len(FirstOf(t, q)) = 0 /\ Len(RestOf(t, q)) = 0 /\ FirstOf(t, q) \in Seq(Symbol)
          /\ RestOf(t, q) \in Seq(Symbol)
      <4>1. Len(t) = 0 /\ Len(t) - q = 0
        BY <3>1
      <4> QED
        BY <2>1, <3>1, <4>1, CutIs
    <3>3. FirstOf(t, q) = <<>> /\ RestOf(t, q) = <<>>
      BY <3>2, EmptySeq
    <3>4. AnEditor!Clear
      BY <2>6, <3>3 DEF AnEditor!Clear
    <3> QED
      BY <2>3, <3>4 DEF AnEditor!Next
  <2>12. Edits => Types \/ TakesLeft \/ TakesRight \/ TakesAll
    BY EditsAre
  <2> QED
    BY <2>2, <2>7, <2>8, <2>9, <2>10, <2>11, <2>12
<1> QED
  BY <1>1, <1>2, <1>3, <1>4, <1>5, PTL DEF FormSpec, Refines, AnEditor!Spec

=============================================================================
