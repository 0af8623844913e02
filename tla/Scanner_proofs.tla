--------------------------- MODULE Scanner_proofs ---------------------------
(***************************************************************************)
(* Proofs about Scanner, for any number of columns, of flow levels and of   *)
(* lexemes: the index of simple keys leads to keys that are still there,    *)
(* the keys inserted into the queue land in front of their tokens, block    *)
(* collections begin and end in pairs, and the lookahead ends.              *)
(***************************************************************************)
EXTENDS Scanner, SequenceTheorems, FiniteSetTheorems, WellFoundedInduction, TLAPS

-----------------------------------------------------------------------------
(* Numbers, sequences and counts                                             *)

\* A set of numbers has a least one.
LEMMA Least ==
  ASSUME NEW S, S \subseteq Nat, S # {}
  PROVE  \E k \in S : \A j \in S : k <= j
<1>. DEFINE R == OpToRel(<, Nat)
<1>1. IsWellFoundedOn(R, Nat)
  BY NatLessThanWellFounded
<1>2. \A x, y \in Nat : <<x, y>> \in R <=> x < y
  BY DEF OpToRel
<1>. HIDE DEF R
<1>3. PICK k \in S : \A j \in S : ~(<<j, k>> \in R)
  BY <1>1, WFMin
<1>4. \A j \in S : ~(j < k)
  BY <1>2, <1>3
<1>. QED
  BY <1>4

\* A set of positions in a sequence has a greatest one.
LEMMA Greatest ==
  ASSUME NEW n \in Nat, NEW S, S \subseteq 1..n, S # {}
  PROVE  \E k \in S : \A j \in S : j <= k
<1>. DEFINE T == {m \in Nat : n - m \in S}
<1>1. T \subseteq Nat
  OBVIOUS
<1>2. PICK x \in S : TRUE
  OBVIOUS
<1>3. n - x \in Nat /\ n - (n - x) = x
  BY <1>2
<1>4. n - x \in T
  BY <1>2, <1>3
<1>5. \A j \in S : n - j \in T
  <2>. TAKE j \in S
  <2>1. n - j \in Nat /\ n - (n - j) = j
    OBVIOUS
  <2>. QED
    BY <2>1
<1>6. \A m \in T : m \in Nat /\ n - m \in S
  OBVIOUS
<1>. HIDE DEF T
<1>7. PICK m \in T : \A j \in T : m <= j
  BY <1>1, <1>4, Least
<1>8. \A j \in S : j <= n - m
  <2>. TAKE j \in S
  <2>1. m <= n - j
    BY <1>5, <1>7
  <2>2. m \in Nat /\ j \in Nat
    BY <1>6, <1>7
  <2>. QED
    BY <2>1, <2>2
<1>. QED
  BY <1>6, <1>7, <1>8

\* The element that is appended lies behind the others.
LEMMA AppendFacts ==
  ASSUME NEW S, NEW s \in Seq(S), NEW x \in S
  PROVE  /\ Append(s, x) \in Seq(S)
         /\ Len(s) \in Nat /\ DOMAIN s = 1..Len(s)
         /\ Len(Append(s, x)) = Len(s) + 1 /\ DOMAIN Append(s, x) = 1..Len(s) + 1
         /\ \A i \in 1..Len(s) : Append(s, x)[i] = s[i]
         /\ Append(s, x)[Len(s) + 1] = x
<1>1. Append(s, x) \in Seq(S)
  BY AppendProperties
<1>. QED
  BY <1>1, AppendProperties, LenProperties

\* Part of a sequence.
LEMMA PrefixFacts ==
  ASSUME NEW S, NEW s \in Seq(S), NEW n \in Nat, n <= Len(s)
  PROVE  /\ SubSeq(s, 1, n) \in Seq(S) /\ Len(SubSeq(s, 1, n)) = n
         /\ DOMAIN SubSeq(s, 1, n) = 1..n
         /\ \A i \in 1..n : SubSeq(s, 1, n)[i] = s[i]
<1>1. /\ n \in Int /\ 1 \in Int /\ Len(s) \in Nat /\ DOMAIN s = 1..Len(s)
      /\ \A i \in 1..n : s[i] \in S
  BY LenProperties, ElementOfSeq
<1>2. /\ SubSeq(s, 1, n) \in Seq(S)
      /\ Len(SubSeq(s, 1, n)) = IF 1 <= n THEN n - 1 + 1 ELSE 0
      /\ \A i \in 1..n - 1 + 1 : SubSeq(s, 1, n)[i] = s[1 + i - 1]
  BY <1>1, SubSeqProperties
<1>3. Len(SubSeq(s, 1, n)) = n
  BY <1>1, <1>2
<1>4. \A i \in 1..n : SubSeq(s, 1, n)[i] = s[i]
  <2>. TAKE i \in 1..n
  <2>1. i \in 1..n - 1 + 1 /\ 1 + i - 1 = i
    OBVIOUS
  <2>. QED
    BY <1>2, <2>1
<1>5. DOMAIN SubSeq(s, 1, n) = 1..n
  BY <1>2, <1>3, LenProperties
<1>. QED
  BY <1>2, <1>3, <1>4, <1>5

\* What is left of a sequence without its last element.
LEMMA FrontFacts ==
  ASSUME NEW S, NEW s \in Seq(S), Len(s) > 0
  PROVE  /\ Front(s) \in Seq(S) /\ Len(Front(s)) = Len(s) - 1
         /\ Len(s) \in Nat \ {0} /\ DOMAIN s = 1..Len(s)
         /\ DOMAIN Front(s) = 1..Len(s) - 1
         /\ \A i \in 1..Len(s) - 1 : Front(s)[i] = s[i]
         /\ Last(s) = s[Len(s)] /\ Last(s) \in S
<1>1. Len(s) \in Nat \ {0} /\ DOMAIN s = 1..Len(s) /\ Len(s) - 1 \in Nat /\ Len(s) - 1 <= Len(s)
  BY LenProperties
<1>2. Front(s) = SubSeq(s, 1, Len(s) - 1) /\ Last(s) = s[Len(s)]
  BY DEF Front, Last
<1>3. s[Len(s)] \in S
  BY <1>1, ElementOfSeq
<1>. QED
  BY <1>1, <1>2, <1>3, PrefixFacts

\* An element is put in front of position p.
LEMMA InsertFacts ==
  ASSUME NEW S, NEW s \in Seq(S), NEW x \in S, NEW p \in 1..Len(s) + 1
  PROVE  /\ InsertAt(s, p, x) \in Seq(S)
         /\ Len(s) \in Nat /\ DOMAIN s = 1..Len(s)
         /\ Len(InsertAt(s, p, x)) = Len(s) + 1
         /\ DOMAIN InsertAt(s, p, x) = 1..Len(s) + 1
         /\ \A i \in 1..p - 1 : InsertAt(s, p, x)[i] = s[i]
         /\ InsertAt(s, p, x)[p] = x
         /\ \A i \in p..Len(s) : InsertAt(s, p, x)[i + 1] = s[i]
<1>. DEFINE n == Len(s)
            a == SubSeq(s, 1, p - 1)
            c == SubSeq(s, p, n)
            b == a \o <<x>>
<1>1. n \in Nat /\ DOMAIN s = 1..n /\ p \in Int /\ p - 1 \in Nat /\ p - 1 <= n /\ p <= n + 1
  BY LenProperties
<1>2. a \in Seq(S) /\ Len(a) = p - 1 /\ \A i \in 1..p - 1 : a[i] = s[i]
  BY <1>1, PrefixFacts
<1>3. /\ c \in Seq(S)
      /\ Len(c) = IF p <= n THEN n - p + 1 ELSE 0
      /\ \A i \in 1..n - p + 1 : c[i] = s[p + i - 1]
  <2>1. \A i \in p..n : s[i] \in S
    BY <1>1, ElementOfSeq
  <2>2. n \in Int
    BY <1>1
  <2>. HIDE DEF n
  <2>. QED
    BY <1>1, <2>1, <2>2, SubSeqProperties
<1>4. <<x>> \in Seq(S) /\ Len(<<x>>) = 1 /\ <<x>>[1] = x
  OBVIOUS
<1>. HIDE DEF n, a, c
<1>5. /\ b \in Seq(S) /\ Len(b) = p /\ (\A i \in 1..p - 1 : b[i] = s[i]) /\ b[p] = x
  <2>. DEFINE o == <<x>>
  <2>1. o \in Seq(S) /\ Len(o) = 1 /\ o[1] = x
    BY <1>4
  <2>. HIDE DEF o
  <2>2. /\ a \o o \in Seq(S) /\ Len(a \o o) = Len(a) + Len(o)
        /\ \A i \in 1..Len(a) + Len(o) : (a \o o)[i] = IF i <= Len(a) THEN a[i] ELSE o[i - Len(a)]
    BY <1>2, <2>1, ConcatProperties
  <2>3. p \in 1..Len(a) + Len(o) /\ ~(p <= Len(a)) /\ p - Len(a) = 1 /\ Len(a) + Len(o) = p
    BY <1>1, <1>2, <2>1
  <2>4. \A i \in 1..p - 1 : (a \o o)[i] = s[i]
    <3>. TAKE i \in 1..p - 1
    <3>1. i \in 1..Len(a) + Len(o) /\ i <= Len(a)
      BY <1>1, <1>2, <2>1
    <3>. QED
      BY <1>2, <2>2, <3>1
  <2>5. (a \o o)[p] = x
    BY <2>1, <2>2, <2>3
  <2>. QED
    BY <2>2, <2>3, <2>4, <2>5 DEF o
<1>. HIDE DEF b
<1>6. /\ b \o c \in Seq(S) /\ Len(b \o c) = Len(b) + Len(c)
      /\ \A i \in 1..Len(b) + Len(c) : (b \o c)[i] = IF i <= Len(b) THEN b[i] ELSE c[i - Len(b)]
  BY <1>3, <1>5, ConcatProperties
<1>7. Len(c) = n - p + 1 /\ Len(b) + Len(c) = n + 1
  BY <1>1, <1>3, <1>5
<1>8. \A i \in 1..p : (b \o c)[i] = b[i]
  BY <1>1, <1>5, <1>6, <1>7
<1>9. \A i \in p..n : (b \o c)[i + 1] = s[i]
  <2>. TAKE i \in p..n
  <2>1. /\ i + 1 \in 1..Len(b) + Len(c) /\ ~(i + 1 <= Len(b))
        /\ i + 1 - Len(b) \in 1..n - p + 1 /\ p + (i + 1 - Len(b)) - 1 = i
    BY <1>1, <1>5, <1>7
  <2>2. (b \o c)[i + 1] = c[i + 1 - Len(b)]
    BY <1>6, <2>1
  <2>3. c[i + 1 - Len(b)] = s[p + (i + 1 - Len(b)) - 1]
    BY <1>3, <2>1
  <2>. QED
    BY <2>1, <2>2, <2>3
<1>10. InsertAt(s, p, x) = b \o c
  BY DEF InsertAt, a, b, c, n
<1>11. DOMAIN (b \o c) = 1..n + 1
  BY <1>6, <1>7, LenProperties
<1>. QED
  BY <1>1, <1>5, <1>6, <1>7, <1>8, <1>9, <1>10, <1>11 DEF n

\* Of the first n tokens, at most n are of a type.
LEMMA CountType ==
  ASSUME NEW n \in Nat, NEW seq, NEW typ
  PROVE  /\ IsFiniteSet({i \in 1..n : seq[i].typ = typ})
         /\ Count(n, seq, typ) \in 0..n
         /\ n = 0 => Count(n, seq, typ) = 0
<1>. DEFINE A == {i \in 1..n : seq[i].typ = typ}
<1>1. IsFiniteSet(1..n) /\ Cardinality(1..n) = n
  BY FS_Interval
<1>2. A \in SUBSET (1..n)
  OBVIOUS
<1>3. IsFiniteSet(A) /\ Cardinality(A) <= n /\ Cardinality(A) \in Nat
  BY <1>1, <1>2, FS_Subset, FS_CardinalityType
<1>. QED
  BY <1>3 DEF Count

\* One token more.
LEMMA CountStep ==
  ASSUME NEW n \in Nat, NEW seq, NEW typ
  PROVE  Count(n + 1, seq, typ) = Count(n, seq, typ) + (IF seq[n + 1].typ = typ THEN 1 ELSE 0)
<1>. DEFINE A == {i \in 1..n : seq[i].typ = typ}
            B == {i \in 1..n + 1 : seq[i].typ = typ}
<1>1. IsFiniteSet(A) /\ Cardinality(A) \in Nat
  <2>1. IsFiniteSet(1..n) /\ A \in SUBSET (1..n)
    BY FS_Interval
  <2>2. IsFiniteSet(A)
    BY <2>1, FS_Subset
  <2>. QED
    BY <2>2, FS_CardinalityType
<1>2. n + 1 \notin A
  OBVIOUS
<1>3. CASE seq[n + 1].typ = typ
  <2>1. B = A \cup {n + 1}
    BY <1>3
  <2>. QED
    BY <1>1, <1>2, <1>3, <2>1, FS_AddElement DEF Count
<1>4. CASE seq[n + 1].typ # typ
  <2>1. B = A
    BY <1>4
  <2>. QED
    BY <1>1, <1>4, <2>1 DEF Count
<1>. QED
  BY <1>3, <1>4

\* Only the types of the tokens counted matter.
LEMMA CountSame ==
  ASSUME NEW n \in Nat, NEW s, NEW t, NEW typ, \A i \in 1..n : s[i].typ = t[i].typ
  PROVE  Count(n, s, typ) = Count(n, t, typ)
<1>1. {i \in 1..n : s[i].typ = typ} = {i \in 1..n : t[i].typ = typ}
  OBVIOUS
<1>. QED
  BY <1>1 DEF Count

\* Without the first token there are not more.
LEMMA CountTail ==
  ASSUME NEW n \in Nat, NEW s, NEW t, NEW typ, \A i \in 1..n : t[i].typ = s[i + 1].typ
  PROVE  Count(n, t, typ) <= Count(n + 1, s, typ)
<1>. DEFINE bad == {m \in 0..n : ~(Count(m, t, typ) <= Count(m + 1, s, typ))}
<1>1. SUFFICES ASSUME bad # {} PROVE FALSE
  OBVIOUS
<1>2. bad \subseteq Nat
  OBVIOUS
<1>7. PICK m \in bad : \A j \in bad : m <= j
  BY <1>1, <1>2, Least
<1>3. m \in 0..n /\ ~(Count(m, t, typ) <= Count(m + 1, s, typ))
  OBVIOUS
<1>4. CASE m = 0
  <2>1. Count(0, t, typ) = 0 /\ Count(1, s, typ) \in 0..1
    BY CountType
  <2>. QED
    BY <1>3, <1>4, <2>1
<1>5. CASE m # 0
  <2>1. m - 1 \in Nat /\ m \in Nat /\ m - 1 + 1 = m /\ m \in 1..n /\ m - 1 \in 0..n
    BY <1>3, <1>5
  <2>2. m - 1 \notin bad
    BY <1>7, <1>3, <1>5
  <2>3. Count(m - 1, t, typ) <= Count(m, s, typ)
    BY <2>1, <2>2
  <2>4. /\ Count(m, t, typ) = Count(m - 1, t, typ) + (IF t[m].typ = typ THEN 1 ELSE 0)
        /\ Count(m + 1, s, typ) = Count(m, s, typ) + (IF s[m + 1].typ = typ THEN 1 ELSE 0)
    BY <2>1, CountStep
  <2>5. t[m].typ = s[m + 1].typ
    BY <2>1
  <2>6. Count(m - 1, t, typ) \in Nat /\ Count(m, s, typ) \in Nat
    <3>1. Count(m - 1, t, typ) \in 0..m - 1
      BY <2>1, CountType
    <3>2. Count(m, s, typ) \in 0..m
      BY <2>1, CountType
    <3>. QED
      BY <2>1, <3>1, <3>2
  <2>. QED
    BY <1>3, <2>3, <2>4, <2>5, <2>6
<1>. QED
  BY <1>4, <1>5

\* The block collections that are open behind n tokens, when some were before.
Depth(open, seq, n) ==
  open + Count(n, seq, "BLOCK_SEQUENCE_START") + Count(n, seq, "BLOCK_MAPPING_START")
       - Count(n, seq, "BLOCK_END")

\* It changes with each token.
LEMMA DepthStep ==
  ASSUME NEW open \in Int, NEW seq, NEW n \in Nat
  PROVE  /\ Depth(open, seq, 0) = open
         /\ Depth(open, seq, n) \in Int
         /\ Opening(seq[n + 1]) \in -1..1
         /\ Depth(open, seq, n + 1) = Depth(open, seq, n) + Opening(seq[n + 1])
<1>1. ASSUME NEW k \in Nat, NEW typ
      PROVE  Count(k, seq, typ) \in Int /\ Count(0, seq, typ) = 0
  <2>1. Count(k, seq, typ) \in 0..k
    BY CountType
  <2>2. Count(0, seq, typ) = 0
    BY CountType
  <2>. QED
    BY <2>1, <2>2
<1>2. \A typ : Count(n + 1, seq, typ) = Count(n, seq, typ) + (IF seq[n + 1].typ = typ THEN 1 ELSE 0)
  BY CountStep
<1>. DEFINE c(typ) == Count(n, seq, typ)
            d(typ) == Count(n + 1, seq, typ)
            x == seq[n + 1].typ
<1>3. /\ c("BLOCK_SEQUENCE_START") \in Int /\ c("BLOCK_MAPPING_START") \in Int /\ c("BLOCK_END") \in Int
      /\ d("BLOCK_SEQUENCE_START") = c("BLOCK_SEQUENCE_START") + (IF x = "BLOCK_SEQUENCE_START" THEN 1 ELSE 0)
      /\ d("BLOCK_MAPPING_START") = c("BLOCK_MAPPING_START") + (IF x = "BLOCK_MAPPING_START" THEN 1 ELSE 0)
      /\ d("BLOCK_END") = c("BLOCK_END") + (IF x = "BLOCK_END" THEN 1 ELSE 0)
  BY <1>1, <1>2
<1>4. /\ Depth(open, seq, n) = open + c("BLOCK_SEQUENCE_START") + c("BLOCK_MAPPING_START") - c("BLOCK_END")
      /\ Depth(open, seq, n + 1) = open + d("BLOCK_SEQUENCE_START") + d("BLOCK_MAPPING_START") - d("BLOCK_END")
  BY DEF Depth
<1>5. Opening(seq[n + 1]) = IF x \in {"BLOCK_SEQUENCE_START", "BLOCK_MAPPING_START"} THEN 1
                            ELSE IF x = "BLOCK_END" THEN -1 ELSE 0
  BY DEF Opening
<1>6. Depth(open, seq, 0) = open
  BY <1>1 DEF Depth
<1>. HIDE DEF c, d, x
<1>. QED
  BY <1>3, <1>4, <1>5, <1>6

\* Tokens that are put behind do not change it.
LEMMA DepthSame ==
  ASSUME NEW open, NEW s, NEW t, NEW n \in Nat, \A i \in 1..n : t[i].typ = s[i].typ
  PROVE  Depth(open, t, n) = Depth(open, s, n)
BY CountSame DEF Depth

\* Queue t is queue q with token x put in front of position p.
Placed(t, q, p, x) ==
  /\ p \in 1..Len(q) + 1 /\ Len(t) = Len(q) + 1
  /\ \A i \in 1..p - 1 : t[i] = q[i]
  /\ t[p] = x
  /\ \A i \in p..Len(q) : t[i + 1] = q[i]

\* It counts for all behind it.
LEMMA DepthInsert ==
  ASSUME NEW open \in Int, NEW s, NEW t, NEW p, NEW x, Len(s) \in Nat, Placed(t, s, p, x)
  PROVE  \A n \in p - 1..Len(s) : Depth(open, t, n + 1) = Depth(open, s, n) + Opening(x)
<1>. DEFINE len == Len(s)
<1>a. /\ len \in Nat /\ p \in 1..len + 1
      /\ \A i \in 1..p - 1 : t[i].typ = s[i].typ
      /\ t[p].typ = x.typ
      /\ \A i \in p..len : t[i + 1].typ = s[i].typ
  BY DEF Placed
<1>b. len \in Nat /\ p \in 1..len + 1
  BY <1>a
<1>. HIDE DEF len
<1>. SUFFICES \A n \in p - 1..len : Depth(open, t, n + 1) = Depth(open, s, n) + Opening(x)
  BY DEF len
<1>. DEFINE bad == {n \in p - 1..len : Depth(open, t, n + 1) # Depth(open, s, n) + Opening(x)}
<1>1. SUFFICES ASSUME bad # {} PROVE FALSE
  OBVIOUS
<1>2. bad \subseteq Nat
  BY <1>a
<1>3. PICK m \in bad : \A j \in bad : m <= j
  BY <1>1, <1>2, Least
<1>4. m \in p - 1..len /\ m \in Nat /\ Depth(open, t, m + 1) # Depth(open, s, m) + Opening(x)
  BY <1>2, <1>a
<1>5. Depth(open, t, m + 1) = Depth(open, t, m) + Opening(t[m + 1])
  BY <1>4, DepthStep
<1>6. CASE m = p - 1
  <2>1. Depth(open, t, m) = Depth(open, s, m)
    BY <1>a, <1>4, <1>6, DepthSame
  <2>2. Opening(t[m + 1]) = Opening(x)
    BY <1>a, <1>6 DEF Opening
  <2>. QED
    BY <1>a, <1>4, <1>5, <1>6, <2>1, <2>2
<1>7. CASE m # p - 1
  <2>1. m - 1 \in Nat /\ m - 1 + 1 = m /\ m \in p..len /\ m - 1 \in p - 1..len
    BY <1>b, <1>4, <1>7
  <2>2. m - 1 \notin bad
    BY <1>3, <1>4
  <2>3. Depth(open, t, m) = Depth(open, s, m - 1) + Opening(x)
    BY <2>1, <2>2
  <2>4. Depth(open, s, m) = Depth(open, s, m - 1) + Opening(s[m])
    BY <2>1, DepthStep
  <2>5. Opening(t[m + 1]) = Opening(s[m])
    BY <1>a, <2>1 DEF Opening
  <2>6. /\ Depth(open, s, m - 1) \in Int /\ Opening(s[m]) \in Int
        /\ Depth(open, t, m) \in Int /\ Opening(t[m + 1]) \in Int
    <3>1. Opening(s[m - 1 + 1]) \in -1..1
      BY <2>1, DepthStep
    <3>. QED
      <4>1. m - 1 \in Nat /\ m \in Nat
        BY <1>4, <2>1
      <4>2. /\ Depth(open, s, m - 1) \in Int /\ Depth(open, t, m) \in Int
        BY <4>1, DepthStep
      <4>3. Opening(s[m]) \in Int
        BY <2>1, <3>1
      <4>. QED
        BY <2>5, <4>2, <4>3
  <2>7. Opening(x) \in Int
    BY DEF Opening
  <2>. QED
    BY <1>4, <1>5, <2>3, <2>4, <2>5, <2>6, <2>7
<1>. QED
  BY <1>6, <1>7

\* The token that is taken counts from then on.
LEMMA DepthTail ==
  ASSUME NEW open \in Int, NEW s, NEW t, NEW n \in Nat,
         \A i \in 1..n : t[i].typ = s[i + 1].typ
  PROVE  Depth(open + Opening(s[1]), t, n) = Depth(open, s, n + 1)
<1>. DEFINE o == open + Opening(s[1])
            bad == {m \in 0..n : Depth(o, t, m) # Depth(open, s, m + 1)}
<1>1. Opening(s[1]) \in Int /\ o \in Int
  BY DEF Opening
<1>. HIDE DEF o
<1>2. SUFFICES ASSUME bad # {} PROVE FALSE
  BY DEF o
<1>3. bad \subseteq Nat
  OBVIOUS
<1>4. PICK m \in bad : \A j \in bad : m <= j
  BY <1>2, <1>3, Least
<1>5. m \in 0..n /\ m \in Nat /\ Depth(o, t, m) # Depth(open, s, m + 1)
  BY <1>3
<1>6. CASE m = 0
  <2>1. Depth(o, t, 0) = o
    BY <1>1, DepthStep
  <2>2. Depth(open, s, 0) = open /\ Depth(open, s, 0 + 1) = Depth(open, s, 0) + Opening(s[0 + 1])
    BY DepthStep
  <2>. QED
    BY <1>5, <1>6, <2>1, <2>2 DEF o
<1>7. CASE m # 0
  <2>1. m - 1 \in Nat /\ m - 1 + 1 = m /\ m \in 1..n /\ m - 1 \in 0..n
    BY <1>5, <1>7
  <2>2. m - 1 \notin bad
    BY <1>4, <1>5
  <2>3. Depth(o, t, m - 1) = Depth(open, s, m)
    BY <2>1, <2>2
  <2>4. Depth(o, t, m) = Depth(o, t, m - 1) + Opening(t[m])
    BY <1>1, <2>1, DepthStep
  <2>5. Depth(open, s, m + 1) = Depth(open, s, m) + Opening(s[m + 1])
    BY <1>5, DepthStep
  <2>6. Opening(t[m]) = Opening(s[m + 1])
    BY <2>1 DEF Opening
  <2>. QED
    BY <1>5, <2>3, <2>4, <2>5, <2>6
<1>. QED
  BY <1>6, <1>7

-----------------------------------------------------------------------------
(* The inductive invariant                                                   *)

Tokens == [typ : TokenTypes, mark : Nat]
SimpleKeys == [possible : BOOLEAN, required : BOOLEAN, token_number : Nat,
               column : Nat, mark : Nat, far : BOOLEAN]
Indexes == UNION {[D -> Nat] : D \in SUBSET Nat}
Scanners ==
  [tokens : Seq(Tokens), tokens_parsed : Nat, token_available : BOOLEAN,
   simple_keys : Seq(SimpleKeys), simple_keys_by_tok : Indexes, simple_key_allowed : BOOLEAN,
   flow_level : Nat, indent : Int, indents : Seq(Int), column : Nat, mark : Nat,
   at_end : BOOLEAN, stream_end_produced : BOOLEAN, error : BOOLEAN, open : Int]

\* Where an entry of the index belongs that is still to be looked at.
Waiting(s, n) == n \in DOMAIN s.simple_keys_by_tok /\ n >= s.tokens_parsed

\* A key inside brackets that has been struck off the list, but not off the index.
Stale(s, i) ==
  LET key == s.simple_keys[i] IN
  /\ i \in DOMAIN s.simple_keys /\ i > 1 /\ ~key.possible
  /\ Waiting(s, key.token_number) /\ s.simple_keys_by_tok[key.token_number] = i
\* Tokens from the key's on.
Since(s, i) == Len(s.tokens) - (s.simple_keys[i].token_number - s.tokens_parsed)

\* There is one key per level; the keys are numbered upwards, and far ones come
\* first; none is numbered, or indexed, ahead of the queue.
KeysInOrder(s) ==
  /\ Len(s.simple_keys) = s.flow_level + 1
  /\ \A i, j \in DOMAIN s.simple_keys :
       i < j =>
         /\ s.simple_keys[i].token_number <= s.simple_keys[j].token_number
         /\ s.simple_keys[j].possible =>
              s.simple_keys[i].token_number < s.simple_keys[j].token_number
         /\ s.simple_keys[j].far /\ s.simple_keys[i].possible => s.simple_keys[i].far
  /\ \A i \in DOMAIN s.simple_keys :
       /\ s.simple_keys[i].token_number <= NumberOf(s)
       /\ s.mark > 0 => s.simple_keys[i].token_number < NumberOf(s)
  /\ \A n \in DOMAIN s.simple_keys_by_tok : n < NumberOf(s)

\* The index leads to levels that exist, and inside brackets to the key itself;
\* from a key that is possible it leads back to it.
IndexLeads(s) ==
  /\ \A n \in Nat :
       Waiting(s, n) =>
         /\ s.simple_keys_by_tok[n] \in DOMAIN s.simple_keys
         /\ s.simple_keys_by_tok[n] # 1 => s.simple_keys[s.simple_keys_by_tok[n]].token_number = n
  /\ \A i \in DOMAIN s.simple_keys :
       LET n == s.simple_keys[i].token_number IN
       s.simple_keys[i].possible /\ n \in DOMAIN s.simple_keys_by_tok => s.simple_keys_by_tok[n] = i

\* A key that can become one is in the queue, and not handed out.
KeyInQueue(s) ==
  \A i \in DOMAIN s.simple_keys :
    LET n == s.simple_keys[i].token_number IN
    Valid(s.simple_keys[i]) /\ n \in DOMAIN s.simple_keys_by_tok =>
      /\ n >= s.tokens_parsed
      /\ s.token_available => n # s.tokens_parsed
      /\ s.tokens[n - s.tokens_parsed + 1].mark = s.simple_keys[i].mark

\* A stale key is far.  No other key takes its level before there are tokens enough
\* behind its own to hand that one out.
StaleKeysPass(s) ==
  \A i \in DOMAIN s.simple_keys :
    Stale(s, i) =>
      /\ s.simple_keys[i].far
      /\ \/ s.token_available /\ s.simple_keys[i].token_number = s.tokens_parsed
         \/ Since(s, i) >= 2 /\ i = Len(s.simple_keys) /\ ~s.simple_key_allowed
         \/ Since(s, i) >= 3

\* Positions are those of the text read so far; a token is only handed out when
\* more are in the queue.
Within(s) ==
  /\ \A i \in DOMAIN s.tokens : s.tokens[i].mark \in 1..s.mark
  /\ \A i \in DOMAIN s.simple_keys :
       /\ s.simple_keys[i].column <= Beyond
       /\ s.simple_keys[i].possible => s.simple_keys[i].mark \in 1..s.mark
       /\ i = 1 /\ s.simple_keys[i].possible => s.simple_keys[i].column <= MaxColumn
  /\ s.column <= Beyond
  /\ s.flow_level <= MaxFlowLevel
  /\ s.mark <= MaxFetches + 1
  /\ ~s.at_end => s.mark <= MaxFetches
  /\ s.token_available => Len(s.tokens) >= 3

All(s) == Append(s.indents, s.indent)

\* The collections are nested as the indents are.
Nesting(s) ==
  /\ Ascending(All(s)) /\ All(s)[1] = -1 /\ s.indent <= MaxColumn
  /\ \A n \in 0..Len(s.tokens) : Depth(s.open, s.tokens, n) >= 0
  /\ Depth(s.open, s.tokens, Len(s.tokens)) = Len(s.indents)

\* At the end of the text no key is waited for and no collection is left open.
AtEnd(s) ==
  /\ Count(Len(s.tokens), s.tokens, "STREAM_END") <= 3
  /\ s.at_end => \A i \in DOMAIN s.simple_keys : ~Valid(s.simple_keys[i])
  /\ \A p \in DOMAIN s.tokens :
       s.tokens[p].typ = "STREAM_END" =>
         s.at_end /\ (InFlow(s) \/ Depth(s.open, s.tokens, p) = 0)
  /\ s.stream_end_produced /\ ~InFlow(s) => s.open = 0

Inv(s) ==
  /\ s \in Scanners
  /\ KeysInOrder(s) /\ IndexLeads(s) /\ KeyInQueue(s) /\ StaleKeysPass(s)
  /\ Within(s) /\ Nesting(s) /\ AtEnd(s)

Keys(s) == KeysInOrder(s) /\ IndexLeads(s) /\ KeyInQueue(s) /\ StaleKeysPass(s)

-----------------------------------------------------------------------------
(* Keys that are left alone                                                  *)

\* The types of what a scanner holds.
LEMMA ScannerTypes ==
  ASSUME NEW s \in Scanners
  PROVE  /\ s.tokens \in Seq(Tokens) /\ Len(s.tokens) \in Nat /\ DOMAIN s.tokens = 1..Len(s.tokens)
         /\ \A i \in DOMAIN s.tokens : s.tokens[i] \in Tokens
         /\ s.simple_keys \in Seq(SimpleKeys) /\ Len(s.simple_keys) \in Nat
         /\ DOMAIN s.simple_keys = 1..Len(s.simple_keys)
         /\ \A i \in DOMAIN s.simple_keys : s.simple_keys[i] \in SimpleKeys
         /\ s.tokens_parsed \in Nat /\ NumberOf(s) \in Nat
         /\ s.simple_keys_by_tok \in Indexes /\ DOMAIN s.simple_keys_by_tok \subseteq Nat
         /\ \A n \in DOMAIN s.simple_keys_by_tok : s.simple_keys_by_tok[n] \in Nat
         /\ s.indents \in Seq(Int) /\ s.indent \in Int /\ s.open \in Int
         /\ s.flow_level \in Nat /\ s.column \in Nat /\ s.mark \in Nat
         /\ s.simple_key_allowed \in BOOLEAN /\ s.token_available \in BOOLEAN
         /\ s.at_end \in BOOLEAN /\ s.stream_end_produced \in BOOLEAN /\ s.error \in BOOLEAN
<1>1. /\ s.tokens \in Seq(Tokens) /\ s.simple_keys \in Seq(SimpleKeys) /\ s.tokens_parsed \in Nat
      /\ s.simple_keys_by_tok \in Indexes
      /\ s.indents \in Seq(Int) /\ s.indent \in Int /\ s.open \in Int
      /\ s.flow_level \in Nat /\ s.column \in Nat /\ s.mark \in Nat
      /\ s.simple_key_allowed \in BOOLEAN /\ s.token_available \in BOOLEAN
      /\ s.at_end \in BOOLEAN /\ s.stream_end_produced \in BOOLEAN /\ s.error \in BOOLEAN
  BY DEF Scanners
<1>2. /\ Len(s.tokens) \in Nat /\ DOMAIN s.tokens = 1..Len(s.tokens)
      /\ Len(s.simple_keys) \in Nat /\ DOMAIN s.simple_keys = 1..Len(s.simple_keys)
  BY <1>1, LenProperties
<1>3. /\ \A i \in DOMAIN s.tokens : s.tokens[i] \in Tokens
      /\ \A i \in DOMAIN s.simple_keys : s.simple_keys[i] \in SimpleKeys
  BY <1>1, <1>2, ElementOfSeq
<1>4. /\ DOMAIN s.simple_keys_by_tok \subseteq Nat
      /\ \A n \in DOMAIN s.simple_keys_by_tok : s.simple_keys_by_tok[n] \in Nat
  BY <1>1 DEF Indexes
<1>5. NumberOf(s) \in Nat
  BY <1>1, <1>2 DEF NumberOf
<1>. QED
  BY <1>1, <1>2, <1>3, <1>4, <1>5

\* The keys that remain are those of s, except that some have become far.
Dimmed(s, r) ==
  /\ Len(r.simple_keys) = Len(s.simple_keys)
  /\ \A i \in DOMAIN s.simple_keys :
       LET old == s.simple_keys[i]
           new == r.simple_keys[i]
       IN /\ new.possible = old.possible /\ new.token_number = old.token_number
          /\ new.mark = old.mark /\ new.column = old.column /\ new.required = old.required
          /\ old.far => new.far
  /\ \A i, j \in DOMAIN s.simple_keys :
       i < j /\ r.simple_keys[j].far /\ r.simple_keys[i].possible => r.simple_keys[i].far

\* The queue becomes longer; where keys start, it is as it was.
Grows(s, r) ==
  /\ Len(r.tokens) >= Len(s.tokens)
  /\ \A i \in DOMAIN s.simple_keys :
       LET p == s.simple_keys[i].token_number - s.tokens_parsed + 1 IN
       s.simple_keys[i].possible /\ p \in 1..Len(s.tokens) => r.tokens[p].mark = s.tokens[p].mark
  /\ r.tokens_parsed = s.tokens_parsed

\* Reading on, and adding tokens, disturbs no key.
LEMMA Onward ==
  ASSUME NEW s \in Scanners, Keys(s), NEW r \in Scanners, Dimmed(s, r), Grows(s, r),
         r.simple_keys_by_tok = s.simple_keys_by_tok, r.flow_level = s.flow_level,
         r.token_available = s.token_available,
         r.simple_key_allowed => s.simple_key_allowed \/ Len(r.tokens) > Len(s.tokens) \/ ~InFlow(s),
         r.mark > 0 => s.mark > 0 \/ Len(r.tokens) > Len(s.tokens)
  PROVE  /\ Keys(r)
         /\ Len(r.tokens) > Len(s.tokens) =>
              \A i \in DOMAIN r.simple_keys : Stale(r, i) /\ ~r.token_available => Since(r, i) >= 3
<1>. DEFINE k == s.simple_keys
            q == r.simple_keys
            x == s.simple_keys_by_tok
            tp == s.tokens_parsed
<1>1. /\ Len(k) \in Nat /\ DOMAIN k = 1..Len(k) /\ DOMAIN q = DOMAIN k
      /\ Len(s.tokens) \in Nat /\ Len(r.tokens) \in Nat
      /\ tp \in Nat /\ r.tokens_parsed = tp
      /\ r.simple_keys_by_tok = x
      /\ DOMAIN x \subseteq Nat /\ Len(q) = Len(k)
      /\ \A i \in DOMAIN k : k[i] \in SimpleKeys /\ q[i] \in SimpleKeys
  BY ScannerTypes DEF Dimmed, Grows
<1>2. NumberOf(s) = tp + Len(s.tokens) /\ NumberOf(r) = tp + Len(r.tokens)
  BY <1>1 DEF NumberOf
<1>3. \A i \in DOMAIN k :
        /\ q[i].possible = k[i].possible /\ q[i].token_number = k[i].token_number
        /\ q[i].mark = k[i].mark /\ (k[i].far => q[i].far)
        /\ k[i].token_number \in Nat /\ k[i].possible \in BOOLEAN /\ k[i].far \in BOOLEAN /\ q[i].far \in BOOLEAN
  BY <1>1 DEF Dimmed, SimpleKeys
<1>4. Len(r.tokens) >= Len(s.tokens)
  BY DEF Grows
<1>a. ASSUME NEW i, i \in DOMAIN q
      PROVE  /\ i \in DOMAIN k /\ i \in Nat
             /\ q[i].possible = k[i].possible /\ q[i].token_number = k[i].token_number
             /\ q[i].mark = k[i].mark /\ (k[i].far => q[i].far)
             /\ k[i].token_number \in Nat
             /\ (Valid(q[i]) => Valid(k[i]))
  <2>1. i \in DOMAIN k /\ i \in Nat
    BY <1>1, <1>a
  <2>2. /\ q[i].possible = k[i].possible /\ q[i].token_number = k[i].token_number
        /\ q[i].mark = k[i].mark /\ (k[i].far => q[i].far)
        /\ k[i].token_number \in Nat
    <3>. HIDE DEF k, q
    <3>. QED
      BY <1>3, <2>1
  <2>3. Valid(q[i]) => Valid(k[i])
    BY <2>2 DEF Valid
  <2>. QED
    BY <2>1, <2>2, <2>3
<1>5. KeysInOrder(r)
  <2>1. Len(q) = r.flow_level + 1
    BY <1>1 DEF Keys, KeysInOrder
  <2>2. ASSUME NEW i \in DOMAIN q, NEW j \in DOMAIN q, i < j
        PROVE  /\ q[i].token_number <= q[j].token_number
               /\ q[j].possible => q[i].token_number < q[j].token_number
               /\ q[j].far /\ q[i].possible => q[i].far
    BY <1>1, <1>3, <2>2 DEF Keys, KeysInOrder, Dimmed
  <2>3. ASSUME NEW i \in DOMAIN q
        PROVE  /\ q[i].token_number <= NumberOf(r)
               /\ r.mark > 0 => q[i].token_number < NumberOf(r)
    <3>1. /\ k[i].token_number <= NumberOf(s)
          /\ s.mark > 0 => k[i].token_number < NumberOf(s)
      BY <1>1 DEF Keys, KeysInOrder
    <3>. QED
      BY <1>1, <1>2, <1>3, <1>4, <3>1, SMTT(40)
  <2>4. \A n \in DOMAIN x : n < NumberOf(r)
    <3>1. \A n \in DOMAIN x : n < NumberOf(s)
      BY DEF Keys, KeysInOrder
    <3>. QED
      BY <1>1, <1>2, <1>4, <3>1
  <2>. QED
    BY <1>1, <2>1, <2>2, <2>3, <2>4 DEF KeysInOrder
<1>6. IndexLeads(r)
  <2>1. \A n : Waiting(r, n) <=> Waiting(s, n)
    BY <1>1 DEF Waiting
  <2>2. ASSUME NEW n \in Nat, Waiting(r, n)
        PROVE  /\ x[n] \in DOMAIN q
               /\ x[n] # 1 => q[x[n]].token_number = n
    <3>1. x[n] \in DOMAIN k /\ (x[n] # 1 => k[x[n]].token_number = n)
      BY <2>1, <2>2 DEF Keys, IndexLeads
    <3>2. x[n] \in DOMAIN q
      BY <1>1, <3>1
    <3>. QED
      BY <1>a, <3>1, <3>2
  <2>3. ASSUME NEW i \in DOMAIN q, q[i].possible, q[i].token_number \in DOMAIN x
        PROVE  x[q[i].token_number] = i
    BY <1>a, <2>3 DEF Keys, IndexLeads
  <2>. QED
    BY <1>1, <2>2, <2>3 DEF IndexLeads
<1>7. KeyInQueue(r)
  <2>. SUFFICES ASSUME NEW i \in DOMAIN q, Valid(q[i]), q[i].token_number \in DOMAIN x
                PROVE  LET n == q[i].token_number IN
                         /\ n >= tp
                         /\ r.token_available => n # tp
                         /\ r.tokens[n - tp + 1].mark = q[i].mark
    BY <1>1 DEF KeyInQueue
  <2>. DEFINE n == k[i].token_number
  <2>1. Valid(k[i]) /\ n \in DOMAIN x /\ q[i].token_number = n /\ i \in DOMAIN k
    BY <1>a
  <2>2. /\ n >= tp
        /\ s.token_available => n # tp
        /\ s.tokens[n - tp + 1].mark = k[i].mark
    BY <2>1 DEF Keys, KeyInQueue
  <2>3. n < NumberOf(s) /\ n \in Nat
    BY <1>1, <2>1 DEF Keys, KeysInOrder
  <2>4. n - tp + 1 \in 1..Len(s.tokens)
    BY <1>1, <1>2, <2>2, <2>3
  <2>5. r.tokens[n - tp + 1].mark = s.tokens[n - tp + 1].mark
    BY <2>1, <2>4 DEF Grows, Valid
  <2>6. q[i].mark = k[i].mark
    BY <1>a
  <2>. QED
    BY <1>1, <2>1, <2>2, <2>5, <2>6
<1>8. ASSUME NEW i \in DOMAIN q, Stale(r, i)
      PROVE  Stale(s, i) /\ i > 1 /\ Since(r, i) = Since(s, i) + (Len(r.tokens) - Len(s.tokens))
             /\ Since(s, i) \in Int /\ q[i].token_number = k[i].token_number
  <2>1. /\ i \in DOMAIN k /\ q[i].possible = k[i].possible /\ q[i].token_number = k[i].token_number
        /\ k[i].token_number \in Nat
    BY <1>a
  <2>2. Stale(s, i) /\ i > 1
    BY <1>1, <1>8, <2>1 DEF Stale, Waiting
  <2>. QED
    <3>. DEFINE a == Len(s.tokens)
                b == Len(r.tokens)
                c == k[i].token_number
    <3>1. Since(s, i) = a - (c - tp) /\ Since(r, i) = b - (c - tp)
      BY <1>1, <2>1 DEF Since
    <3>2. a \in Nat /\ b \in Nat /\ c \in Nat /\ tp \in Nat
      BY <1>1, <2>1
    <3>. HIDE DEF a, b, c, tp
    <3>3. Since(r, i) = Since(s, i) + (b - a) /\ Since(s, i) \in Int
      BY <3>1, <3>2
    <3>. QED
      BY <2>1, <2>2, <3>3 DEF a, b
<1>9. \A i \in DOMAIN q : i > 1 => InFlow(s)
  BY <1>1, ScannerTypes DEF Keys, KeysInOrder, InFlow
<1>10. ASSUME NEW i \in DOMAIN q, Stale(r, i)
       PROVE  /\ q[i].far
              /\ \/ r.token_available /\ q[i].token_number = tp
                 \/ Since(r, i) >= 2 /\ i = Len(q) /\ ~r.simple_key_allowed
                 \/ Since(r, i) >= 3
              /\ Len(r.tokens) > Len(s.tokens) /\ ~r.token_available => Since(r, i) >= 3
  <2>1. /\ k[i].far
        /\ \/ s.token_available /\ k[i].token_number = tp
           \/ Since(s, i) >= 2 /\ i = Len(k) /\ ~s.simple_key_allowed
           \/ Since(s, i) >= 3
    BY <1>1, <1>8, <1>10 DEF Keys, StaleKeysPass
  <2>6. Len(q) = Len(k) /\ Len(r.tokens) \in Nat /\ Len(s.tokens) \in Nat
    BY <1>1
  <2>2. q[i].far
    BY <1>a, <2>1
  <2>3. CASE s.token_available /\ k[i].token_number = tp
    BY <1>8, <1>10, <2>2, <2>3
  <2>4. CASE Since(s, i) >= 2 /\ i = Len(k) /\ ~s.simple_key_allowed
    <3>1. InFlow(s)
      BY <1>8, <1>9, <1>10
    <3>2. Since(s, i) \in Int /\ Since(r, i) = Since(s, i) + (Len(r.tokens) - Len(s.tokens))
      BY <1>8, <1>10
    <3>3. CASE Len(r.tokens) > Len(s.tokens)
      <4>1. Since(r, i) >= 3
        <5>. DEFINE a == Len(s.tokens)
                    b == Len(r.tokens)
                    c == Since(s, i)
                    d == Since(r, i)
        <5>1. a \in Nat /\ b \in Nat /\ c \in Int /\ d = c + (b - a) /\ c >= 2 /\ b > a
          BY <2>6, <2>4, <3>2, <3>3
        <5>. HIDE DEF a, b, c, d
        <5>2. d >= 3
          BY <5>1
        <5>. QED
          BY <5>2 DEF d
      <4>. QED
        BY <2>2, <4>1
    <3>4. CASE Len(r.tokens) = Len(s.tokens)
      BY <1>1, <2>2, <2>4, <3>1, <3>2, <3>4
    <3>. QED
      BY <1>1, <1>4, <3>3, <3>4
  <2>5. CASE Since(s, i) >= 3
    <3>2. Since(s, i) \in Int /\ Since(r, i) = Since(s, i) + (Len(r.tokens) - Len(s.tokens))
      BY <1>8, <1>10
    <3>. QED
      <4>1. Since(r, i) >= 3
        <5>. DEFINE a == Len(s.tokens)
                    b == Len(r.tokens)
                    c == Since(s, i)
                    d == Since(r, i)
        <5>1. a \in Nat /\ b \in Nat /\ c \in Int /\ d = c + (b - a) /\ c >= 3 /\ b >= a
          BY <2>6, <1>4, <2>5, <3>2
        <5>. HIDE DEF a, b, c, d
        <5>2. d >= 3
          BY <5>1
        <5>. QED
          BY <5>2 DEF d
      <4>. QED
        BY <2>2, <4>1
  <2>. QED
    BY <2>1, <2>3, <2>4, <2>5
<1>11. StaleKeysPass(r)
  BY <1>1, <1>10 DEF StaleKeysPass
<1>. QED
  BY <1>5, <1>6, <1>7, <1>10, <1>11 DEF Keys

\* What the invariant says of one key, or of two.
LEMMA KeyFacts ==
  ASSUME NEW s \in Scanners, Keys(s), NEW i \in DOMAIN s.simple_keys
  PROVE  LET key == s.simple_keys[i]
             n == key.token_number
             x == s.simple_keys_by_tok
         IN /\ i \in Nat \ {0} /\ i <= Len(s.simple_keys) /\ (i > 1 => InFlow(s))
            /\ n \in Nat /\ n <= NumberOf(s) /\ (s.mark > 0 => n < NumberOf(s))
            /\ key.possible \in BOOLEAN /\ key.far \in BOOLEAN /\ key.required \in BOOLEAN
            /\ key.mark \in Nat /\ key.column \in Nat
            /\ key.possible /\ n \in DOMAIN x => x[n] = i
            /\ Valid(key) /\ n \in DOMAIN x =>
                 /\ n >= s.tokens_parsed /\ (s.token_available => n # s.tokens_parsed)
                 /\ s.tokens[n - s.tokens_parsed + 1].mark = key.mark
            /\ Stale(s, i) =>
                 /\ key.far
                 /\ \/ s.token_available /\ n = s.tokens_parsed
                    \/ Since(s, i) >= 2 /\ i = Len(s.simple_keys) /\ ~s.simple_key_allowed
                    \/ Since(s, i) >= 3
<1>1. /\ DOMAIN s.simple_keys = 1..Len(s.simple_keys) /\ s.simple_keys[i] \in SimpleKeys
      /\ s.flow_level \in Nat
  BY ScannerTypes
<1>2. i \in Nat \ {0} /\ i <= Len(s.simple_keys) /\ (i > 1 => InFlow(s))
  BY <1>1 DEF Keys, KeysInOrder, InFlow
<1>3. LET key == s.simple_keys[i] IN
      /\ key.token_number \in Nat /\ key.possible \in BOOLEAN /\ key.far \in BOOLEAN
      /\ key.required \in BOOLEAN /\ key.mark \in Nat /\ key.column \in Nat
  BY <1>1 DEF SimpleKeys
<1>. QED
  BY <1>1, <1>2, <1>3 DEF Keys, KeysInOrder, IndexLeads, KeyInQueue, StaleKeysPass

\* Keys are struck off the list, entries off the index.
LEMMA Fewer ==
  ASSUME NEW s \in Scanners, Keys(s), NEW r \in Scanners,
         r.tokens = s.tokens, r.tokens_parsed = s.tokens_parsed, r.flow_level = s.flow_level,
         r.mark = s.mark,
         Len(r.simple_keys) = Len(s.simple_keys),
         \A i \in DOMAIN s.simple_keys :
           /\ r.simple_keys[i].token_number = s.simple_keys[i].token_number
           /\ r.simple_keys[i].mark = s.simple_keys[i].mark
           /\ r.simple_keys[i].far = s.simple_keys[i].far
           /\ r.simple_keys[i].possible => s.simple_keys[i].possible,
         DOMAIN r.simple_keys_by_tok \subseteq DOMAIN s.simple_keys_by_tok,
         \A n \in DOMAIN r.simple_keys_by_tok : r.simple_keys_by_tok[n] = s.simple_keys_by_tok[n],
         StaleKeysPass(r),
         \/ r.token_available = s.token_available
         \/ \A i \in DOMAIN s.simple_keys :
              Valid(r.simple_keys[i])
                /\ r.simple_keys[i].token_number \in DOMAIN r.simple_keys_by_tok
                => r.simple_keys[i].token_number # r.tokens_parsed
  PROVE  Keys(r)
<1>1. /\ DOMAIN r.simple_keys = DOMAIN s.simple_keys /\ NumberOf(r) = NumberOf(s)
      /\ DOMAIN s.simple_keys = 1..Len(s.simple_keys)
  BY ScannerTypes DEF NumberOf
<1>2. ASSUME NEW i, i \in DOMAIN r.simple_keys
      PROVE  /\ i \in DOMAIN s.simple_keys
             /\ r.simple_keys[i].token_number = s.simple_keys[i].token_number
             /\ r.simple_keys[i].mark = s.simple_keys[i].mark
             /\ r.simple_keys[i].far = s.simple_keys[i].far
             /\ (r.simple_keys[i].possible => s.simple_keys[i].possible)
             /\ (Valid(r.simple_keys[i]) => Valid(s.simple_keys[i]))
             /\ Since(r, i) = Since(s, i)
  <2>1. i \in DOMAIN s.simple_keys
    BY <1>1, <1>2
  <2>. QED
    BY <2>1 DEF Valid, Since
<1>3. KeysInOrder(r)
  <2>1. Len(r.simple_keys) = r.flow_level + 1
    BY DEF Keys, KeysInOrder
  <2>2. ASSUME NEW i \in DOMAIN r.simple_keys, NEW j \in DOMAIN r.simple_keys, i < j
        PROVE  /\ r.simple_keys[i].token_number <= r.simple_keys[j].token_number
               /\ r.simple_keys[j].possible =>
                    r.simple_keys[i].token_number < r.simple_keys[j].token_number
               /\ r.simple_keys[j].far /\ r.simple_keys[i].possible => r.simple_keys[i].far
    <3>1. i \in DOMAIN s.simple_keys /\ j \in DOMAIN s.simple_keys
      BY <1>1
    <3>2. /\ s.simple_keys[i].token_number <= s.simple_keys[j].token_number
          /\ s.simple_keys[j].possible =>
               s.simple_keys[i].token_number < s.simple_keys[j].token_number
          /\ s.simple_keys[j].far /\ s.simple_keys[i].possible => s.simple_keys[i].far
      BY <2>2, <3>1 DEF Keys, KeysInOrder
    <3>. QED
      BY <1>2, <3>2
  <2>3. ASSUME NEW i \in DOMAIN r.simple_keys
        PROVE  /\ r.simple_keys[i].token_number <= NumberOf(r)
               /\ r.mark > 0 => r.simple_keys[i].token_number < NumberOf(r)
    BY <1>1, <1>2, KeyFacts
  <2>4. \A n \in DOMAIN r.simple_keys_by_tok : n < NumberOf(r)
    BY <1>1 DEF Keys, KeysInOrder
  <2>. QED
    BY <2>1, <2>2, <2>3, <2>4 DEF KeysInOrder
<1>4. IndexLeads(r)
  <2>1. ASSUME NEW n \in Nat, Waiting(r, n)
        PROVE  /\ r.simple_keys_by_tok[n] \in DOMAIN r.simple_keys
               /\ r.simple_keys_by_tok[n] # 1 =>
                    r.simple_keys[r.simple_keys_by_tok[n]].token_number = n
    <3>1. Waiting(s, n) /\ r.simple_keys_by_tok[n] = s.simple_keys_by_tok[n]
      BY <2>1 DEF Waiting
    <3>2. /\ s.simple_keys_by_tok[n] \in DOMAIN s.simple_keys
          /\ s.simple_keys_by_tok[n] # 1 =>
               s.simple_keys[s.simple_keys_by_tok[n]].token_number = n
      BY <3>1 DEF Keys, IndexLeads
    <3>. QED
      BY <1>1, <1>2, <3>1, <3>2
  <2>2. ASSUME NEW i \in DOMAIN r.simple_keys, r.simple_keys[i].possible,
               r.simple_keys[i].token_number \in DOMAIN r.simple_keys_by_tok
        PROVE  r.simple_keys_by_tok[r.simple_keys[i].token_number] = i
    BY <1>2, <2>2, KeyFacts
  <2>. QED
    BY <2>1, <2>2 DEF IndexLeads
<1>5. KeyInQueue(r)
  <2>. SUFFICES ASSUME NEW i \in DOMAIN r.simple_keys, Valid(r.simple_keys[i]),
                       r.simple_keys[i].token_number \in DOMAIN r.simple_keys_by_tok
                PROVE  LET n == r.simple_keys[i].token_number IN
                         /\ n >= r.tokens_parsed
                         /\ r.token_available => n # r.tokens_parsed
                         /\ r.tokens[n - r.tokens_parsed + 1].mark = r.simple_keys[i].mark
    BY DEF KeyInQueue
  <2>1. i \in DOMAIN s.simple_keys
    BY <1>2
  <2>. QED
    BY <1>2, <2>1, KeyFacts
<1>. QED
  BY <1>3, <1>4, <1>5 DEF Keys

\* There is a key for the block context.
LEMMA LastKey ==
  ASSUME NEW s \in Scanners, Keys(s)
  PROVE  LET n == Len(s.simple_keys) IN
         /\ n \in Nat \ {0} /\ DOMAIN s.simple_keys = 1..n /\ n \in DOMAIN s.simple_keys
         /\ n = s.flow_level + 1 /\ (n > 1 <=> InFlow(s))
         /\ Last(s.simple_keys) = s.simple_keys[n] /\ s.simple_keys[n] \in SimpleKeys
<1>1. /\ DOMAIN s.simple_keys = 1..Len(s.simple_keys) /\ s.flow_level \in Nat
      /\ s.simple_keys \in Seq(SimpleKeys)
      /\ \A i \in DOMAIN s.simple_keys : s.simple_keys[i] \in SimpleKeys
  BY ScannerTypes
<1>2. Len(s.simple_keys) = s.flow_level + 1
  BY DEF Keys, KeysInOrder
<1>. QED
  BY <1>1, <1>2 DEF Last, InFlow

\* An index without one of its entries.
LEMMA UnindexedFacts ==
  ASSUME NEW s \in Scanners, NEW n
  PROVE  /\ Unindexed(s, n) \in Indexes
         /\ DOMAIN Unindexed(s, n) = DOMAIN s.simple_keys_by_tok \ {n}
         /\ \A m \in DOMAIN s.simple_keys_by_tok \ {n} : Unindexed(s, n)[m] = s.simple_keys_by_tok[m]
<1>. DEFINE D == DOMAIN s.simple_keys_by_tok \ {n}
            f == [m \in D |-> s.simple_keys_by_tok[m]]
<1>1. D \subseteq Nat /\ \A m \in D : s.simple_keys_by_tok[m] \in Nat
  BY ScannerTypes
<1>2. f \in [D -> Nat]
  BY <1>1
<1>3. Unindexed(s, n) = f
  BY DEF Unindexed
<1>. QED
  BY <1>1, <1>2, <1>3 DEF Indexes

\* The key of the innermost level is struck off.
LEMMA RemovedFacts ==
  ASSUME NEW s \in Scanners, Keys(s)
  PROVE  LET r == Removed(s)
             n == Len(s.simple_keys)
         IN /\ r \in Scanners
            /\ r = [s EXCEPT !.simple_keys = r.simple_keys,
                             !.simple_keys_by_tok = r.simple_keys_by_tok]
            /\ Len(r.simple_keys) = n
            /\ \A i \in 1..n - 1 : r.simple_keys[i] = s.simple_keys[i]
            /\ r.simple_keys[n] = [s.simple_keys[n] EXCEPT !.possible = FALSE]
            /\ DOMAIN r.simple_keys_by_tok \subseteq DOMAIN s.simple_keys_by_tok
            /\ s.simple_keys[n].possible =>
                 s.simple_keys[n].token_number \notin DOMAIN r.simple_keys_by_tok
            /\ \A m \in DOMAIN r.simple_keys_by_tok :
                 r.simple_keys_by_tok[m] = s.simple_keys_by_tok[m]
<1>. DEFINE n == Len(s.simple_keys)
            k == s.simple_keys
            key == [k[n] EXCEPT !.possible = FALSE]
            q == [k EXCEPT ![n] = key]
            x == Unindexed(s, k[n].token_number)
<1>1. /\ n \in Nat \ {0} /\ n \in 1..n /\ Last(k) = k[n] /\ k[n] \in SimpleKeys /\ k \in Seq(SimpleKeys)
  BY LastKey, ScannerTypes
<1>2. key \in SimpleKeys
  BY <1>1 DEF SimpleKeys
<1>3. /\ q \in Seq(SimpleKeys) /\ Len(q) = n
      /\ \A i \in 1..n : q[i] = IF i = n THEN key ELSE k[i]
  BY <1>1, <1>2, ExceptSeq
<1>4. /\ x \in Indexes /\ DOMAIN x = DOMAIN s.simple_keys_by_tok \ {k[n].token_number}
      /\ \A m \in DOMAIN x : x[m] = s.simple_keys_by_tok[m]
  BY UnindexedFacts
<1>5. CASE ~k[n].possible
  <2>1. Removed(s) = s
    BY <1>1, <1>5 DEF Removed
  <2>2. key = k[n]
    BY <1>1, <1>5 DEF SimpleKeys
  <2>3. s = [s EXCEPT !.simple_keys = s.simple_keys, !.simple_keys_by_tok = s.simple_keys_by_tok]
    BY DEF Scanners
  <2>. QED
    BY <1>1, <1>5, <2>1, <2>2, <2>3
<1>6. CASE k[n].possible
  <2>. DEFINE r == [s EXCEPT !.simple_keys = q, !.simple_keys_by_tok = x]
  <2>1. Removed(s) = r
    BY <1>1, <1>6 DEF Removed, Scanners
  <2>. HIDE DEF q, x, key
  <2>2. r \in Scanners /\ r.simple_keys = q /\ r.simple_keys_by_tok = x
    BY <1>3, <1>4 DEF Scanners
  <2>3. \A i \in 1..n - 1 : q[i] = k[i]
    <3>1. \A i \in 1..n - 1 : i \in 1..n /\ i # n
      BY <1>1
    <3>. QED
      BY <1>3, <3>1
  <2>4. q[n] = key
    BY <1>1, <1>3
  <2>5. Removed(s) = [s EXCEPT !.simple_keys = Removed(s).simple_keys,
                               !.simple_keys_by_tok = Removed(s).simple_keys_by_tok]
    BY <2>1, <2>2
  <2>. QED
    BY <1>3, <1>4, <2>1, <2>2, <2>3, <2>4, <2>5 DEF key
<1>. QED
  BY <1>1, <1>5, <1>6 DEF SimpleKeys

\* The other keys stay.
LEMMA RemovedKeys ==
  ASSUME NEW s \in Scanners, Keys(s)
  PROVE  Keys(Removed(s))
<1>. DEFINE r == Removed(s)
            n == Len(s.simple_keys)
<1>1. /\ r \in Scanners
      /\ r = [s EXCEPT !.simple_keys = r.simple_keys, !.simple_keys_by_tok = r.simple_keys_by_tok]
      /\ Len(r.simple_keys) = n
      /\ \A i \in 1..n - 1 : r.simple_keys[i] = s.simple_keys[i]
      /\ r.simple_keys[n] = [s.simple_keys[n] EXCEPT !.possible = FALSE]
      /\ DOMAIN r.simple_keys_by_tok \subseteq DOMAIN s.simple_keys_by_tok
      /\ s.simple_keys[n].possible =>
           s.simple_keys[n].token_number \notin DOMAIN r.simple_keys_by_tok
      /\ \A m \in DOMAIN r.simple_keys_by_tok :
           r.simple_keys_by_tok[m] = s.simple_keys_by_tok[m]
  BY RemovedFacts
<1>2. /\ n \in Nat \ {0} /\ DOMAIN s.simple_keys = 1..n /\ s.simple_keys[n] \in SimpleKeys
  BY LastKey
<1>. HIDE DEF r
<1>3. /\ r.tokens = s.tokens /\ r.tokens_parsed = s.tokens_parsed /\ r.flow_level = s.flow_level
      /\ r.mark = s.mark /\ r.token_available = s.token_available
      /\ r.simple_key_allowed = s.simple_key_allowed
  BY <1>1 DEF Scanners
<1>4. ASSUME NEW i \in DOMAIN s.simple_keys
      PROVE  /\ r.simple_keys[i].token_number = s.simple_keys[i].token_number
             /\ r.simple_keys[i].mark = s.simple_keys[i].mark
             /\ r.simple_keys[i].far = s.simple_keys[i].far
             /\ r.simple_keys[i].possible => s.simple_keys[i].possible
             /\ Stale(r, i) => Stale(s, i)
  <2>1. CASE i = n
    <3>1. /\ r.simple_keys[i].token_number = s.simple_keys[i].token_number
          /\ r.simple_keys[i].mark = s.simple_keys[i].mark
          /\ r.simple_keys[i].far = s.simple_keys[i].far
          /\ r.simple_keys[i].possible = FALSE
          /\ s.simple_keys[i].possible \in BOOLEAN
      BY <1>1, <1>2, <2>1 DEF SimpleKeys
    <3>. QED
      BY <1>1, <1>3, <2>1, <3>1 DEF Stale, Waiting
  <2>2. CASE i # n
    <3>1. r.simple_keys[i] = s.simple_keys[i]
      BY <1>1, <1>2, <2>2
    <3>. QED
      BY <1>1, <1>3, <3>1 DEF Stale, Waiting
  <2>. QED
    BY <2>1, <2>2
<1>5. StaleKeysPass(r)
  <2>. SUFFICES ASSUME NEW i \in DOMAIN r.simple_keys, Stale(r, i)
                PROVE  /\ r.simple_keys[i].far
                       /\ \/ r.token_available /\ r.simple_keys[i].token_number = r.tokens_parsed
                          \/ Since(r, i) >= 2 /\ i = Len(r.simple_keys) /\ ~r.simple_key_allowed
                          \/ Since(r, i) >= 3
    BY DEF StaleKeysPass
  <2>1. i \in DOMAIN s.simple_keys
    BY <1>1, <1>2, ScannerTypes
  <2>2. Since(r, i) = Since(s, i)
    BY <1>3, <1>4, <2>1 DEF Since
  <2>. QED
    BY <1>1, <1>3, <1>4, <2>1, <2>2, KeyFacts
<1>. QED
  BY <1>1, <1>3, <1>4, <1>5, Fewer DEF r

\* The innermost level is left: no entry of the index outlives it.
LEMMA FlowLeftKeys ==
  ASSUME NEW s \in Scanners, Keys(s), InFlow(s)
  PROVE  LET r == FlowLeft(s) IN
         /\ r \in Scanners /\ Keys(r)
         /\ r = [s EXCEPT !.flow_level = s.flow_level - 1, !.simple_keys = r.simple_keys,
                          !.simple_keys_by_tok = r.simple_keys_by_tok]
         /\ Len(r.simple_keys) = Len(s.simple_keys) - 1
         /\ \A i \in 1..Len(s.simple_keys) - 1 : r.simple_keys[i] = s.simple_keys[i]
<1>. DEFINE n == Len(s.simple_keys)
            k == s.simple_keys
            q == Front(k)
            x == Unindexed(s, k[n].token_number)
            r == [s EXCEPT !.flow_level = s.flow_level - 1, !.simple_keys = q, !.simple_keys_by_tok = x]
<1>1. /\ n \in Nat \ {0} /\ DOMAIN k = 1..n /\ n = s.flow_level + 1 /\ n > 1 /\ Last(k) = k[n]
      /\ k \in Seq(SimpleKeys) /\ s.flow_level \in Nat /\ s.flow_level - 1 \in Nat
  BY LastKey, ScannerTypes
<1>2. /\ q \in Seq(SimpleKeys) /\ Len(q) = n - 1 /\ DOMAIN q = 1..n - 1
      /\ \A i \in 1..n - 1 : q[i] = k[i]
  <2>1. k \in Seq(SimpleKeys) /\ Len(k) > 0
    BY <1>1
  <2>. HIDE DEF k
  <2>2. /\ Front(k) \in Seq(SimpleKeys) /\ Len(Front(k)) = Len(k) - 1
        /\ DOMAIN Front(k) = 1..Len(k) - 1
        /\ \A i \in 1..Len(k) - 1 : Front(k)[i] = k[i]
    BY <2>1, FrontFacts
  <2>. QED
    BY <2>2 DEF k
<1>3. /\ x \in Indexes /\ DOMAIN x = DOMAIN s.simple_keys_by_tok \ {k[n].token_number}
      /\ \A m \in DOMAIN x : x[m] = s.simple_keys_by_tok[m]
  BY UnindexedFacts
<1>4. FlowLeft(s) = r
  BY <1>1 DEF FlowLeft, Scanners
<1>. HIDE DEF q, x, n
<1>5. /\ r \in Scanners /\ r.simple_keys = q /\ r.simple_keys_by_tok = x
      /\ r.flow_level = s.flow_level - 1
      /\ r.tokens = s.tokens /\ r.tokens_parsed = s.tokens_parsed /\ r.mark = s.mark
      /\ r.token_available = s.token_available /\ r.simple_key_allowed = s.simple_key_allowed
  BY <1>1, <1>2, <1>3 DEF Scanners
<1>. HIDE DEF r
<1>6. NumberOf(r) = NumberOf(s)
  BY <1>5 DEF NumberOf
<1>7. ASSUME NEW i \in 1..n - 1
      PROVE  /\ i \in DOMAIN s.simple_keys /\ r.simple_keys[i] = s.simple_keys[i]
             /\ Since(r, i) = Since(s, i) /\ i # n /\ i \in DOMAIN r.simple_keys
  <2>1. i \in DOMAIN k /\ i # n
    BY <1>1
  <2>2. r.simple_keys[i] = s.simple_keys[i]
    BY <1>2, <1>5
  <2>. QED
    BY <1>2, <1>5, <2>1, <2>2 DEF Since
<1>8. KeysInOrder(r)
  <2>1. Len(r.simple_keys) = r.flow_level + 1
    BY <1>1, <1>2, <1>5
  <2>2. ASSUME NEW i \in DOMAIN r.simple_keys, NEW j \in DOMAIN r.simple_keys, i < j
        PROVE  /\ r.simple_keys[i].token_number <= r.simple_keys[j].token_number
               /\ r.simple_keys[j].possible =>
                    r.simple_keys[i].token_number < r.simple_keys[j].token_number
               /\ r.simple_keys[j].far /\ r.simple_keys[i].possible => r.simple_keys[i].far
    <3>1. i \in 1..n - 1 /\ j \in 1..n - 1
      BY <1>2, <1>5
    <3>. QED
      BY <1>7, <2>2, <3>1 DEF Keys, KeysInOrder
  <2>3. ASSUME NEW i \in DOMAIN r.simple_keys
        PROVE  /\ r.simple_keys[i].token_number <= NumberOf(r)
               /\ r.mark > 0 => r.simple_keys[i].token_number < NumberOf(r)
    <3>1. i \in 1..n - 1
      BY <1>2, <1>5
    <3>. QED
      BY <1>5, <1>6, <1>7, <3>1, KeyFacts
  <2>4. \A m \in DOMAIN r.simple_keys_by_tok : m < NumberOf(r)
    BY <1>3, <1>5, <1>6 DEF Keys, KeysInOrder
  <2>. QED
    BY <2>1, <2>2, <2>3, <2>4 DEF KeysInOrder
<1>9. IndexLeads(r)
  <2>1. ASSUME NEW m \in Nat, Waiting(r, m)
        PROVE  /\ r.simple_keys_by_tok[m] \in DOMAIN r.simple_keys
               /\ r.simple_keys_by_tok[m] # 1 =>
                    r.simple_keys[r.simple_keys_by_tok[m]].token_number = m
    <3>. DEFINE j == s.simple_keys_by_tok[m]
    <3>1. Waiting(s, m) /\ r.simple_keys_by_tok[m] = j /\ m # k[n].token_number
      BY <1>3, <1>5, <2>1 DEF Waiting
    <3>2. j \in DOMAIN s.simple_keys /\ (j # 1 => s.simple_keys[j].token_number = m)
      BY <3>1 DEF Keys, IndexLeads
    <3>3. j # n
      BY <1>1, <3>1, <3>2
    <3>. HIDE DEF j
    <3>4. j \in 1..n - 1
      BY <1>1, <3>2, <3>3
    <3>. QED
      BY <1>7, <3>1, <3>2, <3>4
  <2>2. ASSUME NEW i \in DOMAIN r.simple_keys, r.simple_keys[i].possible,
               r.simple_keys[i].token_number \in DOMAIN r.simple_keys_by_tok
        PROVE  r.simple_keys_by_tok[r.simple_keys[i].token_number] = i
    <3>1. i \in 1..n - 1
      BY <1>2, <1>5
    <3>2. s.simple_keys_by_tok[s.simple_keys[i].token_number] = i
      BY <1>3, <1>5, <1>7, <2>2, <3>1, KeyFacts
    <3>. QED
      BY <1>3, <1>5, <1>7, <2>2, <3>1, <3>2
  <2>. QED
    BY <2>1, <2>2 DEF IndexLeads
<1>10. KeyInQueue(r)
  <2>. SUFFICES ASSUME NEW i \in DOMAIN r.simple_keys, Valid(r.simple_keys[i]),
                       r.simple_keys[i].token_number \in DOMAIN r.simple_keys_by_tok
                PROVE  LET m == r.simple_keys[i].token_number IN
                         /\ m >= r.tokens_parsed
                         /\ r.token_available => m # r.tokens_parsed
                         /\ r.tokens[m - r.tokens_parsed + 1].mark = r.simple_keys[i].mark
    BY DEF KeyInQueue
  <2>1. i \in 1..n - 1
    BY <1>2, <1>5
  <2>2. s.simple_keys[i].token_number \in DOMAIN s.simple_keys_by_tok /\ Valid(s.simple_keys[i])
    BY <1>3, <1>5, <1>7, <2>1
  <2>. QED
    BY <1>5, <1>7, <2>1, <2>2, KeyFacts, SMTT(40)
<1>11. StaleKeysPass(r)
  <2>. SUFFICES ASSUME NEW i \in DOMAIN r.simple_keys, Stale(r, i)
                PROVE  /\ r.simple_keys[i].far
                       /\ \/ r.token_available /\ r.simple_keys[i].token_number = r.tokens_parsed
                          \/ Since(r, i) >= 2 /\ i = Len(r.simple_keys) /\ ~r.simple_key_allowed
                          \/ Since(r, i) >= 3
    BY DEF StaleKeysPass
  <2>1. i \in 1..n - 1
    BY <1>2, <1>5
  <2>2. Stale(s, i)
    BY <1>3, <1>5, <1>7, <2>1 DEF Stale, Waiting
  <2>. QED
    BY <1>5, <1>7, <2>1, <2>2, KeyFacts DEF n
<1>12. Keys(r)
  BY <1>8, <1>9, <1>10, <1>11 DEF Keys
<1>13. r = [s EXCEPT !.flow_level = s.flow_level - 1, !.simple_keys = r.simple_keys,
                     !.simple_keys_by_tok = r.simple_keys_by_tok]
  BY <1>5 DEF r
<1>. QED
  BY <1>2, <1>4, <1>5, <1>7, <1>12, <1>13 DEF n

\* The token that comes next may start a simple key.
LEMMA SavedFacts ==
  ASSUME NEW s \in Scanners, Keys(s), s.simple_key_allowed
  PROVE  LET r == Saved(s)
             n == Len(s.simple_keys)
             x == Removed(s).simple_keys_by_tok
         IN /\ r \in Scanners
            /\ r = [s EXCEPT !.simple_keys = r.simple_keys,
                             !.simple_keys_by_tok = r.simple_keys_by_tok]
            /\ Len(r.simple_keys) = n
            /\ \A i \in 1..n - 1 : r.simple_keys[i] = s.simple_keys[i]
            /\ r.simple_keys[n] = Key(TRUE, ~InFlow(s) /\ s.indent = s.column, NumberOf(s), s.column, s.mark)
            /\ DOMAIN r.simple_keys_by_tok = DOMAIN x \cup {NumberOf(s)}
            /\ \A m \in DOMAIN x \cup {NumberOf(s)} :
                 r.simple_keys_by_tok[m] = IF m = NumberOf(s) THEN n ELSE x[m]
<1>. DEFINE n == Len(s.simple_keys)
            key == Key(TRUE, ~InFlow(s) /\ s.indent = s.column, NumberOf(s), s.column, s.mark)
            R == Removed(s)
            k == R.simple_keys
            x == R.simple_keys_by_tok
            D == DOMAIN x \cup {NumberOf(s)}
            y == [m \in D |-> IF m = NumberOf(s) THEN n ELSE x[m]]
            q == [k EXCEPT ![n] = key]
            r == [s EXCEPT !.simple_keys = q, !.simple_keys_by_tok = y]
<1>1. /\ R \in Scanners
      /\ R = [s EXCEPT !.simple_keys = k, !.simple_keys_by_tok = x]
      /\ Len(k) = n
      /\ \A i \in 1..n - 1 : k[i] = s.simple_keys[i]
  BY RemovedFacts
<1>2. n \in Nat \ {0} /\ NumberOf(s) \in Nat /\ s.column \in Nat /\ s.mark \in Nat
  BY LastKey, ScannerTypes
<1>3. key \in SimpleKeys
  <2>1. (~InFlow(s) /\ s.indent = s.column) \in BOOLEAN
    OBVIOUS
  <2>. QED
    BY <1>2, <2>1 DEF SimpleKeys, Key
<1>4. Saved(s) = r
  <2>1. Saved(s) = [R EXCEPT !.simple_keys = [@ EXCEPT ![Len(s.simple_keys)] = key], !.simple_keys_by_tok = y]
    BY DEF Saved
  <2>. HIDE DEF key, y, n, R
  <2>2. [R EXCEPT !.simple_keys = [@ EXCEPT ![Len(s.simple_keys)] = key], !.simple_keys_by_tok = y]
          = [R EXCEPT !.simple_keys = q, !.simple_keys_by_tok = y]
    BY <1>1 DEF Scanners, n
  <2>. HIDE DEF q
  <2>3. [R EXCEPT !.simple_keys = q, !.simple_keys_by_tok = y] = r
    <3>. HIDE DEF k, x
    <3>. QED
      BY <1>1 DEF Scanners
  <2>. QED
    BY <2>1, <2>2, <2>3
<1>. HIDE DEF key, R, r
<1>5. x \in Indexes /\ DOMAIN x \subseteq Nat /\ k \in Seq(SimpleKeys)
      /\ \A m \in DOMAIN x : x[m] \in Nat
  BY <1>1, ScannerTypes
<1>6. y \in Indexes /\ DOMAIN y = D
  <2>1. D \subseteq Nat
    BY <1>2, <1>5
  <2>2. y \in [D -> Nat]
    BY <1>2, <1>5
  <2>. QED
    BY <2>1, <2>2 DEF Indexes
<1>7. /\ q \in Seq(SimpleKeys) /\ Len(q) = n
      /\ \A i \in 1..n : q[i] = IF i = n THEN key ELSE k[i]
  <2>1. k \in Seq(SimpleKeys) /\ n \in 1..Len(k) /\ Len(k) = n
    BY <1>1, <1>2, <1>5
  <2>. HIDE DEF k, n
  <2>. QED
    BY <1>3, <2>1, ExceptSeq
<1>8. \A m \in D : y[m] = IF m = NumberOf(s) THEN n ELSE x[m]
  OBVIOUS
<1>9. r \in Scanners /\ r.simple_keys = q /\ r.simple_keys_by_tok = y
  <2>. HIDE DEF q, y
  <2>. QED
    BY <1>6, <1>7 DEF r, Scanners
<1>10. \A i \in 1..n - 1 : q[i] = s.simple_keys[i]
  <2>1. \A i \in 1..n - 1 : i \in 1..n /\ i # n
    BY <1>2
  <2>. HIDE DEF q, k, n
  <2>. QED
    BY <1>1, <1>7, <2>1
<1>11. q[n] = key
  BY <1>2, <1>7
<1>12. r = [s EXCEPT !.simple_keys = r.simple_keys, !.simple_keys_by_tok = r.simple_keys_by_tok]
  BY <1>9 DEF r
<1>. HIDE DEF q, y
<1>. QED
  BY <1>4, <1>6, <1>7, <1>8, <1>9, <1>10, <1>11, <1>12 DEF key, R

\* It takes the level of a key that the queue waits for no more.
LEMMA SavedKeys ==
  ASSUME NEW s \in Scanners, Keys(s), s.simple_key_allowed, s.mark > 0, ~s.token_available,
         \A i \in DOMAIN s.simple_keys : ~Stale(s, i),
         NEW r \in Scanners, NEW token \in Tokens, token.mark = s.mark,
         r.simple_keys = Saved(s).simple_keys,
         r.simple_keys_by_tok = Saved(s).simple_keys_by_tok,
         r.tokens = Append(s.tokens, token),
         r.tokens_parsed = s.tokens_parsed, r.flow_level = s.flow_level,
         r.token_available = s.token_available
  PROVE  /\ Keys(r)
         /\ \A i \in DOMAIN r.simple_keys : ~Stale(r, i)
<1>. DEFINE n == Len(s.simple_keys)
            x == Removed(s).simple_keys_by_tok
            N == NumberOf(s)
            y == r.simple_keys_by_tok
<1>1. /\ Len(r.simple_keys) = n
      /\ \A i \in 1..n - 1 : r.simple_keys[i] = s.simple_keys[i]
      /\ r.simple_keys[n] = Key(TRUE, ~InFlow(s) /\ s.indent = s.column, N, s.column, s.mark)
      /\ DOMAIN y = DOMAIN x \cup {N}
      /\ \A m \in DOMAIN x \cup {N} : y[m] = IF m = N THEN n ELSE x[m]
  <2>. DEFINE a == Saved(s).simple_keys
              b == Saved(s).simple_keys_by_tok
  <2>1. /\ Len(a) = n
        /\ \A i \in 1..n - 1 : a[i] = s.simple_keys[i]
        /\ a[n] = Key(TRUE, ~InFlow(s) /\ s.indent = s.column, N, s.column, s.mark)
        /\ DOMAIN b = DOMAIN x \cup {N}
        /\ \A m \in DOMAIN x \cup {N} : b[m] = IF m = N THEN n ELSE x[m]
    BY SavedFacts
  <2>2. a = r.simple_keys /\ b = y
    OBVIOUS
  <2>. HIDE DEF a, b, y, x, N, n
  <2>. QED
    BY <2>1, <2>2
<1>2. /\ DOMAIN x \subseteq DOMAIN s.simple_keys_by_tok
      /\ \A m \in DOMAIN x : x[m] = s.simple_keys_by_tok[m]
      /\ s.simple_keys[n].possible => s.simple_keys[n].token_number \notin DOMAIN x
  BY RemovedFacts
<1>3. /\ n \in Nat \ {0} /\ DOMAIN s.simple_keys = 1..n /\ n = s.flow_level + 1
      /\ DOMAIN r.simple_keys = 1..n
  BY <1>1, LastKey, ScannerTypes
<1>4. /\ N = s.tokens_parsed + Len(s.tokens) /\ N \in Nat /\ s.tokens_parsed \in Nat
      /\ Len(s.tokens) \in Nat /\ Len(r.tokens) = Len(s.tokens) + 1
      /\ NumberOf(r) = N + 1
      /\ r.tokens[Len(s.tokens) + 1] = token
      /\ \A i \in 1..Len(s.tokens) : r.tokens[i] = s.tokens[i]
  <2>1. s.tokens \in Seq(Tokens) /\ s.tokens_parsed \in Nat
    BY ScannerTypes
  <2>2. /\ Len(s.tokens) \in Nat /\ Len(r.tokens) = Len(s.tokens) + 1
        /\ r.tokens[Len(s.tokens) + 1] = token
        /\ \A i \in 1..Len(s.tokens) : r.tokens[i] = s.tokens[i]
    BY <2>1, AppendFacts
  <2>3. N = s.tokens_parsed + Len(s.tokens) /\ NumberOf(r) = s.tokens_parsed + Len(r.tokens)
    BY DEF NumberOf
  <2>. HIDE DEF N
  <2>4. N \in Nat /\ NumberOf(r) = N + 1
    BY <2>1, <2>2, <2>3
  <2>. QED
    BY <2>1, <2>2, <2>3, <2>4
<1>5. ASSUME NEW i \in 1..n - 1
      PROVE  /\ i \in DOMAIN s.simple_keys /\ r.simple_keys[i] = s.simple_keys[i] /\ i # n
             /\ s.simple_keys[i].token_number < N /\ s.simple_keys[i].token_number \in Nat
  <2>1. i \in DOMAIN s.simple_keys /\ r.simple_keys[i] = s.simple_keys[i] /\ i # n
    BY <1>1, <1>3
  <2>. QED
    BY <2>1, KeyFacts
<1>6. /\ r.simple_keys[n].possible = TRUE /\ r.simple_keys[n].token_number = N
      /\ r.simple_keys[n].mark = s.mark /\ r.simple_keys[n].far = FALSE
  BY <1>1 DEF Key
<1>7. \A m \in DOMAIN x : m < N /\ m \in Nat
  <2>1. \A m \in DOMAIN s.simple_keys_by_tok : m < N /\ m \in Nat
    BY ScannerTypes DEF Keys, KeysInOrder
  <2>. QED
    BY <1>2, <2>1
<1>8. \A i \in 1..n : i = n \/ i \in 1..n - 1
  BY <1>3
<1>. HIDE DEF x, N, y, n
<1>9. KeysInOrder(r)
  <2>1. Len(r.simple_keys) = r.flow_level + 1
    BY <1>1, <1>3
  <2>2. ASSUME NEW i \in DOMAIN r.simple_keys, NEW j \in DOMAIN r.simple_keys, i < j
        PROVE  /\ r.simple_keys[i].token_number <= r.simple_keys[j].token_number
               /\ r.simple_keys[j].possible =>
                    r.simple_keys[i].token_number < r.simple_keys[j].token_number
               /\ r.simple_keys[j].far /\ r.simple_keys[i].possible => r.simple_keys[i].far
    <3>1. i \in 1..n - 1
      BY <1>3, <2>2
    <3>2. CASE j = n
      BY <1>4, <1>5, <1>6, <3>1, <3>2
    <3>3. CASE j \in 1..n - 1
      BY <1>5, <2>2, <3>1, <3>3 DEF Keys, KeysInOrder
    <3>. QED
      BY <1>3, <1>8, <3>2, <3>3
  <2>3. ASSUME NEW i \in DOMAIN r.simple_keys
        PROVE  r.simple_keys[i].token_number < NumberOf(r)
               /\ r.simple_keys[i].token_number <= NumberOf(r)
    <3>1. CASE i = n
      BY <1>4, <1>6, <3>1
    <3>2. CASE i \in 1..n - 1
      BY <1>4, <1>5, <3>2
    <3>. QED
      BY <1>3, <1>8, <3>1, <3>2
  <2>4. \A m \in DOMAIN y : m < NumberOf(r)
    BY <1>1, <1>4, <1>7
  <2>. QED
    BY <2>1, <2>2, <2>3, <2>4 DEF KeysInOrder, y
<1>10. IndexLeads(r)
  <2>1. ASSUME NEW m \in Nat, Waiting(r, m)
        PROVE  y[m] \in DOMAIN r.simple_keys /\ (y[m] # 1 => r.simple_keys[y[m]].token_number = m)
    <3>0. m \in DOMAIN y /\ m >= s.tokens_parsed
      BY <2>1 DEF Waiting, y
    <3>1. CASE m = N
      <4>1. y[N] = n /\ n \in 1..n
        BY <1>1, <1>3
      <4>. QED
        BY <1>3, <1>6, <3>1, <4>1
    <3>2. CASE m # N
      <4>. DEFINE j == s.simple_keys_by_tok[m]
      <4>1. m \in DOMAIN x /\ y[m] = j /\ Waiting(s, m)
        BY <1>1, <1>2, <3>0, <3>2 DEF Waiting
      <4>2. j \in DOMAIN s.simple_keys /\ (j # 1 => s.simple_keys[j].token_number = m)
        BY <4>1 DEF Keys, IndexLeads
      <4>3. CASE j \in 1..n - 1
        BY <1>3, <1>5, <4>1, <4>2, <4>3
      <4>4. CASE j = n
        <5>1. n = 1
          <6>1. SUFFICES ASSUME n # 1 PROVE FALSE
            OBVIOUS
          <6>2. s.simple_keys[n].token_number = m /\ n > 1 /\ n \in DOMAIN s.simple_keys
            BY <1>3, <4>2, <4>4, <6>1
          <6>3. ~s.simple_keys[n].possible
            BY <1>2, <4>1, <6>2
          <6>4. Stale(s, n)
            BY <4>1, <4>4, <6>2, <6>3 DEF Stale
          <6>. QED
            BY <6>2, <6>4
        <5>. QED
          BY <1>3, <4>1, <4>4, <5>1
      <4>. QED
        BY <1>3, <1>8, <4>2, <4>3, <4>4
    <3>. QED
      BY <3>1, <3>2
  <2>2. ASSUME NEW i \in DOMAIN r.simple_keys, r.simple_keys[i].possible,
               r.simple_keys[i].token_number \in DOMAIN y
        PROVE  y[r.simple_keys[i].token_number] = i
    <3>1. CASE i = n
      BY <1>1, <1>6, <3>1
    <3>2. CASE i \in 1..n - 1
      <4>. DEFINE m == s.simple_keys[i].token_number
      <4>1. r.simple_keys[i] = s.simple_keys[i] /\ m # N /\ i \in DOMAIN s.simple_keys
        BY <1>4, <1>5, <3>2
      <4>2. m \in DOMAIN x /\ y[m] = s.simple_keys_by_tok[m] /\ m \in DOMAIN s.simple_keys_by_tok
        BY <1>1, <1>2, <2>2, <4>1
      <4>. QED
        BY <2>2, <4>1, <4>2, KeyFacts
    <3>. QED
      BY <1>3, <1>8, <3>1, <3>2
  <2>. QED
    BY <2>1, <2>2 DEF IndexLeads, y
<1>11. KeyInQueue(r)
  <2>. SUFFICES ASSUME NEW i \in DOMAIN r.simple_keys, Valid(r.simple_keys[i]),
                       r.simple_keys[i].token_number \in DOMAIN y
                PROVE  LET m == r.simple_keys[i].token_number IN
                         /\ m >= s.tokens_parsed
                         /\ r.tokens[m - s.tokens_parsed + 1].mark = r.simple_keys[i].mark
    BY DEF KeyInQueue, y
  <2>1. CASE i = n
    <3>1. N - s.tokens_parsed + 1 = Len(s.tokens) + 1 /\ N >= s.tokens_parsed
      BY <1>4
    <3>2. r.tokens[N - s.tokens_parsed + 1] = token
      BY <1>4, <3>1
    <3>. QED
      BY <1>6, <2>1, <3>1, <3>2
  <2>2. CASE i \in 1..n - 1
    <3>. DEFINE m == s.simple_keys[i].token_number
                p == m - s.tokens_parsed + 1
    <3>1. /\ r.simple_keys[i] = s.simple_keys[i] /\ m < N /\ m \in Nat /\ i \in DOMAIN s.simple_keys
      BY <1>5, <2>2
    <3>2. m \in DOMAIN s.simple_keys_by_tok
      BY <1>1, <1>2, <1>4, <3>1
    <3>3. m >= s.tokens_parsed /\ s.tokens[p].mark = s.simple_keys[i].mark
      BY <3>1, <3>2, KeyFacts
    <3>4. p \in 1..Len(s.tokens)
      BY <1>4, <3>1, <3>3
    <3>. HIDE DEF p
    <3>5. r.tokens[p] = s.tokens[p]
      BY <1>4, <3>4
    <3>. QED
      BY <3>1, <3>3, <3>5 DEF p
  <2>. QED
    BY <1>3, <1>8, <2>1, <2>2
<1>12. ASSUME NEW i \in DOMAIN r.simple_keys
       PROVE  ~Stale(r, i)
  <2>1. CASE i = n
    BY <1>6, <2>1 DEF Stale
  <2>2. CASE i \in 1..n - 1
    <3>. DEFINE m == s.simple_keys[i].token_number
    <3>1. r.simple_keys[i] = s.simple_keys[i] /\ m # N /\ i \in DOMAIN s.simple_keys
      BY <1>4, <1>5, <2>2
    <3>2. Stale(r, i) => Stale(s, i)
      <4>. SUFFICES ASSUME Stale(r, i) PROVE Stale(s, i)
        OBVIOUS
      <4>1. /\ i > 1 /\ ~s.simple_keys[i].possible /\ m \in DOMAIN y /\ m >= s.tokens_parsed /\ y[m] = i
        BY <3>1 DEF Stale, Waiting, y
      <4>2. m \in DOMAIN s.simple_keys_by_tok /\ s.simple_keys_by_tok[m] = i
        BY <1>1, <1>2, <3>1, <4>1
      <4>. QED
        BY <3>1, <4>1, <4>2 DEF Stale, Waiting
    <3>. QED
      BY <3>1, <3>2
  <2>. QED
    BY <1>3, <1>8, <2>1, <2>2
<1>13. StaleKeysPass(r)
  BY <1>12 DEF StaleKeysPass
<1>. QED
  BY <1>9, <1>10, <1>11, <1>12, <1>13 DEF Keys

\* The keys are those of s and one on top that is not possible yet; only tokens
\* behind a stale key keep it from being confused with the new level's.
LEMMA FlowEnteredKeys ==
  ASSUME NEW s \in Scanners, Keys(s), s.mark > 0, ~s.token_available,
         \A i \in DOMAIN s.simple_keys : Stale(s, i) => Since(s, i) >= 3,
         NEW r \in Scanners, NEW key \in SimpleKeys,
         ~key.possible, ~key.far, key.token_number = NumberOf(s) - 1,
         r.simple_keys = Append(s.simple_keys, key), r.flow_level = s.flow_level + 1,
         r.simple_keys_by_tok = s.simple_keys_by_tok, r.mark = s.mark,
         r.tokens = s.tokens, r.tokens_parsed = s.tokens_parsed,
         r.token_available = s.token_available
  PROVE  Keys(r)
<1>. DEFINE n == Len(s.simple_keys)
            x == s.simple_keys_by_tok
            N == NumberOf(s)
<1>1. /\ n \in Nat \ {0} /\ DOMAIN s.simple_keys = 1..n /\ n = s.flow_level + 1
      /\ s.simple_keys \in Seq(SimpleKeys)
  BY LastKey, ScannerTypes
<1>2. /\ Len(r.simple_keys) = n + 1 /\ DOMAIN r.simple_keys = 1..n + 1
      /\ r.simple_keys[n + 1] = key
      /\ \A i \in 1..n : r.simple_keys[i] = s.simple_keys[i]
  <2>. DEFINE k == s.simple_keys
              q == r.simple_keys
  <2>1. k \in Seq(SimpleKeys) /\ q = Append(k, key) /\ n = Len(k)
    BY <1>1
  <2>. HIDE DEF k, q, n
  <2>2. /\ Len(q) = n + 1 /\ DOMAIN q = 1..n + 1 /\ q[n + 1] = key
        /\ \A i \in 1..n : q[i] = k[i]
    BY <2>1, AppendFacts
  <2>. QED
    BY <2>2 DEF k, q
<1>3. N \in Nat /\ NumberOf(r) = N
  BY ScannerTypes DEF NumberOf
<1>4. ASSUME NEW i \in 1..n
      PROVE  /\ i \in DOMAIN s.simple_keys /\ r.simple_keys[i] = s.simple_keys[i] /\ i # n + 1
             /\ s.simple_keys[i].token_number <= N - 1 /\ s.simple_keys[i].token_number < N
             /\ Since(r, i) = Since(s, i)
  <2>1. i \in DOMAIN s.simple_keys /\ r.simple_keys[i] = s.simple_keys[i] /\ i # n + 1
    BY <1>1, <1>2
  <2>2. s.simple_keys[i].token_number < N /\ s.simple_keys[i].token_number \in Nat
    BY <2>1, KeyFacts
  <2>. QED
    BY <1>3, <2>1, <2>2 DEF Since
<1>5. key.possible = FALSE /\ key.far = FALSE /\ key.token_number = N - 1
  BY DEF SimpleKeys
<1>6. \A i \in 1..n + 1 : i = n + 1 \/ i \in 1..n
  BY <1>1
<1>. HIDE DEF N, n, x
<1>7. KeysInOrder(r)
  <2>1. Len(r.simple_keys) = r.flow_level + 1
    BY <1>1, <1>2
  <2>2. ASSUME NEW i \in DOMAIN r.simple_keys, NEW j \in DOMAIN r.simple_keys, i < j
        PROVE  /\ r.simple_keys[i].token_number <= r.simple_keys[j].token_number
               /\ r.simple_keys[j].possible =>
                    r.simple_keys[i].token_number < r.simple_keys[j].token_number
               /\ r.simple_keys[j].far /\ r.simple_keys[i].possible => r.simple_keys[i].far
    <3>1. i \in 1..n
      BY <1>1, <1>2, <2>2
    <3>2. CASE j = n + 1
      BY <1>2, <1>4, <1>5, <3>1, <3>2
    <3>3. CASE j \in 1..n
      BY <1>4, <2>2, <3>1, <3>3 DEF Keys, KeysInOrder
    <3>. QED
      BY <1>2, <1>6, <3>2, <3>3
  <2>3. ASSUME NEW i \in DOMAIN r.simple_keys
        PROVE  r.simple_keys[i].token_number < N /\ r.simple_keys[i].token_number <= N
    <3>1. CASE i = n + 1
      BY <1>2, <1>3, <1>5, <3>1
    <3>2. CASE i \in 1..n
      <4>1. s.simple_keys[i].token_number \in Nat
        BY <1>4, <3>2, KeyFacts
      <4>. QED
        BY <1>3, <1>4, <3>2, <4>1
    <3>. QED
      BY <1>2, <1>6, <3>1, <3>2
  <2>4. \A m \in DOMAIN r.simple_keys_by_tok : m < N
    BY DEF Keys, KeysInOrder, N
  <2>. QED
    BY <1>3, <2>1, <2>2, <2>3, <2>4 DEF KeysInOrder
<1>8. \A m \in Nat : Waiting(r, m) => Waiting(s, m) /\ x[m] \in 1..n
  BY <1>1 DEF Keys, IndexLeads, Waiting, x
<1>9. IndexLeads(r)
  <2>1. ASSUME NEW m \in Nat, Waiting(r, m)
        PROVE  x[m] \in DOMAIN r.simple_keys /\ (x[m] # 1 => r.simple_keys[x[m]].token_number = m)
    <3>1. Waiting(s, m) /\ x[m] \in 1..n
      BY <1>8, <2>1
    <3>2. x[m] # 1 => s.simple_keys[x[m]].token_number = m
      BY <3>1 DEF Keys, IndexLeads, x
    <3>. QED
      BY <1>1, <1>2, <1>4, <3>1, <3>2
  <2>2. ASSUME NEW i \in DOMAIN r.simple_keys, r.simple_keys[i].possible,
               r.simple_keys[i].token_number \in DOMAIN x
        PROVE  x[r.simple_keys[i].token_number] = i
    <3>1. i \in 1..n
      BY <1>2, <1>5, <1>6, <2>2
    <3>. QED
      BY <1>4, <2>2, <3>1, KeyFacts DEF x
  <2>. QED
    BY <2>1, <2>2 DEF IndexLeads, x
<1>10. KeyInQueue(r)
  <2>. SUFFICES ASSUME NEW i \in DOMAIN r.simple_keys, Valid(r.simple_keys[i]),
                       r.simple_keys[i].token_number \in DOMAIN r.simple_keys_by_tok
                PROVE  LET m == r.simple_keys[i].token_number IN
                         /\ m >= r.tokens_parsed
                         /\ r.token_available => m # r.tokens_parsed
                         /\ r.tokens[m - r.tokens_parsed + 1].mark = r.simple_keys[i].mark
    BY DEF KeyInQueue
  <2>1. i \in 1..n
    BY <1>2, <1>5, <1>6 DEF Valid
  <2>2. i \in DOMAIN s.simple_keys /\ r.simple_keys[i] = s.simple_keys[i]
    BY <1>4, <2>1
  <2>. QED
    BY <2>2, KeyFacts
<1>11. StaleKeysPass(r)
  <2>. SUFFICES ASSUME NEW i \in DOMAIN r.simple_keys, Stale(r, i)
                PROVE  r.simple_keys[i].far /\ Since(r, i) >= 3
    BY DEF StaleKeysPass
  <2>1. CASE i = n + 1
    <3>1. Waiting(r, N - 1) /\ x[N - 1] = n + 1 /\ N - 1 \in Nat
      BY <1>2, <1>5, <2>1, ScannerTypes DEF Stale, Waiting, x
    <3>2. n + 1 \in 1..n
      BY <1>8, <3>1
    <3>. QED
      BY <1>1, <3>2
  <2>2. CASE i \in 1..n
    <3>1. Stale(s, i)
      BY <1>4, <2>2 DEF Stale, Waiting
    <3>2. i \in DOMAIN s.simple_keys
      BY <1>4, <2>2
    <3>. QED
      BY <1>4, <2>2, <3>1, <3>2, KeyFacts
  <2>. QED
    BY <1>2, <1>6, <2>1, <2>2
<1>. QED
  BY <1>7, <1>9, <1>10, <1>11 DEF Keys

\* A key that is too far away is struck off the list, but not off the index.
LEMMA StruckKeys ==
  ASSUME NEW s \in Scanners, Keys(s), s.mark > 0, ~s.token_available,
         ~Valid(s.simple_keys[Len(s.simple_keys)]),
         NEW r \in Scanners, Len(r.tokens) > Len(s.tokens),
         \A i \in 1..Len(s.tokens) : r.tokens[i] = s.tokens[i],
         r.simple_keys = [s.simple_keys EXCEPT ![Len(s.simple_keys)].possible = FALSE],
         r.simple_keys_by_tok = s.simple_keys_by_tok, r.flow_level = s.flow_level,
         r.tokens_parsed = s.tokens_parsed, r.mark = s.mark,
         r.token_available = s.token_available, r.simple_key_allowed = ~InFlow(s)
  PROVE  Keys(r)
<1>. DEFINE n == Len(s.simple_keys)
            k == s.simple_keys
            m == [r EXCEPT !.simple_keys = k]
<1>1. /\ n \in Nat \ {0} /\ DOMAIN k = 1..n /\ (n > 1 => InFlow(s)) /\ k \in Seq(SimpleKeys)
      /\ k[n] \in SimpleKeys
  BY LastKey, ScannerTypes
<1>2. /\ Len(r.simple_keys) = n /\ DOMAIN r.simple_keys = 1..n
      /\ r.simple_keys[n] = [k[n] EXCEPT !.possible = FALSE]
      /\ \A i \in 1..n : i # n => r.simple_keys[i] = k[i]
  <2>. DEFINE key == [k[n] EXCEPT !.possible = FALSE]
              q == [k EXCEPT ![n] = key]
  <2>1. key \in SimpleKeys
    BY <1>1 DEF SimpleKeys
  <2>2. /\ q \in Seq(SimpleKeys) /\ Len(q) = n
        /\ \A i \in 1..n : q[i] = IF i = n THEN key ELSE k[i]
    BY <1>1, <2>1, ExceptSeq
  <2>3. r.simple_keys = q
    OBVIOUS
  <2>. HIDE DEF q
  <2>4. DOMAIN q = 1..n
    BY <2>2, LenProperties
  <2>. QED
    BY <1>1, <2>2, <2>3, <2>4
<1>3. /\ m \in Scanners /\ m.simple_keys = k /\ m.tokens = r.tokens
      /\ m.simple_keys_by_tok = s.simple_keys_by_tok /\ m.flow_level = s.flow_level
      /\ m.tokens_parsed = s.tokens_parsed /\ m.mark = s.mark
      /\ m.token_available = s.token_available /\ m.simple_key_allowed = ~InFlow(s)
  BY <1>1 DEF Scanners
<1>. HIDE DEF m, k, n
<1>4. Dimmed(s, m)
  BY <1>3 DEF Dimmed, k, Keys, KeysInOrder
<1>5. Grows(s, m)
  <2>1. Len(r.tokens) >= Len(s.tokens)
    BY ScannerTypes
  <2>. QED
    BY <1>3, <2>1 DEF Grows
<1>6. Keys(m)
  BY <1>3, <1>4, <1>5, Onward
<1>7. ASSUME NEW i \in 1..n
      PROVE  /\ i \in DOMAIN m.simple_keys
             /\ r.simple_keys[i].token_number = m.simple_keys[i].token_number
             /\ r.simple_keys[i].mark = m.simple_keys[i].mark
             /\ r.simple_keys[i].far = m.simple_keys[i].far
             /\ (r.simple_keys[i].possible => m.simple_keys[i].possible)
             /\ (i = n => ~r.simple_keys[i].possible)
             /\ (i # n => r.simple_keys[i] = m.simple_keys[i])
             /\ Since(r, i) = Since(m, i)
  <2>1. i \in DOMAIN m.simple_keys
    BY <1>1, <1>3
  <2>2. /\ r.simple_keys[i].token_number = m.simple_keys[i].token_number
        /\ r.simple_keys[i].mark = m.simple_keys[i].mark
        /\ r.simple_keys[i].far = m.simple_keys[i].far
        /\ (r.simple_keys[i].possible => m.simple_keys[i].possible)
        /\ (i = n => ~r.simple_keys[i].possible)
        /\ (i # n => r.simple_keys[i] = m.simple_keys[i])
    <3>1. CASE i = n
      BY <1>1, <1>2, <1>3, <3>1 DEF SimpleKeys
    <3>2. CASE i # n
      BY <1>2, <1>3, <3>2
    <3>. QED
      BY <3>1, <3>2
  <2>3. Since(r, i) = Since(m, i)
    BY <1>3, <2>2 DEF Since
  <2>. QED
    BY <2>1, <2>2, <2>3
<1>8. StaleKeysPass(r)
  <2>. SUFFICES ASSUME NEW i \in 1..n, Stale(r, i)
                PROVE  /\ r.simple_keys[i].far
                       /\ \/ Since(r, i) >= 2 /\ i = n /\ ~r.simple_key_allowed
                          \/ Since(r, i) >= 3
    BY <1>2 DEF StaleKeysPass
  <2>1. CASE Stale(m, i)
    BY <1>2, <1>3, <1>7, <2>1, KeyFacts, <1>6, SMTT(40) DEF n, k
  <2>2. CASE ~Stale(m, i)
    <3>1. i = n /\ m.simple_keys[i].possible
      BY <1>3, <1>7, <2>2, ZenonT(60) DEF Stale, Waiting
    <3>2. k[n].far /\ k[n].possible
      BY <1>1, <1>3, <3>1 DEF Valid, k, n, SimpleKeys
    <3>3. InFlow(s)
      BY <1>1, <3>1 DEF Stale
    <3>4. Since(r, i) >= 2
      <4>. DEFINE t == k[n].token_number
                  a == Len(s.tokens)
                  b == Len(r.tokens)
                  tp == s.tokens_parsed
      <4>1. n \in DOMAIN s.simple_keys
        BY <1>1 DEF k
      <4>2. t \in Nat /\ t < tp + a
        BY <4>1, KeyFacts DEF NumberOf, k
      <4>3. a \in Nat /\ b \in Nat /\ b > a /\ tp \in Nat
        BY ScannerTypes
      <4>4. Since(r, i) = b - (t - tp)
        BY <1>3, <1>7, <3>1 DEF Since
      <4>. HIDE DEF t, a, b, tp
      <4>. QED
        BY <4>2, <4>3, <4>4
    <3>. QED
      BY <1>3, <1>7, <3>1, <3>2, <3>3, <3>4
  <2>. QED
    BY <2>1, <2>2
<1>. QED
  <2>1. \A i \in DOMAIN m.simple_keys : i \in 1..n
    BY <1>1, <1>3
  <2>2. Len(r.simple_keys) = Len(m.simple_keys)
    BY <1>2, <1>3 DEF n, k
  <2>. QED
    BY <1>3, <1>6, <1>7, <1>8, <2>1, <2>2, Fewer, ZenonT(60)

-----------------------------------------------------------------------------
(* Positions, nesting and the end of the text                                *)

Shape(s) == Within(s) /\ Nesting(s) /\ AtEnd(s)

\* Only the position and the keys change, and no key comes up.
LEMMA ShapeKept ==
  ASSUME NEW s \in Scanners, Shape(s), NEW r \in Scanners,
         r.tokens = s.tokens, r.indents = s.indents, r.indent = s.indent, r.open = s.open,
         r.stream_end_produced = s.stream_end_produced, s.at_end => r.at_end,
         r.at_end /\ ~s.at_end => \A i \in DOMAIN r.simple_keys : ~Valid(r.simple_keys[i]),
         r.token_available = s.token_available,
         r.mark >= s.mark, r.mark <= MaxFetches + 1, ~r.at_end => r.mark <= MaxFetches,
         r.column <= Beyond, r.flow_level <= MaxFlowLevel,
         InFlow(r) = InFlow(s) \/ (~s.at_end /\ ~s.stream_end_produced),
         \A i \in DOMAIN r.simple_keys :
           \/ /\ i \in DOMAIN s.simple_keys
              /\ r.simple_keys[i].column = s.simple_keys[i].column
              /\ r.simple_keys[i].mark = s.simple_keys[i].mark
              /\ r.simple_keys[i].possible => s.simple_keys[i].possible
              /\ s.simple_keys[i].far => r.simple_keys[i].far
           \/ ~r.simple_keys[i].possible /\ r.simple_keys[i].column <= Beyond
  PROVE  Shape(r)
<1>1. Within(r)
  <2>1. ASSUME NEW i \in DOMAIN r.tokens
        PROVE  r.tokens[i].mark \in 1..r.mark
    <3>1. s.tokens[i].mark \in 1..s.mark /\ s.mark \in Nat /\ r.mark \in Nat
      BY ScannerTypes DEF Shape, Within
    <3>. QED
      BY <3>1
  <2>2. ASSUME NEW i \in DOMAIN r.simple_keys
        PROVE  /\ r.simple_keys[i].column <= Beyond
               /\ r.simple_keys[i].possible => r.simple_keys[i].mark \in 1..r.mark
               /\ i = 1 /\ r.simple_keys[i].possible => r.simple_keys[i].column <= MaxColumn
    <3>1. CASE ~r.simple_keys[i].possible /\ r.simple_keys[i].column <= Beyond
      BY <3>1
    <3>2. CASE /\ i \in DOMAIN s.simple_keys
               /\ r.simple_keys[i].column = s.simple_keys[i].column
               /\ r.simple_keys[i].mark = s.simple_keys[i].mark
               /\ r.simple_keys[i].possible => s.simple_keys[i].possible
      <4>1. /\ s.simple_keys[i].column <= Beyond
            /\ s.simple_keys[i].possible => s.simple_keys[i].mark \in 1..s.mark
            /\ i = 1 /\ s.simple_keys[i].possible => s.simple_keys[i].column <= MaxColumn
        BY <3>2 DEF Shape, Within
      <4>2. s.mark \in Nat /\ r.mark \in Nat
        BY ScannerTypes
      <4>. QED
        BY <3>2, <4>1, <4>2
    <3>. QED
      BY <3>1, <3>2
  <2>3. r.token_available => Len(r.tokens) >= 3
    BY DEF Shape, Within
  <2>. QED
    BY <2>1, <2>2, <2>3 DEF Within
<1>2. Nesting(r)
  BY DEF Shape, Nesting, All
<1>3. AtEnd(r)
  <2>1. ASSUME r.at_end, NEW i \in DOMAIN r.simple_keys
        PROVE  ~Valid(r.simple_keys[i])
    BY <2>1 DEF Shape, AtEnd, Valid
  <2>. QED
    BY <2>1 DEF Shape, AtEnd
<1>. QED
  BY <1>1, <1>2, <1>3 DEF Shape

\* A token is put into the queue that is no STREAM-END; before the end of the text
\* it may go anywhere.
LEMMA ShapeGrown ==
  ASSUME NEW s \in Scanners, Shape(s), ~s.token_available, NEW r \in Scanners,
         NEW x \in Tokens, x.typ # "STREAM_END", x.mark \in 1..s.mark, Opening(x) \in 0..1,
         NEW p, Placed(r.tokens, s.tokens, p, x),
         p = Len(s.tokens) + 1 \/ ~s.at_end,
         r.simple_keys = s.simple_keys, r.column = s.column, r.flow_level = s.flow_level,
         r.mark = s.mark, r.at_end = s.at_end, r.token_available = s.token_available,
         r.stream_end_produced = s.stream_end_produced, r.open = s.open,
         Ascending(All(r)), All(r)[1] = -1, r.indent <= MaxColumn,
         Len(r.indents) = Len(s.indents) + Opening(x)
  PROVE  Shape(r)
<1>. DEFINE q == s.tokens
            t == r.tokens
            n == Len(q)
            o == s.open
<1>1. /\ n \in Nat /\ DOMAIN q = 1..n /\ DOMAIN t = 1..n + 1 /\ Len(t) = n + 1
      /\ p \in 1..n + 1 /\ o \in Int /\ t[p] = x
      /\ \A i \in 1..p - 1 : t[i] = q[i]
      /\ \A i \in p..n : t[i + 1] = q[i]
  BY ScannerTypes DEF Placed
<1>. HIDE DEF q, t, n, o
<1>2. ASSUME NEW i \in 1..n + 1
      PROVE  \/ i \in 1..n /\ i < p /\ t[i] = q[i]
             \/ i = p /\ t[i] = x
             \/ i - 1 \in 1..n /\ i > p /\ t[i] = q[i - 1]
  <2>1. CASE i < p
    <3>1. i \in 1..p - 1 /\ i \in 1..n
      BY <1>1, <2>1
    <3>. QED
      BY <1>1, <2>1, <3>1
  <2>2. CASE i > p
    <3>1. i - 1 \in p..n /\ i - 1 + 1 = i /\ i - 1 \in 1..n
      BY <1>1, <2>2
    <3>2. t[i - 1 + 1] = q[i - 1]
      BY <1>1, <3>1
    <3>. QED
      BY <2>2, <3>1, <3>2
  <2>. QED
    BY <1>1, <2>1, <2>2
<1>3. Within(r)
  <2>1. ASSUME NEW i \in 1..n + 1
        PROVE  t[i].mark \in 1..s.mark
    <3>1. \A j \in 1..n : q[j].mark \in 1..s.mark
      BY <1>1 DEF Shape, Within, q
    <3>. QED
      BY <1>2, <3>1
  <2>. QED
    BY <1>1, <2>1 DEF Shape, Within, t
<1>4. \A m \in 0..p - 1 : Depth(o, t, m) = Depth(o, q, m)
  <2>. TAKE m \in 0..p - 1
  <2>1. m \in Nat /\ \A i \in 1..m : t[i].typ = q[i].typ
    <3>1. m \in Nat /\ \A i \in 1..m : i \in 1..p - 1
      BY <1>1
    <3>. QED
      BY <1>1, <3>1
  <2>. QED
    BY <2>1, DepthSame
<1>5. \A m \in p - 1..n : Depth(o, t, m + 1) = Depth(o, q, m) + Opening(x)
  BY <1>1, DepthInsert DEF q, t, n
<1>6. Opening(x) \in Int /\ Opening(x) >= 0 /\ \A m \in 0..n : Depth(o, q, m) \in Int
  BY <1>1, DepthStep
<1>7. Nesting(r)
  <2>1. ASSUME NEW m \in 0..n + 1
        PROVE  Depth(o, t, m) >= 0
    <3>1. \A i \in 0..n : Depth(o, q, i) >= 0
      BY DEF Shape, Nesting, q, n, o
    <3>2. CASE m <= p - 1
      <4>1. m \in 0..p - 1 /\ m \in 0..n
        BY <1>1, <3>2
      <4>. QED
        BY <1>4, <3>1, <4>1
    <3>3. CASE m > p - 1
      <4>1. m - 1 \in p - 1..n /\ m - 1 \in 0..n /\ m - 1 + 1 = m
        BY <1>1, <3>3
      <4>2. Depth(o, t, m - 1 + 1) = Depth(o, q, m - 1) + Opening(x)
        BY <1>5, <4>1
      <4>. QED
        BY <1>6, <3>1, <4>1, <4>2
    <3>. QED
      BY <1>1, <3>2, <3>3
  <2>2. Depth(o, t, n + 1) = Len(r.indents)
    <3>1. Depth(o, q, n) = Len(s.indents)
      BY DEF Shape, Nesting, q, n, o
    <3>2. n \in p - 1..n
      BY <1>1
    <3>. QED
      BY <1>5, <3>1, <3>2
  <2>. QED
    BY <1>1, <2>1, <2>2 DEF Nesting, t, o
<1>8. \A i \in 1..n : q[i].typ = "STREAM_END" => s.at_end /\ (InFlow(s) \/ Depth(o, q, i) = 0)
  BY <1>1 DEF Shape, AtEnd, q, o
<1>9. AtEnd(r)
  <2>1. Count(n + 1, t, "STREAM_END") <= 3
    <3>1. Count(n, q, "STREAM_END") <= 3
      BY DEF Shape, AtEnd, n, q
    <3>2. CASE p = n + 1
      <4>1. \A i \in 1..n : t[i].typ = q[i].typ
        BY <1>1, <3>2
      <4>2. Count(n, t, "STREAM_END") = Count(n, q, "STREAM_END")
        BY <1>1, <4>1, CountSame
      <4>3. Count(n + 1, t, "STREAM_END") = Count(n, t, "STREAM_END") + (IF t[n + 1].typ = "STREAM_END" THEN 1 ELSE 0)
        BY <1>1, CountStep
      <4>4. Count(n, t, "STREAM_END") \in 0..n
        BY <1>1, CountType
      <4>. QED
        BY <1>1, <3>1, <3>2, <4>2, <4>3, <4>4
    <3>3. CASE ~s.at_end
      <4>1. \A i \in 1..n + 1 : t[i].typ # "STREAM_END"
        BY <1>2, <1>8, <3>3
      <4>2. {i \in 1..n + 1 : t[i].typ = "STREAM_END"} = {}
        BY <4>1
      <4>3. Cardinality({}) = 0
        BY FS_EmptySet
      <4>. QED
        <5>1. Count(n + 1, t, "STREAM_END") = Cardinality({})
          BY <4>2 DEF Count
        <5>. QED
          BY <4>3, <5>1
    <3>. QED
      BY <3>2, <3>3 DEF n, q
  <2>2. ASSUME NEW i \in 1..n + 1, t[i].typ = "STREAM_END"
        PROVE  s.at_end /\ (InFlow(s) \/ Depth(o, t, i) = 0)
    <3>1. CASE i \in 1..n /\ i < p /\ t[i] = q[i]
      <4>1. i \in 0..p - 1
        BY <1>1, <3>1
      <4>. QED
        BY <1>4, <1>8, <2>2, <3>1, <4>1
    <3>2. CASE i = p /\ t[i] = x
      BY <2>2, <3>2
    <3>3. CASE i - 1 \in 1..n /\ i > p /\ t[i] = q[i - 1]
      <4>1. s.at_end
        BY <1>8, <2>2, <3>3
      <4>2. p = n + 1
        BY <4>1 DEF n, q
      <4>. QED
        BY <1>1, <3>3, <4>2
    <3>. QED
      BY <1>2, <3>1, <3>2, <3>3
  <2>3. r.at_end => \A i \in DOMAIN r.simple_keys : ~Valid(r.simple_keys[i])
    BY DEF Shape, AtEnd
  <2>4. r.stream_end_produced /\ ~InFlow(r) => r.open = 0
    BY DEF Shape, AtEnd, InFlow
  <2>. QED
    BY <1>1, <2>1, <2>2, <2>3, <2>4 DEF AtEnd, t, o, InFlow
<1>. QED
  BY <1>3, <1>7, <1>9 DEF Shape

\* A token is put into the queue.
LEMMA InsertedFacts ==
  ASSUME NEW s \in Scanners, NEW token \in Tokens, NEW pos \in Int, pos <= Len(s.tokens)
  PROVE  LET r == Inserted(s, pos, token) IN
         /\ r \in Scanners
         /\ r = [s EXCEPT !.tokens = r.tokens]
         /\ Placed(r.tokens, s.tokens, IF pos < 0 THEN Len(s.tokens) + 1 ELSE pos + 1, token)
<1>. DEFINE q == s.tokens
            t == IF pos < 0 THEN Append(q, token) ELSE InsertAt(q, pos + 1, token)
            r == [s EXCEPT !.tokens = t]
<1>1. q \in Seq(Tokens)
  BY ScannerTypes
<1>2. Inserted(s, pos, token) = r
  BY DEF Inserted, Scanners
<1>3. t \in Seq(Tokens) /\ Placed(t, q, IF pos < 0 THEN Len(q) + 1 ELSE pos + 1, token)
  <2>1. pos <= Len(q)
    OBVIOUS
  <2>. HIDE DEF q
  <2>2. CASE pos < 0
    <3>1. /\ Append(q, token) \in Seq(Tokens)
          /\ Len(q) \in Nat
          /\ Len(Append(q, token)) = Len(q) + 1
          /\ \A i \in 1..Len(q) : Append(q, token)[i] = q[i]
          /\ Append(q, token)[Len(q) + 1] = token
      BY <1>1, AppendFacts
    <3>2. t = Append(q, token)
      BY <2>2
    <3>. HIDE DEF t
    <3>3. Len(q) + 1 \in 1..Len(q) + 1 /\ \A i \in Len(q) + 1..Len(q) : FALSE
      BY <3>1
    <3>4. \A i \in 1..Len(q) + 1 - 1 : t[i] = q[i]
      BY <3>1, <3>2
    <3>5. Placed(t, q, Len(q) + 1, token)
      BY <3>1, <3>2, <3>3, <3>4 DEF Placed
    <3>. QED
      BY <2>2, <3>1, <3>2, <3>5
  <2>3. CASE ~(pos < 0)
    <3>. DEFINE p == pos + 1
    <3>1. Len(q) \in Nat
      BY <1>1, LenProperties
    <3>2. p \in 1..Len(q) + 1
      BY <2>1, <2>3, <3>1
    <3>3. t = InsertAt(q, p, token)
      BY <2>3
    <3>. HIDE DEF p, t
    <3>4. t \in Seq(Tokens) /\ Placed(t, q, p, token)
      BY <1>1, <3>2, <3>3, InsertFacts DEF Placed
    <3>. QED
      BY <2>3, <3>4 DEF p
  <2>. QED
    BY <2>2, <2>3
<1>. HIDE DEF t
<1>4. r \in Scanners /\ r.tokens = t
  BY <1>3 DEF Scanners
<1>5. r = [s EXCEPT !.tokens = r.tokens]
  BY <1>4
<1>. QED
  BY <1>2, <1>3, <1>4, <1>5

\* A greater element keeps a sequence ascending.
LEMMA AscendingAppend ==
  ASSUME NEW q \in Seq(Int), Len(q) > 0, Ascending(q), NEW c \in Int, c > q[Len(q)]
  PROVE  Ascending(Append(q, c)) /\ Append(q, c)[1] = q[1]
<1>1. /\ Append(q, c) \in Seq(Int) /\ Len(q) \in Nat /\ DOMAIN q = 1..Len(q)
      /\ DOMAIN Append(q, c) = 1..Len(q) + 1
      /\ \A i \in 1..Len(q) : Append(q, c)[i] = q[i]
      /\ Append(q, c)[Len(q) + 1] = c
  BY AppendFacts
<1>2. \A i \in 1..Len(q) : q[i] \in Int
  BY ElementOfSeq
<1>. DEFINE n == Len(q)
            t == Append(q, c)
<1>a. n \in Nat /\ DOMAIN q = 1..n
  BY <1>1
<1>. HIDE DEF n, t
<1>3. ASSUME NEW i \in 1..n, NEW j \in 1..n + 1, i < j
      PROVE  t[i] < t[j]
  <2>1. CASE j = n + 1
    <3>1. q[i] <= q[n]
      <4>1. CASE i = n
        BY <1>2, <4>1 DEF n
      <4>2. CASE i # n
        <5>1. i < n /\ n \in 1..n /\ i \in DOMAIN q /\ n \in DOMAIN q
          BY <1>a, <4>2
        <5>2. q[i] < q[n]
          BY <5>1 DEF Ascending
        <5>. QED
          BY <1>1, <1>2, <5>1, <5>2 DEF n
      <4>. QED
        BY <4>1, <4>2
    <3>2. q[i] \in Int /\ q[n] \in Int /\ c > q[n] /\ t[i] = q[i] /\ t[j] = c
      BY <1>1, <1>2, <2>1 DEF n, t
    <3>. QED
      BY <3>1, <3>2
  <2>2. CASE j # n + 1
    <3>1. j \in 1..n /\ i \in DOMAIN q /\ j \in DOMAIN q
      BY <1>1, <2>2 DEF n
    <3>2. q[i] < q[j]
      BY <1>3, <3>1 DEF Ascending
    <3>. QED
      BY <1>1, <3>1, <3>2 DEF n, t
  <2>. QED
    BY <2>1, <2>2
<1>4. \A i, j \in 1..n + 1 : i < j => i \in 1..n
  BY <1>1 DEF n
<1>5. Ascending(t)
  BY <1>1, <1>3, <1>4 DEF Ascending, n, t
<1>. QED
  BY <1>1, <1>5 DEF t

\* Apart from the queue and the indents, the scanners are the same.
Alike(s, r) ==
  /\ r.simple_keys = s.simple_keys /\ r.simple_keys_by_tok = s.simple_keys_by_tok
  /\ r.simple_key_allowed = s.simple_key_allowed /\ r.flow_level = s.flow_level
  /\ r.token_available = s.token_available /\ r.tokens_parsed = s.tokens_parsed
  /\ r.column = s.column /\ r.mark = s.mark /\ r.at_end = s.at_end
  /\ r.stream_end_produced = s.stream_end_produced /\ r.open = s.open /\ r.error = s.error

\* A block collection starts in front of the token at pos, or does not.
LEMMA RolledShape ==
  ASSUME NEW s \in Scanners, Shape(s), ~s.token_available, ~s.at_end,
         NEW column \in Nat, ~InFlow(s) => column <= MaxColumn,
         NEW pos \in Int, pos <= Len(s.tokens),
         NEW typ \in {"BLOCK_SEQUENCE_START", "BLOCK_MAPPING_START"}, NEW mark \in 1..s.mark
  PROVE  LET r == Rolled(s, column, pos, typ, mark)
             p == IF pos < 0 THEN Len(s.tokens) + 1 ELSE pos + 1
         IN /\ r \in Scanners /\ Shape(r)
            /\ Alike(s, r)
            /\ r = s \/ Placed(r.tokens, s.tokens, p, Token(typ, mark))
<1>. DEFINE x == Token(typ, mark)
            p == IF pos < 0 THEN Len(s.tokens) + 1 ELSE pos + 1
            a == Append(s.indents, s.indent)
            m == [s EXCEPT !.indents = a, !.indent = column]
            r == Inserted(m, pos, x)
<1>1. CASE InFlow(s) \/ s.indent >= column
  <2>1. Rolled(s, column, pos, typ, mark) = s
    BY <1>1 DEF Rolled
  <2>2. Alike(s, s)
    BY DEF Alike
  <2>. QED
    BY <2>1, <2>2
<1>2. CASE ~(InFlow(s) \/ s.indent >= column)
  <2>1. s.indents \in Seq(Int) /\ s.indent \in Int /\ s.indent < column /\ column <= MaxColumn
        /\ s.mark \in Nat
    BY <1>2, ScannerTypes
  <2>2. a \in Seq(Int) /\ Len(a) = Len(s.indents) + 1 /\ a[Len(a)] = s.indent /\ Len(a) > 0
    <3>. DEFINE k == s.indents
                e == s.indent
    <3>1. k \in Seq(Int) /\ e \in Int
      BY <2>1
    <3>. HIDE DEF k, e
    <3>2. /\ Append(k, e) \in Seq(Int) /\ Len(k) \in Nat /\ Len(Append(k, e)) = Len(k) + 1
          /\ Append(k, e)[Len(k) + 1] = e
      BY <3>1, AppendFacts
    <3>. QED
      BY <3>2 DEF k, e
  <2>3. Ascending(a) /\ a[1] = -1
    BY DEF Shape, Nesting, All
  <2>4. Rolled(s, column, pos, typ, mark) = r
    BY <1>2 DEF Rolled, Scanners
  <2>5. x \in Tokens /\ x.typ # "STREAM_END" /\ x.mark \in 1..s.mark /\ Opening(x) = 1
    BY <2>1 DEF Tokens, Token, TokenTypes, Opening
  <2>. HIDE DEF a, x
  <2>6. m \in Scanners /\ m.tokens = s.tokens
    <3>1. a \in Seq(Int) /\ column \in Int
      BY <2>2
    <3>. QED
      BY <3>1 DEF Scanners
  <2>7. /\ r \in Scanners /\ r = [m EXCEPT !.tokens = r.tokens]
        /\ Placed(r.tokens, s.tokens, p, x)
    <3>. HIDE DEF m
    <3>. QED
      BY <2>5, <2>6, InsertedFacts
  <2>. HIDE DEF r
  <2>8. /\ r.simple_keys = s.simple_keys /\ r.column = s.column /\ r.flow_level = s.flow_level
        /\ r.mark = s.mark /\ r.at_end = s.at_end /\ r.token_available = s.token_available
        /\ r.stream_end_produced = s.stream_end_produced /\ r.open = s.open
        /\ r.indents = a /\ r.indent = column /\ Alike(s, r)
    <3>1. r = [m EXCEPT !.tokens = r.tokens]
      BY <2>7
    <3>. DEFINE t == r.tokens
    <3>2. r = [m EXCEPT !.tokens = t]
      BY <3>1
    <3>. HIDE DEF t
    <3>3. [m EXCEPT !.tokens = t] = [s EXCEPT !.tokens = t, !.indents = a, !.indent = column]
      BY DEF Scanners
    <3>4. r.indents = a /\ r.indent = column
      BY <3>2, <3>3 DEF Scanners
    <3>. QED
      BY <3>2, <3>3, <3>4, ZenonT(60) DEF Scanners, t, Alike
  <2>9. All(r) = Append(a, column)
    BY <2>8 DEF All
  <2>10. Ascending(All(r)) /\ All(r)[1] = -1
    BY <2>1, <2>2, <2>3, <2>9, AscendingAppend
  <2>11. Shape(r)
    <3>1. Len(r.indents) = Len(s.indents) + Opening(x) /\ Opening(x) \in 0..1 /\ r.indent <= MaxColumn
      BY <2>1, <2>2, <2>5, <2>8
    <3>2. Placed(r.tokens, s.tokens, p, x)
      BY <2>7
    <3>. HIDE DEF p
    <3>. QED
      BY <2>5, <2>7, <2>8, <2>10, <3>1, <3>2, ShapeGrown
  <2>. QED
    BY <2>4, <2>7, <2>8, <2>11 DEF x
<1>. QED
  BY <1>1, <1>2

\* A token comes to the end of the queue.
LEMMA AppendedFacts ==
  ASSUME NEW s \in Scanners, s.mark > 0, NEW typ \in TokenTypes
  PROVE  LET r == Appended(s, typ)
             x == Token(typ, s.mark)
             n == Len(s.tokens)
         IN /\ r \in Scanners
            /\ r = [s EXCEPT !.tokens = Append(s.tokens, x)]
            /\ x \in Tokens /\ x.mark \in 1..s.mark /\ x.typ = typ
            /\ n \in Nat /\ Len(r.tokens) = n + 1
            /\ r.tokens[n + 1] = x /\ \A i \in 1..n : r.tokens[i] = s.tokens[i]
            /\ Placed(r.tokens, s.tokens, n + 1, x)
<1>. DEFINE x == Token(typ, s.mark)
            q == s.tokens
            t == Append(q, x)
            n == Len(q)
            r == [s EXCEPT !.tokens = t]
<1>1. q \in Seq(Tokens) /\ s.mark \in Nat
  BY ScannerTypes
<1>2. x \in Tokens /\ x.typ = typ /\ x.mark \in 1..s.mark
  BY <1>1 DEF Token, Tokens
<1>3. Appended(s, typ) = r
  BY DEF Appended, Inserted, Scanners
<1>. HIDE DEF q, x
<1>4. /\ t \in Seq(Tokens) /\ n \in Nat /\ Len(t) = n + 1 /\ t[n + 1] = x
      /\ \A i \in 1..n : t[i] = q[i]
  BY <1>1, <1>2, AppendFacts
<1>. HIDE DEF t, n
<1>5. Placed(t, q, n + 1, x)
  <2>1. n + 1 \in 1..n + 1 /\ \A i \in n + 1..n : FALSE
    BY <1>4
  <2>2. \A i \in 1..n + 1 - 1 : t[i] = q[i]
    BY <1>4
  <2>. QED
    BY <1>4, <2>1, <2>2 DEF Placed, n
<1>6. r \in Scanners /\ r.tokens = t
  BY <1>4 DEF Scanners
<1>. QED
  BY <1>2, <1>3, <1>4, <1>5, <1>6 DEF x, q, t, n

\* A token that opens and closes nothing does not disturb the shape.
LEMMA AppendedShape ==
  ASSUME NEW s \in Scanners, Shape(s), ~s.token_available, s.mark > 0,
         NEW typ \in TokenTypes \ {"STREAM_END", "BLOCK_SEQUENCE_START", "BLOCK_MAPPING_START", "BLOCK_END"}
  PROVE  Shape(Appended(s, typ))
<1>. DEFINE x == Token(typ, s.mark)
            r == Appended(s, typ)
            n == Len(s.tokens)
            t == Append(s.tokens, x)
<1>1. /\ r \in Scanners /\ r = [s EXCEPT !.tokens = t]
      /\ x \in Tokens /\ x.mark \in 1..s.mark /\ x.typ = typ
      /\ Placed(r.tokens, s.tokens, n + 1, x) /\ n \in Nat
  BY AppendedFacts
<1>2. Opening(x) = 0
  BY <1>1 DEF Opening
<1>3. x.typ # "STREAM_END"
  BY <1>1
<1>. HIDE DEF x, r, t
<1>4. /\ r.simple_keys = s.simple_keys /\ r.column = s.column /\ r.flow_level = s.flow_level
      /\ r.mark = s.mark /\ r.at_end = s.at_end /\ r.token_available = s.token_available
      /\ r.stream_end_produced = s.stream_end_produced /\ r.open = s.open
      /\ r.indents = s.indents /\ r.indent = s.indent
  BY <1>1 DEF Scanners
<1>5. /\ Ascending(All(r)) /\ All(r)[1] = -1 /\ r.indent <= MaxColumn
      /\ Len(r.indents) = Len(s.indents) + Opening(x) /\ Opening(x) \in 0..1
  <2>1. All(r) = All(s)
    BY <1>4 DEF All
  <2>2. Len(s.indents) \in Nat
    BY ScannerTypes, LenProperties
  <2>. QED
    BY <1>2, <1>4, <2>1, <2>2 DEF Shape, Nesting
<1>. QED
  BY <1>1, <1>3, <1>4, <1>5, ShapeGrown DEF r

\* The text is read on: keys 1..n may have become far, the position is a new one.
LEMMA Moved ==
  ASSUME NEW s \in Scanners, Inv(s), NEW n \in Nat, NEW r \in Scanners,
         r.simple_keys = Away(s, n).simple_keys,
         r.simple_keys_by_tok = s.simple_keys_by_tok, r.flow_level = s.flow_level,
         r.tokens = s.tokens, r.tokens_parsed = s.tokens_parsed,
         r.indents = s.indents, r.indent = s.indent, r.open = s.open,
         r.stream_end_produced = s.stream_end_produced, r.token_available = s.token_available,
         r.simple_key_allowed => s.simple_key_allowed \/ ~InFlow(s),
         r.column <= Beyond,
         r.mark >= s.mark, s.mark = 0 => r.mark = 0,
         r.mark <= MaxFetches + 1, ~r.at_end => r.mark <= MaxFetches,
         s.at_end => r.at_end, r.at_end => s.at_end \/ n = Len(s.simple_keys)
  PROVE  /\ Inv(r)
         /\ Dimmed(s, r)
         /\ \A i \in DOMAIN r.simple_keys : Stale(r, i) => Stale(s, i)
<1>. DEFINE k == s.simple_keys
            q == r.simple_keys
<1>1. DOMAIN k = 1..Len(k) /\ Len(k) \in Nat /\ k \in Seq(SimpleKeys) /\ q \in Seq(SimpleKeys)
      /\ Len(q) \in Nat /\ DOMAIN q = 1..Len(q)
      /\ \A i \in DOMAIN k : k[i] \in SimpleKeys
  BY ScannerTypes
<1>2. q = [i \in DOMAIN k |-> [k[i] EXCEPT !.far = @ \/ (i <= n /\ k[i].possible)]]
  <2>. DEFINE f == [i \in DOMAIN k |-> [k[i] EXCEPT !.far = @ \/ (i <= n /\ k[i].possible)]]
  <2>1. Away(s, n) = [s EXCEPT !.simple_keys = f]
    BY DEF Away
  <2>. HIDE DEF f
  <2>2. [s EXCEPT !.simple_keys = f].simple_keys = f
    BY DEF Scanners
  <2>. QED
    BY <2>1, <2>2 DEF f
<1>3. DOMAIN q = DOMAIN k /\ Len(q) = Len(k)
  <2>1. DOMAIN q = DOMAIN k
    BY <1>2
  <2>. QED
    BY <1>1, <2>1
<1>4. ASSUME NEW i \in DOMAIN k
      PROVE  /\ q[i].possible = k[i].possible /\ q[i].token_number = k[i].token_number
             /\ q[i].mark = k[i].mark /\ q[i].column = k[i].column /\ q[i].required = k[i].required
             /\ (q[i].far <=> k[i].far \/ (i <= n /\ k[i].possible))
             /\ (k[i].far => q[i].far)
  <2>1. k[i] \in SimpleKeys /\ q[i] = [k[i] EXCEPT !.far = @ \/ (i <= n /\ k[i].possible)]
    BY <1>1, <1>2
  <2>. QED
    BY <2>1 DEF SimpleKeys
<1>5. ASSUME NEW i \in DOMAIN k, NEW j \in DOMAIN k, i < j, q[j].far, q[i].possible
      PROVE  q[i].far
  <2>1. CASE k[j].far
    <3>1. k[i].far
      BY <1>4, <1>5, <2>1 DEF Inv, KeysInOrder
    <3>. QED
      BY <1>4, <3>1
  <2>2. CASE ~k[j].far
    <3>1. j <= n /\ i <= n
      BY <1>1, <1>4, <1>5, <2>2
    <3>. QED
      BY <1>4, <1>5, <3>1
  <2>. QED
    BY <2>1, <2>2
<1>6. Dimmed(s, r)
  BY <1>3, <1>4, <1>5 DEF Dimmed
<1>7. Grows(s, r)
  BY ScannerTypes DEF Grows
<1>8. Keys(s) /\ Shape(s)
  BY DEF Inv, Keys, Shape
<1>9. Keys(r)
  <2>1. r.mark > 0 => s.mark > 0
    BY ScannerTypes
  <2>. QED
    BY <1>6, <1>7, <1>8, <2>1, Onward
<1>10. r.at_end /\ ~s.at_end => \A i \in DOMAIN q : ~Valid(q[i])
  <2>. SUFFICES ASSUME r.at_end, ~s.at_end, NEW i \in DOMAIN q, Valid(q[i])
                PROVE  FALSE
    OBVIOUS
  <2>1. i \in DOMAIN k /\ i <= n
    BY <1>1, <1>3
  <2>. QED
    BY <1>4, <2>1 DEF Valid
<1>11. Shape(r)
  <2>1. r.flow_level <= MaxFlowLevel /\ InFlow(r) = InFlow(s)
    BY <1>8 DEF Shape, Within, InFlow
  <2>2. ASSUME NEW i \in DOMAIN r.simple_keys
        PROVE  /\ i \in DOMAIN s.simple_keys
               /\ r.simple_keys[i].column = s.simple_keys[i].column
               /\ r.simple_keys[i].mark = s.simple_keys[i].mark
               /\ r.simple_keys[i].possible => s.simple_keys[i].possible
               /\ s.simple_keys[i].far => r.simple_keys[i].far
    BY <1>3, <1>4
  <2>. HIDE DEF k, q
  <2>. QED
    BY <1>8, <1>10, <2>1, <2>2, ShapeKept DEF q
<1>12. ASSUME NEW i \in DOMAIN r.simple_keys, Stale(r, i) PROVE Stale(s, i)
  BY <1>3, <1>4, <1>12 DEF Stale, Waiting
<1>. QED
  BY <1>6, <1>9, <1>11, <1>12 DEF Inv, Keys, Shape

\* Closing tokens bring the depth down, one at a time.
LEMMA DepthEnds ==
  ASSUME NEW o \in Int, NEW q, NEW t, NEW n \in Nat, NEW m \in Nat,
         \A i \in 1..n : t[i] = q[i],
         \A i \in n + 1..n + m : t[i].typ = "BLOCK_END"
  PROVE  \A j \in 0..m : Depth(o, t, n + j) = Depth(o, q, n) - j
<1>. DEFINE bad == {j \in 0..m : Depth(o, t, n + j) # Depth(o, q, n) - j}
<1>1. SUFFICES ASSUME bad # {} PROVE FALSE
  OBVIOUS
<1>2. bad \subseteq Nat
  OBVIOUS
<1>3. PICK j \in bad : \A i \in bad : j <= i
  BY <1>1, <1>2, Least
<1>4. j \in 0..m /\ j \in Nat /\ Depth(o, t, n + j) # Depth(o, q, n) - j
  BY <1>2
<1>5. Depth(o, t, n) = Depth(o, q, n)
  BY DepthSame
<1>6. Depth(o, q, n) \in Int
  BY DepthStep
<1>7. CASE j = 0
  <2>1. n + j = n
    BY <1>7
  <2>. QED
    BY <1>4, <1>5, <1>6, <1>7, <2>1
<1>8. CASE j # 0
  <2>1. j - 1 \in 0..m /\ n + (j - 1) \in Nat /\ n + (j - 1) + 1 = n + j /\ n + j \in n + 1..n + m
    BY <1>4, <1>8
  <2>2. j - 1 \notin bad
    BY <1>3, <1>4
  <2>3. Depth(o, t, n + (j - 1)) = Depth(o, q, n) - (j - 1)
    BY <2>1, <2>2
  <2>4. Depth(o, t, n + (j - 1) + 1) = Depth(o, t, n + (j - 1)) + Opening(t[n + (j - 1) + 1])
    BY <2>1, DepthStep
  <2>5. Opening(t[n + j]) = -1
    <3>1. t[n + j].typ = "BLOCK_END"
      BY <2>1
    <3>. QED
      BY <3>1 DEF Opening
  <2>6. Depth(o, t, n + j) = Depth(o, t, n + (j - 1)) + Opening(t[n + j])
    BY <2>1, <2>4
  <2>. QED
    BY <1>4, <1>6, <2>3, <2>5, <2>6
<1>. QED
  BY <1>7, <1>8

\* What the BLOCK-ENDs at a column leave.
LEMMA UnrolledFacts ==
  ASSUME NEW s \in Scanners, Nesting(s), ~InFlow(s), NEW c \in Int, c >= -1
  PROVE  LET r == Unrolled(s, c)
             n == Len(s.tokens)
             m == Len(s.indents) - Len(r.indents)
         IN /\ r \in Scanners
            /\ r = [s EXCEPT !.tokens = r.tokens, !.indent = r.indent, !.indents = r.indents]
            /\ m \in Nat /\ Len(r.tokens) = n + m
            /\ \A i \in 1..n : r.tokens[i] = s.tokens[i]
            /\ \A i \in n + 1..n + m : r.tokens[i] = Token("BLOCK_END", s.mark)
            /\ Ascending(All(r)) /\ All(r)[1] = -1
            /\ r.indent <= s.indent /\ r.indent <= c
            /\ c = -1 => r.indents = <<>>
<1>. DEFINE all == All(s)
            n == Len(all)
            kept == CHOOSE k \in 1..n : all[k] <= c /\ \A j \in k + 1..n : all[j] > c
            ends == [j \in 1..n - kept |-> Token("BLOCK_END", s.mark)]
            e == all[kept]
            d == SubSeq(all, 1, kept - 1)
            t == s.tokens \o ends
            r == [s EXCEPT !.indent = e, !.indents = d, !.tokens = t]
<1>1. /\ all \in Seq(Int) /\ n \in Nat /\ n = Len(s.indents) + 1 /\ DOMAIN all = 1..n
      /\ all[n] = s.indent /\ Len(s.indents) \in Nat
      /\ s.tokens \in Seq(Tokens) /\ s.mark \in Nat /\ s.indent \in Int
  <2>. DEFINE k == s.indents
              f == s.indent
  <2>1. k \in Seq(Int) /\ f \in Int /\ s.tokens \in Seq(Tokens) /\ s.mark \in Nat /\ s.indent \in Int
    BY ScannerTypes
  <2>2. all = Append(k, f)
    BY DEF All
  <2>. HIDE DEF k, f, all
  <2>3. /\ Append(k, f) \in Seq(Int) /\ Len(k) \in Nat /\ Len(Append(k, f)) = Len(k) + 1
        /\ DOMAIN Append(k, f) = 1..Len(k) + 1
        /\ Append(k, f)[Len(k) + 1] = f
    BY <2>1, AppendFacts
  <2>4. /\ all \in Seq(Int) /\ n \in Nat /\ n = Len(k) + 1 /\ DOMAIN all = 1..n
        /\ all[n] = f
    BY <2>2, <2>3
  <2>. QED
    BY <2>1, <2>3, <2>4 DEF k, f
<1>2. Ascending(all) /\ all[1] = -1
  BY DEF Nesting
<1>. HIDE DEF all
<1>3. \A i \in 1..n : all[i] \in Int
  BY <1>1, ElementOfSeq
<1>4. /\ kept \in 1..n /\ all[kept] <= c /\ \A j \in kept + 1..n : all[j] > c
  <2>. DEFINE S == {k \in 1..n : all[k] <= c}
  <2>1. S \subseteq 1..n /\ 1 \in S
    BY <1>1, <1>2
  <2>2. \A k \in S : all[k] <= c /\ k \in 1..n
    OBVIOUS
  <2>3. \A k \in 1..n : all[k] <= c => k \in S
    OBVIOUS
  <2>. HIDE DEF S, n
  <2>4. PICK k \in S : \A j \in S : j <= k
    BY <1>1, <2>1, Greatest
  <2>5. \A j \in k + 1..n : all[j] > c
    <3>. TAKE j \in k + 1..n
    <3>1. k \in 1..n
      BY <2>2
    <3>2. j \in 1..n /\ ~(j <= k)
      BY <1>1, <3>1
    <3>3. ~(all[j] <= c)
      BY <2>3, <2>4, <3>2
    <3>. QED
      BY <1>3, <3>2, <3>3
  <2>6. \E k2 \in 1..n : all[k2] <= c /\ \A j \in k2 + 1..n : all[j] > c
    BY <2>2, <2>5
  <2>. QED
    BY <2>6
<1>5. Unrolled(s, c) = r
  BY <1>1 DEF Unrolled, all, All
<1>. HIDE DEF kept, n
<1>6. /\ kept - 1 \in Nat /\ n - kept \in Nat /\ kept - 1 <= n
  BY <1>1, <1>4
<1>7. d \in Seq(Int) /\ Len(d) = kept - 1 /\ \A i \in 1..kept - 1 : d[i] = all[i]
  BY <1>1, <1>6, PrefixFacts DEF n
<1>8. e \in Int
  BY <1>3, <1>4
<1>9. /\ ends \in Seq(Tokens) /\ Len(ends) = n - kept
      /\ \A j \in 1..n - kept : ends[j] = Token("BLOCK_END", s.mark)
  <2>. DEFINE x == Token("BLOCK_END", s.mark)
              l == n - kept
              f == [j \in 1..l |-> x]
  <2>1. x \in Tokens /\ l \in Nat
    BY <1>1, <1>6 DEF Tokens, Token, TokenTypes
  <2>. HIDE DEF x, l
  <2>2. f \in Seq(Tokens) /\ Len(f) = l /\ \A j \in 1..l : f[j] = x
    BY <2>1
  <2>. QED
    BY <2>2 DEF x, l
<1>. HIDE DEF ends, d, e
<1>10. /\ t \in Seq(Tokens) /\ Len(t) = Len(s.tokens) + (n - kept)
       /\ \A i \in 1..Len(s.tokens) : t[i] = s.tokens[i]
       /\ \A i \in Len(s.tokens) + 1..Len(s.tokens) + (n - kept) : t[i] = Token("BLOCK_END", s.mark)
  <2>. DEFINE q == s.tokens
              l == n - kept
  <2>1. q \in Seq(Tokens) /\ Len(q) \in Nat /\ l \in Nat /\ ends \in Seq(Tokens) /\ Len(ends) = l
        /\ \A j \in 1..l : ends[j] = Token("BLOCK_END", s.mark)
    BY <1>1, <1>6, <1>9
  <2>. HIDE DEF q, l
  <2>2. /\ q \o ends \in Seq(Tokens) /\ Len(q \o ends) = Len(q) + l
        /\ \A i \in 1..Len(q) + l : (q \o ends)[i] = IF i <= Len(q) THEN q[i] ELSE ends[i - Len(q)]
    BY <2>1, ConcatProperties
  <2>3. \A i \in 1..Len(q) : (q \o ends)[i] = q[i]
    <3>. TAKE i \in 1..Len(q)
    <3>1. i \in 1..Len(q) + l /\ i <= Len(q)
      BY <2>1
    <3>. QED
      BY <2>2, <3>1
  <2>4. \A i \in Len(q) + 1..Len(q) + l : (q \o ends)[i] = Token("BLOCK_END", s.mark)
    <3>. TAKE i \in Len(q) + 1..Len(q) + l
    <3>1. i \in 1..Len(q) + l /\ ~(i <= Len(q)) /\ i - Len(q) \in 1..l
      BY <2>1
    <3>. QED
      BY <2>1, <2>2, <3>1
  <2>. QED
    BY <2>2, <2>3, <2>4 DEF q, l
<1>. HIDE DEF t
<1>11. r \in Scanners /\ r.tokens = t /\ r.indent = e /\ r.indents = d
  BY <1>7, <1>8, <1>10 DEF Scanners
<1>12. r = [s EXCEPT !.tokens = r.tokens, !.indent = r.indent, !.indents = r.indents]
  BY <1>11 DEF Scanners
<1>. HIDE DEF r
<1>13. /\ All(r) \in Seq(Int) /\ DOMAIN All(r) = 1..kept
       /\ \A i \in 1..kept : All(r)[i] = all[i]
  <2>1. All(r) = Append(d, e)
    BY <1>11 DEF All
  <2>2. /\ Append(d, e) \in Seq(Int) /\ Len(d) \in Nat
        /\ DOMAIN Append(d, e) = 1..Len(d) + 1
        /\ \A i \in 1..Len(d) : Append(d, e)[i] = d[i]
        /\ Append(d, e)[Len(d) + 1] = e
    BY <1>7, <1>8, AppendFacts
  <2>3. Len(d) + 1 = kept /\ \A i \in 1..kept : i = kept \/ i \in 1..kept - 1
    BY <1>1, <1>4, <1>7
  <2>. QED
    BY <1>7, <2>1, <2>2, <2>3 DEF e
<1>14. Ascending(All(r)) /\ All(r)[1] = -1
  <2>1. 1 \in 1..kept /\ \A i \in 1..kept : i \in DOMAIN all
    BY <1>1, <1>4
  <2>. QED
    BY <1>2, <1>13, <2>1 DEF Ascending
<1>15. e <= s.indent /\ e <= c
  <2>1. CASE kept = n
    BY <1>1, <1>4, <1>8, <2>1 DEF e
  <2>2. CASE kept # n
    <3>1. kept < n /\ kept \in DOMAIN all /\ n \in DOMAIN all
      BY <1>1, <1>4, <2>2
    <3>2. all[kept] < all[n]
      BY <1>2, <3>1 DEF Ascending
    <3>. QED
      BY <1>1, <1>4, <1>8, <3>2 DEF e
  <2>. QED
    BY <2>1, <2>2
<1>16. c = -1 => d = <<>>
  <2>. SUFFICES ASSUME c = -1, kept # 1 PROVE FALSE
    BY <1>4, <1>6, <1>7, EmptySeq
  <2>1. 1 < kept /\ 1 \in DOMAIN all /\ kept \in DOMAIN all
    BY <1>1, <1>4
  <2>2. all[1] < all[kept]
    BY <1>2, <2>1 DEF Ascending
  <2>. QED
    BY <1>2, <1>3, <1>4, <2>2
<1>17. Len(s.indents) - Len(r.indents) = n - kept
  <2>1. Len(s.indents) \in Nat /\ n = Len(s.indents) + 1
    BY <1>1
  <2>2. Len(r.indents) = kept - 1
    BY <1>7, <1>11
  <2>3. kept \in Int
    BY <1>1, <1>4
  <2>. QED
    BY <2>1, <2>2, <2>3
<1>. QED
  BY <1>5, <1>6, <1>10, <1>11, <1>12, <1>14, <1>15, <1>16, <1>17

\* Unrolling keeps the invariant.
LEMMA UnrolledInv ==
  ASSUME NEW s \in Scanners, Inv(s), ~s.token_available, s.mark > 0, NEW c \in Int, c >= -1
  PROVE  LET r == Unrolled(s, c)
             n == Len(s.tokens)
         IN /\ r \in Scanners /\ Inv(r)
            /\ r = [s EXCEPT !.tokens = r.tokens, !.indent = r.indent, !.indents = r.indents]
            /\ Len(r.tokens) >= n /\ \A i \in 1..n : r.tokens[i] = s.tokens[i]
            /\ \A i \in DOMAIN r.simple_keys : Stale(r, i) => Stale(s, i)
            /\ Count(Len(r.tokens), r.tokens, "STREAM_END") = Count(n, s.tokens, "STREAM_END")
            /\ c = -1 /\ ~InFlow(s) => Len(r.indents) = 0
<1>. DEFINE r == Unrolled(s, c)
            q == s.tokens
            t == r.tokens
            n == Len(q)
            m == Len(s.indents) - Len(r.indents)
            o == s.open
<1>0. Keys(s) /\ Shape(s)
  BY DEF Inv, Keys, Shape
<1>1. CASE InFlow(s)
  <2>1. r = s
    BY <1>1 DEF Unrolled
  <2>2. s = [s EXCEPT !.tokens = s.tokens, !.indent = s.indent, !.indents = s.indents]
    BY DEF Scanners
  <2>3. Len(s.tokens) >= Len(s.tokens)
    BY ScannerTypes
  <2>. QED
    BY <1>1, <2>1, <2>2, <2>3
<1>2. CASE ~InFlow(s)
  <2>1. /\ r \in Scanners
        /\ r = [s EXCEPT !.tokens = r.tokens, !.indent = r.indent, !.indents = r.indents]
        /\ m \in Nat /\ Len(t) = n + m
        /\ \A i \in 1..n : t[i] = q[i]
        /\ \A i \in n + 1..n + m : t[i] = Token("BLOCK_END", s.mark)
        /\ Ascending(All(r)) /\ All(r)[1] = -1
        /\ r.indent <= s.indent /\ r.indent <= c
        /\ c = -1 => r.indents = <<>>
    BY <1>0, <1>2, UnrolledFacts DEF Shape
  <2>. HIDE DEF r, m
  <2>2. /\ r.simple_keys = s.simple_keys /\ r.column = s.column /\ r.flow_level = s.flow_level
        /\ r.mark = s.mark /\ r.at_end = s.at_end /\ r.token_available = s.token_available
        /\ r.stream_end_produced = s.stream_end_produced /\ r.open = s.open
        /\ r.simple_keys_by_tok = s.simple_keys_by_tok /\ r.tokens_parsed = s.tokens_parsed
        /\ r.simple_key_allowed = s.simple_key_allowed
    BY <2>1 DEF Scanners
  <2>3. /\ n \in Nat /\ DOMAIN q = 1..n /\ DOMAIN t = 1..n + m /\ o \in Int /\ m \in Nat
        /\ Len(t) = n + m /\ n + m \in Nat /\ Len(t) >= n
        /\ s.mark \in Nat /\ s.indent \in Int /\ r.indent \in Int
    <3>1. n \in Nat /\ DOMAIN q = 1..n /\ o \in Int /\ s.mark \in Nat /\ s.indent \in Int
      BY ScannerTypes
    <3>2. r.indent \in Int /\ DOMAIN t = 1..Len(t)
      BY <2>1, ScannerTypes
    <3>. HIDE DEF n, t
    <3>. QED
      BY <2>1, <3>1, <3>2
  <2>a. \A i \in 1..n : t[i] = q[i]
    BY <2>1
  <2>b. \A i \in n + 1..n + m : t[i].typ = "BLOCK_END" /\ t[i].mark = s.mark
    BY <2>1 DEF Token
  <2>. HIDE DEF q, t, n, o
  <2>4. \A i \in 1..n + m : i \in 1..n \/ i \in n + 1..n + m
    BY <2>3
  <2>5. Within(r)
    <3>1. \A i \in 1..n : q[i].mark \in 1..s.mark
      BY <1>0, <2>3 DEF Shape, Within, q
    <3>2. \A i \in 1..n + m : t[i].mark \in 1..s.mark
      BY <2>3, <2>a, <2>b, <2>4, <3>1
    <3>. QED
      BY <1>0, <2>2, <2>3, <3>2 DEF Shape, Within, t
  <2>6. \A j \in 0..m : Depth(o, t, n + j) = Depth(o, q, n) - j
    <3>1. \A i \in n + 1..n + m : t[i].typ = "BLOCK_END"
      BY <2>b
    <3>. QED
      <4>1. o \in Int /\ n \in Nat /\ m \in Nat
        BY <2>3
      <4>. QED
        BY <2>a, <3>1, <4>1, DepthEnds
  <2>7. \A j \in 0..n : Depth(o, t, j) = Depth(o, q, j)
    <3>. TAKE j \in 0..n
    <3>1. j \in Nat /\ \A i \in 1..j : t[i].typ = q[i].typ
      BY <2>3, <2>a
    <3>. QED
      BY <3>1, DepthSame
  <2>8. Nesting(r)
    <3>1. Depth(o, q, n) = Len(s.indents) /\ \A j \in 0..n : Depth(o, q, j) >= 0
      BY <1>0 DEF Shape, Nesting, o, q, n
    <3>2. Len(r.indents) \in Nat /\ Len(s.indents) \in Nat /\ m = Len(s.indents) - Len(r.indents)
      <4>1. r.indents \in Seq(Int) /\ s.indents \in Seq(Int)
        BY <2>1, ScannerTypes
      <4>. QED
        BY <4>1, LenProperties DEF m
    <3>3. ASSUME NEW j \in 0..n + m PROVE Depth(o, t, j) >= 0
      <4>1. CASE j <= n
        <5>1. j \in 0..n
          BY <2>3, <4>1
        <5>. QED
          BY <2>7, <3>1, <5>1
      <4>2. CASE j > n
        <5>1. j - n \in 0..m /\ n + (j - n) = j
          BY <2>3, <4>2
        <5>2. Depth(o, t, j) = Len(s.indents) - (j - n)
          BY <2>6, <3>1, <5>1
        <5>. QED
          BY <2>3, <3>2, <5>1, <5>2
      <4>. QED
        BY <2>3, <4>1, <4>2
    <3>4. Depth(o, t, n + m) = Len(r.indents)
      <4>1. m \in 0..m
        BY <2>3
      <4>. QED
        <5>1. Depth(o, t, n + m) = Len(s.indents) - m
          BY <2>6, <3>1, <4>1
        <5>. DEFINE a == Len(s.indents)
                    b == Len(r.indents)
        <5>2. a \in Nat /\ b \in Nat /\ m = a - b /\ Depth(o, t, n + m) = a - m
          BY <3>2, <5>1
        <5>. HIDE DEF a, b
        <5>3. Depth(o, t, n + m) = b
          BY <5>2
        <5>. QED
          BY <5>3 DEF b
    <3>5. r.indent <= MaxColumn
      BY <1>0, <2>1, <2>3, ScannerConstants DEF Shape, Nesting
    <3>. QED
      BY <2>1, <2>2, <2>3, <3>3, <3>4, <3>5 DEF Nesting, t, o
  <2>9. Count(n + m, t, "STREAM_END") = Count(n, q, "STREAM_END")
    <3>1. \A i \in 1..n + m : t[i].typ = "STREAM_END" <=> i \in 1..n /\ q[i].typ = "STREAM_END"
      <4>. TAKE i \in 1..n + m
      <4>1. CASE i \in 1..n
        BY <2>a, <4>1
      <4>2. CASE i \in n + 1..n + m
        <5>1. ~(i \in 1..n) /\ t[i].typ = "BLOCK_END"
          BY <2>3, <2>b, <4>2
        <5>. QED
          BY <5>1
      <4>. QED
        BY <2>4, <4>1, <4>2
    <3>2. \A i \in 1..n : i \in 1..n + m
      BY <2>3
    <3>3. {i \in 1..n + m : t[i].typ = "STREAM_END"} = {i \in 1..n : q[i].typ = "STREAM_END"}
      BY <3>1, <3>2
    <3>. QED
      BY <3>3 DEF Count
  <2>10. AtEnd(r)
    <3>1. Count(n + m, t, "STREAM_END") <= 3
      BY <1>0, <2>9 DEF Shape, AtEnd, n, q
    <3>2. ASSUME NEW i \in 1..n + m, t[i].typ = "STREAM_END"
          PROVE  s.at_end /\ (InFlow(s) \/ Depth(o, t, i) = 0)
      <4>1. i \in 1..n
        <5>1. ~(i \in n + 1..n + m)
          BY <2>b, <3>2
        <5>. QED
          BY <2>4, <5>1
      <4>2. q[i].typ = "STREAM_END" /\ i \in 0..n
        BY <2>3, <2>a, <3>2, <4>1
      <4>3. s.at_end /\ (InFlow(s) \/ Depth(o, q, i) = 0)
        BY <1>0, <2>3, <4>1, <4>2 DEF Shape, AtEnd, q, o
      <4>. QED
        BY <2>7, <4>2, <4>3
    <3>3. r.at_end => \A i \in DOMAIN r.simple_keys : ~Valid(r.simple_keys[i])
      BY <1>0, <2>2 DEF Shape, AtEnd
    <3>4. r.stream_end_produced /\ ~InFlow(r) => r.open = 0
      BY <1>0, <2>2 DEF Shape, AtEnd, InFlow
    <3>. QED
      BY <2>2, <2>3, <3>1, <3>2, <3>3, <3>4 DEF AtEnd, t, o, InFlow
  <2>11. Dimmed(s, r) /\ Grows(s, r)
    <3>1. Dimmed(s, r)
      BY <1>0, <2>2 DEF Dimmed, Keys, KeysInOrder
    <3>. QED
      BY <2>2, <2>3, <2>a, <3>1 DEF Grows, n, q, t
  <2>12. Keys(r)
    BY <1>0, <2>1, <2>2, <2>11, Onward
  <2>13. \A i \in DOMAIN r.simple_keys : Stale(r, i) => Stale(s, i)
    BY <2>2 DEF Stale, Waiting
  <2>14. Inv(r)
    BY <2>1, <2>5, <2>8, <2>10, <2>12 DEF Inv, Keys
  <2>15. c = -1 => Len(r.indents) = 0
    BY <2>1, EmptySeq
  <2>. QED
    BY <2>1, <2>3, <2>a, <2>9, <2>13, <2>14, <2>15 DEF r, q, t, n
<1>. QED
  BY <1>1, <1>2

-----------------------------------------------------------------------------
(* The start of a lexeme                                                     *)

\* Making keys far changes nothing else.
LEMMA AwayFacts ==
  ASSUME NEW s \in Scanners, NEW n \in Nat
  PROVE  LET r == Away(s, n) IN
         /\ r \in Scanners
         /\ r = [s EXCEPT !.simple_keys = r.simple_keys]
<1>. DEFINE k == s.simple_keys
            f == [i \in DOMAIN k |-> [k[i] EXCEPT !.far = @ \/ (i <= n /\ k[i].possible)]]
<1>1. k \in Seq(SimpleKeys) /\ DOMAIN k = 1..Len(k) /\ Len(k) \in Nat
      /\ \A i \in DOMAIN k : k[i] \in SimpleKeys
  BY ScannerTypes
<1>2. Away(s, n) = [s EXCEPT !.simple_keys = f]
  BY DEF Away
<1>. HIDE DEF k
<1>3. \A i \in 1..Len(k) : [k[i] EXCEPT !.far = @ \/ (i <= n /\ k[i].possible)] \in SimpleKeys
  <2>. TAKE i \in 1..Len(k)
  <2>1. k[i] \in SimpleKeys
    BY <1>1
  <2>2. (k[i].far \/ (i <= n /\ k[i].possible)) \in BOOLEAN
    OBVIOUS
  <2>. QED
    BY <2>1, <2>2 DEF SimpleKeys
<1>4. f \in Seq(SimpleKeys)
  <2>. DEFINE l == Len(k)
              g(i) == [k[i] EXCEPT !.far = @ \/ (i <= n /\ k[i].possible)]
  <2>1. f = [i \in 1..l |-> g(i)] /\ l \in Nat /\ \A i \in 1..l : g(i) \in SimpleKeys
    BY <1>1, <1>3
  <2>. HIDE DEF l, g, f
  <2>2. f \in [1..l -> SimpleKeys]
    BY <2>1
  <2>. QED
    BY <2>1, <2>2, SeqDef
<1>. HIDE DEF f
<1>. QED
  BY <1>2, <1>4 DEF Scanners

\* The key of the block context stays required.
KeyKept(s, r) ==
  LET old == s.simple_keys[1]
      new == r.simple_keys[1]
  IN old.possible /\ old.required => new.possible /\ new.required /\ new.mark = old.mark

\* At the start of a lexeme.
Ready(s) ==
  /\ s \in Scanners /\ Inv(s)
  /\ s.mark > 0 /\ s.mark <= MaxFetches
  /\ ~s.token_available /\ ~s.at_end /\ ~s.stream_end_produced
  /\ ~InFlow(s) /\ s.simple_key_allowed => s.column <= MaxColumn
  /\ \A i \in DOMAIN s.simple_keys : Stale(s, i) => ~s.simple_key_allowed

\* While a token is fetched, no stale key stands where a new one may start: with
\* three tokens in the queue, only a key at the head that is near enough makes
\* the scanner fetch another, and stale ones are not.
LEMMA Calm ==
  ASSUME NEW s \in Scanners, Inv(s), ~s.token_available, NeedsMore(s),
         NEW i \in DOMAIN s.simple_keys, Stale(s, i)
  PROVE  ~s.simple_key_allowed
<1>. DEFINE n == s.simple_keys[i].token_number
            tp == s.tokens_parsed
            len == Len(s.tokens)
<1>1. Keys(s)
  BY DEF Inv, Keys
<1>2. /\ n \in Nat /\ i \in Nat /\ tp \in Nat /\ len \in Nat
      /\ DOMAIN s.simple_keys = 1..Len(s.simple_keys) /\ Len(s.simple_keys) \in Nat
      /\ s.simple_keys[i].possible \in BOOLEAN
  BY <1>1, KeyFacts, ScannerTypes
<1>3. /\ s.simple_keys[i].far
      /\ \/ Since(s, i) >= 2 /\ i = Len(s.simple_keys) /\ ~s.simple_key_allowed
         \/ Since(s, i) >= 3
  BY <1>1, KeyFacts
<1>4. n >= tp /\ n \in DOMAIN s.simple_keys_by_tok /\ s.simple_keys_by_tok[n] = i /\ i > 1
      /\ ~s.simple_keys[i].possible
  BY DEF Stale, Waiting
<1>5. Since(s, i) = len - (n - tp)
  BY DEF Since
<1>6. CASE Since(s, i) >= 3
  <2>1. len >= 3
    <3>. HIDE DEF n, len, tp
    <3>. QED
      BY <1>2, <1>4, <1>5, <1>6
  <2>. DEFINE h == s.simple_keys_by_tok[tp]
  <2>2. tp \in DOMAIN s.simple_keys_by_tok /\ Valid(s.simple_keys[h])
    BY <1>2, <2>1 DEF NeedsMore, HeadKey
  <2>3. Waiting(s, tp)
    BY <1>2, <2>2 DEF Waiting
  <2>4. /\ h \in DOMAIN s.simple_keys
        /\ h # 1 => s.simple_keys[h].token_number = tp
    BY <1>1, <1>2, <2>3 DEF Keys, IndexLeads
  <2>5. s.simple_keys[h].possible /\ ~s.simple_keys[h].far
    BY <2>2 DEF Valid
  <2>. HIDE DEF h
  <2>6. h \in Nat /\ h # i /\ h >= 1
    BY <1>2, <1>4, <2>4, <2>5
  <2>7. CASE h < i
    BY <1>1, <1>3, <2>4, <2>5, <2>7 DEF Keys, KeysInOrder
  <2>8. CASE h > i
    <3>1. n < s.simple_keys[h].token_number
      BY <1>1, <2>4, <2>5, <2>8 DEF Keys, KeysInOrder
    <3>2. s.simple_keys[h].token_number = tp
      BY <1>2, <1>4, <2>4, <2>8
    <3>. HIDE DEF n, tp
    <3>. QED
      BY <1>2, <1>4, <3>1, <3>2
  <2>. QED
    BY <1>2, <2>6, <2>7, <2>8
<1>. QED
  BY <1>3, <1>6

\* Where the text is read on, the keys of the block context stay.
LEMMA KeptKeys ==
  ASSUME NEW s \in Scanners, Keys(s), NEW r, Dimmed(s, r)
  PROVE  KeyKept(s, r)
<1>1. 1 \in DOMAIN s.simple_keys
  BY LastKey
<1>. QED
  BY <1>1 DEF Dimmed, KeyKept

\* The positions of the next lexeme.
LEMMA Positioned ==
  ASSUME scanner \in Scanners, Inv(scanner), InText, NEW s \in Positions
  PROVE  Ready(s) /\ KeyKept(scanner, s)
<1>. DEFINE p == scanner
            l == Len(p.simple_keys)
<1>1. /\ ~p.token_available /\ ~p.stream_end_produced /\ NeedsMore(p)
      /\ p.mark > 0 /\ ~p.at_end /\ p.mark < MaxFetches /\ p.mark \in Nat
  BY ScannerTypes DEF InText, Fetching
<1>2. Keys(p) /\ Shape(p) /\ l \in Nat /\ p.column \in Nat /\ p.column <= Beyond
  BY ScannerTypes DEF Inv, Keys, Shape, Within
<1>3. PICK r0 \in SameLine(p) \cup LaterLine(p) :
        s = Unrolled([r0 EXCEPT !.mark = @ + 1], r0.column)
  <2>1. PICK r0 \in SameLine(p) \cup LaterLine(p) :
          s = Unrolled([r0 EXCEPT !.mark = @ + 1], [r0 EXCEPT !.mark = @ + 1].column)
    BY DEF Positions
  <2>2. r0 \in Scanners => [r0 EXCEPT !.mark = @ + 1].column = r0.column
    BY DEF Scanners
  <2>3. r0 \in Scanners
    <3>1. CASE r0 \in SameLine(p)
      <4>1. PICK n \in 0..l, c \in p.column..Beyond : r0 = [Away(p, n) EXCEPT !.column = c]
        <5>1. PICK n \in 0..l, c \in p.column..(IF InFlow(p) \/ ~p.simple_key_allowed THEN Beyond ELSE MaxColumn) :
                r0 = [Away(p, n) EXCEPT !.column = c]
          BY <3>1 DEF SameLine
        <5>2. c \in p.column..Beyond
          BY <1>2, ScannerConstants DEF Beyond
        <5>. QED
          BY <5>1, <5>2
      <4>2. Away(p, n) \in Scanners /\ c \in Nat
        BY <1>2, AwayFacts
      <4>. QED
        BY <4>1, <4>2 DEF Scanners
    <3>2. CASE r0 \in LaterLine(p)
      <4>1. PICK c \in 0..MaxColumn :
              r0 = [AllAway(p) EXCEPT !.column = c, !.simple_key_allowed = @ \/ ~InFlow(p)]
        BY <3>2 DEF LaterLine
      <4>2. AllAway(p) \in Scanners /\ c \in Nat
        BY <1>2, AwayFacts DEF AllAway
      <4>3. (AllAway(p).simple_key_allowed \/ ~InFlow(p)) \in BOOLEAN
        OBVIOUS
      <4>. QED
        BY <4>1, <4>2, <4>3 DEF Scanners
    <3>. QED
      BY <3>1, <3>2
  <2>. QED
    BY <2>1, <2>2, <2>3
<1>. DEFINE r == [r0 EXCEPT !.mark = @ + 1]
<1>4. PICK n \in 0..l, c \in 0..Beyond, a \in BOOLEAN :
        /\ r0 = [Away(p, n) EXCEPT !.column = c, !.simple_key_allowed = a]
        /\ a => p.simple_key_allowed \/ ~InFlow(p)
        /\ ~InFlow(p) /\ a => c <= MaxColumn
  <2>1. CASE r0 \in SameLine(p)
    <3>1. PICK n \in 0..l, c \in p.column..(IF InFlow(p) \/ ~p.simple_key_allowed THEN Beyond ELSE MaxColumn) :
            r0 = [Away(p, n) EXCEPT !.column = c]
      BY <2>1 DEF SameLine
    <3>2. c \in 0..Beyond /\ (~InFlow(p) /\ p.simple_key_allowed => c <= MaxColumn)
      BY <1>2, ScannerConstants DEF Beyond
    <3>3. Away(p, n) = [p EXCEPT !.simple_keys = Away(p, n).simple_keys] /\ n \in Nat
      BY <1>2, AwayFacts
    <3>4. [Away(p, n) EXCEPT !.column = c]
            = [Away(p, n) EXCEPT !.column = c, !.simple_key_allowed = p.simple_key_allowed]
      <4>. DEFINE k == Away(p, n).simple_keys
      <4>1. Away(p, n) = [p EXCEPT !.simple_keys = k]
        BY <3>3
      <4>. HIDE DEF k
      <4>. QED
        BY <4>1 DEF Scanners
    <3>5. p.simple_key_allowed \in BOOLEAN
      BY ScannerTypes
    <3>. QED
      BY <3>1, <3>2, <3>4, <3>5
  <2>2. CASE r0 \in LaterLine(p)
    <3>1. PICK c \in 0..MaxColumn :
            r0 = [AllAway(p) EXCEPT !.column = c, !.simple_key_allowed = @ \/ ~InFlow(p)]
      BY <2>2 DEF LaterLine
    <3>2. c \in 0..Beyond /\ c <= MaxColumn /\ l \in 0..l
      BY <1>2, ScannerConstants DEF Beyond
    <3>3. AllAway(p).simple_key_allowed = p.simple_key_allowed
      <4>. DEFINE k == AllAway(p).simple_keys
      <4>1. AllAway(p) = [p EXCEPT !.simple_keys = k]
        BY <1>2, AwayFacts DEF AllAway
      <4>. HIDE DEF k
      <4>. QED
        BY <4>1 DEF Scanners
    <3>4. (p.simple_key_allowed \/ ~InFlow(p)) \in BOOLEAN
      OBVIOUS
    <3>5. r0 = [Away(p, l) EXCEPT !.column = c, !.simple_key_allowed = p.simple_key_allowed \/ ~InFlow(p)]
      BY <3>1, <3>3 DEF AllAway
    <3>. QED
      BY <3>2, <3>4, <3>5
  <2>. QED
    BY <2>1, <2>2
<1>5. /\ r \in Scanners
      /\ r.simple_keys = Away(p, n).simple_keys
      /\ r.simple_keys_by_tok = p.simple_keys_by_tok /\ r.flow_level = p.flow_level
      /\ r.tokens = p.tokens /\ r.tokens_parsed = p.tokens_parsed
      /\ r.indents = p.indents /\ r.indent = p.indent /\ r.open = p.open
      /\ r.stream_end_produced = p.stream_end_produced /\ r.token_available = p.token_available
      /\ r.simple_key_allowed = a /\ r.column = c /\ r.mark = p.mark + 1 /\ r.at_end = p.at_end
      /\ r0.column = c
  <2>. DEFINE w == Away(p, n)
              k == w.simple_keys
  <2>1. w \in Scanners /\ w = [p EXCEPT !.simple_keys = k] /\ c \in Nat
    BY <1>2, AwayFacts, SMTT(40)
  <2>2. r0 = [w EXCEPT !.column = c, !.simple_key_allowed = a]
    BY <1>4
  <2>3. k \in Seq(SimpleKeys)
    BY <2>1, ScannerTypes
  <2>. HIDE DEF w, k
  <2>4. r0 = [p EXCEPT !.simple_keys = k, !.column = c, !.simple_key_allowed = a]
    BY <2>1, <2>2 DEF Scanners
  <2>5. r = [p EXCEPT !.simple_keys = k, !.column = c, !.simple_key_allowed = a, !.mark = p.mark + 1]
    BY <2>4 DEF Scanners
  <2>6. p.mark + 1 \in Nat
    BY <1>1
  <2>7. r0.column = c
    BY <2>4 DEF Scanners
  <2>. HIDE DEF r
  <2>. QED
    BY <2>1, <2>3, <2>5, <2>6, <2>7 DEF Scanners, k, w
<1>6. s = Unrolled(r, c)
  BY <1>3, <1>5
<1>. HIDE DEF r
<1>7. /\ r.mark >= p.mark /\ r.mark > 0 /\ r.mark <= MaxFetches /\ r.mark <= MaxFetches + 1
      /\ r.column <= Beyond /\ c \in Int /\ c >= -1 /\ n \in Nat /\ p.mark # 0
  BY <1>1, <1>2, <1>5, ScannerConstants
<1>8. /\ Inv(r) /\ Dimmed(p, r) /\ \A i \in DOMAIN r.simple_keys : Stale(r, i) => Stale(p, i)
  BY <1>1, <1>4, <1>5, <1>7, Moved
<1>9. /\ s \in Scanners /\ Inv(s)
      /\ s = [r EXCEPT !.tokens = s.tokens, !.indent = s.indent, !.indents = s.indents]
      /\ \A i \in DOMAIN s.simple_keys : Stale(s, i) => Stale(r, i)
  BY <1>1, <1>5, <1>6, <1>7, <1>8, UnrolledInv
<1>10. /\ s.mark = r.mark /\ s.token_available = r.token_available /\ s.at_end = r.at_end
       /\ s.stream_end_produced = r.stream_end_produced /\ s.flow_level = r.flow_level
       /\ s.simple_key_allowed = r.simple_key_allowed /\ s.column = r.column
       /\ s.simple_keys = r.simple_keys
  BY <1>5, <1>9 DEF Scanners
<1>11. ASSUME NEW i \in DOMAIN s.simple_keys, Stale(s, i) PROVE ~s.simple_key_allowed
  <2>1. Stale(p, i) /\ i \in DOMAIN p.simple_keys /\ i > 1
    BY <1>8, <1>9, <1>10, <1>11 DEF Stale
  <2>2. ~p.simple_key_allowed
    BY <1>1, <2>1, Calm
  <2>3. InFlow(p)
    BY <1>2, <2>1, KeyFacts
  <2>. QED
    BY <1>4, <1>5, <1>10, <2>2, <2>3
<1>12. KeyKept(p, s)
  <2>1. KeyKept(p, r)
    BY <1>2, <1>8, KeptKeys
  <2>. QED
    BY <1>10, <2>1 DEF KeyKept
<1>13. InFlow(s) = InFlow(p)
  BY <1>5, <1>10 DEF InFlow
<1>. QED
  BY <1>1, <1>4, <1>5, <1>7, <1>9, <1>10, <1>11, <1>12, <1>13 DEF Ready

-----------------------------------------------------------------------------
(* What the fetches are made of                                              *)

\* Failing changes nothing else.
LEMMA ErrorInv ==
  ASSUME NEW s \in Scanners, Inv(s)
  PROVE  Error(s) \in Scanners /\ Inv(Error(s)) /\ Error(s).error
<1>. DEFINE r == Error(s)
<1>1. /\ r \in Scanners /\ r.error
      /\ r.tokens = s.tokens /\ r.tokens_parsed = s.tokens_parsed
      /\ r.token_available = s.token_available
      /\ r.simple_keys = s.simple_keys /\ r.simple_keys_by_tok = s.simple_keys_by_tok
      /\ r.simple_key_allowed = s.simple_key_allowed /\ r.flow_level = s.flow_level
      /\ r.indent = s.indent /\ r.indents = s.indents /\ r.column = s.column /\ r.mark = s.mark
      /\ r.at_end = s.at_end /\ r.stream_end_produced = s.stream_end_produced /\ r.open = s.open
  BY DEF Scanners, Error
<1>. HIDE DEF r
<1>2. Keys(s) /\ Shape(s)
  BY DEF Inv, Keys, Shape
<1>3. Dimmed(s, r) /\ Grows(s, r)
  <2>1. Len(r.tokens) >= Len(s.tokens)
    BY <1>1, ScannerTypes
  <2>. QED
    BY <1>1, <1>2, <2>1 DEF Dimmed, Grows, Keys, KeysInOrder
<1>4. Keys(r)
  BY <1>1, <1>2, <1>3, Onward
<1>5. Shape(r)
  <2>1. r.mark >= s.mark /\ r.mark <= MaxFetches + 1 /\ (~r.at_end => r.mark <= MaxFetches)
        /\ r.column <= Beyond /\ r.flow_level <= MaxFlowLevel /\ InFlow(r) = InFlow(s)
    BY <1>1, <1>2, ScannerTypes DEF Shape, Within, InFlow
  <2>. QED
    BY <1>1, <1>2, <2>1, ShapeKept
<1>. QED
  BY <1>1, <1>4, <1>5 DEF Inv, Keys, Shape, r

\* The positions behind a lexeme.
After(s) == {Behind(s), BelowIt(s)} \cup BehindScalar(s)

\* Behind it, the keys are those in front of it.
LEMMA AfterInv ==
  ASSUME NEW s \in Scanners, Inv(s), NEW r \in After(s)
  PROVE  /\ r \in Scanners /\ Inv(r) /\ KeyKept(s, r)
         /\ Dimmed(s, r) /\ r.tokens = s.tokens /\ r.error = s.error
<1>. DEFINE l == Len(s.simple_keys)
            b == Behind(s)
<1>1. l \in Nat /\ s.column \in Nat /\ s.column <= Beyond /\ 0 \in 0..l /\ l \in 0..l /\ Beyond \in Nat
  BY ScannerTypes, ScannerConstants DEF Inv, Within, Beyond
<1>2. PICK c \in 0..Beyond : b = [s EXCEPT !.column = c]
  <2>. DEFINE c == IF s.column < Beyond THEN s.column + 1 ELSE s.column
  <2>1. c \in 0..Beyond
    BY <1>1
  <2>2. b = [s EXCEPT !.column = c]
    BY DEF Behind
  <2>. QED
    BY <2>1, <2>2
<1>3. s.simple_keys = Away(s, 0).simple_keys
  <2>. DEFINE k == s.simple_keys
              f == [i \in DOMAIN k |-> [k[i] EXCEPT !.far = @ \/ (i <= 0 /\ k[i].possible)]]
  <2>1. Away(s, 0) = [s EXCEPT !.simple_keys = f]
    BY DEF Away
  <2>2. k \in Seq(SimpleKeys) /\ DOMAIN k = 1..Len(k) /\ Len(k) \in Nat
        /\ \A i \in DOMAIN k : k[i] \in SimpleKeys
    BY ScannerTypes
  <2>. HIDE DEF k
  <2>3. \A i \in DOMAIN k : f[i] = k[i]
    <3>. TAKE i \in DOMAIN k
    <3>1. k[i] \in SimpleKeys /\ ~(i <= 0)
      BY <2>2
    <3>2. f[i] = [k[i] EXCEPT !.far = @ \/ (i <= 0 /\ k[i].possible)]
      OBVIOUS
    <3>3. (k[i].far \/ (i <= 0 /\ k[i].possible)) = k[i].far /\ k[i].far \in BOOLEAN
      BY <3>1 DEF SimpleKeys
    <3>. QED
      BY <3>1, <3>2, <3>3 DEF SimpleKeys
  <2>4. f = k
    <3>1. k = [i \in DOMAIN k |-> k[i]]
      BY <2>2
    <3>2. \A i \in DOMAIN k : [k[i] EXCEPT !.far = @ \/ (i <= 0 /\ k[i].possible)] = k[i]
      BY <2>3
    <3>. QED
      BY <3>1, <3>2
  <2>. HIDE DEF f
  <2>. QED
    BY <2>1, <2>4 DEF Scanners, k
<1>4. PICK n \in 0..l, c2 \in 0..Beyond :
        /\ r = [s EXCEPT !.simple_keys = Away(s, n).simple_keys, !.column = c2]
  <2>1. CASE r = b
    <3>. DEFINE k == Away(s, 0).simple_keys
    <3>1. s.simple_keys = k
      BY <1>3
    <3>. HIDE DEF k
    <3>2. [s EXCEPT !.column = c] = [s EXCEPT !.simple_keys = k, !.column = c]
      BY <3>1 DEF Scanners
    <3>. QED
      BY <1>1, <1>2, <2>1, <3>2 DEF k
  <2>2. ASSUME NEW d \in 0..Beyond, r = [AllAway(s) EXCEPT !.column = d]
        PROVE  \E n \in 0..l, c2 \in 0..Beyond :
                 r = [s EXCEPT !.simple_keys = Away(s, n).simple_keys, !.column = c2]
    <3>. DEFINE k == Away(s, l).simple_keys
                w == Away(s, l)
    <3>1. w = [s EXCEPT !.simple_keys = k]
      BY <1>1, AwayFacts
    <3>2. r = [w EXCEPT !.column = d]
      BY <2>2 DEF AllAway
    <3>. HIDE DEF k, w
    <3>3. r = [s EXCEPT !.simple_keys = k, !.column = d]
      BY <3>1, <3>2 DEF Scanners
    <3>. QED
      BY <1>1, <3>3 DEF k
  <2>3. CASE r = BelowIt(s)
    <3>1. r = [AllAway(s) EXCEPT !.column = 0] /\ 0 \in 0..Beyond
      BY <1>1, <2>3 DEF BelowIt
    <3>. QED
      BY <2>2, <3>1
  <2>4. CASE r \in BehindScalar(s)
    <3>1. CASE \E n \in 0..Len(s.simple_keys) : r = Away(b, n)
      <4>1. PICK n \in 0..l : r = Away(b, n)
        BY <3>1
      <4>a. c \in Nat
        BY <1>1
      <4>. HIDE DEF b
      <4>2. b \in Scanners /\ b.simple_keys = s.simple_keys
        BY <1>2, <4>a DEF Scanners
      <4>. DEFINE k == Away(b, n).simple_keys
      <4>3. r = [b EXCEPT !.simple_keys = k]
        BY <4>1, <4>2, AwayFacts
      <4>4. k = Away(s, n).simple_keys
        <5>. DEFINE q == s.simple_keys
                    f == [i \in DOMAIN q |-> [q[i] EXCEPT !.far = @ \/ (i <= n /\ q[i].possible)]]
        <5>1. Away(s, n) = [s EXCEPT !.simple_keys = f]
          BY DEF Away
        <5>2. Away(b, n) = [b EXCEPT !.simple_keys = f]
          BY <4>2 DEF Away
        <5>. HIDE DEF f
        <5>3. Away(s, n).simple_keys = f /\ Away(b, n).simple_keys = f
          BY <4>2, <5>1, <5>2 DEF Scanners
        <5>. QED
          BY <5>3
      <4>. HIDE DEF k
      <4>5. r = [s EXCEPT !.simple_keys = k, !.column = c]
        BY <1>2, <4>3 DEF Scanners, b
      <4>. QED
        BY <4>4, <4>5
    <3>2. CASE \E d \in 1..Beyond : r = [AllAway(s) EXCEPT !.column = d]
      <4>1. PICK d \in 1..Beyond : r = [AllAway(s) EXCEPT !.column = d]
        BY <3>2
      <4>2. d \in 0..Beyond
        BY <1>1
      <4>. QED
        BY <2>2, <4>1, <4>2
    <3>. QED
      BY <2>4, <3>1, <3>2 DEF BehindScalar
  <2>. QED
    BY <2>1, <2>3, <2>4 DEF After
<1>. HIDE DEF b
<1>5. /\ r \in Scanners /\ r.simple_keys = Away(s, n).simple_keys /\ r.column = c2
      /\ r.tokens = s.tokens /\ r.tokens_parsed = s.tokens_parsed
      /\ r.token_available = s.token_available
      /\ r.simple_keys_by_tok = s.simple_keys_by_tok
      /\ r.simple_key_allowed = s.simple_key_allowed /\ r.flow_level = s.flow_level
      /\ r.indent = s.indent /\ r.indents = s.indents /\ r.mark = s.mark
      /\ r.at_end = s.at_end /\ r.stream_end_produced = s.stream_end_produced /\ r.open = s.open
      /\ r.error = s.error
  <2>. DEFINE k == Away(s, n).simple_keys
  <2>1. Away(s, n) \in Scanners
    BY <1>1, AwayFacts
  <2>2. k \in Seq(SimpleKeys)
    BY <2>1, ScannerTypes
  <2>3. c2 \in Nat
    BY <1>1
  <2>4. r = [s EXCEPT !.simple_keys = k, !.column = c2]
    BY <1>4
  <2>. HIDE DEF k
  <2>5. r.simple_keys = k /\ r \in Scanners
    BY <2>2, <2>3, <2>4 DEF Scanners
  <2>. QED
    BY <2>4, <2>5 DEF Scanners, k
<1>6. r.mark >= s.mark /\ r.mark <= MaxFetches + 1 /\ (~r.at_end => r.mark <= MaxFetches)
      /\ r.column <= Beyond /\ n \in Nat
  BY <1>1, <1>5, ScannerTypes DEF Inv, Within
<1>7. Inv(r) /\ Dimmed(s, r)
  BY <1>5, <1>6, Moved
<1>8. KeyKept(s, r)
  BY <1>7, KeptKeys DEF Inv, Keys
<1>. QED
  BY <1>5, <1>7, <1>8

\* The types of the tokens that open and close nothing.
Plain == TokenTypes \ {"STREAM_END", "BLOCK_SEQUENCE_START", "BLOCK_MAPPING_START", "BLOCK_END"}

\* A plain token is added, and the next may be a simple key or not.
LEMMA AppendedInv ==
  ASSUME NEW s \in Scanners, Inv(s), ~s.token_available, s.mark > 0,
         NEW typ \in Plain, NEW a \in BOOLEAN
  PROVE  LET r == Appended([s EXCEPT !.simple_key_allowed = a], typ) IN
         /\ r \in Scanners /\ Inv(r)
         /\ r.simple_keys = s.simple_keys
         /\ Len(r.tokens) > Len(s.tokens)
         /\ \A i \in 1..Len(s.tokens) : r.tokens[i] = s.tokens[i]
         /\ \A i \in DOMAIN r.simple_keys : Stale(r, i) => Since(r, i) >= 3
<1>. DEFINE m == [s EXCEPT !.simple_key_allowed = a]
            r == Appended(m, typ)
            x == Token(typ, s.mark)
            n == Len(s.tokens)
<1>1. Keys(s) /\ Shape(s)
  BY DEF Inv, Keys, Shape
<1>2. /\ m \in Scanners /\ m.simple_key_allowed = a
      /\ m.tokens = s.tokens /\ m.tokens_parsed = s.tokens_parsed
      /\ m.token_available = s.token_available
      /\ m.simple_keys = s.simple_keys /\ m.simple_keys_by_tok = s.simple_keys_by_tok
      /\ m.flow_level = s.flow_level
      /\ m.indent = s.indent /\ m.indents = s.indents /\ m.column = s.column /\ m.mark = s.mark
      /\ m.at_end = s.at_end /\ m.stream_end_produced = s.stream_end_produced /\ m.open = s.open
  BY DEF Scanners
<1>. HIDE DEF m
<1>3. Shape(m)
  <2>1. m.mark >= s.mark /\ m.mark <= MaxFetches + 1 /\ (~m.at_end => m.mark <= MaxFetches)
        /\ m.column <= Beyond /\ m.flow_level <= MaxFlowLevel /\ InFlow(m) = InFlow(s)
    BY <1>1, <1>2, ScannerTypes DEF Shape, Within, InFlow
  <2>. QED
    BY <1>1, <1>2, <2>1, ShapeKept
<1>4. typ \in TokenTypes
  BY DEF Plain
<1>5. /\ r \in Scanners /\ r = [m EXCEPT !.tokens = r.tokens]
      /\ n \in Nat /\ Len(r.tokens) = n + 1 /\ r.tokens[n + 1] = x
      /\ \A i \in 1..n : r.tokens[i] = s.tokens[i]
  <2>. DEFINE t == Append(m.tokens, Token(typ, m.mark))
  <2>1. /\ r \in Scanners /\ r = [m EXCEPT !.tokens = t]
        /\ n \in Nat /\ Len(r.tokens) = n + 1 /\ r.tokens[n + 1] = x
        /\ \A i \in 1..n : r.tokens[i] = s.tokens[i]
    BY <1>2, <1>4, AppendedFacts
  <2>. HIDE DEF t, r
  <2>2. r = [m EXCEPT !.tokens = r.tokens]
    BY <1>2, <2>1 DEF Scanners
  <2>. QED
    BY <2>1, <2>2
<1>6. Shape(r)
  BY <1>2, <1>3, AppendedShape DEF Plain
<1>. HIDE DEF r
<1>7. /\ r.simple_key_allowed = a
      /\ r.tokens_parsed = s.tokens_parsed
      /\ r.token_available = s.token_available
      /\ r.simple_keys = s.simple_keys /\ r.simple_keys_by_tok = s.simple_keys_by_tok
      /\ r.flow_level = s.flow_level /\ r.mark = s.mark
  BY <1>2, <1>5 DEF Scanners
<1>8. Len(r.tokens) > Len(s.tokens)
  BY <1>5
<1>9. Dimmed(s, r) /\ Grows(s, r)
  <2>1. Len(r.tokens) >= Len(s.tokens)
    BY <1>5
  <2>. QED
    BY <1>1, <1>5, <1>7, <2>1 DEF Dimmed, Grows, Keys, KeysInOrder
<1>10. /\ Keys(r)
       /\ \A i \in DOMAIN r.simple_keys : Stale(r, i) => Since(r, i) >= 3
  BY <1>1, <1>5, <1>7, <1>8, <1>9, Onward
<1>. QED
  BY <1>5, <1>6, <1>7, <1>8, <1>10 DEF Inv, Keys, Shape, r, m

\* The innermost key is struck off; if it must not be, the scanner fails instead.
LEMMA RemovedInv ==
  ASSUME NEW s \in Scanners, Inv(s)
  PROVE  LET r == Removed(s) IN
         /\ r \in Scanners /\ Inv(r)
         /\ r = [s EXCEPT !.simple_keys = r.simple_keys,
                          !.simple_keys_by_tok = r.simple_keys_by_tok]
         /\ ~MustBeKey(s) => KeyKept(s, r)
<1>. DEFINE r == Removed(s)
            n == Len(s.simple_keys)
<1>1. Keys(s) /\ Shape(s)
  BY DEF Inv, Keys, Shape
<1>2. /\ r \in Scanners
      /\ r = [s EXCEPT !.simple_keys = r.simple_keys, !.simple_keys_by_tok = r.simple_keys_by_tok]
      /\ Len(r.simple_keys) = n
      /\ \A i \in 1..n - 1 : r.simple_keys[i] = s.simple_keys[i]
      /\ r.simple_keys[n] = [s.simple_keys[n] EXCEPT !.possible = FALSE]
  BY <1>1, RemovedFacts
<1>3. Keys(r)
  BY <1>1, RemovedKeys
<1>4. /\ n \in Nat \ {0} /\ DOMAIN s.simple_keys = 1..n /\ s.simple_keys[n] \in SimpleKeys
      /\ Last(s.simple_keys) = s.simple_keys[n]
  BY <1>1, LastKey
<1>. HIDE DEF r
<1>5. /\ r.tokens = s.tokens /\ r.flow_level = s.flow_level
      /\ r.mark = s.mark /\ r.token_available = s.token_available
      /\ r.indent = s.indent /\ r.indents = s.indents /\ r.column = s.column
      /\ r.at_end = s.at_end /\ r.stream_end_produced = s.stream_end_produced /\ r.open = s.open
  BY <1>2 DEF Scanners
<1>6. ASSUME NEW i \in DOMAIN r.simple_keys
      PROVE  /\ i \in DOMAIN s.simple_keys
             /\ r.simple_keys[i].column = s.simple_keys[i].column
             /\ r.simple_keys[i].mark = s.simple_keys[i].mark
             /\ r.simple_keys[i].possible => s.simple_keys[i].possible
             /\ s.simple_keys[i].far => r.simple_keys[i].far
  <2>1. i \in 1..n
    BY <1>2, ScannerTypes
  <2>2. CASE i = n
    BY <1>2, <1>4, <2>1, <2>2 DEF SimpleKeys
  <2>3. CASE i # n
    <3>1. r.simple_keys[i] = s.simple_keys[i]
      BY <1>2, <1>4, <2>1, <2>3
    <3>. QED
      BY <1>4, <2>1, <3>1
  <2>. QED
    BY <2>2, <2>3
<1>7. Shape(r)
  <2>1. r.mark >= s.mark /\ r.mark <= MaxFetches + 1 /\ (~r.at_end => r.mark <= MaxFetches)
        /\ r.column <= Beyond /\ r.flow_level <= MaxFlowLevel /\ InFlow(r) = InFlow(s)
    BY <1>1, <1>5, ScannerTypes DEF Shape, Within, InFlow
  <2>. QED
    BY <1>1, <1>2, <1>5, <1>6, <2>1, ShapeKept
<1>8. ~MustBeKey(s) => KeyKept(s, r)
  <2>1. CASE n = 1
    BY <1>4, <2>1 DEF MustBeKey, KeyKept
  <2>2. CASE n # 1
    <3>. HIDE DEF n
    <3>1. 1 \in 1..n - 1
      BY <1>4, <2>2
    <3>. QED
      BY <1>2, <3>1 DEF KeyKept
  <2>. QED
    BY <2>1, <2>2
<1>. QED
  BY <1>2, <1>3, <1>7, <1>8 DEF Inv, Keys, Shape, r

\* A level is left, before the end of the text.
LEMMA FlowLeftInv ==
  ASSUME NEW s \in Scanners, Inv(s), ~s.at_end, ~s.stream_end_produced
  PROVE  LET r == FlowLeft(s) IN
         /\ r \in Scanners /\ Inv(r) /\ KeyKept(s, r)
         /\ r.tokens = s.tokens /\ r.token_available = s.token_available /\ r.mark = s.mark
<1>. DEFINE r == FlowLeft(s)
            n == Len(s.simple_keys)
<1>1. Keys(s) /\ Shape(s)
  BY DEF Inv, Keys, Shape
<1>2. CASE ~InFlow(s)
  BY <1>2 DEF FlowLeft, KeyKept
<1>3. CASE InFlow(s)
  <2>1. /\ r \in Scanners /\ Keys(r)
        /\ r = [s EXCEPT !.flow_level = s.flow_level - 1, !.simple_keys = r.simple_keys,
                         !.simple_keys_by_tok = r.simple_keys_by_tok]
        /\ Len(r.simple_keys) = n - 1
        /\ \A i \in 1..n - 1 : r.simple_keys[i] = s.simple_keys[i]
    BY <1>1, <1>3, FlowLeftKeys
  <2>2. n \in Nat \ {0} /\ DOMAIN s.simple_keys = 1..n /\ n > 1
    BY <1>1, <1>3, LastKey
  <2>. HIDE DEF r
  <2>3. /\ r.tokens = s.tokens /\ r.flow_level = s.flow_level - 1
        /\ r.mark = s.mark /\ r.token_available = s.token_available
        /\ r.indent = s.indent /\ r.indents = s.indents /\ r.column = s.column
        /\ r.at_end = s.at_end /\ r.stream_end_produced = s.stream_end_produced /\ r.open = s.open
    BY <2>1 DEF Scanners
  <2>4. ASSUME NEW i \in DOMAIN r.simple_keys
        PROVE  i \in DOMAIN s.simple_keys /\ r.simple_keys[i] = s.simple_keys[i]
    <3>1. i \in 1..n - 1
      BY <2>1, ScannerTypes
    <3>. QED
      BY <2>1, <2>2, <3>1
  <2>5. Shape(r)
    <3>1. r.mark >= s.mark /\ r.mark <= MaxFetches + 1 /\ (~r.at_end => r.mark <= MaxFetches)
          /\ r.column <= Beyond /\ r.flow_level <= MaxFlowLevel
      BY <1>1, <2>3, ScannerTypes, ScannerConstants DEF Shape, Within
    <3>. QED
      BY <1>1, <2>1, <2>3, <2>4, <3>1, ShapeKept
  <2>6. KeyKept(s, r)
    <3>1. 1 \in 1..n - 1
      BY <2>2
    <3>. QED
      BY <2>1, <3>1 DEF KeyKept
  <2>. QED
    BY <2>1, <2>3, <2>5, <2>6 DEF Inv, Keys, Shape, r
<1>. QED
  BY <1>2, <1>3

\* A scalar, an alias, an anchor or a tag is added; it may start a simple key, and
\* the token behind it may, or may not.
LEMMA NodeInv ==
  ASSUME NEW s, Ready(s), ~SaveFails(s), NEW a \in BOOLEAN, NEW typ \in Plain
  PROVE  LET r == Appended([Saved(s) EXCEPT !.simple_key_allowed = a], typ) IN
         /\ r \in Scanners /\ Inv(r) /\ KeyKept(s, r)
         /\ r.token_available = s.token_available /\ r.mark = s.mark /\ r.at_end = s.at_end
         /\ r.stream_end_produced = s.stream_end_produced /\ r.flow_level = s.flow_level
         /\ \A i \in DOMAIN r.simple_keys : Stale(r, i) => Since(r, i) >= 3
<1>. DEFINE w == Saved(s)
            m == [w EXCEPT !.simple_key_allowed = a]
            r == Appended(m, typ)
            x == Token(typ, s.mark)
            n == Len(s.simple_keys)
<1>1. /\ s \in Scanners /\ Inv(s) /\ s.mark > 0 /\ ~s.token_available /\ ~s.at_end
      /\ ~s.stream_end_produced
      /\ Keys(s) /\ Shape(s)
  BY DEF Ready, Inv, Keys, Shape
<1>2. CASE ~s.simple_key_allowed
  <2>1. w = s
    BY <1>2 DEF Saved
  <2>2. /\ r \in Scanners /\ Inv(r) /\ r.simple_keys = s.simple_keys
        /\ \A i \in DOMAIN r.simple_keys : Stale(r, i) => Since(r, i) >= 3
    BY <1>1, <2>1, AppendedInv
  <2>3. m \in Scanners /\ m.mark = s.mark /\ m.token_available = s.token_available
        /\ m.at_end = s.at_end /\ m.stream_end_produced = s.stream_end_produced
        /\ m.flow_level = s.flow_level
    BY <1>1, <2>1 DEF Scanners
  <2>. HIDE DEF m
  <2>4. r = [m EXCEPT !.tokens = Append(m.tokens, Token(typ, m.mark))]
    BY <1>1, <2>3, AppendedFacts DEF Plain
  <2>5. r.token_available = s.token_available /\ r.mark = s.mark /\ r.at_end = s.at_end
        /\ r.stream_end_produced = s.stream_end_produced /\ r.flow_level = s.flow_level
    BY <2>3, <2>4 DEF Scanners
  <2>. QED
    BY <2>2, <2>5 DEF KeyKept, m
<1>3. CASE s.simple_key_allowed
  <2>1. /\ w \in Scanners
        /\ w = [s EXCEPT !.simple_keys = w.simple_keys,
                         !.simple_keys_by_tok = w.simple_keys_by_tok]
        /\ Len(w.simple_keys) = n
        /\ \A i \in 1..n - 1 : w.simple_keys[i] = s.simple_keys[i]
        /\ w.simple_keys[n] = Key(TRUE, ~InFlow(s) /\ s.indent = s.column, NumberOf(s), s.column, s.mark)
    BY <1>1, <1>3, SavedFacts
  <2>2. /\ n \in Nat \ {0} /\ DOMAIN s.simple_keys = 1..n /\ (n > 1 <=> InFlow(s))
        /\ Last(s.simple_keys) = s.simple_keys[n] /\ s.simple_keys[n] \in SimpleKeys
        /\ DOMAIN w.simple_keys = 1..n
    <3>1. /\ n \in Nat \ {0} /\ DOMAIN s.simple_keys = 1..n /\ (n > 1 <=> InFlow(s))
          /\ Last(s.simple_keys) = s.simple_keys[n] /\ s.simple_keys[n] \in SimpleKeys
      BY <1>1, LastKey
    <3>2. DOMAIN w.simple_keys = 1..n
      <4>. HIDE DEF w
      <4>. QED
        BY <2>1, ScannerTypes
    <3>. QED
      BY <3>1, <3>2
  <2>. HIDE DEF w
  <2>3. /\ m \in Scanners /\ m.simple_key_allowed = a
        /\ m.tokens = s.tokens /\ m.tokens_parsed = s.tokens_parsed
        /\ m.token_available = s.token_available
        /\ m.simple_keys = w.simple_keys /\ m.simple_keys_by_tok = w.simple_keys_by_tok
        /\ m.flow_level = s.flow_level
        /\ m.indent = s.indent /\ m.indents = s.indents /\ m.column = s.column /\ m.mark = s.mark
        /\ m.at_end = s.at_end /\ m.stream_end_produced = s.stream_end_produced /\ m.open = s.open
    <3>1. m \in Scanners /\ m.simple_key_allowed = a /\ m.simple_keys = w.simple_keys
          /\ m.simple_keys_by_tok = w.simple_keys_by_tok
      BY <2>1 DEF Scanners
    <3>. DEFINE k == w.simple_keys
                y == w.simple_keys_by_tok
    <3>2. w = [s EXCEPT !.simple_keys = k, !.simple_keys_by_tok = y]
      BY <2>1
    <3>. HIDE DEF k, y
    <3>3. /\ m.tokens = s.tokens /\ m.tokens_parsed = s.tokens_parsed
          /\ m.token_available = s.token_available
          /\ m.flow_level = s.flow_level
          /\ m.indent = s.indent /\ m.indents = s.indents /\ m.column = s.column /\ m.mark = s.mark
          /\ m.at_end = s.at_end /\ m.stream_end_produced = s.stream_end_produced /\ m.open = s.open
      BY <1>1, <3>2 DEF Scanners
    <3>. QED
      BY <3>1, <3>3
  <2>. HIDE DEF m
  <2>4. /\ r \in Scanners
        /\ r = [m EXCEPT !.tokens = Append(m.tokens, Token(typ, m.mark))]
        /\ x \in Tokens /\ x.mark = s.mark
    <3>1. typ \in TokenTypes
      BY DEF Plain
    <3>2. /\ r \in Scanners
          /\ r = [m EXCEPT !.tokens = Append(m.tokens, Token(typ, m.mark))]
          /\ Token(typ, m.mark) \in Tokens
      BY <1>1, <2>3, <3>1, AppendedFacts
    <3>3. x.mark = s.mark
      BY DEF Token
    <3>. QED
      BY <2>3, <3>2, <3>3
  <2>. HIDE DEF r
  <2>5. /\ r.tokens = Append(s.tokens, x) /\ r.tokens_parsed = s.tokens_parsed
        /\ r.simple_keys = w.simple_keys /\ r.simple_keys_by_tok = w.simple_keys_by_tok
        /\ r.flow_level = s.flow_level /\ r.token_available = s.token_available /\ r.mark = s.mark
        /\ r.at_end = s.at_end /\ r.stream_end_produced = s.stream_end_produced
    <3>. DEFINE t == Append(s.tokens, x)
    <3>1. r = [m EXCEPT !.tokens = t]
      BY <2>3, <2>4
    <3>. HIDE DEF t
    <3>2. r.tokens = t
      BY <2>3, <3>1 DEF Scanners
    <3>. QED
      BY <2>3, <3>1, <3>2 DEF Scanners, t
  <2>6. \A i \in DOMAIN s.simple_keys : ~Stale(s, i)
    BY <1>3 DEF Ready
  <2>7. Keys(r) /\ \A i \in DOMAIN r.simple_keys : ~Stale(r, i)
    BY <1>1, <1>3, <2>4, <2>5, <2>6, SavedKeys DEF w
  <2>8. s.column <= Beyond /\ s.mark \in Nat /\ s.mark <= MaxFetches /\ s.column \in Nat
    BY <1>1, ScannerTypes DEF Ready, Shape, Within
  <2>9. ASSUME NEW i \in DOMAIN m.simple_keys
        PROVE  /\ m.simple_keys[i].column <= Beyond
               /\ m.simple_keys[i].possible => m.simple_keys[i].mark \in 1..m.mark
               /\ i = 1 /\ m.simple_keys[i].possible => m.simple_keys[i].column <= MaxColumn
    <3>1. i \in 1..n
      BY <2>2, <2>3
    <3>2. CASE i = n
      <4>1. m.simple_keys[i] = Key(TRUE, ~InFlow(s) /\ s.indent = s.column, NumberOf(s), s.column, s.mark)
        BY <2>1, <2>3, <3>2
      <4>2. m.simple_keys[i].column = s.column /\ m.simple_keys[i].mark = s.mark
        BY <4>1 DEF Key
      <4>3. i = 1 => ~InFlow(s)
        BY <2>2, <3>2
      <4>4. i = 1 => s.column <= MaxColumn
        BY <1>3, <4>3 DEF Ready
      <4>. QED
        BY <1>1, <2>3, <2>8, <4>2, <4>4
    <3>3. CASE i # n
      <4>1. m.simple_keys[i] = s.simple_keys[i] /\ i \in DOMAIN s.simple_keys
        <5>. HIDE DEF n
        <5>1. i \in 1..n - 1
          BY <2>2, <3>1, <3>3
        <5>. QED
          BY <2>1, <2>2, <2>3, <3>1, <5>1
      <4>. QED
        BY <1>1, <2>3, <4>1 DEF Shape, Within
    <3>. QED
      BY <3>2, <3>3
  <2>10. Shape(m)
    <3>1. Within(m)
      BY <1>1, <2>3, <2>9 DEF Shape, Within
    <3>2. Nesting(m)
      BY <1>1, <2>3 DEF Shape, Nesting, All
    <3>3. AtEnd(m)
      BY <1>1, <2>3 DEF Shape, AtEnd, InFlow
    <3>. QED
      BY <3>1, <3>2, <3>3 DEF Shape
  <2>11. Shape(r)
    BY <1>1, <2>3, <2>10, AppendedShape DEF Plain, r
  <2>12. KeyKept(s, r)
    <3>1. CASE n = 1
      BY <1>3, <2>2, <3>1 DEF SaveFails, MustBeKey, KeyKept
    <3>2. CASE n # 1
      <4>. HIDE DEF n
      <4>1. 1 \in 1..n - 1
        BY <2>2, <3>2
      <4>. QED
        BY <2>1, <2>5, <4>1 DEF KeyKept
    <3>. QED
      BY <3>1, <3>2
  <2>. QED
    BY <2>4, <2>5, <2>7, <2>11, <2>12 DEF Inv, Keys, Shape, r, m, w
<1>. QED
  BY <1>2, <1>3

\* A bracket is opened.
LEMMA FlowStartInv ==
  ASSUME NEW s, Ready(s), ~SaveFails(s), s.flow_level < MaxFlowLevel
  PROVE  LET r == Appended([FlowEntered(Saved(s)) EXCEPT !.simple_key_allowed = TRUE], "FLOW_START") IN
         r \in Scanners /\ Inv(r) /\ KeyKept(s, r)
<1>. DEFINE w == Saved(s)
            m == Appended([w EXCEPT !.simple_key_allowed = TRUE], "FLOW_START")
            key == Key(FALSE, FALSE, NumberOf(w), w.column, w.mark)
            f == [FlowEntered(w) EXCEPT !.simple_key_allowed = TRUE]
            r == Appended(f, "FLOW_START")
            x == Token("FLOW_START", s.mark)
<1>1. /\ s \in Scanners /\ s.mark > 0 /\ ~s.token_available /\ ~s.at_end
      /\ ~s.stream_end_produced /\ Keys(s) /\ Shape(s)
  BY DEF Ready, Inv, Keys, Shape
<1>2. "FLOW_START" \in Plain /\ "FLOW_START" \in TokenTypes
  BY DEF Plain, TokenTypes
<1>3. /\ m \in Scanners /\ Inv(m) /\ KeyKept(s, m)
      /\ m.token_available = s.token_available /\ m.mark = s.mark /\ m.at_end = s.at_end
      /\ m.stream_end_produced = s.stream_end_produced /\ m.flow_level = s.flow_level
      /\ \A i \in DOMAIN m.simple_keys : Stale(m, i) => Since(m, i) >= 3
  BY <1>2, NodeInv
<1>4. /\ w \in Scanners /\ w.tokens = s.tokens /\ w.tokens_parsed = s.tokens_parsed
      /\ w.mark = s.mark /\ w.column = s.column /\ w.flow_level = s.flow_level
  <2>1. CASE ~s.simple_key_allowed
    BY <1>1, <2>1 DEF Saved
  <2>2. CASE s.simple_key_allowed
    <3>1. /\ w \in Scanners
          /\ w = [s EXCEPT !.simple_keys = w.simple_keys,
                           !.simple_keys_by_tok = w.simple_keys_by_tok]
      BY <1>1, <2>2, SavedFacts
    <3>. DEFINE k == w.simple_keys
                y == w.simple_keys_by_tok
    <3>2. w = [s EXCEPT !.simple_keys = k, !.simple_keys_by_tok = y]
      BY <3>1
    <3>. HIDE DEF k, y, w
    <3>. QED
      BY <1>1, <3>1, <3>2 DEF Scanners
  <2>. QED
    BY <2>1, <2>2
<1>5. /\ s.column \in Nat /\ s.column <= Beyond /\ s.mark \in Nat /\ s.flow_level \in Nat
      /\ w.simple_keys \in Seq(SimpleKeys) /\ NumberOf(w) \in Nat
  BY <1>1, <1>4, ScannerTypes DEF Shape, Within
<1>6. key \in SimpleKeys /\ key.possible = FALSE /\ key.far = FALSE
      /\ key.token_number = NumberOf(w) /\ key.column = s.column
  BY <1>4, <1>5 DEF Key, SimpleKeys
<1>. DEFINE q == Append(w.simple_keys, key)
<1>7. q \in Seq(SimpleKeys) /\ Len(q) = Len(w.simple_keys) + 1 /\ DOMAIN q = 1..Len(q)
      /\ Len(w.simple_keys) \in Nat
      /\ q[Len(q)] = key /\ \A i \in 1..Len(w.simple_keys) : q[i] = w.simple_keys[i]
  <2>. DEFINE k == w.simple_keys
  <2>1. k \in Seq(SimpleKeys) /\ key \in SimpleKeys
    BY <1>5, <1>6
  <2>. HIDE DEF k, key
  <2>2. /\ Append(k, key) \in Seq(SimpleKeys) /\ Len(Append(k, key)) = Len(k) + 1
        /\ Len(k) \in Nat
        /\ DOMAIN Append(k, key) = 1..Len(k) + 1
        /\ Append(k, key)[Len(k) + 1] = key
        /\ \A i \in 1..Len(k) : Append(k, key)[i] = k[i]
    BY <2>1, AppendFacts
  <2>3. q = Append(k, key)
    BY DEF k
  <2>. HIDE DEF q
  <2>4. DOMAIN q = 1..Len(q) /\ q[Len(q)] = key
    BY <2>2, <2>3
  <2>. QED
    BY <2>2, <2>3, <2>4 DEF k
<1>8. f = [w EXCEPT !.simple_keys = q, !.flow_level = w.flow_level + 1, !.simple_key_allowed = TRUE]
  BY <1>4 DEF FlowEntered, Scanners
<1>. HIDE DEF key, f, q
<1>9. f \in Scanners /\ f.mark = s.mark /\ f.tokens = s.tokens
  <2>1. w.flow_level + 1 \in Nat
    BY <1>4, <1>5
  <2>. HIDE DEF w
  <2>. QED
    BY <1>4, <1>7, <1>8, <2>1 DEF Scanners
<1>10. r \in Scanners /\ r = [f EXCEPT !.tokens = Append(s.tokens, x)]
  BY <1>1, <1>2, <1>9, AppendedFacts
<1>11. m = [[w EXCEPT !.simple_key_allowed = TRUE] EXCEPT !.tokens = Append(s.tokens, x)]
  <2>. DEFINE v == [w EXCEPT !.simple_key_allowed = TRUE]
  <2>1. v \in Scanners /\ v.mark = s.mark /\ v.tokens = s.tokens
    <3>. HIDE DEF w
    <3>. QED
      BY <1>4 DEF Scanners
  <2>. HIDE DEF v
  <2>2. Appended(v, "FLOW_START") = [v EXCEPT !.tokens = Append(s.tokens, x)]
    BY <1>1, <1>2, <2>1, AppendedFacts
  <2>. QED
    BY <2>2 DEF v
<1>. DEFINE t == Append(s.tokens, x)
<1>12. t \in Seq(Tokens)
  <2>1. t = r.tokens
    <3>. HIDE DEF r, t
    <3>1. r = [f EXCEPT !.tokens = t]
      BY <1>10 DEF t
    <3>. QED
      BY <1>9, <3>1 DEF Scanners
  <2>. QED
    BY <1>10, <2>1, ScannerTypes
<1>13. /\ r = [w EXCEPT !.simple_keys = q, !.flow_level = w.flow_level + 1,
                        !.simple_key_allowed = TRUE, !.tokens = t]
       /\ m = [w EXCEPT !.simple_key_allowed = TRUE, !.tokens = t]
  <2>1. r = [f EXCEPT !.tokens = t] /\ m = [[w EXCEPT !.simple_key_allowed = TRUE] EXCEPT !.tokens = t]
    BY <1>10, <1>11
  <2>. HIDE DEF t, w, r, m
  <2>. QED
    BY <1>4, <1>8, <2>1 DEF Scanners
<1>. HIDE DEF t, w, r, m
<1>14. /\ r.simple_keys = q /\ r.flow_level = m.flow_level + 1
       /\ m.simple_keys = w.simple_keys
       /\ r.simple_keys_by_tok = m.simple_keys_by_tok /\ r.mark = m.mark
       /\ r.tokens = m.tokens /\ r.tokens_parsed = m.tokens_parsed
       /\ r.token_available = m.token_available /\ r.indents = m.indents /\ r.indent = m.indent
       /\ r.open = m.open /\ r.stream_end_produced = m.stream_end_produced /\ r.at_end = m.at_end
       /\ r.column = m.column /\ m.tokens = t /\ m.tokens_parsed = s.tokens_parsed
  <2>1. r.tokens = t /\ m.tokens = t
    BY <1>4, <1>13 DEF Scanners
  <2>. QED
    BY <1>4, <1>7, <1>13, <2>1 DEF Scanners
<1>15. NumberOf(w) = NumberOf(m) - 1
  <2>1. Len(t) = Len(s.tokens) + 1 /\ Len(s.tokens) \in Nat /\ s.tokens_parsed \in Nat
    <3>. DEFINE k == s.tokens
    <3>1. k \in Seq(Tokens) /\ x \in Tokens /\ s.tokens_parsed \in Nat
      BY <1>1, <1>2, AppendedFacts, ScannerTypes
    <3>. HIDE DEF k, x
    <3>2. Len(Append(k, x)) = Len(k) + 1 /\ Len(k) \in Nat
      BY <3>1, AppendFacts
    <3>. QED
      BY <3>1, <3>2 DEF k, t
  <2>. QED
    BY <1>4, <1>14, <2>1 DEF NumberOf
<1>16. Keys(r)
  <2>1. Keys(m) /\ m.mark > 0 /\ ~m.token_available
    BY <1>1, <1>3 DEF Inv, Keys
  <2>2. ~key.possible /\ ~key.far /\ key.token_number = NumberOf(m) - 1
    BY <1>6, <1>15
  <2>3. r.simple_keys = Append(m.simple_keys, key)
    BY <1>14 DEF q
  <2>4. r \in Scanners
    BY <1>10
  <2>. QED
    BY <1>3, <1>6, <1>14, <2>1, <2>2, <2>3, <2>4, FlowEnteredKeys
<1>17. Shape(r)
  <2>1. Shape(m)
    BY <1>3 DEF Inv, Shape
  <2>2. r.mark >= m.mark /\ r.mark <= MaxFetches + 1 /\ (~r.at_end => r.mark <= MaxFetches)
        /\ r.column <= Beyond /\ r.flow_level <= MaxFlowLevel
    <3>1. m.mark \in Nat /\ m.mark <= MaxFetches + 1 /\ (~m.at_end => m.mark <= MaxFetches)
          /\ m.column <= Beyond
      BY <1>3, <2>1, ScannerTypes DEF Shape, Within
    <3>2. s.flow_level + 1 <= MaxFlowLevel
      BY <1>5, ScannerConstants
    <3>. QED
      BY <1>3, <1>14, <3>1, <3>2
  <2>3. ASSUME NEW i \in DOMAIN r.simple_keys
        PROVE  \/ i \in DOMAIN m.simple_keys /\ r.simple_keys[i] = m.simple_keys[i]
               \/ ~r.simple_keys[i].possible /\ r.simple_keys[i].column <= Beyond
    <3>1. i \in 1..Len(q)
      BY <1>7, <1>14
    <3>2. CASE i = Len(q)
      BY <1>5, <1>6, <1>7, <1>14, <3>2
    <3>3. CASE i # Len(q)
      <4>1. i \in 1..Len(w.simple_keys)
        BY <1>7, <3>1, <3>3
      <4>2. i \in DOMAIN m.simple_keys
        BY <1>3, <1>14, <4>1, ScannerTypes
      <4>. QED
        BY <1>7, <1>14, <4>1, <4>2
    <3>. QED
      BY <3>2, <3>3
  <2>4. r \in Scanners
    BY <1>10
  <2>. QED
    BY <1>1, <1>3, <1>14, <2>1, <2>2, <2>3, <2>4, ShapeKept
<1>18. KeyKept(s, r)
  <2>1. 1 \in 1..Len(w.simple_keys)
    <3>1. 1 \in DOMAIN m.simple_keys
      <4>1. Keys(m)
        BY <1>3 DEF Inv, Keys
      <4>. QED
        BY <1>3, <4>1, LastKey
    <3>. QED
      BY <1>3, <1>14, <3>1, ScannerTypes
  <2>. QED
    BY <1>3, <1>7, <1>14, <2>1 DEF KeyKept
<1>. QED
  BY <1>10, <1>16, <1>17, <1>18 DEF Inv, Keys, Shape, r, f, w

\* What stands where only a key can stand has become one, still may, or has made
\* the scanner fail.
Resolved(s, r) ==
  LET key == s.simple_keys[1] IN
  key.possible /\ key.required /\ ~r.error =>
    \/ r.simple_keys[1].possible /\ r.simple_keys[1].mark = key.mark
    \/ \E i \in DOMAIN r.tokens : r.tokens[i] = Token("KEY", key.mark)

\* A block collection may start at the lexeme.
LEMMA RolledInv ==
  ASSUME NEW s, Ready(s), ~InFlow(s) => s.simple_key_allowed,
         NEW typ \in {"BLOCK_SEQUENCE_START", "BLOCK_MAPPING_START"}
  PROVE  LET r == Rolled(s, s.column, -1, typ, s.mark) IN
         /\ r \in Scanners /\ Inv(r)
         /\ r.simple_keys = s.simple_keys /\ r.token_available = s.token_available
         /\ r.mark = s.mark
<1>. DEFINE r == Rolled(s, s.column, -1, typ, s.mark)
            n == Len(s.tokens)
<1>1. /\ s \in Scanners /\ s.mark > 0 /\ ~s.token_available /\ ~s.at_end
      /\ Keys(s) /\ Shape(s)
      /\ s.column \in Nat /\ s.mark \in Nat /\ n \in Nat
      /\ ~InFlow(s) => s.column <= MaxColumn
  BY ScannerTypes DEF Ready, Inv, Keys, Shape
<1>3. /\ r \in Scanners /\ Shape(r) /\ Alike(s, r)
      /\ r = s \/ Placed(r.tokens, s.tokens, n + 1, Token(typ, s.mark))
  <2>. DEFINE pos == -1
              mark == s.mark
  <2>1. pos \in Int /\ pos <= Len(s.tokens) /\ pos < 0 /\ mark \in 1..s.mark
    BY <1>1
  <2>. HIDE DEF pos, mark
  <2>2. LET w == Rolled(s, s.column, pos, typ, mark) IN
        /\ w \in Scanners /\ Shape(w) /\ Alike(s, w)
        /\ w = s \/ Placed(w.tokens, s.tokens, IF pos < 0 THEN Len(s.tokens) + 1 ELSE pos + 1, Token(typ, mark))
    BY <1>1, <2>1, RolledShape
  <2>. QED
    BY <2>1, <2>2 DEF pos, mark
<1>. HIDE DEF r
<1>4. /\ r.simple_keys = s.simple_keys /\ r.simple_keys_by_tok = s.simple_keys_by_tok
      /\ r.flow_level = s.flow_level /\ r.token_available = s.token_available
      /\ r.tokens_parsed = s.tokens_parsed /\ r.mark = s.mark
      /\ r.simple_key_allowed = s.simple_key_allowed
  BY <1>3 DEF Alike
<1>5. Len(r.tokens) >= Len(s.tokens) /\ \A i \in 1..n : r.tokens[i] = s.tokens[i]
  <2>1. CASE r = s
    BY <1>1, <2>1
  <2>2. CASE Placed(r.tokens, s.tokens, n + 1, Token(typ, s.mark))
    <3>1. n + 1 - 1 = n
      BY <1>1
    <3>. QED
      BY <1>1, <2>2, <3>1 DEF Placed
  <2>. QED
    BY <1>3, <2>1, <2>2
<1>6. Dimmed(s, r) /\ Grows(s, r)
  BY <1>1, <1>4, <1>5 DEF Dimmed, Grows, Keys, KeysInOrder
<1>7. Keys(r)
  BY <1>1, <1>3, <1>4, <1>6, Onward
<1>. QED
  BY <1>3, <1>4, <1>7 DEF Inv, Keys, Shape, r

\* An indicator: '-' or '?'.
LEMMA IndicatorInv ==
  ASSUME NEW s, Ready(s), NEW typ \in Plain,
         NEW start \in {"BLOCK_SEQUENCE_START", "BLOCK_MAPPING_START"}, NEW a \in BOOLEAN
  PROVE  LET r == Indicator(s, typ, start, a) IN
         r \in Scanners /\ Inv(r) /\ Resolved(s, r)
<1>. DEFINE w == Rolled(s, s.column, -1, start, s.mark)
            m == Removed(w)
            t == Appended([m EXCEPT !.simple_key_allowed = a], typ)
<1>1. s \in Scanners /\ Inv(s) /\ ~s.token_available /\ s.mark > 0
  BY DEF Ready
<1>2. CASE (~InFlow(s) /\ ~s.simple_key_allowed) \/ MustBeKey(w)
  BY <1>1, <1>2, ErrorInv DEF Indicator, Resolved
<1>3. CASE ~((~InFlow(s) /\ ~s.simple_key_allowed) \/ MustBeKey(w))
  <2>1. /\ w \in Scanners /\ Inv(w) /\ w.simple_keys = s.simple_keys
        /\ ~w.token_available /\ w.mark > 0
    BY <1>1, <1>3, RolledInv
  <2>2. Indicator(s, typ, start, a) = Behind(t)
    BY <1>3 DEF Indicator
  <2>. HIDE DEF w
  <2>3. /\ m \in Scanners /\ Inv(m) /\ ~m.token_available /\ m.mark > 0
        /\ KeyKept(w, m)
    <3>1. /\ m \in Scanners /\ Inv(m) /\ KeyKept(w, m)
          /\ m = [w EXCEPT !.simple_keys = m.simple_keys,
                           !.simple_keys_by_tok = m.simple_keys_by_tok]
      BY <1>3, <2>1, RemovedInv
    <3>. HIDE DEF m
    <3>. QED
      BY <2>1, <3>1 DEF Scanners
  <2>. HIDE DEF m
  <2>4. t \in Scanners /\ Inv(t) /\ t.simple_keys = m.simple_keys
    BY <2>3, AppendedInv
  <2>. HIDE DEF t
  <2>5. Behind(t) \in After(t)
    BY DEF After
  <2>6. Behind(t) \in Scanners /\ Inv(Behind(t)) /\ KeyKept(t, Behind(t))
    BY <2>4, <2>5, AfterInv
  <2>7. KeyKept(s, Behind(t))
    BY <2>1, <2>3, <2>4, <2>6 DEF KeyKept
  <2>. QED
    BY <2>2, <2>6, <2>7 DEF Resolved, KeyKept
<1>. QED
  BY <1>2, <1>3

\* The end of all block collections.
LEMMA OutermostInv ==
  ASSUME NEW s \in Scanners, Inv(s), ~s.token_available, s.mark > 0, NEW typ \in Plain
  PROVE  LET r == Outermost(s, typ) IN
         r \in Scanners /\ Inv(r) /\ (r.error \/ KeyKept(s, r))
<1>. DEFINE w == Unrolled(s, -1)
            m == Removed(w)
<1>1. /\ w \in Scanners /\ Inv(w)
      /\ w = [s EXCEPT !.tokens = w.tokens, !.indent = w.indent, !.indents = w.indents]
  <2>1. -1 \in Int /\ -1 >= -1
    OBVIOUS
  <2>. QED
    BY <2>1, UnrolledInv
<1>2. CASE MustBeKey(w)
  BY <1>1, <1>2, ErrorInv DEF Outermost
<1>3. CASE ~MustBeKey(w)
  <2>1. Outermost(s, typ) = Appended([m EXCEPT !.simple_key_allowed = FALSE], typ)
    BY <1>3 DEF Outermost
  <2>. HIDE DEF w
  <2>2. w.simple_keys = s.simple_keys /\ ~w.token_available /\ w.mark > 0
    BY <1>1 DEF Scanners
  <2>3. /\ m \in Scanners /\ Inv(m) /\ ~m.token_available /\ m.mark > 0
        /\ KeyKept(w, m)
    <3>1. /\ m \in Scanners /\ Inv(m) /\ KeyKept(w, m)
          /\ m = [w EXCEPT !.simple_keys = m.simple_keys,
                           !.simple_keys_by_tok = m.simple_keys_by_tok]
      BY <1>1, <1>3, RemovedInv
    <3>. HIDE DEF m
    <3>. QED
      BY <1>1, <2>2, <3>1 DEF Scanners
  <2>. DEFINE t == Appended([m EXCEPT !.simple_key_allowed = FALSE], typ)
  <2>. HIDE DEF m
  <2>4. t \in Scanners /\ Inv(t) /\ t.simple_keys = m.simple_keys
    BY <2>3, AppendedInv
  <2>. QED
    BY <2>1, <2>2, <2>3, <2>4 DEF KeyKept
<1>. QED
  BY <1>2, <1>3

\* The ':' behind a simple key.
LEMMA SimpleValueInv ==
  ASSUME NEW s, Ready(s), Valid(Last(s.simple_keys))
  PROVE  LET r == Appended(ValueOfSimpleKey(s), "VALUE") IN
         r \in Scanners /\ Inv(r) /\ Resolved(s, r)
<1>. DEFINE n == Len(s.simple_keys)
            key == Last(s.simple_keys)
            tp == s.tokens_parsed
            pos == key.token_number - tp
            len == Len(s.tokens)
            p == IF pos < 0 THEN len + 1 ELSE pos + 1
            x == Token("KEY", key.mark)
            e == Inserted(s, pos, x)
            d == Rolled(e, key.column, pos, "BLOCK_MAPPING_START", key.mark)
            w == Removed(s)
            v == ValueOfSimpleKey(s)
            r == Appended(v, "VALUE")
<1>1. /\ s \in Scanners /\ s.mark > 0 /\ ~s.token_available /\ ~s.at_end
      /\ ~s.stream_end_produced /\ Keys(s) /\ Shape(s) /\ s.mark \in Nat
      /\ len \in Nat /\ tp \in Nat
  BY ScannerTypes DEF Ready, Inv, Keys, Shape
<1>2. /\ n \in Nat \ {0} /\ DOMAIN s.simple_keys = 1..n /\ (n > 1 <=> InFlow(s))
      /\ key = s.simple_keys[n] /\ key \in SimpleKeys /\ n \in DOMAIN s.simple_keys
  BY <1>1, LastKey
<1>3. /\ key.possible /\ key.possible = TRUE /\ key.token_number \in Nat /\ key.column \in Nat
      /\ key.mark \in Nat
      /\ key.token_number < tp + len
      /\ key.mark \in 1..s.mark /\ (~InFlow(s) => key.column <= MaxColumn)
      /\ NumberOf(s) = tp + len
  <2>1. key.possible = TRUE /\ key.token_number \in Nat /\ key.column \in Nat /\ key.mark \in Nat
    BY <1>2 DEF Valid, SimpleKeys
  <2>2. key.token_number < NumberOf(s)
    BY <1>1, <1>2, KeyFacts
  <2>3. key.mark \in 1..s.mark /\ (n = 1 => key.column <= MaxColumn)
    <3>. HIDE DEF key, n
    <3>. QED
      BY <1>1, <1>2, <2>1 DEF Shape, Within
  <2>4. ~InFlow(s) => n = 1
    <3>1. n \in Nat \ {0} /\ (n > 1 <=> InFlow(s))
      BY <1>2
    <3>. HIDE DEF n
    <3>. QED
      BY <3>1
  <2>. QED
    BY <2>1, <2>2, <2>3, <2>4 DEF NumberOf
<1>. HIDE DEF key, n, tp, len
<1>4. /\ pos \in Int /\ pos <= len /\ p \in 1..len + 1
  BY <1>1, <1>3
<1>5. x \in Tokens /\ x.typ = "KEY" /\ x.typ # "STREAM_END" /\ x.mark = key.mark /\ Opening(x) = 0
  BY <1>3 DEF Token, Tokens, TokenTypes, Opening
<1>. HIDE DEF x
<1>6. /\ e \in Scanners /\ Placed(e.tokens, s.tokens, p, x) /\ Alike(s, e)
      /\ e.indents = s.indents /\ e.indent = s.indent
  <2>. HIDE DEF pos
  <2>1. /\ e \in Scanners /\ e = [s EXCEPT !.tokens = e.tokens]
        /\ Placed(e.tokens, s.tokens, IF pos < 0 THEN Len(s.tokens) + 1 ELSE pos + 1, x)
    <3>1. pos <= Len(s.tokens)
      BY <1>4 DEF len
    <3>. QED
      BY <1>1, <1>4, <1>5, <3>1, InsertedFacts
  <2>2. Placed(e.tokens, s.tokens, p, x)
    BY <2>1 DEF len
  <2>. HIDE DEF e
  <2>. QED
    BY <1>1, <2>1, <2>2 DEF Scanners, Alike
<1>. HIDE DEF e
<1>7. Shape(e)
  <2>1. All(e) = All(s)
    BY <1>6 DEF All
  <2>2. /\ Ascending(All(e)) /\ All(e)[1] = -1 /\ e.indent <= MaxColumn
    BY <1>1, <1>6, <2>1 DEF Shape, Nesting
  <2>3. Len(e.indents) = Len(s.indents) + Opening(x) /\ Opening(x) \in 0..1
    <3>1. Len(s.indents) \in Nat
      BY <1>1, ScannerTypes, LenProperties
    <3>. QED
      BY <1>5, <1>6, <3>1
  <2>. HIDE DEF p
  <2>4. x.mark \in 1..s.mark
    BY <1>3, <1>5
  <2>. QED
    BY <1>1, <1>5, <1>6, <2>2, <2>3, <2>4, ShapeGrown DEF Alike
<1>8. Len(e.tokens) = len + 1 /\ e.tokens[p] = x /\ \A i \in 1..p - 1 : e.tokens[i] = s.tokens[i]
  BY <1>6 DEF Placed, len
<1>9. /\ d \in Scanners /\ Shape(d) /\ Alike(e, d)
      /\ Len(d.tokens) >= len + 1
      /\ \A i \in 1..p - 1 : d.tokens[i] = s.tokens[i]
      /\ \E i \in 1..Len(d.tokens) : d.tokens[i] = x
  <2>. DEFINE col == key.column
              mark == key.mark
              typ == "BLOCK_MAPPING_START"
              P == IF pos < 0 THEN Len(e.tokens) + 1 ELSE pos + 1
  <2>1. /\ pos <= Len(e.tokens) /\ col \in Nat /\ mark \in 1..e.mark
        /\ (~InFlow(e) => col <= MaxColumn) /\ ~e.token_available /\ ~e.at_end
        /\ typ \in {"BLOCK_SEQUENCE_START", "BLOCK_MAPPING_START"}
    BY <1>1, <1>3, <1>4, <1>6, <1>8 DEF Alike, InFlow
  <2>2. d = Rolled(e, col, pos, typ, mark)
    OBVIOUS
  <2>. HIDE DEF pos, col, mark, typ, d
  <2>3. /\ d \in Scanners /\ Shape(d) /\ Alike(e, d)
        /\ d = e \/ Placed(d.tokens, e.tokens, P, Token(typ, mark))
    <3>1. LET y == Rolled(e, col, pos, typ, mark) IN
          /\ y \in Scanners /\ Shape(y) /\ Alike(e, y)
          /\ y = e \/ Placed(y.tokens, e.tokens, IF pos < 0 THEN Len(e.tokens) + 1 ELSE pos + 1, Token(typ, mark))
      BY <1>4, <1>6, <1>7, <2>1, RolledShape
    <3>. QED
      BY <2>2, <3>1
  <2>4. p \in 1..len + 1
    BY <1>4
  <2>5. CASE d = e
    <3>1. p \in 1..Len(d.tokens) /\ Len(d.tokens) >= len + 1
      BY <1>1, <1>8, <2>4, <2>5
    <3>2. d.tokens[p] = x /\ \A i \in 1..p - 1 : d.tokens[i] = s.tokens[i]
      BY <1>8, <2>5
    <3>. QED
      BY <2>3, <3>1, <3>2
  <2>6. CASE Placed(d.tokens, e.tokens, P, Token(typ, mark))
    <3>1. P \in 1..len + 2 /\ p <= P /\ p \in 1..len + 1
      BY <1>1, <1>4, <1>8
    <3>. HIDE DEF p, P
    <3>2. /\ Len(d.tokens) = len + 2
          /\ \A i \in 1..P - 1 : d.tokens[i] = e.tokens[i]
          /\ \A i \in P..len + 1 : d.tokens[i + 1] = e.tokens[i]
      BY <1>1, <1>8, <2>6 DEF Placed
    <3>3. \A i \in 1..p - 1 : d.tokens[i] = s.tokens[i]
      <4>1. \A i \in 1..p - 1 : i \in 1..P - 1
        BY <1>1, <3>1
      <4>. QED
        BY <1>8, <3>2, <4>1
    <3>4. \E i \in 1..Len(d.tokens) : d.tokens[i] = x
      <4>1. CASE p < P
        <5>1. p \in 1..P - 1 /\ p \in 1..Len(d.tokens)
          BY <1>1, <3>1, <3>2, <4>1
        <5>. QED
          BY <1>8, <3>2, <5>1
      <4>2. CASE p = P
        <5>1. p \in P..len + 1 /\ p + 1 \in 1..Len(d.tokens)
          BY <1>1, <3>1, <3>2, <4>2
        <5>. QED
          BY <1>8, <3>2, <5>1
      <4>. QED
        BY <1>1, <3>1, <4>1, <4>2
    <3>5. Len(d.tokens) >= len + 1
      BY <1>1, <3>2
    <3>. QED
      BY <2>3, <3>3, <3>4, <3>5
  <2>. QED
    BY <2>3, <2>5, <2>6
<1>10. /\ w \in Scanners /\ Keys(w)
       /\ w.simple_keys = [s.simple_keys EXCEPT ![n].possible = FALSE]
       /\ w.simple_keys_by_tok = Unindexed(s, key.token_number)
       /\ w.tokens = s.tokens /\ w.tokens_parsed = tp /\ w.flow_level = s.flow_level
       /\ w.token_available = s.token_available /\ w.mark = s.mark
  <2>1. /\ w \in Scanners
        /\ w = [s EXCEPT !.simple_keys = w.simple_keys,
                         !.simple_keys_by_tok = w.simple_keys_by_tok]
    BY <1>1, RemovedFacts
  <2>2. Keys(w)
    BY <1>1, RemovedKeys
  <2>. DEFINE k == [s.simple_keys EXCEPT ![n].possible = FALSE]
              y == Unindexed(s, key.token_number)
  <2>3. w = [s EXCEPT !.simple_keys = k, !.simple_keys_by_tok = y]
    <3>1. w = [s EXCEPT !.simple_keys[Len(s.simple_keys)].possible = FALSE,
                        !.simple_keys_by_tok = Unindexed(s, Last(s.simple_keys).token_number)]
      BY <1>3 DEF Removed, key
    <3>. HIDE DEF w
    <3>. QED
      BY <1>1, <3>1 DEF key, n
  <2>. HIDE DEF w, k, y
  <2>4. /\ w.tokens = s.tokens /\ w.tokens_parsed = s.tokens_parsed /\ w.flow_level = s.flow_level
        /\ w.token_available = s.token_available /\ w.mark = s.mark
    BY <1>1, <2>1 DEF Scanners
  <2>5. w.simple_keys = k /\ w.simple_keys_by_tok = y
    BY <1>1, <2>3 DEF Scanners
  <2>. QED
    BY <2>1, <2>2, <2>4, <2>5 DEF k, y, tp
<1>. HIDE DEF w
<1>11. /\ v \in Scanners
       /\ v.simple_keys = w.simple_keys /\ v.simple_keys_by_tok = w.simple_keys_by_tok
       /\ v.simple_key_allowed = FALSE
       /\ v.tokens = d.tokens /\ v.indents = d.indents /\ v.indent = d.indent
       /\ v.tokens_parsed = tp /\ v.flow_level = s.flow_level /\ v.mark = s.mark
       /\ v.token_available = s.token_available /\ v.column = s.column /\ v.at_end = s.at_end
       /\ v.stream_end_produced = s.stream_end_produced /\ v.open = s.open
  <2>. DEFINE k == w.simple_keys
              y == w.simple_keys_by_tok
  <2>1. v = [d EXCEPT !.simple_keys[Len(s.simple_keys)].possible = FALSE,
                      !.simple_keys_by_tok = Unindexed(s, key.token_number),
                      !.simple_key_allowed = FALSE]
    BY DEF ValueOfSimpleKey, e, key, x, tp
  <2>2. k \in Seq(SimpleKeys) /\ y \in Indexes
    BY <1>10, ScannerTypes
  <2>3. /\ d.simple_keys = s.simple_keys
        /\ d.tokens_parsed = tp /\ d.flow_level = s.flow_level /\ d.mark = s.mark
        /\ d.token_available = s.token_available /\ d.column = s.column /\ d.at_end = s.at_end
        /\ d.stream_end_produced = s.stream_end_produced /\ d.open = s.open
    BY <1>6, <1>9 DEF Alike, tp
  <2>. HIDE DEF d, v
  <2>4. v = [d EXCEPT !.simple_keys = k, !.simple_keys_by_tok = y, !.simple_key_allowed = FALSE]
    <3>. DEFINE z == Unindexed(s, key.token_number)
                g == [s.simple_keys EXCEPT ![n].possible = FALSE]
    <3>1. v = [d EXCEPT !.simple_keys = g, !.simple_keys_by_tok = z, !.simple_key_allowed = FALSE]
      <4>. HIDE DEF z
      <4>. QED
        BY <1>9, <2>1, <2>3 DEF n, z
    <3>2. g = k /\ z = y
      BY <1>10
    <3>. HIDE DEF g, z, k, y
    <3>. QED
      BY <3>1, <3>2
  <2>. HIDE DEF k, y
  <2>5. v \in Scanners /\ v.simple_keys = k /\ v.simple_keys_by_tok = y
    BY <1>9, <2>2, <2>4 DEF Scanners
  <2>. QED
    BY <1>9, <2>3, <2>4, <2>5 DEF Scanners, k, y
<1>. HIDE DEF d, v
<1>12. Shape(v)
  <2>1. ASSUME NEW i \in DOMAIN v.simple_keys
        PROVE  /\ i \in DOMAIN d.simple_keys
               /\ v.simple_keys[i].column = d.simple_keys[i].column
               /\ v.simple_keys[i].mark = d.simple_keys[i].mark
               /\ v.simple_keys[i].possible => d.simple_keys[i].possible
               /\ d.simple_keys[i].far => v.simple_keys[i].far
    <3>. DEFINE k == s.simple_keys
                g == [k EXCEPT ![n].possible = FALSE]
    <3>1. d.simple_keys = k /\ v.simple_keys = g /\ DOMAIN k = 1..n
      BY <1>2, <1>6, <1>9, <1>10, <1>11 DEF Alike
    <3>2. \A j \in 1..n : k[j] \in SimpleKeys
      BY <1>1, <1>2, ScannerTypes
    <3>. HIDE DEF k
    <3>3. i \in 1..n
      BY <3>1
    <3>4. CASE i = n
      <4>1. g[i] = [k[i] EXCEPT !.possible = FALSE] /\ k[i] \in SimpleKeys
        BY <3>1, <3>2, <3>3, <3>4
      <4>2. g[i].column = k[i].column /\ g[i].mark = k[i].mark /\ g[i].far = k[i].far
            /\ g[i].possible = FALSE
        BY <4>1 DEF SimpleKeys
      <4>. QED
        BY <3>1, <3>3, <4>2
    <3>5. CASE i # n
      <4>1. g[i] = k[i]
        BY <3>1, <3>3, <3>5
      <4>. QED
        BY <3>1, <3>3, <4>1
    <3>. QED
      BY <3>4, <3>5
  <2>2. d.mark = s.mark /\ d.column = s.column /\ d.flow_level = s.flow_level /\ d.at_end = s.at_end
        /\ d.open = s.open /\ d.token_available = s.token_available
        /\ d.stream_end_produced = s.stream_end_produced
    BY <1>6, <1>9 DEF Alike
  <2>3. v.mark >= d.mark /\ v.mark <= MaxFetches + 1 /\ (~v.at_end => v.mark <= MaxFetches)
        /\ v.column <= Beyond /\ v.flow_level <= MaxFlowLevel /\ InFlow(v) = InFlow(d)
    BY <1>1, <1>11, <2>2 DEF Shape, Within, InFlow
  <2>. QED
    BY <1>1, <1>9, <1>11, <2>1, <2>2, <2>3, ShapeKept
<1>13. /\ r \in Scanners /\ Len(r.tokens) = Len(d.tokens) + 1 /\ Len(d.tokens) \in Nat
       /\ \A i \in 1..Len(d.tokens) : r.tokens[i] = d.tokens[i]
       /\ r.simple_keys = w.simple_keys /\ r.simple_keys_by_tok = w.simple_keys_by_tok
       /\ r.simple_key_allowed = FALSE /\ r.tokens_parsed = tp /\ r.flow_level = s.flow_level
       /\ r.mark = s.mark /\ r.token_available = s.token_available
  <2>1. "VALUE" \in TokenTypes /\ v.mark > 0
    BY <1>1, <1>11 DEF TokenTypes
  <2>. DEFINE t == Append(v.tokens, Token("VALUE", v.mark))
  <2>2. /\ r \in Scanners /\ r = [v EXCEPT !.tokens = t]
        /\ Len(v.tokens) \in Nat /\ Len(r.tokens) = Len(v.tokens) + 1
        /\ \A i \in 1..Len(v.tokens) : r.tokens[i] = v.tokens[i]
    BY <1>11, <2>1, AppendedFacts
  <2>. HIDE DEF r, t
  <2>. QED
    BY <1>11, <2>2 DEF Scanners
<1>14. Shape(r)
  <2>1. "VALUE" \in Plain /\ v.mark > 0
    BY <1>1, <1>11 DEF Plain, TokenTypes
  <2>. QED
    BY <1>1, <1>11, <1>12, <2>1, AppendedShape DEF Plain
<1>. HIDE DEF r
<1>15. Keys(r)
  <2>1. Dimmed(w, r)
    BY <1>10, <1>13 DEF Dimmed, Keys, KeysInOrder
  <2>2. Len(r.tokens) > Len(w.tokens) /\ Len(r.tokens) >= Len(w.tokens)
    BY <1>1, <1>9, <1>10, <1>13 DEF len
  <2>3. ASSUME NEW i \in DOMAIN w.simple_keys, w.simple_keys[i].possible,
               w.simple_keys[i].token_number - tp + 1 \in 1..len
        PROVE  r.tokens[w.simple_keys[i].token_number - tp + 1]
                 = s.tokens[w.simple_keys[i].token_number - tp + 1]
    <3>. DEFINE k == s.simple_keys
                g == [k EXCEPT ![n].possible = FALSE]
                m == k[i].token_number
    <3>1. w.simple_keys = g /\ DOMAIN k = 1..n
      BY <1>2, <1>10
    <3>2. i \in 1..n /\ \A j \in 1..n : k[j] \in SimpleKeys
      BY <1>1, <1>2, <3>1, ScannerTypes
    <3>3. i # n
      <4>. HIDE DEF k
      <4>1. i = n => g[i] = [k[i] EXCEPT !.possible = FALSE]
        BY <3>1, <3>2
      <4>. QED
        BY <2>3, <3>1, <3>2, <4>1 DEF SimpleKeys
    <3>4. w.simple_keys[i] = k[i]
      <4>. HIDE DEF k
      <4>. QED
        BY <3>1, <3>2, <3>3
    <3>5. i < n /\ i \in DOMAIN s.simple_keys
      BY <1>2, <3>2, <3>3
    <3>6. m < key.token_number /\ m \in Nat
      <4>1. m < s.simple_keys[n].token_number
        BY <1>1, <1>2, <1>3, <3>5 DEF Keys, KeysInOrder
      <4>. QED
        BY <1>2, <3>2, <4>1 DEF SimpleKeys
    <3>. HIDE DEF m, k
    <3>7. m - tp + 1 \in 1..len
      BY <2>3, <3>4 DEF m
    <3>8. m - tp + 1 \in 1..p - 1
      BY <1>1, <1>3, <3>6, <3>7
    <3>9. \A j \in 1..p - 1 : j \in 1..Len(d.tokens)
      BY <1>1, <1>4, <1>9, <1>13
    <3>10. r.tokens[m - tp + 1] = s.tokens[m - tp + 1]
      BY <1>9, <1>13, <3>8, <3>9
    <3>. QED
      BY <3>4, <3>10 DEF m
  <2>4. Grows(w, r)
    BY <1>10, <1>13, <2>2, <2>3, SMTT(40) DEF Grows, len
  <2>. QED
    BY <1>1, <1>10, <1>13, <2>1, <2>2, <2>4, Onward
<1>16. Resolved(s, r)
  <2>1. CASE n = 1
    <3>1. PICK i \in 1..Len(d.tokens) : d.tokens[i] = x
      BY <1>9
    <3>2. i \in DOMAIN r.tokens /\ r.tokens[i] = x
      <4>1. DOMAIN r.tokens = 1..Len(r.tokens)
        BY <1>13, ScannerTypes
      <4>. QED
        BY <1>13, <3>1, <4>1
    <3>. QED
      BY <1>2, <2>1, <3>2 DEF Resolved, x
  <2>2. CASE n # 1
    <3>1. w.simple_keys[1] = s.simple_keys[1]
      <4>. DEFINE k == s.simple_keys
                  g == [k EXCEPT ![n].possible = FALSE]
      <4>1. w.simple_keys = g /\ DOMAIN k = 1..n
        BY <1>2, <1>10
      <4>. HIDE DEF k
      <4>2. 1 \in 1..n
        BY <1>2
      <4>3. g[1] = k[1]
        BY <2>2, <4>1, <4>2
      <4>. QED
        BY <4>1, <4>3 DEF k
    <3>. QED
      BY <1>13, <3>1 DEF Resolved
  <2>. QED
    BY <2>1, <2>2
<1>. QED
  BY <1>13, <1>14, <1>15, <1>16 DEF Inv, Keys, Shape, r, v

\* The ':' of a key that is not simple.
LEMMA ComplexValueInv ==
  ASSUME NEW s, Ready(s), ~Valid(Last(s.simple_keys)), ~Missed(Last(s.simple_keys)),
         ~InFlow(s) => s.simple_key_allowed
  PROVE  LET r == Appended(ValueOfComplexKey(s), "VALUE") IN
         r \in Scanners /\ Inv(r) /\ Resolved(s, r)
<1>. DEFINE n == Len(s.simple_keys)
            len == Len(s.tokens)
            a == ~InFlow(s)
            k == [s.simple_keys EXCEPT ![n].possible = FALSE]
            q == [s EXCEPT !.simple_keys = k]
            w == Rolled(q, s.column, -1, "BLOCK_MAPPING_START", s.mark)
            v == [w EXCEPT !.simple_key_allowed = a]
            r == Appended(v, "VALUE")
<1>1. /\ s \in Scanners /\ s.mark > 0 /\ ~s.token_available /\ ~s.at_end
      /\ ~s.stream_end_produced /\ Keys(s) /\ Shape(s) /\ s.mark \in Nat
      /\ len \in Nat /\ s.column \in Nat /\ (~InFlow(s) => s.column <= MaxColumn)
      /\ a \in BOOLEAN
  BY ScannerTypes DEF Ready, Inv, Keys, Shape
<1>2. /\ n \in Nat \ {0} /\ DOMAIN s.simple_keys = 1..n /\ n \in DOMAIN s.simple_keys
      /\ (n > 1 <=> InFlow(s))
      /\ Last(s.simple_keys) = s.simple_keys[n] /\ s.simple_keys \in Seq(SimpleKeys)
      /\ \A i \in 1..n : s.simple_keys[i] \in SimpleKeys
  BY <1>1, LastKey, ScannerTypes
<1>3. r = Appended(ValueOfComplexKey(s), "VALUE")
  <2>1. q = [s EXCEPT !.simple_keys[Len(s.simple_keys)].possible = FALSE]
    BY <1>1 DEF Scanners
  <2>. QED
    BY <2>1 DEF ValueOfComplexKey
<1>. HIDE DEF n, len, a
<1>4. /\ k \in Seq(SimpleKeys) /\ Len(k) = n /\ DOMAIN k = 1..n
      /\ \A i \in 1..n - 1 : k[i] = s.simple_keys[i]
      /\ k[n] = [s.simple_keys[n] EXCEPT !.possible = FALSE]
  <2>. DEFINE z == s.simple_keys
              y == [z[n] EXCEPT !.possible = FALSE]
  <2>1. z \in Seq(SimpleKeys) /\ n \in 1..n /\ Len(z) = n /\ y \in SimpleKeys
    <3>1. z[n] \in SimpleKeys
      BY <1>2
    <3>. QED
      BY <1>2, <3>1 DEF n, SimpleKeys
  <2>2. k = [z EXCEPT ![n] = y]
    OBVIOUS
  <2>. HIDE DEF k, z, y
  <2>3. k \in Seq(SimpleKeys) /\ Len(k) = n /\ DOMAIN k = 1..n
    BY <2>1, <2>2, ExceptSeq, LenProperties
  <2>4. k[n] = y /\ \A i \in 1..n : i # n => k[i] = z[i]
    BY <1>2, <2>1, <2>2, ExceptSeq DEF z
  <2>. QED
    BY <1>2, <2>3, <2>4 DEF z, y
<1>. HIDE DEF k
<1>5. /\ q \in Scanners /\ q.simple_keys = k /\ q.tokens = s.tokens
      /\ q.simple_keys_by_tok = s.simple_keys_by_tok /\ q.flow_level = s.flow_level
      /\ q.simple_key_allowed = s.simple_key_allowed
      /\ q.tokens_parsed = s.tokens_parsed /\ q.mark = s.mark /\ q.column = s.column
      /\ q.token_available = s.token_available /\ q.at_end = s.at_end
      /\ q.stream_end_produced = s.stream_end_produced /\ q.open = s.open
      /\ q.indents = s.indents /\ q.indent = s.indent
  BY <1>1, <1>4 DEF Scanners
<1>. HIDE DEF q
<1>6. ASSUME NEW i \in DOMAIN q.simple_keys
      PROVE  /\ i \in DOMAIN s.simple_keys
             /\ q.simple_keys[i].column = s.simple_keys[i].column
             /\ q.simple_keys[i].mark = s.simple_keys[i].mark
             /\ q.simple_keys[i].possible => s.simple_keys[i].possible
             /\ s.simple_keys[i].far => q.simple_keys[i].far
  <2>1. i \in 1..n /\ s.simple_keys[i] \in SimpleKeys
    BY <1>2, <1>4, <1>5
  <2>2. CASE i = n
    BY <1>2, <1>4, <1>5, <2>1, <2>2 DEF SimpleKeys
  <2>3. CASE i # n
    <3>1. i \in 1..n - 1
      BY <1>2, <2>1, <2>3
    <3>. QED
      BY <1>2, <1>4, <1>5, <2>1, <3>1
  <2>. QED
    BY <2>2, <2>3
<1>7. Shape(q)
  <2>1. q.mark >= s.mark /\ q.mark <= MaxFetches + 1 /\ (~q.at_end => q.mark <= MaxFetches)
        /\ q.column <= Beyond /\ q.flow_level <= MaxFlowLevel /\ InFlow(q) = InFlow(s)
    BY <1>1, <1>5 DEF Shape, Within, InFlow
  <2>. QED
    BY <1>1, <1>5, <1>6, <2>1, ShapeKept
<1>8. /\ w \in Scanners /\ Shape(w) /\ Alike(q, w)
      /\ Len(w.tokens) >= len /\ \A i \in 1..len : w.tokens[i] = s.tokens[i]
  <2>. DEFINE pos == -1
              mark == s.mark
              x == Token("BLOCK_MAPPING_START", mark)
  <2>1. pos \in Int /\ pos <= Len(q.tokens) /\ pos < 0 /\ mark \in 1..q.mark
        /\ "BLOCK_MAPPING_START" \in {"BLOCK_SEQUENCE_START", "BLOCK_MAPPING_START"}
        /\ ~q.token_available /\ ~q.at_end /\ (~InFlow(q) => s.column <= MaxColumn)
    BY <1>1, <1>5 DEF len, InFlow
  <2>. HIDE DEF pos, mark, x
  <2>2. LET y == Rolled(q, s.column, pos, "BLOCK_MAPPING_START", mark) IN
        /\ y \in Scanners /\ Shape(y) /\ Alike(q, y)
        /\ y = q \/ Placed(y.tokens, q.tokens, IF pos < 0 THEN Len(q.tokens) + 1 ELSE pos + 1,
                           Token("BLOCK_MAPPING_START", mark))
    BY <1>1, <1>5, <1>7, <2>1, RolledShape
  <2>3. /\ w \in Scanners /\ Shape(w) /\ Alike(q, w)
        /\ w = q \/ Placed(w.tokens, q.tokens, Len(q.tokens) + 1, x)
    BY <2>1, <2>2 DEF pos, mark, x
  <2>. HIDE DEF w
  <2>4. CASE w = q
    BY <1>1, <1>5, <2>3, <2>4 DEF len
  <2>5. CASE Placed(w.tokens, q.tokens, Len(q.tokens) + 1, x)
    <3>1. Len(q.tokens) = len /\ len + 1 - 1 = len
      BY <1>1, <1>5 DEF len
    <3>. QED
      BY <1>1, <1>5, <2>3, <2>5, <3>1 DEF Placed
  <2>. QED
    BY <2>3, <2>4, <2>5
<1>. HIDE DEF w
<1>9. /\ v \in Scanners /\ v.simple_keys = k /\ v.tokens = w.tokens
      /\ v.simple_keys_by_tok = s.simple_keys_by_tok /\ v.flow_level = s.flow_level
      /\ v.simple_key_allowed = a
      /\ v.tokens_parsed = s.tokens_parsed /\ v.mark = s.mark /\ v.column = w.column
      /\ v.token_available = s.token_available /\ v.at_end = w.at_end
      /\ v.stream_end_produced = w.stream_end_produced /\ v.open = w.open
      /\ v.indents = w.indents /\ v.indent = w.indent
  <2>1. /\ w.simple_keys = k /\ w.simple_keys_by_tok = s.simple_keys_by_tok
        /\ w.flow_level = s.flow_level /\ w.tokens_parsed = s.tokens_parsed /\ w.mark = s.mark
        /\ w.token_available = s.token_available
    BY <1>5, <1>8 DEF Alike
  <2>. QED
    BY <1>1, <1>8, <2>1 DEF Scanners
<1>. HIDE DEF v
<1>10. Shape(v)
  <2>1. /\ v.mark = w.mark /\ v.flow_level = w.flow_level /\ v.simple_keys = w.simple_keys
        /\ v.token_available = w.token_available /\ w.at_end = s.at_end /\ w.mark \in Nat
    BY <1>1, <1>5, <1>8, <1>9 DEF Alike
  <2>2. v.mark >= w.mark /\ v.mark <= MaxFetches + 1 /\ (~v.at_end => v.mark <= MaxFetches)
        /\ v.column <= Beyond /\ v.flow_level <= MaxFlowLevel /\ InFlow(v) = InFlow(w)
    BY <1>8, <1>9, <2>1 DEF Shape, Within, InFlow
  <2>. QED
    BY <1>8, <1>9, <2>1, <2>2, ShapeKept
<1>11. "VALUE" \in Plain /\ "VALUE" \in TokenTypes /\ v.mark > 0
  BY <1>1, <1>9 DEF Plain, TokenTypes
<1>12. Shape(r)
  BY <1>1, <1>9, <1>10, <1>11, AppendedShape DEF Plain
<1>13. /\ r \in Scanners /\ Len(r.tokens) > len
       /\ \A i \in 1..len : r.tokens[i] = s.tokens[i]
       /\ r.simple_keys = k /\ r.simple_keys_by_tok = s.simple_keys_by_tok
       /\ r.flow_level = s.flow_level /\ r.tokens_parsed = s.tokens_parsed
       /\ r.mark = s.mark /\ r.token_available = s.token_available
       /\ r.simple_key_allowed = a
  <2>. DEFINE t == Append(v.tokens, Token("VALUE", v.mark))
  <2>1. /\ r \in Scanners /\ r = [v EXCEPT !.tokens = t]
        /\ Len(v.tokens) \in Nat /\ Len(r.tokens) = Len(v.tokens) + 1
        /\ \A i \in 1..Len(v.tokens) : r.tokens[i] = v.tokens[i]
    BY <1>9, <1>11, AppendedFacts
  <2>. HIDE DEF r, t
  <2>2. Len(r.tokens) > len
    BY <1>1, <1>8, <1>9, <2>1
  <2>3. ASSUME NEW i \in 1..len PROVE r.tokens[i] = s.tokens[i]
    <3>1. i \in 1..Len(v.tokens)
      BY <1>1, <1>8, <1>9, <2>1
    <3>. QED
      BY <1>8, <1>9, <2>1, <3>1
  <2>. QED
    BY <1>9, <2>1, <2>2, <2>3 DEF Scanners
<1>. HIDE DEF r
<1>14. Keys(r)
  BY <1>1, <1>2, <1>13, StruckKeys DEF n, len, a, k
<1>15. Resolved(s, r)
  <2>1. CASE n = 1
    BY <1>2, <2>1 DEF Valid, Missed, Resolved
  <2>2. CASE n # 1
    <3>1. 1 \in 1..n - 1
      BY <1>2, <2>2
    <3>. QED
      BY <1>4, <1>13, <3>1 DEF Resolved
  <2>. QED
    BY <2>1, <2>2
<1>. QED
  BY <1>3, <1>12, <1>13, <1>14, <1>15 DEF Inv, Keys, Shape

\* While more tokens are needed, at most two of those in the queue end the stream.
LEMMA FewEnds ==
  ASSUME NEW s \in Scanners, Inv(s), NeedsMore(s)
  PROVE  /\ Count(Len(s.tokens), s.tokens, "STREAM_END") <= 2
         /\ ~s.at_end => Count(Len(s.tokens), s.tokens, "STREAM_END") = 0
<1>1. /\ Len(s.tokens) \in Nat /\ DOMAIN s.tokens = 1..Len(s.tokens)
      /\ s.tokens_parsed \in Nat
      /\ Count(Len(s.tokens), s.tokens, "STREAM_END") \in 0..Len(s.tokens)
  BY ScannerTypes, CountType
<1>2. CASE ~s.at_end
  <2>1. {i \in 1..Len(s.tokens) : s.tokens[i].typ = "STREAM_END"} = {}
    BY <1>1, <1>2 DEF Inv, AtEnd
  <2>. QED
    BY <2>1, FS_EmptySet DEF Count
<1>3. CASE s.at_end
  <2>1. ~(s.tokens_parsed \in DOMAIN s.simple_keys_by_tok /\ Valid(HeadKey(s)))
    <3>1. SUFFICES ASSUME s.tokens_parsed \in DOMAIN s.simple_keys_by_tok PROVE ~Valid(HeadKey(s))
      OBVIOUS
    <3>2. Waiting(s, s.tokens_parsed)
      BY <1>1, <3>1 DEF Waiting
    <3>3. s.simple_keys_by_tok[s.tokens_parsed] \in DOMAIN s.simple_keys
      BY <1>1, <3>2 DEF Inv, IndexLeads
    <3>. QED
      BY <1>3, <3>3 DEF Inv, AtEnd, HeadKey
  <2>2. Len(s.tokens) < 3
    BY <2>1 DEF NeedsMore
  <2>. QED
    BY <1>1, <1>3, <2>2
<1>. QED
  BY <1>2, <1>3

\* One more STREAM-END.
LEMMA EndAppendedInv ==
  ASSUME NEW s \in Scanners, Inv(s), ~s.token_available, ~s.stream_end_produced, s.mark > 0,
         s.at_end, InFlow(s) \/ Len(s.indents) = 0,
         Count(Len(s.tokens), s.tokens, "STREAM_END") <= 2
  PROVE  LET r == Appended([s EXCEPT !.simple_key_allowed = FALSE], "STREAM_END") IN
         /\ r \in Scanners /\ Inv(r)
         /\ r.simple_keys = s.simple_keys
<1>. DEFINE m == [s EXCEPT !.simple_key_allowed = FALSE]
            r == Appended(m, "STREAM_END")
            x == Token("STREAM_END", s.mark)
            n == Len(s.tokens)
            q == s.tokens
            t == r.tokens
            o == s.open
<1>1. /\ Keys(s) /\ Within(s) /\ Nesting(s) /\ AtEnd(s) /\ n \in Nat /\ s.mark \in Nat
      /\ o \in Int /\ DOMAIN q = 1..n
  BY ScannerTypes DEF Inv, Keys
<1>2. /\ m \in Scanners /\ m.simple_key_allowed = FALSE
      /\ m.tokens = s.tokens /\ m.tokens_parsed = s.tokens_parsed
      /\ m.token_available = s.token_available
      /\ m.simple_keys = s.simple_keys /\ m.simple_keys_by_tok = s.simple_keys_by_tok
      /\ m.flow_level = s.flow_level
      /\ m.indent = s.indent /\ m.indents = s.indents /\ m.column = s.column /\ m.mark = s.mark
      /\ m.at_end = s.at_end /\ m.stream_end_produced = s.stream_end_produced /\ m.open = s.open
  BY DEF Scanners
<1>. HIDE DEF m
<1>3. "STREAM_END" \in TokenTypes
  BY DEF TokenTypes
<1>4. /\ r \in Scanners /\ r = [m EXCEPT !.tokens = t]
      /\ Len(t) = n + 1 /\ t[n + 1] = x /\ \A i \in 1..n : t[i] = q[i]
  <2>. DEFINE y == Append(m.tokens, Token("STREAM_END", m.mark))
  <2>1. /\ r \in Scanners /\ r = [m EXCEPT !.tokens = y]
        /\ Len(t) = n + 1 /\ t[n + 1] = x /\ \A i \in 1..n : t[i] = q[i]
    BY <1>2, <1>3, AppendedFacts
  <2>. HIDE DEF y, r
  <2>2. r = [m EXCEPT !.tokens = t]
    BY <1>2, <2>1 DEF Scanners
  <2>. QED
    BY <2>1, <2>2
<1>. HIDE DEF r
<1>5. /\ r.simple_key_allowed = FALSE
      /\ r.tokens_parsed = s.tokens_parsed /\ r.token_available = s.token_available
      /\ r.simple_keys = s.simple_keys /\ r.simple_keys_by_tok = s.simple_keys_by_tok
      /\ r.flow_level = s.flow_level /\ r.mark = s.mark /\ r.column = s.column
      /\ r.indent = s.indent /\ r.indents = s.indents /\ r.at_end = s.at_end
      /\ r.stream_end_produced = s.stream_end_produced /\ r.open = s.open
  <2>1. r = [m EXCEPT !.tokens = t]
    BY <1>4
  <2>. HIDE DEF t, q, x, n, o
  <2>. QED
    BY <1>2, <2>1 DEF Scanners
<1>6. x.typ = "STREAM_END" /\ x.mark = s.mark /\ Opening(x) = 0
  BY DEF Token, Opening
<1>7. DOMAIN t = 1..n + 1
  BY <1>4, ScannerTypes
<1>. HIDE DEF n, q, t, o, x
<1>8. Keys(r)
  <2>1. Len(r.tokens) > Len(s.tokens) /\ Len(r.tokens) >= Len(s.tokens)
    BY <1>1, <1>4 DEF n, t
  <2>2. Dimmed(s, r) /\ Grows(s, r)
    BY <1>1, <1>4, <1>5, <2>1 DEF Dimmed, Grows, Keys, KeysInOrder, n, q, t
  <2>. QED
    BY <1>1, <1>4, <1>5, <2>1, <2>2, Onward
<1>9. Within(r)
  <2>1. ASSUME NEW i \in 1..n + 1 PROVE t[i].mark \in 1..s.mark
    <3>1. CASE i = n + 1
      BY <1>1, <1>4, <1>6, <3>1
    <3>2. CASE i \in 1..n
      <4>1. q[i].mark \in 1..s.mark
        BY <1>1, <3>2 DEF Within, q
      <4>. QED
        BY <1>4, <3>2, <4>1
    <3>. QED
      BY <1>1, <3>1, <3>2
  <2>. QED
    BY <1>1, <1>5, <1>7, <2>1 DEF Within, t
<1>10. /\ \A j \in 0..n : Depth(o, t, j) = Depth(o, q, j)
       /\ Depth(o, t, n + 1) = Depth(o, q, n)
  <2>1. ASSUME NEW j \in 0..n PROVE Depth(o, t, j) = Depth(o, q, j)
    <3>1. j \in Nat /\ \A i \in 1..j : t[i].typ = q[i].typ
      BY <1>1, <1>4
    <3>. QED
      BY <3>1, DepthSame
  <2>2. Depth(o, t, n + 1) = Depth(o, t, n) + Opening(t[n + 1]) /\ Depth(o, t, n) \in Int
    BY <1>1, DepthStep
  <2>3. n \in 0..n
    BY <1>1
  <2>. QED
    BY <1>4, <1>6, <2>1, <2>2, <2>3
<1>11. (\A j \in 0..n : Depth(o, q, j) >= 0) /\ Depth(o, q, n) = Len(s.indents)
  BY <1>1 DEF Nesting, o, q, n
<1>12. Nesting(r)
  <2>1. ASSUME NEW j \in 0..n + 1 PROVE Depth(o, t, j) >= 0
    <3>1. CASE j = n + 1
      <4>1. n \in 0..n
        BY <1>1
      <4>. QED
        BY <1>10, <1>11, <3>1, <4>1
    <3>2. CASE j \in 0..n
      BY <1>10, <1>11, <3>2
    <3>. QED
      BY <1>1, <3>1, <3>2
  <2>. QED
    BY <1>1, <1>4, <1>5, <1>10, <1>11, <2>1 DEF Nesting, All, o, t
<1>13. AtEnd(r)
  <2>1. Count(n + 1, t, "STREAM_END") <= 3
    <3>1. Count(n + 1, t, "STREAM_END") = Count(n, t, "STREAM_END") + 1
      BY <1>1, <1>4, <1>6, CountStep
    <3>2. Count(n, t, "STREAM_END") = Count(n, q, "STREAM_END")
      <4>1. \A i \in 1..n : t[i].typ = q[i].typ
        BY <1>4
      <4>. QED
        BY <1>1, <4>1, CountSame
    <3>3. Count(n, q, "STREAM_END") \in 0..n
      BY <1>1, CountType
    <3>4. Count(n, q, "STREAM_END") <= 2
      BY DEF n, q
    <3>. QED
      BY <1>1, <3>1, <3>2, <3>3, <3>4
  <2>2. ASSUME NEW p \in 1..n + 1, t[p].typ = "STREAM_END"
        PROVE  r.at_end /\ (InFlow(r) \/ Depth(o, t, p) = 0)
    <3>1. CASE p = n + 1
      BY <1>5, <1>10, <1>11, <3>1 DEF InFlow
    <3>2. CASE p \in 1..n
      <4>1. q[p].typ = "STREAM_END" /\ p \in 0..n
        BY <1>1, <1>4, <2>2, <3>2
      <4>2. InFlow(s) \/ Depth(o, q, p) = 0
        BY <1>1, <3>2, <4>1 DEF AtEnd, o, q
      <4>. QED
        BY <1>5, <1>10, <4>1, <4>2 DEF InFlow
    <3>. QED
      BY <1>1, <3>1, <3>2
  <2>3. \A i \in DOMAIN r.simple_keys : ~Valid(r.simple_keys[i])
    BY <1>1, <1>5 DEF AtEnd
  <2>. QED
    BY <1>4, <1>5, <1>7, <2>1, <2>2, <2>3 DEF AtEnd, o, t
<1>. QED
  BY <1>4, <1>5, <1>8, <1>9, <1>12, <1>13 DEF Inv, Keys, r, m

\* The end of the text.
LEMMA StreamEndInv ==
  ASSUME NEW s \in Scanners, Inv(s), ~s.token_available, ~s.stream_end_produced, s.mark > 0,
         NeedsMore(s)
  PROVE  LET w == IF s.at_end THEN s
                  ELSE [AllAway(s) EXCEPT !.mark = @ + 1, !.column = 0, !.at_end = TRUE]
             r == Outermost(w, "STREAM_END")
         IN r \in Scanners /\ Inv(r) /\ (r.error \/ KeyKept(s, r))
<1>. DEFINE w == IF s.at_end THEN s
                 ELSE [AllAway(s) EXCEPT !.mark = @ + 1, !.column = 0, !.at_end = TRUE]
            u == Unrolled(w, -1)
            m == Removed(u)
            t == Appended([m EXCEPT !.simple_key_allowed = FALSE], "STREAM_END")
            few == Count(Len(w.tokens), w.tokens, "STREAM_END") <= 2
<1>1. /\ Keys(s) /\ Shape(s) /\ s.mark \in Nat
      /\ Count(Len(s.tokens), s.tokens, "STREAM_END") <= 2
  BY ScannerTypes, FewEnds DEF Inv, Keys, Shape
<1>2. /\ w \in Scanners /\ Inv(w) /\ w.at_end /\ ~w.token_available /\ ~w.stream_end_produced
      /\ w.mark > 0 /\ KeyKept(s, w) /\ few
  <2>1. CASE s.at_end
    BY <1>1, <2>1 DEF KeyKept
  <2>2. CASE ~s.at_end
    <3>. DEFINE n == Len(s.simple_keys)
                k == AllAway(s).simple_keys
                y == s.mark + 1
    <3>1. n \in Nat
      BY ScannerTypes
    <3>2. AllAway(s) \in Scanners /\ AllAway(s) = [s EXCEPT !.simple_keys = k]
      BY <3>1, AwayFacts DEF AllAway
    <3>3. w = [AllAway(s) EXCEPT !.mark = @ + 1, !.column = 0, !.at_end = TRUE]
      BY <2>2
    <3>4. k \in Seq(SimpleKeys)
      BY <3>2, ScannerTypes
    <3>5. y \in Nat /\ 0 \in Nat
      BY <1>1
    <3>6. k = Away(s, n).simple_keys
      BY DEF AllAway
    <3>. HIDE DEF k, w
    <3>7. w = [s EXCEPT !.simple_keys = k, !.mark = y, !.column = 0, !.at_end = TRUE]
      BY <3>2, <3>3 DEF Scanners
    <3>. HIDE DEF y, n
    <3>8. /\ w \in Scanners /\ w.simple_keys = k /\ w.mark = y /\ w.column = 0 /\ w.at_end = TRUE
          /\ w.tokens = s.tokens /\ w.tokens_parsed = s.tokens_parsed
          /\ w.token_available = s.token_available
          /\ w.simple_keys_by_tok = s.simple_keys_by_tok /\ w.flow_level = s.flow_level
          /\ w.simple_key_allowed = s.simple_key_allowed
          /\ w.indent = s.indent /\ w.indents = s.indents
          /\ w.stream_end_produced = s.stream_end_produced /\ w.open = s.open
      BY <3>4, <3>5, <3>7 DEF Scanners
    <3>9. /\ w.mark >= s.mark /\ s.mark # 0 /\ w.mark <= MaxFetches + 1 /\ w.mark > 0
          /\ w.column <= Beyond
      BY <1>1, <2>2, <3>8, ScannerConstants DEF Shape, Within, Beyond, y
    <3>10. Inv(w) /\ Dimmed(s, w)
      BY <3>1, <3>6, <3>8, <3>9, Moved DEF n
    <3>11. KeyKept(s, w)
      BY <1>1, <3>10, KeptKeys
    <3>. QED
      BY <1>1, <3>8, <3>9, <3>10, <3>11
  <2>. QED
    BY <2>1, <2>2
<1>. DEFINE r == Outermost(w, "STREAM_END")
<1>. SUFFICES r \in Scanners /\ Inv(r) /\ (r.error \/ KeyKept(s, r))
  OBVIOUS
<1>. HIDE DEF w, few
<1>3. /\ u \in Scanners /\ Inv(u) /\ u.at_end /\ ~u.token_available /\ ~u.stream_end_produced
      /\ u.mark > 0 /\ u.simple_keys = w.simple_keys
      /\ (InFlow(u) \/ Len(u.indents) = 0)
      /\ Count(Len(u.tokens), u.tokens, "STREAM_END") <= 2
  <2>1. -1 \in Int /\ -1 >= -1
    OBVIOUS
  <2>2. /\ u \in Scanners /\ Inv(u)
        /\ u = [w EXCEPT !.tokens = u.tokens, !.indent = u.indent, !.indents = u.indents]
        /\ Count(Len(u.tokens), u.tokens, "STREAM_END") = Count(Len(w.tokens), w.tokens, "STREAM_END")
        /\ ~InFlow(w) => Len(u.indents) = 0
    BY <1>2, <2>1, UnrolledInv
  <2>. HIDE DEF u
  <2>3. /\ u.at_end = w.at_end /\ u.token_available = w.token_available
        /\ u.stream_end_produced = w.stream_end_produced /\ u.mark = w.mark
        /\ u.simple_keys = w.simple_keys /\ u.flow_level = w.flow_level
    BY <1>2, <2>2 DEF Scanners
  <2>. QED
    BY <1>2, <2>2, <2>3 DEF few, InFlow
<1>4. CASE MustBeKey(u)
  BY <1>3, <1>4, ErrorInv DEF Outermost
<1>5. CASE ~MustBeKey(u)
  <2>1. Outermost(w, "STREAM_END") = t
    BY <1>5 DEF Outermost
  <2>. HIDE DEF u
  <2>2. /\ m \in Scanners /\ Inv(m) /\ KeyKept(u, m)
        /\ m = [u EXCEPT !.simple_keys = m.simple_keys,
                         !.simple_keys_by_tok = m.simple_keys_by_tok]
    BY <1>3, <1>5, RemovedInv
  <2>. HIDE DEF m
  <2>3. /\ m.at_end /\ ~m.token_available /\ ~m.stream_end_produced /\ m.mark > 0
        /\ (InFlow(m) \/ Len(m.indents) = 0)
        /\ Count(Len(m.tokens), m.tokens, "STREAM_END") <= 2
    <3>1. /\ m.at_end = u.at_end /\ m.token_available = u.token_available
          /\ m.stream_end_produced = u.stream_end_produced /\ m.mark = u.mark
          /\ m.flow_level = u.flow_level /\ m.indents = u.indents /\ m.tokens = u.tokens
      BY <1>3, <2>2 DEF Scanners
    <3>. QED
      BY <1>3, <3>1 DEF InFlow
  <2>4. t \in Scanners /\ Inv(t) /\ t.simple_keys = m.simple_keys
    BY <2>2, <2>3, EndAppendedInv
  <2>. QED
    BY <1>2, <1>3, <2>1, <2>2, <2>4 DEF KeyKept
<1>. QED
  BY <1>4, <1>5

\* The start of the stream.
LEMMA StreamStartInv ==
  ASSUME NEW s \in Scanners, Inv(s), ~s.token_available, s.mark = 0
  PROVE  LET r == Appended([s EXCEPT !.mark = 1, !.simple_key_allowed = TRUE], "STREAM_START") IN
         r \in Scanners /\ Inv(r) /\ KeyKept(s, r)
<1>. DEFINE m == [s EXCEPT !.mark = 1, !.simple_key_allowed = TRUE]
            r == Appended(m, "STREAM_START")
            n == Len(s.tokens)
            t == r.tokens
<1>1. Keys(s) /\ Shape(s) /\ n \in Nat
  BY ScannerTypes DEF Inv, Keys, Shape
<1>2. /\ m \in Scanners /\ m.simple_key_allowed = TRUE /\ m.mark = 1
      /\ m.tokens = s.tokens /\ m.tokens_parsed = s.tokens_parsed
      /\ m.token_available = s.token_available
      /\ m.simple_keys = s.simple_keys /\ m.simple_keys_by_tok = s.simple_keys_by_tok
      /\ m.flow_level = s.flow_level
      /\ m.indent = s.indent /\ m.indents = s.indents /\ m.column = s.column
      /\ m.at_end = s.at_end /\ m.stream_end_produced = s.stream_end_produced /\ m.open = s.open
  BY DEF Scanners
<1>. HIDE DEF m
<1>3. Shape(m)
  <2>1. m.mark >= s.mark /\ m.mark <= MaxFetches + 1 /\ m.mark <= MaxFetches
    BY <1>2, ScannerConstants
  <2>2. m.column <= Beyond /\ m.flow_level <= MaxFlowLevel /\ InFlow(m) = InFlow(s)
    BY <1>1, <1>2 DEF Shape, Within, InFlow
  <2>. QED
    BY <1>1, <1>2, <2>1, <2>2, ShapeKept
<1>4. "STREAM_START" \in Plain /\ "STREAM_START" \in TokenTypes
  BY DEF Plain, TokenTypes
<1>5. /\ r \in Scanners /\ r = [m EXCEPT !.tokens = t]
      /\ Len(t) = n + 1 /\ \A i \in 1..n : t[i] = s.tokens[i]
  <2>. DEFINE y == Append(m.tokens, Token("STREAM_START", m.mark))
  <2>1. /\ r \in Scanners /\ r = [m EXCEPT !.tokens = y]
        /\ Len(t) = n + 1 /\ \A i \in 1..n : t[i] = s.tokens[i]
    <3>1. m.mark > 0
      BY <1>2
    <3>. QED
      BY <1>2, <1>4, <3>1, AppendedFacts
  <2>. HIDE DEF y, r
  <2>2. r = [m EXCEPT !.tokens = t]
    BY <1>2, <2>1 DEF Scanners
  <2>. QED
    BY <2>1, <2>2
<1>6. Shape(r)
  <2>1. m.mark > 0 /\ ~m.token_available
    BY <1>2
  <2>. QED
    BY <1>2, <1>3, <1>4, <2>1, AppendedShape DEF Plain
<1>. HIDE DEF r
<1>7. /\ r.simple_key_allowed = TRUE
      /\ r.tokens_parsed = s.tokens_parsed /\ r.token_available = s.token_available
      /\ r.simple_keys = s.simple_keys /\ r.simple_keys_by_tok = s.simple_keys_by_tok
      /\ r.flow_level = s.flow_level
  <2>1. r = [m EXCEPT !.tokens = t]
    BY <1>5
  <2>. HIDE DEF t
  <2>. QED
    BY <1>2, <2>1 DEF Scanners
<1>8. Keys(r)
  <2>1. Len(r.tokens) > Len(s.tokens) /\ Len(r.tokens) >= Len(s.tokens)
    BY <1>1, <1>5
  <2>2. Dimmed(s, r) /\ Grows(s, r)
    BY <1>1, <1>5, <1>7, <2>1 DEF Dimmed, Grows, Keys, KeysInOrder
  <2>. QED
    BY <1>1, <1>5, <1>7, <2>1, <2>2, Onward
<1>9. KeyKept(s, r)
  BY <1>7 DEF KeyKept
<1>. QED
  BY <1>5, <1>6, <1>8, <1>9 DEF Inv, Keys, Shape, r, m

\* Making the head available disturbs nothing but the keys.
LEMMA AvailableShape ==
  ASSUME NEW s \in Scanners, Shape(s), Len(s.tokens) >= 3, NEW r \in Scanners,
         r.tokens = s.tokens, r.indents = s.indents, r.indent = s.indent, r.open = s.open,
         r.stream_end_produced = s.stream_end_produced, r.at_end = s.at_end,
         r.mark = s.mark, r.column = s.column, r.flow_level = s.flow_level,
         Len(r.simple_keys) = Len(s.simple_keys),
         \A i \in DOMAIN s.simple_keys :
           /\ r.simple_keys[i].column = s.simple_keys[i].column
           /\ r.simple_keys[i].mark = s.simple_keys[i].mark
           /\ r.simple_keys[i].far = s.simple_keys[i].far
           /\ r.simple_keys[i].possible => s.simple_keys[i].possible
  PROVE  Shape(r)
<1>1. DOMAIN r.simple_keys = DOMAIN s.simple_keys
  BY ScannerTypes
<1>2. Within(r)
  BY <1>1 DEF Shape, Within
<1>3. Nesting(r)
  BY DEF Shape, Nesting, All
<1>4. AtEnd(r)
  BY <1>1 DEF Shape, AtEnd, Valid, InFlow
<1>. QED
  BY <1>2, <1>3, <1>4 DEF Shape

\* The head of the queue becomes available when no key waits at it.
LEMMA AvailableInv ==
  ASSUME NEW s \in Scanners, Inv(s), ~s.token_available, ~NeedsMore(s),
         NEW r \in Scanners,
         \/ s.tokens_parsed \notin DOMAIN s.simple_keys_by_tok /\ r.simple_keys = s.simple_keys
         \/ /\ s.tokens_parsed \in DOMAIN s.simple_keys_by_tok /\ ~Missed(HeadKey(s))
            /\ r.simple_keys = [s.simple_keys EXCEPT
                 ![s.simple_keys_by_tok[s.tokens_parsed]].possible = FALSE],
         r.tokens = s.tokens, r.indents = s.indents, r.indent = s.indent, r.open = s.open,
         r.stream_end_produced = s.stream_end_produced, r.at_end = s.at_end,
         r.mark = s.mark, r.column = s.column, r.flow_level = s.flow_level,
         r.tokens_parsed = s.tokens_parsed, r.simple_keys_by_tok = s.simple_keys_by_tok,
         r.simple_key_allowed = s.simple_key_allowed, r.token_available
  PROVE  Inv(r) /\ Resolved(s, r)
<1>. DEFINE x == s.simple_keys_by_tok
            tp == s.tokens_parsed
            h == x[tp]
            k == s.simple_keys
            q == r.simple_keys
            n == Len(k)
<1>1. /\ Keys(s) /\ Shape(s) /\ tp \in Nat /\ n \in Nat \ {0} /\ DOMAIN k = 1..n
      /\ \A i \in 1..n : k[i] \in SimpleKeys
      /\ k \in Seq(SimpleKeys) /\ Len(s.tokens) \in Nat
  BY ScannerTypes, LastKey DEF Inv, Keys, Shape
<1>2. Len(s.tokens) >= 3
  BY <1>1 DEF NeedsMore
<1>3. tp \in DOMAIN x => /\ h \in 1..n
                         /\ h # 1 => k[h].token_number = tp
                         /\ ~Valid(k[h])
  <2>. SUFFICES ASSUME tp \in DOMAIN x
                PROVE  h \in 1..n /\ (h # 1 => k[h].token_number = tp) /\ ~Valid(k[h])
    OBVIOUS
  <2>1. Waiting(s, tp)
    BY <1>1 DEF Waiting
  <2>2. h \in DOMAIN k /\ (h # 1 => k[h].token_number = tp)
    BY <1>1, <2>1 DEF Keys, IndexLeads
  <2>. QED
    BY <1>1, <2>2 DEF NeedsMore, HeadKey
<1>4. Len(q) = n /\ DOMAIN q = 1..n
  <2>1. DOMAIN q = DOMAIN k
    OBVIOUS
  <2>2. q \in Seq(SimpleKeys) /\ Len(q) \in Nat /\ DOMAIN q = 1..Len(q)
    BY ScannerTypes
  <2>. HIDE DEF q, k, n
  <2>. QED
    BY <1>1, <2>1, <2>2
<1>5. ASSUME NEW i \in 1..n
      PROVE  /\ q[i].token_number = k[i].token_number /\ q[i].mark = k[i].mark
             /\ q[i].column = k[i].column /\ q[i].far = k[i].far /\ q[i].required = k[i].required
             /\ q[i].possible => k[i].possible
             /\ tp \in DOMAIN x /\ i = h => q[i].possible = FALSE
             /\ ~(tp \in DOMAIN x /\ i = h) => q[i].possible = k[i].possible
  <2>1. CASE tp \in DOMAIN x /\ i = h
    <3>1. q = [k EXCEPT ![h].possible = FALSE]
      BY <2>1
    <3>2. k[i] \in SimpleKeys /\ i \in DOMAIN k
      BY <1>1
    <3>. HIDE DEF q, k, h
    <3>3. q[i] = [k[i] EXCEPT !.possible = FALSE]
      BY <2>1, <3>1, <3>2
    <3>. QED
      BY <2>1, <3>2, <3>3 DEF SimpleKeys
  <2>2. CASE ~(tp \in DOMAIN x /\ i = h)
    <3>1. q[i] = k[i]
      BY <1>1, <2>2
    <3>. QED
      BY <2>2, <3>1
  <2>. QED
    BY <2>1, <2>2
<1>. HIDE DEF x, tp, h, k, q, n
<1>6. StaleKeysPass(r)
  <2>. SUFFICES ASSUME NEW i \in 1..n, Stale(r, i)
                PROVE  /\ q[i].far
                       /\ \/ r.token_available /\ q[i].token_number = tp
                          \/ Since(r, i) >= 2 /\ i = n /\ ~r.simple_key_allowed
                          \/ Since(r, i) >= 3
    BY <1>4 DEF StaleKeysPass, q, tp
  <2>1. Since(r, i) = Since(s, i)
    BY <1>5 DEF Since, q, k
  <2>2. CASE ~k[i].possible
    <3>1. Stale(s, i)
      BY <1>1, <1>4, <1>5, <2>2 DEF Stale, Waiting, q, k, x
    <3>2. /\ k[i].far
          /\ \/ Since(s, i) >= 2 /\ i = n /\ ~s.simple_key_allowed
             \/ Since(s, i) >= 3
      BY <1>1, <3>1 DEF Keys, StaleKeysPass, k, n
    <3>. QED
      BY <1>5, <2>1, <3>2
  <2>3. CASE k[i].possible
    <3>1. ~q[i].possible /\ i > 1
      BY DEF Stale, q
    <3>2. tp \in DOMAIN x /\ i = h
      BY <1>5, <2>3, <3>1
    <3>3. k[i].token_number = tp /\ ~Valid(k[i])
      BY <1>3, <3>1, <3>2
    <3>. QED
      BY <1>5, <2>3, <3>3 DEF Valid
  <2>. QED
    BY <2>2, <2>3
<1>7. ASSUME NEW i \in 1..n, Valid(q[i]), q[i].token_number \in DOMAIN x
      PROVE  q[i].token_number # tp
  <2>1. SUFFICES ASSUME k[i].token_number = tp, tp \in DOMAIN x PROVE FALSE
    BY <1>5, <1>7
  <2>2. k[i].possible /\ q[i].possible
    BY <1>5, <1>7 DEF Valid
  <2>3. i = h
    BY <1>1, <2>1, <2>2 DEF Keys, IndexLeads, k, x, tp, h
  <2>. QED
    BY <1>5, <2>1, <2>2, <2>3
<1>8. Keys(r)
  <2>1. \A i \in DOMAIN s.simple_keys :
           /\ r.simple_keys[i].token_number = s.simple_keys[i].token_number
           /\ r.simple_keys[i].mark = s.simple_keys[i].mark
           /\ r.simple_keys[i].far = s.simple_keys[i].far
           /\ r.simple_keys[i].possible => s.simple_keys[i].possible
    BY <1>1, <1>5 DEF q, k
  <2>2. \A i \in DOMAIN s.simple_keys :
              Valid(r.simple_keys[i])
                /\ r.simple_keys[i].token_number \in DOMAIN r.simple_keys_by_tok
                => r.simple_keys[i].token_number # r.tokens_parsed
    BY <1>1, <1>7 DEF q, k, x, tp
  <2>3. Len(r.simple_keys) = Len(s.simple_keys)
    BY <1>4 DEF q, k, n
  <2>. QED
    BY <1>1, <1>6, <2>1, <2>2, <2>3, Fewer
<1>9. Shape(r)
  <2>1. \A i \in DOMAIN s.simple_keys :
           /\ r.simple_keys[i].column = s.simple_keys[i].column
           /\ r.simple_keys[i].mark = s.simple_keys[i].mark
           /\ r.simple_keys[i].far = s.simple_keys[i].far
           /\ r.simple_keys[i].possible => s.simple_keys[i].possible
    BY <1>1, <1>5 DEF q, k
  <2>2. Len(r.simple_keys) = Len(s.simple_keys)
    BY <1>4 DEF q, k, n
  <2>. QED
    BY <1>1, <1>2, <2>1, <2>2, AvailableShape
<1>10. Resolved(s, r)
  <2>. SUFFICES ASSUME k[1].possible, k[1].required
                PROVE  q[1].possible /\ q[1].mark = k[1].mark
    BY DEF Resolved, q, k
  <2>1. 1 \in 1..n
    BY <1>1
  <2>2. ~(tp \in DOMAIN x /\ 1 = h)
    <3>1. SUFFICES ASSUME tp \in DOMAIN x, 1 = h PROVE FALSE
      OBVIOUS
    <3>2. ~Valid(k[1])
      BY <1>3, <3>1
    <3>3. ~Missed(k[1])
      BY <3>1 DEF HeadKey, k, h, x, tp
    <3>. QED
      BY <3>2, <3>3 DEF Valid, Missed
  <2>. QED
    BY <1>5, <2>1, <2>2
<1>. QED
  BY <1>8, <1>9, <1>10 DEF Inv, Keys, Shape

\* The head is taken from the queue.
LEMMA SkippedInv ==
  ASSUME NEW s \in Scanners, Inv(s), s.token_available
  PROVE  LET r == [s EXCEPT !.token_available = FALSE,
                            !.tokens_parsed = @ + 1,
                            !.open = @ + Opening(s.tokens[1]),
                            !.stream_end_produced = s.tokens[1].typ = "STREAM_END",
                            !.tokens = Tail(@)]
         IN r \in Scanners /\ Inv(r) /\ KeyKept(s, r)
<1>. DEFINE r == [s EXCEPT !.token_available = FALSE,
                           !.tokens_parsed = @ + 1,
                           !.open = @ + Opening(s.tokens[1]),
                           !.stream_end_produced = s.tokens[1].typ = "STREAM_END",
                           !.tokens = Tail(@)]
            q == s.tokens
            t == Tail(q)
            n == Len(t)
            tp == s.tokens_parsed
            tq == tp + 1
            o == s.open
            u == o + Opening(q[1])
            e == q[1].typ = "STREAM_END"
            k == s.simple_keys
            x == s.simple_keys_by_tok
<1>1. /\ Keys(s) /\ Shape(s) /\ tp \in Nat /\ q \in Seq(Tokens) /\ Len(q) >= 3 /\ Len(q) \in Nat
      /\ o \in Int /\ s.mark \in Nat /\ DOMAIN q = 1..Len(q)
      /\ DOMAIN k = 1..Len(k) /\ Len(k) \in Nat /\ \A i \in DOMAIN k : k[i] \in SimpleKeys
  BY ScannerTypes DEF Inv, Keys, Shape, Within
<1>2. /\ t \in Seq(Tokens) /\ n \in Nat /\ Len(q) = n + 1 /\ DOMAIN t = 1..n
      /\ \A i \in 1..n : t[i] = q[i + 1]
  <2>1. q # <<>>
    <3>. HIDE DEF q
    <3>. QED
      BY <1>1
  <2>. HIDE DEF q
  <2>2. t \in Seq(Tokens) /\ Len(t) = Len(q) - 1 /\ \A i \in 1..Len(t) : t[i] = q[i + 1]
    BY <1>1, <2>1, HeadTailProperties DEF t
  <2>3. Len(t) \in Nat /\ DOMAIN t = 1..Len(t)
    BY <2>2, LenProperties
  <2>. HIDE DEF t
  <2>. QED
    BY <1>1, <2>2, <2>3
<1>3. u \in Int /\ tq \in Nat /\ e \in BOOLEAN /\ FALSE \in BOOLEAN
  BY <1>1 DEF Opening
<1>4. r = [s EXCEPT !.token_available = FALSE, !.tokens_parsed = tq, !.open = u,
                    !.stream_end_produced = e, !.tokens = t]
  BY DEF Scanners
<1>. HIDE DEF r, q, t, n, tp, tq, o, u, e, k, x
<1>5. /\ r \in Scanners /\ r.tokens = t /\ r.tokens_parsed = tq /\ r.open = u
      /\ r.stream_end_produced = e /\ r.token_available = FALSE
      /\ r.simple_keys = s.simple_keys /\ r.simple_keys_by_tok = s.simple_keys_by_tok
      /\ r.flow_level = s.flow_level /\ r.simple_key_allowed = s.simple_key_allowed
      /\ r.indent = s.indent /\ r.indents = s.indents /\ r.column = s.column
      /\ r.mark = s.mark /\ r.at_end = s.at_end
  BY <1>2, <1>3, <1>4 DEF Scanners
<1>6. NumberOf(r) = NumberOf(s) /\ NumberOf(s) = tp + n + 1 /\ s.mark > 0
  <2>1. NumberOf(r) = NumberOf(s) /\ NumberOf(s) = tp + n + 1
    <3>1. NumberOf(r) = tq + n /\ NumberOf(s) = tp + Len(q) /\ tq = tp + 1
      BY <1>5 DEF NumberOf, q, n, tp, tq
    <3>. QED
      BY <1>1, <1>2, <3>1
  <2>2. 1 \in 1..Len(q)
    BY <1>1
  <2>3. q[1].mark \in 1..s.mark
    BY <1>1, <2>2 DEF Shape, Within, q
  <2>. QED
    BY <1>1, <2>1, <2>3
<1>7. KeysInOrder(r)
  BY <1>1, <1>5, <1>6 DEF Keys, KeysInOrder
<1>8. \A m \in Nat : Waiting(r, m) => Waiting(s, m) /\ m # tp
  BY <1>1, <1>5 DEF Waiting, tp, tq
<1>9. IndexLeads(r)
  BY <1>1, <1>5, <1>8 DEF Keys, IndexLeads
<1>10. KeyInQueue(r)
  <2>. SUFFICES ASSUME NEW i \in DOMAIN k, Valid(k[i]), k[i].token_number \in DOMAIN x
                PROVE  /\ k[i].token_number >= tq
                       /\ t[k[i].token_number - tq + 1].mark = k[i].mark
    BY <1>5 DEF KeyInQueue, k, x
  <2>. DEFINE m == k[i].token_number
  <2>1. m \in Nat /\ m >= tp /\ m # tp /\ q[m - tp + 1].mark = k[i].mark /\ m < NumberOf(s)
    BY <1>1, <1>6, KeyFacts DEF k, x, tp, q
  <2>. HIDE DEF m
  <2>2. m >= tq /\ m - tq + 1 \in 1..n /\ m - tq + 1 + 1 = m - tp + 1
    BY <1>1, <1>2, <1>6, <2>1, SMTT(40) DEF tq
  <2>3. t[m - tq + 1] = q[m - tq + 1 + 1]
    BY <1>2, <2>2
  <2>. QED
    BY <2>1, <2>2, <2>3 DEF m
<1>11. StaleKeysPass(r)
  <2>. SUFFICES ASSUME NEW i \in DOMAIN k, Stale(r, i)
                PROVE  /\ k[i].far
                       /\ \/ Since(r, i) >= 2 /\ i = Len(k) /\ ~r.simple_key_allowed
                          \/ Since(r, i) >= 3
    BY <1>5 DEF StaleKeysPass, k
  <2>1. k[i].token_number \in Nat
    BY <1>1 DEF SimpleKeys
  <2>2. Stale(s, i) /\ k[i].token_number # tp
    BY <1>5, <1>8, <2>1 DEF Stale, k
  <2>3. Since(r, i) = Since(s, i)
    <3>. DEFINE m == k[i].token_number
    <3>1. Len(t) - (m - tq) = Len(q) - (m - tp)
      <4>1. m \in Nat /\ Len(t) = n /\ tq = tp + 1
        BY <2>1 DEF n, tq
      <4>. HIDE DEF m
      <4>. QED
        BY <1>1, <1>2, <4>1
    <3>. QED
      BY <1>5, <3>1 DEF Since, k, q, tp
  <2>. QED
    BY <1>1, <1>5, <2>2, <2>3 DEF Keys, StaleKeysPass, k, tp
<1>12. Within(r)
  <2>1. ASSUME NEW i \in 1..n PROVE t[i].mark \in 1..s.mark
    <3>1. i + 1 \in 1..Len(q)
      BY <1>1, <1>2
    <3>2. q[i + 1].mark \in 1..s.mark
      BY <1>1, <3>1 DEF Shape, Within, q
    <3>. QED
      BY <1>2, <3>2
  <2>. QED
    BY <1>1, <1>2, <1>5, <2>1 DEF Shape, Within
<1>13. ASSUME NEW m \in 0..n
       PROVE  Depth(u, t, m) = Depth(o, q, m + 1) /\ m + 1 \in 0..Len(q) /\ m + 1 \in 1..Len(q)
  <2>1. m \in Nat /\ \A i \in 1..m : t[i].typ = q[i + 1].typ
    BY <1>2
  <2>2. Depth(o + Opening(q[1]), t, m) = Depth(o, q, m + 1)
    BY <1>1, <2>1, DepthTail
  <2>3. m + 1 \in 0..Len(q) /\ m + 1 \in 1..Len(q)
    BY <1>2
  <2>. QED
    BY <2>2, <2>3 DEF u
<1>14. Nesting(r)
  <2>1. (\A m \in 0..Len(q) : Depth(o, q, m) >= 0) /\ Depth(o, q, Len(q)) = Len(s.indents)
    BY <1>1 DEF Shape, Nesting, o, q
  <2>2. \A m \in 0..n : Depth(u, t, m) >= 0
    BY <1>13, <2>1
  <2>3. Depth(u, t, n) = Len(s.indents)
    <3>1. n \in 0..n
      BY <1>2
    <3>. QED
      BY <1>2, <1>13, <2>1, <3>1
  <2>. QED
    BY <1>1, <1>5, <2>2, <2>3 DEF Shape, Nesting, All, n
<1>15. AtEnd(r)
  <2>1. Count(n, t, "STREAM_END") <= 3
    <3>1. \A i \in 1..n : t[i].typ = q[i + 1].typ
      BY <1>2
    <3>2. Count(n, t, "STREAM_END") <= Count(n + 1, q, "STREAM_END")
      BY <1>2, <3>1, CountTail
    <3>3. Count(Len(q), q, "STREAM_END") <= 3
      BY <1>1 DEF Shape, AtEnd, q
    <3>4. Count(n + 1, q, "STREAM_END") <= 3
      BY <1>2, <3>3
    <3>5. Count(n, t, "STREAM_END") \in 0..n
      BY <1>2, CountType
    <3>6. Count(n + 1, q, "STREAM_END") \in 0..n + 1
      <4>1. n + 1 \in Nat
        BY <1>2
      <4>. QED
        BY <4>1, CountType
    <3>. QED
      BY <1>2, <3>2, <3>4, <3>5, <3>6
  <2>2. \A p \in 1..Len(q) : q[p].typ = "STREAM_END" => s.at_end /\ (InFlow(s) \/ Depth(o, q, p) = 0)
    BY <1>1 DEF Shape, AtEnd, q, o
  <2>3. ASSUME NEW p \in 1..n, t[p].typ = "STREAM_END"
        PROVE  s.at_end /\ (InFlow(s) \/ Depth(u, t, p) = 0)
    <3>1. p \in 0..n /\ p + 1 \in 1..Len(q) /\ q[p + 1].typ = "STREAM_END"
      BY <1>2, <1>13, <2>3
    <3>. QED
      BY <1>13, <2>2, <3>1
  <2>4. e /\ ~InFlow(s) => u = 0
    <3>1. SUFFICES ASSUME e, ~InFlow(s) PROVE u = 0
      OBVIOUS
    <3>2. 1 \in 1..Len(q) /\ q[1].typ = "STREAM_END" /\ 0 \in 0..n
      BY <1>1, <1>2, <3>1 DEF e
    <3>3. Depth(o, q, 1) = 0
      BY <2>2, <3>1, <3>2
    <3>4. Depth(u, t, 0) = Depth(o, q, 0 + 1)
      BY <1>13, <3>2
    <3>5. Depth(u, t, 0) = u
      BY <1>3, DepthStep
    <3>. QED
      BY <3>3, <3>4, <3>5
  <2>5. s.at_end => \A i \in DOMAIN s.simple_keys : ~Valid(s.simple_keys[i])
    BY <1>1 DEF Shape, AtEnd
  <2>. QED
    BY <1>2, <1>5, <2>1, <2>3, <2>4, <2>5 DEF AtEnd, InFlow, n
<1>16. KeyKept(s, r)
  BY <1>5 DEF KeyKept
<1>. QED
  BY <1>5, <1>7, <1>9, <1>10, <1>11, <1>12, <1>14, <1>15, <1>16 DEF Inv, r

-----------------------------------------------------------------------------
(* The lexemes, from where they start to behind them                         *)

\* Where a key that is kept is kept on, it is kept; what is kept is resolved.
LEMMA Chained ==
  ASSUME NEW s, NEW m, NEW r, KeyKept(s, m)
  PROVE  /\ Resolved(m, r) => Resolved(s, r)
         /\ KeyKept(m, r) => KeyKept(s, r) /\ Resolved(s, r)
         /\ r.error => Resolved(s, r)
BY DEF KeyKept, Resolved

\* A scalar, an alias, an anchor or a tag.
LEMMA NodeStep ==
  ASSUME NEW s, Ready(s), ~SaveFails(s), NEW r \in BehindScalar(Node(s))
  PROVE  Inv(r) /\ KeyKept(s, r)
<1>. DEFINE w == Node(s)
<1>1. w \in Scanners /\ Inv(w) /\ KeyKept(s, w)
  <2>1. "NODE" \in Plain /\ FALSE \in BOOLEAN
    BY DEF Plain, TokenTypes
  <2>. QED
    BY <2>1, NodeInv DEF Node
<1>2. r \in After(w)
  BY DEF After
<1>. HIDE DEF w
<1>. QED
  BY <1>1, <1>2, AfterInv, Chained

\* A plain scalar that has read a line break: keys may start again.
LEMMA PlainStep ==
  ASSUME NEW s, Ready(s), ~SaveFails(s)
  PROVE  LET r == [BelowIt(Node(s)) EXCEPT !.simple_key_allowed = TRUE] IN
         Inv(r) /\ KeyKept(s, r)
<1>. DEFINE w == Saved(s)
            p == [w EXCEPT !.simple_key_allowed = FALSE]
            q == [w EXCEPT !.simple_key_allowed = TRUE]
            y == Appended(p, "NODE")
            z == Appended(q, "NODE")
            r == [BelowIt(y) EXCEPT !.simple_key_allowed = TRUE]
<1>1. s \in Scanners /\ Keys(s) /\ s.mark > 0
  BY DEF Ready, Inv, Keys
<1>2. w \in Scanners /\ w.mark = s.mark
  <2>1. CASE s.simple_key_allowed
    <3>1. /\ w \in Scanners
          /\ w = [s EXCEPT !.simple_keys = w.simple_keys,
                           !.simple_keys_by_tok = w.simple_keys_by_tok]
      BY <1>1, <2>1, SavedFacts
    <3>. HIDE DEF w
    <3>. QED
      BY <1>1, <3>1 DEF Scanners
  <2>2. CASE ~s.simple_key_allowed
    BY <1>1, <2>2 DEF Saved
  <2>. QED
    BY <2>1, <2>2
<1>3. "NODE" \in Plain /\ "NODE" \in TokenTypes /\ TRUE \in BOOLEAN /\ FALSE \in BOOLEAN
  BY DEF Plain, TokenTypes
<1>4. z \in Scanners /\ Inv(z) /\ KeyKept(s, z)
  BY <1>3, NodeInv
<1>5. BelowIt(z) \in After(z)
  BY DEF After
<1>6. Inv(BelowIt(z)) /\ KeyKept(s, BelowIt(z))
  <2>. HIDE DEF z
  <2>. QED
    BY <1>4, <1>5, AfterInv, Chained
<1>7. r = BelowIt(z)
  <2>. HIDE DEF w
  <2>1. p \in Scanners /\ q \in Scanners /\ p.mark > 0 /\ q.mark > 0
        /\ p.tokens = w.tokens /\ q.tokens = w.tokens /\ p.mark = w.mark /\ q.mark = w.mark
    BY <1>1, <1>2, <1>3 DEF Scanners
  <2>. DEFINE t == Append(w.tokens, Token("NODE", w.mark))
  <2>2. y \in Scanners /\ z \in Scanners /\ y = [p EXCEPT !.tokens = t] /\ z = [q EXCEPT !.tokens = t]
    <3>1. y \in Scanners /\ y = [p EXCEPT !.tokens = Append(p.tokens, Token("NODE", p.mark))]
      <4>. HIDE DEF p
      <4>. QED
        BY <1>3, <2>1, AppendedFacts
    <3>2. z \in Scanners /\ z = [q EXCEPT !.tokens = Append(q.tokens, Token("NODE", q.mark))]
      <4>. HIDE DEF q
      <4>. QED
        BY <1>3, <2>1, AppendedFacts
    <3>. QED
      BY <2>1, <3>1, <3>2
  <2>. HIDE DEF y, z, t
  <2>3. t \in Seq(Tokens)
    <3>1. y.tokens = t
      BY <1>2, <2>2 DEF Scanners
    <3>. QED
      BY <2>2, <3>1, ScannerTypes
  <2>4. y.simple_keys = w.simple_keys /\ z = [y EXCEPT !.simple_key_allowed = TRUE]
    BY <1>2, <2>2, <2>3 DEF Scanners
  <2>5. z.simple_keys = y.simple_keys
    BY <2>2, <2>4 DEF Scanners
  <2>. DEFINE n == Len(y.simple_keys)
              k == Away(y, n).simple_keys
  <2>6. n \in Nat
    BY <2>2, ScannerTypes
  <2>7. Away(y, n) = [y EXCEPT !.simple_keys = k] /\ Away(y, n) \in Scanners
    BY <2>2, <2>6, AwayFacts
  <2>8. k \in Seq(SimpleKeys)
    BY <2>7, ScannerTypes
  <2>9. Away(z, n) = [z EXCEPT !.simple_keys = k]
    <3>1. Away(z, n) = [z EXCEPT !.simple_keys = Away(z, n).simple_keys]
      BY <2>2, <2>6, AwayFacts
    <3>2. Away(z, n).simple_keys = k
      BY <2>2, <2>5 DEF Away, Scanners
    <3>. QED
      BY <3>1, <3>2
  <2>10. /\ BelowIt(y) = [[y EXCEPT !.simple_keys = k] EXCEPT !.column = 0]
         /\ BelowIt(z) = [[z EXCEPT !.simple_keys = k] EXCEPT !.column = 0]
    BY <2>5, <2>7, <2>9 DEF BelowIt, AllAway
  <2>. HIDE DEF k, n
  <2>11. BelowIt(y) = [y EXCEPT !.simple_keys = k, !.column = 0]
    BY <2>2, <2>10 DEF Scanners
  <2>12. r = [y EXCEPT !.simple_keys = k, !.column = 0, !.simple_key_allowed = TRUE]
    BY <2>2, <2>11 DEF Scanners
  <2>13. BelowIt(z) = [[y EXCEPT !.simple_key_allowed = TRUE] EXCEPT !.simple_keys = k, !.column = 0]
    <3>1. BelowIt(z) = [z EXCEPT !.simple_keys = k, !.column = 0]
      BY <2>2, <2>10 DEF Scanners
    <3>. QED
      BY <2>4, <3>1
  <2>14. [y EXCEPT !.simple_keys = k, !.column = 0, !.simple_key_allowed = TRUE]
           = [[y EXCEPT !.simple_key_allowed = TRUE] EXCEPT !.simple_keys = k, !.column = 0]
    BY <2>2 DEF Scanners
  <2>. HIDE DEF r
  <2>. QED
    BY <2>12, <2>13, <2>14
<1>. QED
  BY <1>6, <1>7 DEF Node

-----------------------------------------------------------------------------
(* Every step keeps the invariant                                            *)

\* What a step must do.
Kept == Inv(scanner') /\ Resolved(scanner, scanner')

\* What is behind a lexeme is as good as what it has made.
LEMMA AfterKept ==
  ASSUME NEW s, NEW w, Inv(w), Resolved(s, w), NEW r \in After(w)
  PROVE  Inv(r) /\ Resolved(s, r)
<1>1. Inv(r) /\ Dimmed(w, r) /\ r.tokens = w.tokens /\ r.error = w.error
  BY AfterInv DEF Inv
<1>2. 1 \in DOMAIN w.simple_keys
  <2>1. Len(w.simple_keys) \in Nat \ {0} /\ DOMAIN w.simple_keys = 1..Len(w.simple_keys)
    BY LastKey DEF Inv, Keys
  <2>. QED
    BY <2>1
<1>. QED
  BY <1>1, <1>2 DEF Resolved, Dimmed

\* The directives and the document indicators.
LEMMA OutermostStep ==
  ASSUME Inv(scanner), InText, NEW s \in Positions, NEW typ \in Plain,
         NEW r \in After(Outermost(s, typ))
  PROVE  Inv(r) /\ Resolved(scanner, r)
<1>. DEFINE w == Outermost(s, typ)
<1>1. Ready(s) /\ KeyKept(scanner, s)
  BY Positioned DEF Inv
<1>2. w \in Scanners /\ Inv(w) /\ (w.error \/ KeyKept(s, w))
  BY <1>1, OutermostInv DEF Ready
<1>. HIDE DEF w
<1>3. Resolved(scanner, w)
  BY <1>1, <1>2, Chained
<1>. QED
  BY <1>2, <1>3, AfterKept DEF w

\* What begins and ends the stream and the documents.
LEMMA DocumentSteps ==
  ASSUME Inv(scanner),
         FetchStreamStart \/ FetchStreamEnd \/ FetchDirective \/ FetchDocumentIndicator \/ FetchFails
  PROVE  Kept
<1>1. scanner \in Scanners
  BY DEF Inv
<1>2. CASE FetchStreamStart
  <2>1. Inv(scanner') /\ KeyKept(scanner, scanner')
    BY <1>1, <1>2, StreamStartInv DEF FetchStreamStart, Fetching
  <2>. QED
    BY <2>1 DEF Kept, KeyKept, Resolved
<1>3. CASE FetchStreamEnd
  <2>1. Inv(scanner') /\ (scanner'.error \/ KeyKept(scanner, scanner'))
    BY <1>1, <1>3, StreamEndInv DEF FetchStreamEnd, Fetching
  <2>. QED
    BY <2>1 DEF Kept, KeyKept, Resolved
<1>4. CASE FetchDirective
  <2>1. PICK s \in Positions : scanner' = BelowIt(Outermost(s, "DIRECTIVE"))
    BY <1>4 DEF FetchDirective
  <2>2. "DIRECTIVE" \in Plain /\ scanner' \in After(Outermost(s, "DIRECTIVE"))
    BY <2>1 DEF Plain, TokenTypes, After
  <2>. QED
    BY <1>4, <2>2, OutermostStep DEF FetchDirective, Kept
<1>5. CASE FetchDocumentIndicator
  <2>1. PICK s \in Positions : scanner' = Behind(Outermost(s, "DOCUMENT"))
    BY <1>5 DEF FetchDocumentIndicator
  <2>2. "DOCUMENT" \in Plain /\ scanner' \in After(Outermost(s, "DOCUMENT"))
    BY <2>1 DEF Plain, TokenTypes, After
  <2>. QED
    BY <1>5, <2>2, OutermostStep DEF FetchDocumentIndicator, Kept
<1>6. CASE FetchFails
  <2>1. Inv(scanner') /\ scanner'.error
    BY <1>1, <1>6, ErrorInv DEF FetchFails
  <2>. QED
    BY <2>1 DEF Kept, Resolved
<1>. QED
  BY <1>2, <1>3, <1>4, <1>5, <1>6

\* A bracket, a comma or a block scalar: the innermost key is struck off.
LEMMA StruckStep ==
  ASSUME NEW s, Ready(s), ~MustBeKey(s), NEW typ \in Plain, NEW a \in BOOLEAN,
         NEW w \in {Removed(s), FlowLeft(Removed(s))}
  PROVE  LET r == Appended([w EXCEPT !.simple_key_allowed = a], typ) IN
         Inv(r) /\ KeyKept(s, r)
<1>. DEFINE m == Removed(s)
            r == Appended([w EXCEPT !.simple_key_allowed = a], typ)
<1>1. s \in Scanners /\ Inv(s)
  BY DEF Ready
<1>2. m \in Scanners /\ Inv(m) /\ KeyKept(s, m) /\ ~m.at_end /\ ~m.stream_end_produced
      /\ ~m.token_available /\ m.mark > 0
  <2>1. /\ m \in Scanners /\ Inv(m) /\ KeyKept(s, m)
        /\ m = [s EXCEPT !.simple_keys = m.simple_keys,
                         !.simple_keys_by_tok = m.simple_keys_by_tok]
    BY <1>1, RemovedInv
  <2>. HIDE DEF m
  <2>2. /\ m.at_end = s.at_end /\ m.stream_end_produced = s.stream_end_produced
        /\ m.token_available = s.token_available /\ m.mark = s.mark
    BY <1>1, <2>1 DEF Scanners
  <2>. QED
    BY <2>1, <2>2 DEF Ready
<1>3. w \in Scanners /\ Inv(w) /\ KeyKept(s, w) /\ ~w.token_available /\ w.mark > 0
  <2>1. CASE w = m
    BY <1>2, <2>1
  <2>2. CASE w = FlowLeft(m)
    <3>. HIDE DEF m
    <3>1. w \in Scanners /\ Inv(w) /\ KeyKept(m, w) /\ ~w.token_available /\ w.mark > 0
      BY <1>2, <2>2, FlowLeftInv
    <3>. QED
      BY <1>2, <3>1, Chained
  <2>. QED
    BY <2>1, <2>2
<1>4. Inv(r) /\ r.simple_keys = w.simple_keys
  BY <1>3, AppendedInv
<1>. QED
  BY <1>3, <1>4 DEF KeyKept

\* What begins, separates and ends flow collections.
LEMMA FlowSteps ==
  ASSUME Inv(scanner),
         FetchFlowCollectionStart \/ FetchFlowCollectionEnd \/ FetchFlowEntry
  PROVE  Kept
<1>1. scanner \in Scanners /\ TRUE \in BOOLEAN /\ FALSE \in BOOLEAN
  BY DEF Inv
<1>2. ASSUME InText, NEW s \in Positions, scanner' = Error(s) PROVE Kept
  <2>1. Ready(s)
    BY <1>1, <1>2, Positioned
  <2>2. Inv(scanner') /\ scanner'.error
    BY <1>2, <2>1, ErrorInv DEF Ready
  <2>. QED
    BY <2>2 DEF Kept, Resolved
<1>3. ASSUME InText, NEW s \in Positions, NEW w, Inv(w), KeyKept(s, w), scanner' \in After(w)
      PROVE  Kept
  <2>1. KeyKept(scanner, s)
    BY <1>1, <1>3, Positioned
  <2>2. Resolved(scanner, w)
    BY <1>3, <2>1, Chained
  <2>. QED
    BY <1>3, <2>2, AfterKept DEF Kept
<1>4. CASE FetchFlowCollectionStart
  <2>1. PICK s \in Positions :
          /\ s.flow_level < MaxFlowLevel
          /\ scanner' = IF SaveFails(s) THEN Error(s)
                        ELSE Behind(Appended([FlowEntered(Saved(s)) EXCEPT !.simple_key_allowed = TRUE],
                                             "FLOW_START"))
    BY <1>4 DEF FetchFlowCollectionStart
  <2>. DEFINE w == Appended([FlowEntered(Saved(s)) EXCEPT !.simple_key_allowed = TRUE], "FLOW_START")
  <2>2. InText /\ Ready(s)
    BY <1>1, <1>4, Positioned DEF FetchFlowCollectionStart
  <2>3. CASE SaveFails(s)
    BY <1>2, <2>1, <2>2, <2>3
  <2>4. CASE ~SaveFails(s)
    <3>1. Inv(w) /\ KeyKept(s, w)
      BY <2>1, <2>2, <2>4, FlowStartInv
    <3>2. scanner' \in After(w)
      BY <2>1, <2>4 DEF After
    <3>. HIDE DEF w
    <3>. QED
      BY <1>3, <2>2, <3>1, <3>2
  <2>. QED
    BY <2>3, <2>4
<1>5. CASE FetchFlowCollectionEnd
  <2>1. PICK s \in Positions :
          scanner' = IF MustBeKey(s) THEN Error(s)
                     ELSE Behind(Appended([FlowLeft(Removed(s)) EXCEPT !.simple_key_allowed = FALSE],
                                          "FLOW_END"))
    BY <1>5 DEF FetchFlowCollectionEnd
  <2>. DEFINE w == Appended([FlowLeft(Removed(s)) EXCEPT !.simple_key_allowed = FALSE], "FLOW_END")
  <2>2. InText /\ Ready(s) /\ "FLOW_END" \in Plain
    BY <1>1, <1>5, Positioned DEF FetchFlowCollectionEnd, Plain, TokenTypes
  <2>3. CASE MustBeKey(s)
    BY <1>2, <2>1, <2>2, <2>3
  <2>4. CASE ~MustBeKey(s)
    <3>1. Inv(w) /\ KeyKept(s, w)
      BY <1>1, <2>2, <2>4, StruckStep
    <3>2. scanner' \in After(w)
      BY <2>1, <2>4 DEF After
    <3>. HIDE DEF w
    <3>. QED
      BY <1>3, <2>2, <3>1, <3>2
  <2>. QED
    BY <2>3, <2>4
<1>6. CASE FetchFlowEntry
  <2>1. PICK s \in Positions :
          scanner' = IF MustBeKey(s) THEN Error(s)
                     ELSE Behind(Appended([Removed(s) EXCEPT !.simple_key_allowed = TRUE], "FLOW_ENTRY"))
    BY <1>6 DEF FetchFlowEntry
  <2>. DEFINE w == Appended([Removed(s) EXCEPT !.simple_key_allowed = TRUE], "FLOW_ENTRY")
  <2>2. InText /\ Ready(s) /\ "FLOW_ENTRY" \in Plain
    BY <1>1, <1>6, Positioned DEF FetchFlowEntry, Plain, TokenTypes
  <2>3. CASE MustBeKey(s)
    BY <1>2, <2>1, <2>2, <2>3
  <2>4. CASE ~MustBeKey(s)
    <3>1. Inv(w) /\ KeyKept(s, w)
      BY <1>1, <2>2, <2>4, StruckStep
    <3>2. scanner' \in After(w)
      BY <2>1, <2>4 DEF After
    <3>. HIDE DEF w
    <3>. QED
      BY <1>3, <2>2, <3>1, <3>2
  <2>. QED
    BY <2>3, <2>4
<1>. QED
  BY <1>4, <1>5, <1>6

\* The indicators of block collections.
LEMMA BlockSteps ==
  ASSUME Inv(scanner), FetchBlockEntry \/ FetchKey \/ FetchValue
  PROVE  Kept
<1>1. scanner \in Scanners /\ TRUE \in BOOLEAN
  BY DEF Inv
<1>2. ASSUME InText, NEW s \in Positions, Inv(scanner'), Resolved(s, scanner') PROVE Kept
  <2>1. KeyKept(scanner, s)
    BY <1>1, <1>2, Positioned
  <2>. QED
    BY <1>2, <2>1, Chained DEF Kept
<1>3. CASE FetchBlockEntry
  <2>1. PICK s \in Positions :
          scanner' = Indicator(s, "BLOCK_ENTRY", "BLOCK_SEQUENCE_START", TRUE)
    BY <1>3 DEF FetchBlockEntry
  <2>2. InText /\ Ready(s) /\ "BLOCK_ENTRY" \in Plain
        /\ "BLOCK_SEQUENCE_START" \in {"BLOCK_SEQUENCE_START", "BLOCK_MAPPING_START"}
    BY <1>1, <1>3, Positioned DEF FetchBlockEntry, Plain, TokenTypes
  <2>3. Inv(scanner') /\ Resolved(s, scanner')
    BY <1>1, <2>1, <2>2, IndicatorInv
  <2>. QED
    BY <1>2, <2>2, <2>3
<1>4. CASE FetchKey
  <2>1. PICK s \in Positions :
          scanner' = Indicator(s, "KEY", "BLOCK_MAPPING_START", ~InFlow(s))
    BY <1>4 DEF FetchKey
  <2>2. InText /\ Ready(s) /\ "KEY" \in Plain
        /\ "BLOCK_MAPPING_START" \in {"BLOCK_SEQUENCE_START", "BLOCK_MAPPING_START"}
    BY <1>1, <1>4, Positioned DEF FetchKey, Plain, TokenTypes
  <2>. DEFINE a == ~InFlow(s)
  <2>3. a \in BOOLEAN /\ scanner' = Indicator(s, "KEY", "BLOCK_MAPPING_START", a)
    BY <2>1
  <2>. HIDE DEF a
  <2>4. Inv(scanner') /\ Resolved(s, scanner')
    BY <2>2, <2>3, IndicatorInv
  <2>. QED
    BY <1>2, <2>2, <2>4
<1>5. CASE FetchValue
  <2>1. PICK s \in Positions :
          LET key == Last(s.simple_keys) IN
          scanner' =
            IF Missed(key) \/ (~Valid(key) /\ ~InFlow(s) /\ ~s.simple_key_allowed) THEN Error(s)
            ELSE Behind(Appended(IF Valid(key) THEN ValueOfSimpleKey(s) ELSE ValueOfComplexKey(s),
                                 "VALUE"))
    BY <1>5 DEF FetchValue
  <2>. DEFINE key == Last(s.simple_keys)
  <2>2. InText /\ Ready(s)
    BY <1>1, <1>5, Positioned DEF FetchValue
  <2>3. ASSUME NEW w, Inv(w), Resolved(s, w), scanner' = Behind(w) PROVE Kept
    <3>1. scanner' \in After(w)
      BY <2>3 DEF After
    <3>2. Inv(scanner') /\ Resolved(s, scanner')
      BY <2>3, <3>1, AfterKept
    <3>. QED
      BY <1>2, <2>2, <3>2
  <2>4. CASE Missed(key) \/ (~Valid(key) /\ ~InFlow(s) /\ ~s.simple_key_allowed)
    <3>1. scanner' = Error(s)
      BY <2>1, <2>4
    <3>2. Inv(scanner') /\ scanner'.error
      BY <2>2, <3>1, ErrorInv DEF Ready
    <3>. QED
      BY <3>2 DEF Kept, Resolved
  <2>5. CASE ~(Missed(key) \/ (~Valid(key) /\ ~InFlow(s) /\ ~s.simple_key_allowed)) /\ Valid(key)
    <3>1. scanner' = Behind(Appended(ValueOfSimpleKey(s), "VALUE"))
      BY <2>1, <2>5
    <3>2. LET w == Appended(ValueOfSimpleKey(s), "VALUE") IN Inv(w) /\ Resolved(s, w)
      BY <2>2, <2>5, SimpleValueInv
    <3>. QED
      BY <2>3, <3>1, <3>2
  <2>6. CASE ~(Missed(key) \/ (~Valid(key) /\ ~InFlow(s) /\ ~s.simple_key_allowed)) /\ ~Valid(key)
    <3>1. scanner' = Behind(Appended(ValueOfComplexKey(s), "VALUE"))
      BY <2>1, <2>6
    <3>2. LET w == Appended(ValueOfComplexKey(s), "VALUE") IN Inv(w) /\ Resolved(s, w)
      BY <2>2, <2>6, ComplexValueInv
    <3>. QED
      BY <2>3, <3>1, <3>2
  <2>. QED
    BY <2>4, <2>5, <2>6
<1>. QED
  BY <1>3, <1>4, <1>5

\* Nodes that are no collections.
LEMMA NodeSteps ==
  ASSUME Inv(scanner), FetchNode \/ FetchPlainScalarAndBreak \/ FetchBlockScalar
  PROVE  Kept
<1>1. scanner \in Scanners /\ TRUE \in BOOLEAN
  BY DEF Inv
<1>2. ASSUME InText, NEW s \in Positions, scanner' = Error(s) PROVE Kept
  <2>1. Ready(s)
    BY <1>1, <1>2, Positioned
  <2>2. Inv(scanner') /\ scanner'.error
    BY <1>2, <2>1, ErrorInv DEF Ready
  <2>. QED
    BY <2>2 DEF Kept, Resolved
<1>3. ASSUME InText, NEW s \in Positions, Inv(scanner'), KeyKept(s, scanner') PROVE Kept
  <2>1. KeyKept(scanner, s)
    BY <1>1, <1>3, Positioned
  <2>. QED
    BY <1>3, <2>1, Chained DEF Kept
<1>4. CASE FetchNode
  <2>1. PICK s \in Positions :
          IF SaveFails(s) THEN scanner' = Error(s)
          ELSE \E r \in BehindScalar(Node(s)) : scanner' = r
    BY <1>4 DEF FetchNode
  <2>2. InText /\ Ready(s)
    BY <1>1, <1>4, Positioned DEF FetchNode
  <2>3. CASE SaveFails(s)
    BY <1>2, <2>1, <2>2, <2>3
  <2>4. CASE ~SaveFails(s)
    <3>1. scanner' \in BehindScalar(Node(s))
      BY <2>1, <2>4
    <3>2. Inv(scanner') /\ KeyKept(s, scanner')
      BY <2>2, <2>4, <3>1, NodeStep
    <3>. QED
      BY <1>3, <2>2, <3>2
  <2>. QED
    BY <2>3, <2>4
<1>5. CASE FetchPlainScalarAndBreak
  <2>1. PICK s \in Positions :
          ~SaveFails(s) /\ scanner' = [BelowIt(Node(s)) EXCEPT !.simple_key_allowed = TRUE]
    BY <1>5 DEF FetchPlainScalarAndBreak
  <2>2. InText /\ Ready(s)
    BY <1>1, <1>5, Positioned DEF FetchPlainScalarAndBreak
  <2>3. Inv(scanner') /\ KeyKept(s, scanner')
    BY <2>1, <2>2, PlainStep
  <2>. QED
    BY <1>3, <2>2, <2>3
<1>6. CASE FetchBlockScalar
  <2>1. PICK s \in Positions :
          scanner' = IF MustBeKey(s) THEN Error(s)
                     ELSE BelowIt(Appended([Removed(s) EXCEPT !.simple_key_allowed = TRUE], "NODE"))
    BY <1>6 DEF FetchBlockScalar
  <2>. DEFINE w == Appended([Removed(s) EXCEPT !.simple_key_allowed = TRUE], "NODE")
  <2>2. InText /\ Ready(s) /\ "NODE" \in Plain
    BY <1>1, <1>6, Positioned DEF FetchBlockScalar, Plain, TokenTypes
  <2>3. CASE MustBeKey(s)
    BY <1>2, <2>1, <2>2, <2>3
  <2>4. CASE ~MustBeKey(s)
    <3>1. Inv(w) /\ KeyKept(s, w)
      BY <1>1, <2>2, <2>4, StruckStep
    <3>2. scanner' \in After(w)
      BY <2>1, <2>4 DEF After
    <3>. HIDE DEF w
    <3>3. Inv(scanner') /\ KeyKept(w, scanner')
      BY <3>1, <3>2, AfterInv DEF Inv
    <3>4. KeyKept(s, scanner')
      BY <3>1, <3>3, Chained
    <3>. QED
      BY <1>3, <2>2, <3>3, <3>4
  <2>. QED
    BY <2>3, <2>4
<1>. QED
  BY <1>4, <1>5, <1>6

\* The head is made available, and is taken.
LEMMA QueueSteps ==
  ASSUME Inv(scanner), FetchMoreTokens \/ SkipToken
  PROVE  Kept
<1>. DEFINE s == scanner
            k == s.simple_keys
            h == s.simple_keys_by_tok[s.tokens_parsed]
            g == [k EXCEPT ![h].possible = FALSE]
<1>1. /\ scanner \in Scanners /\ TRUE \in BOOLEAN /\ k \in Seq(SimpleKeys)
      /\ DOMAIN k = 1..Len(k) /\ Len(k) \in Nat
      /\ \A i \in 1..Len(k) : k[i] \in SimpleKeys
  BY ScannerTypes DEF Inv
<1>2. CASE FetchMoreTokens
  <2>1. ~s.token_available /\ ~NeedsMore(s)
    BY <1>2 DEF FetchMoreTokens
  <2>2. CASE s.tokens_parsed \notin DOMAIN s.simple_keys_by_tok
    <3>1. scanner' = [s EXCEPT !.token_available = TRUE]
      BY <1>2, <2>2 DEF FetchMoreTokens
    <3>2. scanner' \in Scanners
      BY <1>1, <3>1 DEF Scanners
    <3>3. /\ scanner'.simple_keys = s.simple_keys
          /\ scanner'.tokens = s.tokens /\ scanner'.indents = s.indents
          /\ scanner'.indent = s.indent /\ scanner'.open = s.open
          /\ scanner'.stream_end_produced = s.stream_end_produced
          /\ scanner'.at_end = s.at_end /\ scanner'.mark = s.mark
          /\ scanner'.column = s.column /\ scanner'.flow_level = s.flow_level
          /\ scanner'.tokens_parsed = s.tokens_parsed
          /\ scanner'.simple_keys_by_tok = s.simple_keys_by_tok
          /\ scanner'.simple_key_allowed = s.simple_key_allowed /\ scanner'.token_available
      BY <1>1, <3>1 DEF Scanners
    <3>4. Inv(scanner') /\ Resolved(scanner, scanner')
      BY <1>1, <2>1, <2>2, <3>2, <3>3, AvailableInv
    <3>. QED
      BY <3>4 DEF Kept
  <2>3. CASE s.tokens_parsed \in DOMAIN s.simple_keys_by_tok /\ Missed(HeadKey(s))
    <3>1. scanner' = Error(s)
      BY <1>2, <2>3 DEF FetchMoreTokens
    <3>. QED
      BY <1>1, <3>1, ErrorInv DEF Resolved, Kept
  <2>4. CASE s.tokens_parsed \in DOMAIN s.simple_keys_by_tok /\ ~Missed(HeadKey(s))
    <3>1. scanner' = [s EXCEPT !.simple_keys[h].possible = Valid(HeadKey(s)), !.token_available = TRUE]
      BY <1>2, <2>4 DEF FetchMoreTokens
    <3>2. Valid(HeadKey(s)) = FALSE
      BY <2>1, <2>4 DEF NeedsMore, Valid
    <3>3. scanner' = [s EXCEPT !.simple_keys[h].possible = FALSE, !.token_available = TRUE]
      BY <3>1, <3>2
    <3>4. scanner' = [s EXCEPT !.simple_keys = g, !.token_available = TRUE]
      BY <1>1, <3>3 DEF Scanners
    <3>5. g \in Seq(SimpleKeys)
      <4>1. Waiting(s, s.tokens_parsed) /\ s.tokens_parsed \in Nat
        BY <1>1, <2>4, ScannerTypes DEF Waiting
      <4>2. h \in 1..Len(k)
        BY <1>1, <4>1 DEF Inv, IndexLeads
      <4>3. [k[h] EXCEPT !.possible = FALSE] \in SimpleKeys
        <5>1. k[h] \in SimpleKeys
          BY <1>1, <4>2
        <5>. HIDE DEF k, h
        <5>. QED
          BY <5>1 DEF SimpleKeys
      <4>. DEFINE y == [k[h] EXCEPT !.possible = FALSE]
      <4>4. g = [k EXCEPT ![h] = y] /\ y \in SimpleKeys
        BY <4>3
      <4>. HIDE DEF g, y, k, h
      <4>. QED
        BY <1>1, <4>2, <4>4, ExceptSeq
    <3>. HIDE DEF g
    <3>6. scanner' \in Scanners
      BY <1>1, <3>4, <3>5 DEF Scanners
    <3>7. /\ scanner'.simple_keys = g
          /\ scanner'.tokens = s.tokens /\ scanner'.indents = s.indents
          /\ scanner'.indent = s.indent /\ scanner'.open = s.open
          /\ scanner'.stream_end_produced = s.stream_end_produced
          /\ scanner'.at_end = s.at_end /\ scanner'.mark = s.mark
          /\ scanner'.column = s.column /\ scanner'.flow_level = s.flow_level
          /\ scanner'.tokens_parsed = s.tokens_parsed
          /\ scanner'.simple_keys_by_tok = s.simple_keys_by_tok
          /\ scanner'.simple_key_allowed = s.simple_key_allowed /\ scanner'.token_available
      BY <1>1, <3>4, <3>5 DEF Scanners
    <3>8. Inv(scanner') /\ Resolved(scanner, scanner')
      BY <1>1, <2>1, <2>4, <3>6, <3>7, AvailableInv DEF g
    <3>. QED
      BY <3>8 DEF Kept
  <2>. QED
    BY <2>2, <2>3, <2>4
<1>3. CASE SkipToken
  BY <1>1, <1>3, SkippedInv DEF SkipToken, Kept, KeyKept, Resolved
<1>. QED
  BY <1>2, <1>3

\* The invariant holds at the start.
LEMMA InitInv == Init => Inv(scanner)
<1>. SUFFICES ASSUME Init PROVE Inv(scanner)
  OBVIOUS
<1>. DEFINE key == Key(FALSE, FALSE, 0, 0, 0)
            e == <<>>
<1>1. key \in SimpleKeys /\ key.possible = FALSE /\ key.far = FALSE
      /\ key.token_number = 0 /\ key.column = 0
  BY DEF Key, SimpleKeys
<1>. DEFINE k == <<key>>
<1>2. k \in Seq(SimpleKeys) /\ Len(k) = 1 /\ k[1] = key /\ DOMAIN k = 1..1
  <2>. HIDE DEF key
  <2>. QED
    BY <1>1
<1>3. /\ e \in Seq(Tokens) /\ e \in Seq(Int) /\ Len(e) = 0 /\ DOMAIN e = {}
      /\ e \in Indexes
  <2>1. e \in Seq(Tokens) /\ e \in Seq(Int) /\ e \in Seq(Nat) /\ Len(e) = 0
    OBVIOUS
  <2>2. e \in [1..Len(e) -> Nat] /\ DOMAIN e = 1..Len(e)
    BY <2>1, LenProperties
  <2>3. 1..Len(e) \in SUBSET Nat /\ 1..Len(e) = {}
    BY <2>1
  <2>. HIDE DEF e
  <2>. QED
    BY <2>1, <2>2, <2>3 DEF Indexes
<1>4. scanner = [tokens |-> e, tokens_parsed |-> 0, token_available |-> FALSE,
                 simple_keys |-> k, simple_keys_by_tok |-> e,
                 simple_key_allowed |-> FALSE, flow_level |-> 0, indent |-> -1, indents |-> e,
                 column |-> 0, mark |-> 0, at_end |-> FALSE,
                 stream_end_produced |-> FALSE, error |-> FALSE, open |-> 0]
  BY DEF Init
<1>5. MaxColumn \in Nat /\ MaxFlowLevel \in Nat /\ MaxFetches \in Nat
  BY ScannerConstants
<1>. HIDE DEF e, k, key
<1>6. scanner \in Scanners
  BY <1>2, <1>3, <1>4 DEF Scanners
<1>7. KeysInOrder(scanner)
  BY <1>1, <1>2, <1>3, <1>4 DEF KeysInOrder, NumberOf
<1>8. IndexLeads(scanner) /\ KeyInQueue(scanner) /\ StaleKeysPass(scanner)
  <2>1. scanner.simple_keys = k /\ scanner.simple_keys_by_tok = e
    BY <1>4
  <2>. QED
    BY <1>1, <1>2, <1>3, <2>1 DEF IndexLeads, KeyInQueue, StaleKeysPass, Stale, Waiting, Valid
<1>9. Within(scanner)
  BY <1>1, <1>2, <1>3, <1>4, <1>5 DEF Within, Beyond
<1>10. Depth(0, e, 0) = 0
  BY DepthStep
<1>11. Nesting(scanner)
  <2>. DEFINE a == Append(e, -1)
              neg == -1
  <2>1. neg \in Int /\ neg <= MaxColumn
    BY <1>5
  <2>2. DOMAIN a = 1..1 /\ a[1] = neg
    <3>1. e \in Seq(Int)
      BY <1>3
    <3>2. /\ DOMAIN Append(e, neg) = 1..Len(e) + 1 /\ Append(e, neg)[Len(e) + 1] = neg
      <4>. HIDE DEF neg
      <4>. QED
        BY <2>1, <3>1, AppendFacts
    <3>. QED
      BY <1>3, <3>2
  <2>3. All(scanner) = a /\ scanner.open = 0 /\ scanner.tokens = e /\ scanner.indents = e
        /\ scanner.indent = neg
    BY <1>4 DEF All
  <2>4. Ascending(a)
    BY <2>2 DEF Ascending
  <2>5. a[1] = -1
    BY <2>2
  <2>. HIDE DEF a, neg
  <2>6. \A n \in 0..Len(e) : n = 0
    BY <1>3
  <2>. QED
    BY <1>3, <1>10, <2>1, <2>3, <2>4, <2>5, <2>6 DEF Nesting
<1>12. AtEnd(scanner)
  <2>1. Count(0, e, "STREAM_END") = 0
    BY CountType
  <2>. QED
    BY <1>3, <1>4, <2>1 DEF AtEnd
<1>. QED
  BY <1>6, <1>7, <1>8, <1>9, <1>11, <1>12 DEF Inv

\* Every step keeps the invariant, and resolves what must become a key.
LEMMA StepInv ==
  ASSUME Inv(scanner), [Next]_vars
  PROVE  Kept
<1>1. CASE Next
  BY <1>1, DocumentSteps, FlowSteps, BlockSteps, NodeSteps, QueueSteps DEF Next
<1>2. CASE UNCHANGED vars
  BY <1>2 DEF Kept, Resolved, vars
<1>. QED
  BY <1>1, <1>2

\* The invariant always holds.
LEMMA Invariant == Spec => []Inv(scanner)
<1>1. Inv(scanner) /\ [Next]_vars => Inv(scanner)'
  BY StepInv DEF Kept
<1>. QED
  BY <1>1, InitInv, PTL DEF Spec

-----------------------------------------------------------------------------
(* What it implies                                                           *)

\* The fields are well-typed, and simple_keys[len(simple_keys)-1] exists.
THEOREM TypeCorrect == Spec => []TypeOK
<1>1. Inv(scanner) => TypeOK
  <2>. SUFFICES ASSUME Inv(scanner) PROVE TypeOK
    OBVIOUS
  <2>1. scanner \in Scanners /\ Keys(scanner) /\ Within(scanner) /\ Nesting(scanner)
    BY DEF Inv, Keys
  <2>2. \A i \in DOMAIN scanner.tokens :
          scanner.tokens[i].typ \in TokenTypes /\ scanner.tokens[i].mark \in 1..scanner.mark
    <3>1. \A i \in DOMAIN scanner.tokens : scanner.tokens[i] \in Tokens
      BY <2>1, ScannerTypes
    <3>. QED
      BY <2>1, <3>1 DEF Within, Tokens
  <2>3. /\ scanner.flow_level \in 0..MaxFlowLevel
        /\ scanner.column \in 0..Beyond
        /\ scanner.mark \in 0..MaxFetches + 1
        /\ {scanner.simple_key_allowed, scanner.token_available, scanner.at_end,
            scanner.stream_end_produced, scanner.error} \subseteq BOOLEAN
    BY <2>1, ScannerTypes, ScannerConstants DEF Within, Beyond
  <2>4. Len(scanner.simple_keys) = scanner.flow_level + 1
    BY <2>1 DEF Keys, KeysInOrder
  <2>5. ASSUME NEW i \in DOMAIN scanner.simple_keys
        PROVE  /\ scanner.simple_keys[i].column \in 0..Beyond
               /\ scanner.simple_keys[i].token_number \in 0..NumberOf(scanner)
    <3>1. /\ scanner.simple_keys[i].token_number \in Nat /\ scanner.simple_keys[i].column \in Nat
          /\ scanner.simple_keys[i].token_number <= NumberOf(scanner)
      BY <2>1, KeyFacts
    <3>2. scanner.simple_keys[i].column <= Beyond
      BY <2>1 DEF Within
    <3>. QED
      BY <2>1, <3>1, <3>2, ScannerTypes, ScannerConstants DEF Beyond
  <2>6. DOMAIN scanner.simple_keys_by_tok \subseteq 0..NumberOf(scanner)
    <3>1. /\ NumberOf(scanner) \in Nat /\ DOMAIN scanner.simple_keys_by_tok \subseteq Nat
          /\ \A n \in DOMAIN scanner.simple_keys_by_tok : n < NumberOf(scanner)
      BY <2>1, ScannerTypes DEF Keys, KeysInOrder
    <3>. QED
      BY <3>1
  <2>7. scanner.indent \in -1..MaxColumn
    <3>. DEFINE a == All(scanner)
                n == Len(scanner.indents)
    <3>1. scanner.indents \in Seq(Int) /\ scanner.indent \in Int
      BY <2>1, ScannerTypes
    <3>2. n \in Nat /\ DOMAIN a = 1..n + 1 /\ a[n + 1] = scanner.indent
      BY <3>1, AppendFacts DEF All
    <3>3. (\A i, j \in DOMAIN a : i < j => a[i] < a[j]) /\ a[1] = -1 /\ scanner.indent <= MaxColumn
      BY <2>1 DEF Nesting, Ascending
    <3>. HIDE DEF a, n
    <3>4. 1 \in DOMAIN a /\ n + 1 \in DOMAIN a /\ (n = 0 \/ 1 < n + 1)
      BY <3>2
    <3>5. scanner.indent >= -1
      BY <3>1, <3>2, <3>3, <3>4
    <3>. QED
      BY <3>1, <3>3, <3>5, ScannerConstants
  <2>. QED
    BY <2>2, <2>3, <2>4, <2>5, <2>6, <2>7 DEF TypeOK
<1>. QED
  BY <1>1, Invariant, PTL

\* The unchecked index of yaml_parser_fetch_more_tokens stays in range.
THEOREM HeadIndexStaysInRange == Spec => []HeadIndexInRange
<1>1. Inv(scanner) => HeadIndexInRange
  <2>. SUFFICES ASSUME Inv(scanner), scanner.tokens_parsed \in DOMAIN scanner.simple_keys_by_tok
                PROVE  scanner.simple_keys_by_tok[scanner.tokens_parsed] \in DOMAIN scanner.simple_keys
    BY DEF HeadIndexInRange
  <2>1. scanner.tokens_parsed \in Nat
    BY ScannerTypes DEF Inv
  <2>2. Waiting(scanner, scanner.tokens_parsed)
    BY <2>1 DEF Waiting
  <2>. QED
    BY <2>1, <2>2 DEF Inv, IndexLeads
<1>. QED
  BY <1>1, Invariant, PTL

\* A key that can still become one is indexed, and its token is in the queue where
\* KEY and BLOCK-MAPPING-START will be put.
THEOREM IndexedKeysWait == Spec => []IndexedKeyWaits
<1>1. Inv(scanner) => IndexedKeyWaits
  <2>. SUFFICES ASSUME Inv(scanner), NEW i \in DOMAIN scanner.simple_keys,
                       Valid(scanner.simple_keys[i]),
                       scanner.simple_keys[i].token_number \in DOMAIN scanner.simple_keys_by_tok
                PROVE  LET key == scanner.simple_keys[i]
                           place == key.token_number - scanner.tokens_parsed + 1
                       IN /\ scanner.simple_keys_by_tok[key.token_number] = i
                          /\ place \in DOMAIN scanner.tokens
                          /\ scanner.tokens[place].mark = key.mark
    BY DEF IndexedKeyWaits
  <2>. DEFINE m == scanner.simple_keys[i].token_number
              tp == scanner.tokens_parsed
  <2>1. scanner \in Scanners /\ Keys(scanner)
    BY DEF Inv, Keys
  <2>2. /\ m \in Nat /\ scanner.simple_keys_by_tok[m] = i /\ m >= tp
        /\ scanner.tokens[m - tp + 1].mark = scanner.simple_keys[i].mark
    BY <2>1, KeyFacts DEF Valid
  <2>3. /\ m < tp + Len(scanner.tokens) /\ tp \in Nat
        /\ Len(scanner.tokens) \in Nat /\ DOMAIN scanner.tokens = 1..Len(scanner.tokens)
    BY <2>1, ScannerTypes DEF Keys, KeysInOrder, NumberOf
  <2>4. m - tp + 1 \in DOMAIN scanner.tokens
    <3>. HIDE DEF m, tp
    <3>. QED
      BY <2>2, <2>3
  <2>. QED
    BY <2>2, <2>4
<1>. QED
  BY <1>1, Invariant, PTL

\* Block collections begin and end in pairs.
THEOREM BlocksAreNested == Spec => []BlocksNest
<1>1. Inv(scanner) => BlocksNest
  <2>. SUFFICES ASSUME Inv(scanner) PROVE BlocksNest
    OBVIOUS
  <2>1. scanner \in Scanners /\ Nesting(scanner) /\ AtEnd(scanner) /\ scanner.open \in Int
    BY ScannerTypes DEF Inv
  <2>2. scanner.stream_end_produced /\ ~InFlow(scanner) => Depth(scanner.open, scanner.tokens, 0) = 0
    BY <2>1, DepthStep DEF AtEnd
  <2>. QED
    BY <2>1, <2>2 DEF Nesting, All, BlocksNest, Depth
<1>. QED
  BY <1>1, Invariant, PTL

\* At the end of the text, no key keeps the loop of yaml_parser_fetch_more_tokens waiting.
THEOREM LookaheadIsBounded == Spec => []LookaheadEnds
<1>1. Inv(scanner) => LookaheadEnds
  BY DEF Inv, AtEnd, LookaheadEnds
<1>. QED
  BY <1>1, Invariant, PTL

\* What must become a key does, or the scanner fails.
THEOREM RequiredKeysResolved == Spec => RequiredKeyResolved
<1>1. Inv(scanner) /\ [Next]_vars =>
        [LET key == scanner.simple_keys[1] IN
         key.possible /\ key.required /\ ~scanner'.error =>
           \/ scanner'.simple_keys[1].possible /\ scanner'.simple_keys[1].mark = key.mark
           \/ \E i \in DOMAIN scanner'.tokens : scanner'.tokens[i] = Token("KEY", key.mark)]_vars
  BY StepInv DEF Kept, Resolved
<1>. QED
  BY <1>1, Invariant, PTL DEF Spec, RequiredKeyResolved
=============================================================================
