--------------------------- MODULE Reader_proofs ---------------------------
(***************************************************************************)
(* Proofs about Reader, for texts of any length, any number of calls and    *)
(* failed reads and any size of the buffers that ReaderConstants allows:    *)
(* the window is the text, what is decoded fits into the buffer, a call     *)
(* that succeeds makes its length available, and a text is refused for a    *)
(* flaw it has and for nothing else.                                        *)
(***************************************************************************)
EXTENDS Reader, WellFoundedInduction, TLAPS

-----------------------------------------------------------------------------
(* Sums                                                                      *)

\* A set of numbers with 0 and the successors of its members holds all numbers.
LEMMA Induction ==
  ASSUME NEW T, 0 \in T, \A n \in Nat : n \in T => n + 1 \in T
  PROVE  Nat \subseteq T
<1> DEFINE R == OpToRel(<, Nat)
           Missing == Nat \ T
<1>1. IsWellFoundedOn(R, Nat)
  BY NatLessThanWellFounded
<1>2. \A m, n \in Nat : m < n => <<m, n>> \in R
  BY DEF OpToRel
<1>3. Missing \subseteq Nat
  OBVIOUS
<1> SUFFICES ASSUME Missing # {} PROVE FALSE
  OBVIOUS
<1> HIDE DEF R
<1>4. PICK n \in Missing : \A m \in Missing : ~ (<<m, n>> \in R)
  BY <1>1, <1>3, WFMin
<1>5. n \in Nat /\ n # 0 /\ n - 1 \in Nat /\ n - 1 < n
  OBVIOUS
<1>6. n - 1 \in T
  BY <1>2, <1>4, <1>5
<1> QED
  BY <1>5, <1>6

\* The recursive function is what its definition says.
LEMMA SumsDef ==
  ASSUME NEW sizes \in Seq(Nat)
  PROVE  Sums(sizes) = [n \in 0..Len(sizes) |-> IF n = 0 THEN 0 ELSE Sums(sizes)[n - 1] + sizes[n]]
<1> DEFINE Is(g, k) == g = [n \in 0..k |-> IF n = 0 THEN 0 ELSE g[n - 1] + sizes[n]]
           T == {k \in Nat : k <= Len(sizes) => \E g : Is(g, k)}
<1>1. 0 \in T
  <2>1. Is([n \in 0..0 |-> 0], 0)
    OBVIOUS
  <2> QED
    BY <2>1
<1>2. ASSUME NEW k \in Nat, k \in T PROVE k + 1 \in T
  <2> SUFFICES ASSUME k + 1 <= Len(sizes) PROVE \E g : Is(g, k + 1)
    OBVIOUS
  <2>1. PICK g : Is(g, k)
    BY <1>2
  <2> DEFINE h == [n \in 0..k + 1 |-> IF n = 0 THEN 0 ELSE g[n - 1] + sizes[n]]
  <2>2. \A n \in 0..k : h[n] = g[n]
    BY <2>1
  <2>3. \A n \in 0..k + 1 : h[n] = IF n = 0 THEN 0 ELSE h[n - 1] + sizes[n]
    <3> TAKE n \in 0..k + 1
    <3>1. n # 0 => n - 1 \in 0..k
      OBVIOUS
    <3>2. n # 0 => h[n - 1] = g[n - 1]
      BY <2>2, <3>1
    <3>3. h[n] = IF n = 0 THEN 0 ELSE g[n - 1] + sizes[n]
      OBVIOUS
    <3> HIDE DEF h
    <3> QED
      BY <3>2, <3>3
  <2>4. h = [n \in 0..k + 1 |-> h[n]]
    OBVIOUS
  <2>5. Is(h, k + 1)
    <3> HIDE DEF h
    <3> QED
      BY <2>3, <2>4
  <2> QED
    BY <2>5
<1> HIDE DEF Is
<1>3. \E g : Is(g, Len(sizes))
  <2>1. Nat \subseteq T
    BY <1>1, <1>2, Induction
  <2> QED
    BY <2>1
<1>4. Is(CHOOSE g : Is(g, Len(sizes)), Len(sizes))
  BY <1>3
<1>5. Sums(sizes) = CHOOSE g : Is(g, Len(sizes))
  BY DEF Sums, Is
<1> QED
  BY <1>4, <1>5 DEF Is

\* A sum grows by the next size.
LEMMA SumsStep ==
  ASSUME NEW sizes \in Seq(Nat)
  PROVE  /\ Sums(sizes)[0] = 0
         /\ \A n \in 1..Len(sizes) : Sums(sizes)[n] = Sums(sizes)[n - 1] + sizes[n]
         /\ \A n \in 0..Len(sizes) : Sums(sizes)[n] \in Nat
<1> DEFINE sum == Sums(sizes)
           N == Len(sizes)
           T == {n \in Nat : n <= N => sum[n] \in Nat}
<1>1. sum = [n \in 0..N |-> IF n = 0 THEN 0 ELSE sum[n - 1] + sizes[n]]
  BY SumsDef
<1>2. N \in Nat /\ \A n \in 1..N : sizes[n] \in Nat
  OBVIOUS
<1> HIDE DEF sum, N
<1>3. sum[0] = 0
  <2>1. 0 \in 0..N
    BY <1>2
  <2> QED
    BY <1>1, <2>1
<1>4. \A n \in 1..N : sum[n] = sum[n - 1] + sizes[n]
  <2> TAKE n \in 1..N
  <2>1. n \in 0..N /\ n # 0
    BY <1>2
  <2> QED
    BY <1>1, <2>1
<1>5. Nat \subseteq T
  <2>1. 0 \in T
    BY <1>3
  <2>2. ASSUME NEW n \in Nat, n \in T PROVE n + 1 \in T
    <3>1. n + 1 <= N => sum[n + 1] = sum[n] + sizes[n + 1]
      BY <1>2, <1>4
    <3> QED
      BY <1>2, <2>2, <3>1
  <2> QED
    BY <2>1, <2>2, Induction
<1>6. \A n \in 0..N : sum[n] \in Nat
  BY <1>2, <1>5
<1> QED
  BY <1>3, <1>4, <1>6 DEF sum, N


\* The sum of sizes from 1 to 4 lies between their number and four times it.
LEMMA SumsSpread ==
  ASSUME NEW sizes \in Seq(1..4), NEW i \in 0..Len(sizes), NEW j \in i..Len(sizes)
  PROVE  j - i <= Sums(sizes)[j] - Sums(sizes)[i] /\ Sums(sizes)[j] - Sums(sizes)[i] <= 4 * (j - i)
<1> DEFINE sum == Sums(sizes)
           N == Len(sizes)
           T == {d \in Nat : i + d <= N => d <= sum[i + d] - sum[i] /\ sum[i + d] - sum[i] <= 4 * d}
<1>1. sizes \in Seq(Nat)
  OBVIOUS
<1>2. N \in Nat /\ i \in 0..N /\ j \in i..N /\ \A n \in 1..N : sizes[n] \in 1..4
  OBVIOUS
<1>3. /\ \A n \in 1..N : sum[n] = sum[n - 1] + sizes[n]
      /\ \A n \in 0..N : sum[n] \in Nat
  BY <1>1, SumsStep
<1> HIDE DEF sum, N
<1>4. 0 \in T
  BY <1>2, <1>3
<1>5. ASSUME NEW d \in Nat, d \in T PROVE d + 1 \in T
  <2> SUFFICES ASSUME i + d + 1 <= N
               PROVE  d + 1 <= sum[i + d + 1] - sum[i] /\ sum[i + d + 1] - sum[i] <= 4 * (d + 1)
    OBVIOUS
  <2>1. sum[i + d + 1] = sum[i + d] + sizes[i + d + 1]
    BY <1>2, <1>3
  <2>2. sum[i + d + 1] \in Nat /\ sum[i + d] \in Nat /\ sum[i] \in Nat
    BY <1>2, <1>3
  <2>3. sizes[i + d + 1] \in 1..4
    BY <1>2
  <2>4. d <= sum[i + d] - sum[i] /\ sum[i + d] - sum[i] <= 4 * d
    BY <1>5, <1>2
  <2> HIDE DEF T
  <2>5. \A a, b, c, w \in Nat : w \in 1..4 /\ c = a + w /\ d <= a - b /\ a - b <= 4 * d
          => d + 1 <= c - b /\ c - b <= 4 * (d + 1)
    OBVIOUS
  <2>6. sizes[i + d + 1] \in Nat
    BY <2>3
  <2>7. PICK a \in Nat : a = sum[i + d]
    BY <2>2
  <2>8. PICK b \in Nat : b = sum[i]
    BY <2>2
  <2>9. PICK c \in Nat : c = sum[i + d + 1]
    BY <2>2
  <2>10. PICK w \in Nat : w = sizes[i + d + 1]
    BY <2>6
  <2>11. c = a + w
    BY <2>1, <2>7, <2>9, <2>10
  <2>12. d <= a - b /\ a - b <= 4 * d
    BY <2>4, <2>7, <2>8
  <2>13. w \in 1..4
    BY <2>3, <2>10
  <2>14. d + 1 <= c - b /\ c - b <= 4 * (d + 1)
    BY <2>5, <2>11, <2>12, <2>13
  <2> QED
    BY <2>14, <2>8, <2>9
<1>6. Nat \subseteq T
  BY <1>4, <1>5, Induction
<1>7. j - i \in T
  BY <1>2, <1>6
<1> QED
  BY <1>2, <1>7 DEF sum, N

-----------------------------------------------------------------------------
(* The invariant                                                             *)

\* Number of characters.
N == Len(source.widths)

\* The stream is one of those the model describes.
SourceOK ==
  /\ source.widths \in Seq(Widths)
  /\ source.bom \in {"none", "utf8", "utf16"}
  /\ source.flaw \in {"none", "malformed", "cut"}
  /\ source.flaw # "none" => N > 0
  /\ source.flaw = "cut" => RawWidth(N, Encoding) > 1

\* NULs that are unread, and bytes that are.
Nuls == taken + unread - Arrived
UnreadBytes == BytesTo(Arrived) + Nuls

\* The first character that has not been decoded is the flawed one, and as much of it
\* has arrived as shows the flaw.  From here on every call that needs it fails, and
\* since the buffer is not cut then, its length is no longer that of what is unread.
Stuck ==
  /\ source.flaw # "none" /\ encoding # "any"
  /\ taken + unread = WellFormed
  /\ RawUnread > 0 /\ (eof \/ RawUnread >= RawWidth(N, Encoding))

\* The raw buffer is a stretch of the stream, behind which nothing was read, and what
\* is not decoded yet of it begins where the next character does.
Position ==
  /\ delivered \in 0..StreamSize /\ eof \in BOOLEAN
  /\ raw \in Seq(1..StreamSize) /\ Len(raw) <= RawSize /\ Len(raw) <= delivered
  /\ raw_buffer_pos \in 0..Len(raw)
  /\ \A i \in 1..Len(raw) : raw[i] = delivered - Len(raw) + i
  /\ eof => delivered = StreamSize
  /\ encoding = "any" => raw_buffer_pos = 0 /\ delivered = Len(raw)
  /\ encoding # "any" => encoding = Encoding /\ delivered - RawUnread + 1 = StartOf(Arrived + 1)
  /\ Nuls > 0 => eof /\ RawUnread = 0 /\ source.flaw = "none"

\* Types of what Position does not speak of.
Types ==
  /\ failures \in 0..MaxFailures
  /\ encoding \in {"any", "utf8", "utf16"}
  /\ opened \in 0..BufferSize /\ buffer_len \in 0..BufferSize
  /\ buffer_pos \in 0..opened
  /\ unread \in Nat /\ requested \in 0..MaxLength
  /\ error \in {"none", "input", "decode"}
  /\ pc \in {"idle", "encoding", "fill", "decode"} /\ first \in BOOLEAN
  /\ result \in {"none", "ok", "failed"}
  /\ taken \in 0..WellFormed

\* Nothing is decoded before the encoding is determined.
Fresh ==
  /\ encoding = "any" =>
       /\ taken = 0 /\ unread = 0 /\ opened = 0 /\ buffer_pos = 0
       /\ pc \in {"idle", "encoding"} /\ error # "decode"
  /\ encoding # "any" => pc # "encoding"

\* How many bytes the unread part of the buffer has; during a call the local variable.
Length == IF pc \in {"fill", "decode"} THEN buffer_len ELSE opened - buffer_pos

\* Those are the bytes of what is unread, and more only behind the end of the text
\* or in front of a flaw.
Fits ==
  /\ UnreadBytes <= Length
  /\ Nuls = 0 /\ ~Stuck => Length = UnreadBytes
  /\ Nuls > 0 => Length = UnreadBytes \/ Length <= MaxLength - 1 + Nuls

\* What is in the buffer and what the raw buffer may still add fit: two raw bytes
\* become three bytes at most.
Room ==
  /\ Fits
  /\ pc \in {"fill", "decode"} => buffer_pos = 0 /\ opened = BufferSize
  /\ pc # "idle" => requested >= 1
  /\ pc = "decode" /\ Nuls > 0 => unread < requested
  /\ pc = "decode" /\ Nuls = 0 /\ ~Stuck =>
       2 * buffer_len + 3 * RawUnread <= 8 * (MaxLength - 1) + 3 * RawSize

\* The unread part of the buffer is what follows the characters skipped, then NULs.
Window ==
  /\ \A c \in taken + 1..Arrived : \A k \in 1..source.widths[c] :
       buffer[buffer_pos + BytesTo(c - 1) + k] = <<c, k>>
  /\ Nuls > 0 => \A i \in BytesTo(WellFormed) + 1..Length : buffer[buffer_pos + i] = Nul

\* What the last call has answered is still so.
Answer ==
  /\ error = "decode" => Stuck
  /\ result = "ok" => pc = "idle" /\ requested <= opened - buffer_pos
                      /\ (unread >= requested \/ Nuls > 0)

\* The inductive invariant.
Inv == SourceOK /\ Types /\ Position /\ Fresh /\ Room /\ Window /\ Answer

-----------------------------------------------------------------------------
\* The constants as the proofs use them.
LEMMA Sizes ==
  /\ Widths \subseteq 1..4
  /\ MaxChars \in Nat /\ MaxLength \in Nat /\ MaxFailures \in Nat
  /\ RawSize \in Nat /\ RawSize >= 4 /\ BufferSize \in Nat
  /\ 2 * BufferSize >= 8 * (MaxLength - 1) + 3 * RawSize + 1
BY ReaderConstants

\* The widths of the characters as the sums take them.
LEMMA WidthsOK ==
  ASSUME SourceOK
  PROVE  /\ source.widths \in Seq(1..4) /\ source.widths \in Seq(Nat)
         /\ N \in Nat /\ Chars = 1..N
         /\ \A c \in 1..N : source.widths[c] \in 1..4
<1>1. source.widths \in Seq(Widths)
  BY DEF SourceOK
<1>2. N \in Nat /\ Chars = 1..N
  BY <1>1 DEF Chars, N
<1>3. \A c \in 1..N : source.widths[c] \in 1..4
  <2>1. \A c \in 1..N : source.widths[c] \in Widths
    BY <1>1 DEF N
  <2> QED
    BY <2>1, Sizes
<1>4. source.widths = [c \in 1..N |-> source.widths[c]]
  BY <1>1 DEF N
<1>5. source.widths \in Seq(1..4)
  BY <1>2, <1>3, <1>4
<1>6. source.widths \in Seq(Nat)
  BY <1>2, <1>3, <1>4
<1> QED
  BY <1>2, <1>3, <1>5, <1>6

\* The text does not change.
LEMMA Fixed ==
  ASSUME source' = source
  PROVE  /\ N' = N /\ WellFormed' = WellFormed /\ StreamSize' = StreamSize
         /\ Encoding' = Encoding /\ BomWidth' = BomWidth
         /\ SourceOK' = SourceOK
         /\ \A c : StartOf(c)' = StartOf(c) /\ Offset(c)' = Offset(c)
         /\ \A c, enc : RawWidth(c, enc)' = RawWidth(c, enc)
         /\ \A byte : CharAt(byte)' = CharAt(byte)
<1>1. Encoding' = Encoding /\ BomWidth' = BomWidth /\ Chars' = Chars /\ N' = N
  BY DEF Encoding, BomWidth, Chars, N
<1>2. \A c, enc : RawWidth(c, enc)' = RawWidth(c, enc)
  BY DEF RawWidth
<1>3. \A c : Offset(c)' = Offset(c)
  BY DEF Offset, Sums
<1>4. \A c : StartOf(c)' = StartOf(c)
  BY <1>1 DEF StartOf, Sums, RawWidth, Chars, BomWidth, Encoding
<1>5. \A byte : CharAt(byte)' = CharAt(byte)
  BY <1>1, <1>2, <1>4 DEF CharAt
<1>6. WellFormed' = WellFormed
  BY DEF WellFormed
<1>7. StreamSize' = StreamSize
  BY <1>4 DEF StreamSize
<1>8. SourceOK' = SourceOK
  BY <1>1, <1>2 DEF SourceOK
<1> QED
  BY <1>1, <1>2, <1>3, <1>4, <1>5, <1>6, <1>7, <1>8

\* The characters before a flaw are all but the last.
LEMMA Lengths ==
  ASSUME SourceOK
  PROVE  /\ N \in Nat /\ WellFormed \in 0..N
         /\ source.flaw = "none" => WellFormed = N
         /\ source.flaw # "none" => N > 0 /\ WellFormed = N - 1
         /\ \A c \in 1..N : source.widths[c] \in 1..4
<1> QED
  BY WidthsOK DEF SourceOK, N, WellFormed

\* Offsets in the decoded text grow with each character, by at most four bytes.
LEMMA Offsets ==
  ASSUME SourceOK
  PROVE  /\ \A c \in 0..N : Offset(c) \in Nat
         /\ \A c \in 1..N : Offset(c) = Offset(c - 1) + source.widths[c]
         /\ \A c \in 0..N : \A d \in c..N :
              d - c <= Offset(d) - Offset(c) /\ Offset(d) - Offset(c) <= 4 * (d - c)
<1>1. source.widths \in Seq(1..4) /\ source.widths \in Seq(Nat)
  BY WidthsOK
<1>2. /\ \A c \in 0..N : Offset(c) \in Nat
      /\ \A c \in 1..N : Offset(c) = Offset(c - 1) + source.widths[c]
  BY <1>1, SumsStep DEF Offset, N
<1>3. \A c \in 0..N : \A d \in c..N :
        d - c <= Offset(d) - Offset(c) /\ Offset(d) - Offset(c) <= 4 * (d - c)
  BY <1>1, SumsSpread DEF Offset, N
<1> QED
  BY <1>2, <1>3

\* Characters follow each other in the stream without gaps, behind the byte order mark;
\* in UTF-8 a character is at most half as long again as in the stream.
LEMMA Starts ==
  ASSUME SourceOK
  PROVE  /\ BomWidth \in 0..3 /\ Encoding \in {"utf8", "utf16"}
         /\ StartOf(1) = BomWidth + 1
         /\ \A c \in 1..N + 1 : StartOf(c) \in Nat /\ StartOf(c) >= 1
         /\ \A c \in 1..N : /\ RawWidth(c, Encoding) \in 1..4
                            /\ 2 * source.widths[c] <= 3 * RawWidth(c, Encoding)
                            /\ StartOf(c + 1) = StartOf(c) + RawWidth(c, Encoding)
         /\ \A c \in 1..N + 1 : \A d \in c..N + 1 : d - c <= StartOf(d) - StartOf(c)
<1> DEFINE sizes == [b \in Chars |-> RawWidth(b, Encoding)]
<1>1. N \in Nat /\ \A c \in 1..N : source.widths[c] \in 1..4
  BY Lengths
<1>2. Chars = 1..N
  BY WidthsOK
<1>3. BomWidth \in 0..3 /\ Encoding \in {"utf8", "utf16"}
  BY DEF SourceOK, BomWidth, Encoding
<1>4. \A c \in 1..N : RawWidth(c, Encoding) \in 1..4 /\ 2 * source.widths[c] <= 3 * RawWidth(c, Encoding)
  BY <1>1 DEF RawWidth
<1>5. sizes \in Seq(1..4) /\ sizes \in Seq(Nat) /\ Len(sizes) = N
  <2>1. \A c \in 1..N : RawWidth(c, Encoding) \in 1..4 /\ RawWidth(c, Encoding) \in Nat
    BY <1>4
  <2>2. sizes \in [1..N -> 1..4] /\ sizes \in [1..N -> Nat]
    BY <1>2, <2>1
  <2> QED
    BY <1>1, <2>2
<1>6. \A c : StartOf(c) = BomWidth + 1 + Sums(sizes)[c - 1]
  BY DEF StartOf
<1>7. \A c \in 1..N : sizes[c] = RawWidth(c, Encoding)
  BY <1>2
<1> HIDE DEF sizes
<1>8. /\ Sums(sizes)[0] = 0
      /\ \A n \in 1..N : Sums(sizes)[n] = Sums(sizes)[n - 1] + sizes[n]
      /\ \A n \in 0..N : Sums(sizes)[n] \in Nat
  BY <1>5, SumsStep
<1>9. \A i \in 0..N : \A j \in i..N : j - i <= Sums(sizes)[j] - Sums(sizes)[i]
  BY <1>5, SumsSpread
<1>10. \A c \in 1..N + 1 : StartOf(c) \in Nat /\ StartOf(c) >= 1
  BY <1>1, <1>3, <1>6, <1>8
<1>11. \A c \in 1..N : StartOf(c + 1) = StartOf(c) + RawWidth(c, Encoding)
  <2> TAKE c \in 1..N
  <2>1. StartOf(c + 1) = BomWidth + 1 + Sums(sizes)[c] /\ StartOf(c) = BomWidth + 1 + Sums(sizes)[c - 1]
    <3>1. (c + 1) - 1 = c
      BY <1>1
    <3> QED
      BY <1>6, <3>1
  <2>2. Sums(sizes)[c] = Sums(sizes)[c - 1] + RawWidth(c, Encoding)
    BY <1>7, <1>8
  <2>3. Sums(sizes)[c] \in Nat /\ Sums(sizes)[c - 1] \in Nat
    BY <1>1, <1>8
  <2> QED
    BY <1>3, <1>4, <2>1, <2>2, <2>3
<1>12. \A c \in 1..N + 1 : \A d \in c..N + 1 : d - c <= StartOf(d) - StartOf(c)
  <2> TAKE c \in 1..N + 1
  <2> TAKE d \in c..N + 1
  <2>1. c - 1 \in 0..N /\ d - 1 \in c - 1..N
    BY <1>1
  <2>2. (d - 1) - (c - 1) <= Sums(sizes)[d - 1] - Sums(sizes)[c - 1]
    BY <1>9, <2>1
  <2>3. Sums(sizes)[d - 1] \in Nat /\ Sums(sizes)[c - 1] \in Nat
    BY <1>1, <1>8, <2>1
  <2> QED
    BY <1>1, <1>3, <1>6, <2>2, <2>3
<1>13. StartOf(1) = BomWidth + 1
  BY <1>3, <1>6, <1>8
<1> QED
  BY <1>3, <1>4, <1>10, <1>11, <1>12, <1>13

\* The stream ends behind the last character, or one byte earlier.
LEMMA StreamEnd ==
  ASSUME SourceOK
  PROVE  /\ StreamSize \in Nat
         /\ StreamSize = StartOf(N + 1) - 1 - (IF source.flaw = "cut" THEN 1 ELSE 0)
<1>1. N \in Nat /\ N + 1 \in 1..N + 1
  BY WidthsOK
<1>2. StartOf(N + 1) \in Nat /\ StartOf(N + 1) >= 1
  BY <1>1, Starts
<1>3. source.flaw = "cut" => StartOf(N + 1) >= 2
  <2> SUFFICES ASSUME source.flaw = "cut" PROVE StartOf(N + 1) >= 2
    OBVIOUS
  <2>1. N \in 1..N /\ N \in 1..N + 1
    BY <1>1 DEF SourceOK
  <2>2. StartOf(N + 1) = StartOf(N) + RawWidth(N, Encoding) /\ RawWidth(N, Encoding) \in 1..4
    BY <2>1, Starts
  <2>3. StartOf(N) \in Nat /\ StartOf(N) >= 1
    BY <2>1, Starts
  <2> QED
    BY <2>2, <2>3
<1>4. StreamSize = StartOf(N + 1) - 1 - (IF source.flaw = "cut" THEN 1 ELSE 0)
  BY DEF StreamSize, N
<1> QED
  BY <1>2, <1>3, <1>4

\* The character that starts at a byte is found there.
LEMMA CharAtStart ==
  ASSUME SourceOK, NEW c \in 1..N
  PROVE  CharAt(StartOf(c)) = c
<1> DEFINE Covers(d) == StartOf(d) <= StartOf(c) /\ StartOf(c) < StartOf(d) + RawWidth(d, Encoding)
<1>1. Chars = 1..N /\ N \in Nat
  BY WidthsOK
<1>2. Covers(c)
  <2>1. RawWidth(c, Encoding) \in 1..4
    BY Starts
  <2>2. c \in 1..N + 1
    BY <1>1
  <2>3. StartOf(c) \in Nat
    BY <2>2, Starts
  <2> QED
    BY <2>1, <2>3
<1>3. ASSUME NEW d \in 1..N, Covers(d) PROVE d = c
  <2>1. StartOf(d + 1) = StartOf(d) + RawWidth(d, Encoding)
    BY Starts
  <2>2. /\ d < c => StartOf(d + 1) <= StartOf(c)
        /\ c < d => StartOf(c) < StartOf(d)
    <3>1. ASSUME NEW i \in 1..N + 1, NEW j \in i..N + 1
          PROVE  j - i <= StartOf(j) - StartOf(i) /\ StartOf(i) \in Nat /\ StartOf(j) \in Nat
      BY <1>1, Starts
    <3>2. /\ d < c => c \in d + 1..N + 1
          /\ c < d => d \in c..N + 1
      BY <1>1
    <3>3. c \in 1..N + 1 /\ d \in 1..N + 1 /\ d + 1 \in 1..N + 1
      BY <1>1
    <3>4. CASE d < c
      <4>1. c - (d + 1) <= StartOf(c) - StartOf(d + 1) /\ StartOf(c) \in Nat /\ StartOf(d + 1) \in Nat
        BY <3>1, <3>2, <3>3, <3>4
      <4> QED
        BY <3>4, <4>1
    <3>5. CASE c < d
      <4>1. d - c <= StartOf(d) - StartOf(c) /\ StartOf(c) \in Nat /\ StartOf(d) \in Nat
        BY <3>1, <3>2, <3>3, <3>5
      <4> QED
        BY <3>5, <4>1
    <3> QED
      BY <3>4, <3>5
  <2>3. StartOf(d + 1) \in Nat /\ StartOf(c) \in Nat /\ StartOf(d) \in Nat
    <3>1. c \in 1..N + 1 /\ d \in 1..N + 1 /\ d + 1 \in 1..N + 1
      BY <1>1
    <3> QED
      BY <3>1, Starts
  <2>4. RawWidth(d, Encoding) \in 1..4
    BY Starts
  <2> QED
    BY <1>1, <1>3, <2>1, <2>2, <2>3, <2>4
<1>4. CharAt(StartOf(c)) = CHOOSE d \in 1..N : Covers(d)
  BY <1>1 DEF CharAt
<1> HIDE DEF Covers
<1> QED
  BY <1>2, <1>3, <1>4

-----------------------------------------------------------------------------

\* The unread characters and how many bytes they are.
LEMMA Arrivals ==
  ASSUME SourceOK, taken \in 0..WellFormed, unread \in Nat
  PROVE  /\ Arrived \in taken..WellFormed /\ Arrived \in 0..N
         /\ Nuls \in Nat /\ Nuls <= unread /\ Arrived + Nuls = taken + unread
         /\ Nuls > 0 => Arrived = WellFormed
         /\ Nuls > 0 <=> taken + unread > WellFormed
         /\ \A c \in taken..N : BytesTo(c) \in Nat
         /\ \A c \in taken + 1..N : BytesTo(c) = BytesTo(c - 1) + source.widths[c]
         /\ \A c \in taken..N : \A d \in c..N : d - c <= BytesTo(d) - BytesTo(c)
         /\ UnreadBytes \in Nat /\ unread <= UnreadBytes /\ UnreadBytes <= 4 * unread
<1>1. N \in Nat /\ WellFormed \in 0..N /\ taken \in 0..N
  BY Lengths
<1>2. /\ Arrived \in taken..WellFormed /\ Arrived \in 0..N
      /\ Nuls \in Nat /\ Nuls <= unread /\ Arrived + Nuls = taken + unread
      /\ Nuls > 0 => Arrived = WellFormed
      /\ Nuls > 0 <=> taken + unread > WellFormed
  BY <1>1 DEF Arrived, Nuls
<1>3. \A c \in 0..N : Offset(c) \in Nat
  BY Offsets
<1>4. \A c \in 0..N : \A d \in c..N :
        d - c <= Offset(d) - Offset(c) /\ Offset(d) - Offset(c) <= 4 * (d - c)
  BY Offsets
<1>5. \A c \in taken..N : c \in 0..N /\ BytesTo(c) \in Nat
  <2> TAKE c \in taken..N
  <2>1. c \in 0..N
    BY <1>1
  <2>2. c - taken <= Offset(c) - Offset(taken) /\ Offset(c) \in Nat /\ Offset(taken) \in Nat
    BY <1>1, <1>3, <1>4, <2>1
  <2> QED
    BY <1>1, <2>1, <2>2 DEF BytesTo
<1>6. \A c \in taken + 1..N : BytesTo(c) = BytesTo(c - 1) + source.widths[c]
  <2> TAKE c \in taken + 1..N
  <2>1. c \in 1..N /\ c - 1 \in 0..N /\ c \in 0..N
    BY <1>1
  <2>2. Offset(c) = Offset(c - 1) + source.widths[c]
    BY <2>1, Offsets
  <2>3. source.widths[c] \in 1..4
    BY <2>1, Lengths
  <2>4. Offset(c) \in Nat /\ Offset(c - 1) \in Nat /\ Offset(taken) \in Nat
    BY <1>1, <1>3, <2>1
  <2> QED
    BY <2>2, <2>3, <2>4 DEF BytesTo
<1>7. \A c \in taken..N : \A d \in c..N : d - c <= BytesTo(d) - BytesTo(c)
  <2> TAKE c \in taken..N
  <2> TAKE d \in c..N
  <2>1. c \in 0..N /\ d \in 0..N
    BY <1>1
  <2>2. d - c <= Offset(d) - Offset(c)
    BY <1>4, <2>1
  <2>3. Offset(c) \in Nat /\ Offset(d) \in Nat /\ Offset(taken) \in Nat
    BY <1>1, <1>3, <2>1
  <2> QED
    BY <2>1, <2>2, <2>3, <1>1 DEF BytesTo
<1>8. UnreadBytes \in Nat /\ unread <= UnreadBytes /\ UnreadBytes <= 4 * unread
  <2>1. Arrived - taken <= Offset(Arrived) - Offset(taken) /\ Offset(Arrived) - Offset(taken) <= 4 * (Arrived - taken)
    BY <1>1, <1>2, <1>4
  <2>2. Offset(Arrived) \in Nat /\ Offset(taken) \in Nat
    BY <1>1, <1>2, <1>3
  <2> QED
    BY <1>1, <1>2, <2>1, <2>2 DEF UnreadBytes, BytesTo
<1> QED
  BY <1>2, <1>5, <1>6, <1>7, <1>8

\* What the invariant says of the numbers a step computes with.
LEMMA Numbers ==
  ASSUME Types, Position
  PROVE  /\ taken \in Nat /\ unread \in Nat /\ requested \in Nat /\ requested <= MaxLength
         /\ opened \in Nat /\ opened <= BufferSize /\ buffer_len \in Nat /\ buffer_len <= BufferSize
         /\ buffer_pos \in Nat /\ buffer_pos <= opened
         /\ Length \in Nat
         /\ delivered \in Nat /\ Len(raw) \in Nat /\ raw_buffer_pos \in Nat
         /\ RawUnread \in Nat /\ RawUnread <= RawSize /\ RawUnread <= delivered
         /\ RawUnread = Len(raw) - raw_buffer_pos
<1>1. Len(raw) \in Nat
  BY DEF Position
<1>2. opened \in Nat /\ buffer_pos \in Nat /\ buffer_len \in Nat
  BY Sizes DEF Types
<1> QED
  BY <1>1, <1>2, Sizes DEF Types, Position, Length, RawUnread

-----------------------------------------------------------------------------

\* How a step of the raw buffer moves the stream: forward, and without losing a byte.
RawMoves ==
  /\ delivered' \in 0..StreamSize /\ eof' \in BOOLEAN
  /\ raw' \in Seq(1..StreamSize) /\ Len(raw') <= RawSize /\ Len(raw') <= delivered'
  /\ raw_buffer_pos' \in 0..Len(raw')
  /\ \A i \in 1..Len(raw') : raw'[i] = delivered' - Len(raw') + i
  /\ eof' => delivered' = StreamSize
  /\ encoding = "any" => raw_buffer_pos' = 0 /\ delivered' = Len(raw')
  /\ delivered' - RawUnread' = delivered - RawUnread
  /\ RawUnread <= RawUnread'
  /\ eof => eof' /\ RawUnread' = RawUnread

\* The raw buffer may stay as it is.
LEMMA RawStays ==
  ASSUME Types, Position, UNCHANGED <<raw, raw_buffer_pos, delivered, eof>>
  PROVE  RawMoves
<1>1. RawUnread' = RawUnread
  BY DEF RawUnread
<1> QED
  BY <1>1, Numbers DEF RawMoves, Position

\* A function on 1..n is a sequence.
LEMMA Run ==
  ASSUME NEW S, NEW n \in Nat, NEW t \in [1..n -> S]
  PROVE  t \in Seq(S) /\ Len(t) = n
OBVIOUS

\* A read, whatever it delivers, moves the stream forward and keeps what was not decoded.
LEMMA ReadsMove ==
  ASSUME Types, Position, SourceOK, ~eof, NEW err, Reads(err)
  PROVE  RawMoves
<1> DEFINE left == SubSeq(raw, raw_buffer_pos + 1, Len(raw))
<1>1. PICK n \in 0..RawSize - RawUnread :
        /\ delivered + n <= StreamSize
        /\ err = "EOF" => delivered + n = StreamSize
        /\ raw' = left \o [i \in 1..n |-> delivered + i]
        /\ raw_buffer_pos' = 0
        /\ delivered' = delivered + n
        /\ eof' = (err = "EOF")
  BY DEF Reads, Remaining
<1>2. /\ delivered + n <= StreamSize
      /\ raw' = left \o [i \in 1..n |-> delivered + i]
      /\ raw_buffer_pos' = 0
      /\ delivered' = delivered + n
  BY <1>1
<1>3. eof' \in BOOLEAN /\ (eof' => delivered' = StreamSize)
  BY <1>1, Zenon
<1>4. StreamSize \in Nat /\ RawSize \in Nat
  BY StreamEnd, Sizes
<1>5. /\ raw_buffer_pos \in Nat /\ Len(raw) \in Nat /\ raw_buffer_pos <= Len(raw) /\ RawUnread \in 0..RawSize
      /\ RawUnread = Len(raw) - raw_buffer_pos /\ delivered \in Nat /\ RawUnread <= delivered
  BY Numbers DEF Position
<1>6. Len(left) = RawUnread /\ left \in Seq(1..StreamSize)
      /\ \A i \in 1..RawUnread : left[i] = delivered - RawUnread + i
  <2>1. /\ raw \in Seq(1..StreamSize) /\ raw_buffer_pos \in 0..Len(raw)
        /\ \A i \in 1..Len(raw) : raw[i] = delivered - Len(raw) + i
    BY DEF Position
  <2>2. /\ left \in Seq(1..StreamSize) /\ Len(left) = RawUnread
        /\ \A i \in 1..RawUnread : left[i] = raw[raw_buffer_pos + i]
    <3>1. /\ left \in Seq(1..StreamSize) /\ Len(left) = Len(raw) - raw_buffer_pos
          /\ \A i \in 1..Len(raw) - raw_buffer_pos : left[i] = raw[raw_buffer_pos + i]
      BY <1>4, <2>1
    <3> HIDE DEF left
    <3> QED
      BY <1>5, <3>1
  <2>3. \A i \in 1..RawUnread : raw_buffer_pos + i \in 1..Len(raw)
    BY <1>5
  <2>4. \A i \in 1..RawUnread : raw[raw_buffer_pos + i] = delivered - RawUnread + i
    BY <1>5, <2>1, <2>3
  <2> QED
    BY <2>2, <2>4
<1> HIDE DEF left
<1> DEFINE new == [i \in 1..n |-> delivered + i]
<1>7. n \in Nat /\ RawUnread + n <= RawSize
  BY <1>5, <1>4
<1>8. new \in Seq(1..StreamSize) /\ Len(new) = n /\ \A i \in 1..n : new[i] = delivered + i
  <2>1. new \in [1..n -> 1..StreamSize]
    BY <1>2, <1>5, <1>4, <1>7
  <2>2. \A i \in 1..n : new[i] = delivered + i
    OBVIOUS
  <2> HIDE DEF new
  <2> QED
    BY <1>7, <2>1, <2>2, Run
<1>9. raw' = left \o new
  BY <1>2
<1> HIDE DEF new
<1>10. /\ raw' \in Seq(1..StreamSize) /\ Len(raw') = RawUnread + n
       /\ \A i \in 1..RawUnread : raw'[i] = left[i]
       /\ \A i \in 1..n : raw'[RawUnread + i] = new[i]
  <2>1. /\ left \o new \in Seq(1..StreamSize) /\ Len(left \o new) = Len(left) + Len(new)
        /\ \A i \in 1..Len(left) : (left \o new)[i] = left[i]
        /\ \A i \in 1..Len(new) : (left \o new)[Len(left) + i] = new[i]
    <3>1. left \in Seq(1..StreamSize) /\ new \in Seq(1..StreamSize)
      BY <1>6, <1>8
    <3>2. left \o new \in Seq(1..StreamSize)
      BY <3>1
    <3>3. Len(left \o new) = Len(left) + Len(new)
      BY <3>1
    <3>4. \A i \in 1..Len(left) : (left \o new)[i] = left[i]
      BY <3>1
    <3>5. \A i \in 1..Len(new) : (left \o new)[Len(left) + i] = new[i]
      BY <3>1
    <3> QED
      BY <3>2, <3>3, <3>4, <3>5
  <2> QED
    BY <1>6, <1>8, <1>9, <2>1
<1>11. \A i \in 1..Len(raw') : raw'[i] = delivered' - Len(raw') + i
  <2> TAKE i \in 1..Len(raw')
  <2>1. CASE i <= RawUnread
    <3>1. i \in 1..RawUnread
      BY <1>5, <1>7, <1>10, <2>1
    <3>2. raw'[i] = delivered - RawUnread + i
      BY <1>6, <1>10, <3>1
    <3>3. delivered' - Len(raw') = delivered - RawUnread
      <4>1. delivered' = delivered + n /\ Len(raw') = RawUnread + n
        BY <1>2, <1>10
      <4> QED
        BY <1>5, <1>7, <4>1
    <3>4. raw'[i] = (delivered' - Len(raw')) + i
      BY <3>2, <3>3
    <3> QED
      BY <3>4
  <2>2. CASE i > RawUnread
    <3>1. i - RawUnread \in 1..n /\ i = RawUnread + (i - RawUnread)
      BY <1>5, <1>7, <1>10, <2>2
    <3>2. raw'[i] = delivered + (i - RawUnread)
      <4>1. PICK j \in 1..n : j = i - RawUnread
        BY <3>1
      <4>2. raw'[RawUnread + j] = new[j]
        BY <1>10
      <4>3. new[j] = delivered + j
        BY <1>8
      <4>4. i = RawUnread + j
        BY <3>1, <4>1
      <4> QED
        BY <4>1, <4>2, <4>3, <4>4
    <3>3. delivered' = delivered + n /\ Len(raw') = RawUnread + n
      BY <1>2, <1>10
    <3>4. \A a, b, m \in Nat : a + (b - m) = (a + n) - (m + n) + b
      OBVIOUS
    <3>5. delivered \in Nat /\ RawUnread \in Nat /\ i \in Nat
      BY <1>5, <1>7
    <3> QED
      BY <3>2, <3>3, <3>4, <3>5
  <2> QED
    BY <2>1, <2>2, <1>5, <1>7, <1>10
<1>12. RawUnread' = Len(raw')
  BY <1>2, <1>10, <1>7, <1>5 DEF RawUnread
<1>13. encoding = "any" => RawUnread = delivered
  BY <1>5 DEF Position
<1> QED
  <2>1. delivered' \in 0..StreamSize
    BY <1>2, <1>5, <1>4, <1>7
  <2>2. Len(raw') <= RawSize /\ Len(raw') <= delivered' /\ raw_buffer_pos' \in 0..Len(raw')
    BY <1>2, <1>5, <1>4, <1>7, <1>10
  <2>3. encoding = "any" => raw_buffer_pos' = 0 /\ delivered' = Len(raw')
    BY <1>2, <1>10, <1>13
  <2>4. delivered' - RawUnread' = delivered - RawUnread /\ RawUnread <= RawUnread'
    BY <1>2, <1>5, <1>7, <1>10, <1>12
  <2> QED
    BY <1>10, <1>11, <1>3, <2>1, <2>2, <2>3, <2>4 DEF RawMoves

-----------------------------------------------------------------------------

\* What has arrived depends on the characters taken and unread.
LEMMA SameText ==
  ASSUME UNCHANGED <<source, taken, unread>>
  PROVE  /\ WellFormed' = WellFormed /\ Arrived' = Arrived /\ Nuls' = Nuls /\ UnreadBytes' = UnreadBytes
         /\ \A c : BytesTo(c)' = BytesTo(c)
<1>1. WellFormed' = WellFormed /\ \A c : Offset(c)' = Offset(c)
  BY Fixed
<1>2. Arrived' = Arrived
  BY <1>1 DEF Arrived
<1>3. Nuls' = Nuls
  BY <1>2 DEF Nuls
<1>4. \A c : BytesTo(c)' = BytesTo(c)
  BY <1>1 DEF BytesTo
<1>5. UnreadBytes' = UnreadBytes
  BY <1>2, <1>3, <1>4 DEF UnreadBytes
<1> QED
  BY <1>1, <1>2, <1>3, <1>4, <1>5

\* Reading on does not mend a flaw.
LEMMA StuckStays ==
  ASSUME SourceOK, Types, Position, RawMoves, Stuck, UNCHANGED <<source, encoding, taken, unread>>
  PROVE  Stuck'
<1>1. N' = N /\ WellFormed' = WellFormed /\ Encoding' = Encoding
      /\ RawWidth(N, Encoding)' = RawWidth(N, Encoding)
  BY Fixed DEF N, RawWidth, Encoding
<1>2. RawUnread \in Nat /\ RawUnread' \in Nat /\ RawUnread <= RawUnread' /\ (eof => eof')
  <2>1. Len(raw') \in Nat /\ raw_buffer_pos' \in 0..Len(raw')
    BY DEF RawMoves
  <2>2. RawUnread' = Len(raw') - raw_buffer_pos'
    BY DEF RawUnread
  <2> QED
    <3>1. RawUnread' \in Nat
      BY <2>1, <2>2
    <3>2. RawUnread <= RawUnread' /\ (eof => eof')
      BY DEF RawMoves
    <3> QED
      BY <3>1, <3>2, Numbers
<1>3. RawWidth(N, Encoding) \in Nat
  BY Starts, Lengths DEF Stuck
<1> QED
  BY <1>1, <1>2, <1>3 DEF Stuck

\* A move of the raw buffer that decodes nothing keeps its place in the stream.
LEMMA PositionStep ==
  ASSUME SourceOK, Types, Position, RawMoves, UNCHANGED <<source, encoding, taken, unread>>
  PROVE  Position'
<1>1. StreamSize' = StreamSize /\ Encoding' = Encoding /\ \A c : StartOf(c)' = StartOf(c)
  BY Fixed
<1>2. Arrived' = Arrived /\ Nuls' = Nuls
  BY SameText
<1>3. (StartOf(Arrived + 1))' = StartOf(Arrived + 1)
  BY <1>1, <1>2 DEF StartOf, Sums, RawWidth, Chars, BomWidth, Encoding
<1>4. encoding # "any" => encoding' = Encoding' /\ delivered' - RawUnread' + 1 = (StartOf(Arrived + 1))'
  BY <1>1, <1>3 DEF Position, RawMoves
<1>5. Nuls' > 0 => eof' /\ RawUnread' = 0 /\ source'.flaw = "none"
  BY <1>2 DEF Position, RawMoves
<1> QED
  BY <1>1, <1>4, <1>5 DEF Position, RawMoves

\* The bytes of an unread character lie within the unread part of the buffer.
LEMMA InWindow ==
  ASSUME SourceOK, taken \in 0..WellFormed, unread \in Nat,
         NEW c \in taken + 1..Arrived, NEW k \in 1..source.widths[c]
  PROVE  /\ BytesTo(c - 1) \in Nat /\ BytesTo(c - 1) + k \in 1..BytesTo(Arrived)
         /\ BytesTo(Arrived) \in Nat /\ BytesTo(Arrived) <= UnreadBytes
<1>1. /\ N \in Nat /\ WellFormed \in 0..N /\ Arrived \in taken..WellFormed
      /\ Nuls \in Nat /\ UnreadBytes = BytesTo(Arrived) + Nuls
  BY Lengths, Arrivals DEF UnreadBytes
<1>2. c \in taken + 1..N /\ c \in taken..N /\ c - 1 \in taken..N /\ Arrived \in c..N /\ Arrived \in taken..N
  BY <1>1
<1>3. BytesTo(c) \in Nat /\ BytesTo(c - 1) \in Nat /\ BytesTo(Arrived) \in Nat
  BY <1>2, Arrivals
<1>4. BytesTo(c) = BytesTo(c - 1) + source.widths[c] /\ Arrived - c <= BytesTo(Arrived) - BytesTo(c)
  BY <1>2, Arrivals
<1>5. source.widths[c] \in 1..4
  BY <1>1, <1>2, Lengths
<1>6. BytesTo(c) <= BytesTo(Arrived)
  BY <1>1, <1>2, <1>3, <1>4
<1>7. PICK w \in 1..4 : w = source.widths[c]
  BY <1>5
<1> QED
  BY <1>1, <1>3, <1>4, <1>6, <1>7

\* A step that neither skips nor decodes leaves the text in the buffer, wherever that
\* is moved to.
LEMMA WindowStep ==
  ASSUME SourceOK, Types, Position, Room, Window,
         UNCHANGED <<source, taken, unread>>, Stuck => Stuck',
         Length' = Length, buffer_pos' \in Nat, \A i \in 1..Length : buffer'[buffer_pos' + i] = buffer[buffer_pos + i]
  PROVE  Window' /\ Fits'
<1>1. /\ WellFormed' = WellFormed /\ Arrived' = Arrived /\ Nuls' = Nuls /\ UnreadBytes' = UnreadBytes
      /\ \A c : BytesTo(c)' = BytesTo(c)
  BY SameText
<1>2. Fits'
  BY <1>1 DEF Fits, Room
<1>3. taken \in 0..WellFormed /\ unread \in Nat /\ Length \in Nat /\ buffer_pos \in Nat
  BY Numbers DEF Types
<1>4. ASSUME NEW c \in taken + 1..Arrived, NEW k \in 1..source.widths[c]
      PROVE  buffer'[buffer_pos' + BytesTo(c - 1) + k] = <<c, k>>
  <2>1. BytesTo(c - 1) + k \in 1..Length /\ BytesTo(c - 1) \in Nat
    <3>1. BytesTo(c - 1) + k \in 1..BytesTo(Arrived) /\ BytesTo(c - 1) \in Nat
          /\ BytesTo(Arrived) \in Nat /\ BytesTo(Arrived) <= UnreadBytes
      BY <1>3, InWindow
    <3>2. UnreadBytes <= Length
      BY DEF Room, Fits
    <3>3. UnreadBytes \in Nat
      BY <1>3, Arrivals
    <3> QED
      BY <1>3, <3>1, <3>2, <3>3
  <2>2. buffer[buffer_pos + BytesTo(c - 1) + k] = <<c, k>>
    BY <1>4 DEF Window
  <2>3. buffer'[buffer_pos' + (BytesTo(c - 1) + k)] = buffer[buffer_pos + (BytesTo(c - 1) + k)]
    BY <2>1
  <2>4. /\ buffer'[buffer_pos' + BytesTo(c - 1) + k] = buffer'[buffer_pos' + (BytesTo(c - 1) + k)]
        /\ buffer[buffer_pos + BytesTo(c - 1) + k] = buffer[buffer_pos + (BytesTo(c - 1) + k)]
    <3>1. k \in Nat
      BY Lengths, <1>3, Arrivals
    <3> QED
      BY <1>3, <2>1, <3>1
  <2> QED
    BY <2>2, <2>3, <2>4
<1>5. Nuls > 0 => \A i \in BytesTo(WellFormed) + 1..Length : buffer'[buffer_pos' + i] = Nul
  <2> SUFFICES ASSUME Nuls > 0, NEW i \in BytesTo(WellFormed) + 1..Length PROVE buffer'[buffer_pos' + i] = Nul
    OBVIOUS
  <2>1. BytesTo(WellFormed) \in Nat
    <3>1. WellFormed \in taken..N
      BY <1>3, Lengths
    <3> QED
      BY <1>3, <3>1, Arrivals
  <2>2. i \in 1..Length
    BY <1>3, <2>1
  <2> QED
    BY <2>2 DEF Window
<1>6. Window'
  BY <1>1, <1>4, <1>5 DEF Window, Nul
<1> QED
  BY <1>2, <1>6

\* A step that reads and leaves the unread part of the buffer alone.
LEMMA Kept ==
  ASSUME Inv, RawMoves, UNCHANGED <<source, encoding, taken, unread, buffer, buffer_pos>>,
         Length' = Length
  PROVE  SourceOK' /\ Position' /\ Window' /\ Fits' /\ (Stuck => Stuck')
<1>1. SourceOK /\ Types /\ Position /\ Room /\ Window
  BY DEF Inv
<1>2. Stuck => Stuck'
  BY <1>1, StuckStays
<1>3. Position'
  BY <1>1, PositionStep
<1>4. buffer_pos' \in Nat /\ \A i \in 1..Length : buffer'[buffer_pos' + i] = buffer[buffer_pos + i]
  BY <1>1, Numbers
<1>5. Window' /\ Fits'
  BY <1>1, <1>2, <1>4, WindowStep
<1> QED
  BY <1>1, <1>2, <1>3, <1>5, Fixed

\* The bytes of a byte order mark are read, in as many reads as it takes.
LEMMA ReadForEncodingStep ==
  ASSUME Inv, ReadForEncoding
  PROVE  Inv'
<1>1. SourceOK /\ Types /\ Position /\ Fresh /\ Room /\ Answer
  BY DEF Inv
<1>2. /\ pc = "encoding" /\ ~eof
      /\ UNCHANGED <<source, requested, taken, failures, encoding, buffer, opened, buffer_pos, unread,
                     first, buffer_len, error, pc, result>>
      /\ (\E err : Reads(err))
  BY DEF ReadForEncoding, caller, bufferSide, locals, EnoughForBom
<1>3. RawMoves
  BY <1>1, <1>2, ReadsMove
<1>4. Length' = Length
  BY <1>2 DEF Length
<1>5. SourceOK' /\ Position' /\ Window' /\ Fits' /\ (Stuck => Stuck')
  BY <1>2, <1>3, <1>4, Kept
<1>6. Types'
  BY <1>1, <1>2, Fixed DEF Types
<1>7. Fresh'
  BY <1>1, <1>2 DEF Fresh
<1>8. Room'
  BY <1>1, <1>2, <1>5 DEF Room
<1>9. Answer'
  BY <1>1, <1>2, <1>5 DEF Answer
<1> QED
  BY <1>5, <1>6, <1>7, <1>8, <1>9 DEF Inv

\* The raw buffer is filled, or not, and the next character is looked at.
LEMMA ReadStep ==
  ASSUME Inv, ReadMore \/ ReadNothing
  PROVE  Inv'
<1>1. SourceOK /\ Types /\ Position /\ Fresh /\ Room /\ Answer
  BY DEF Inv
<1>2. /\ pc = "fill" /\ unread < requested /\ first' = FALSE /\ pc' = "decode"
      /\ UNCHANGED <<source, requested, taken, failures, encoding, buffer, opened, buffer_pos, unread,
                     buffer_len, error, result>>
  BY DEF ReadMore, ReadNothing, Fills, rawSide, caller, bufferSide
<1>3. RawMoves
  <2>1. CASE ReadMore
    <3>1. ~eof /\ \E err : Reads(err)
      BY <2>1 DEF ReadMore, NothingToRead
    <3> QED
      BY <1>1, <3>1, ReadsMove
  <2>2. CASE ReadNothing
    BY <1>1, <2>2, RawStays DEF ReadNothing, rawSide
  <2> QED
    BY <2>1, <2>2
<1>4. Length' = Length
  BY <1>2 DEF Length
<1>5. SourceOK' /\ Position' /\ Window' /\ Fits' /\ (Stuck => Stuck')
  BY <1>2, <1>3, <1>4, Kept
<1>6. Types'
  BY <1>1, <1>2, Fixed DEF Types
<1>7. Fresh'
  BY <1>1, <1>2 DEF Fresh
<1>8. Nuls' = 0 /\ ~Stuck' => 2 * buffer_len' + 3 * RawUnread' <= 8 * (MaxLength - 1) + 3 * RawSize
  <2> SUFFICES ASSUME Nuls' = 0, ~Stuck'
               PROVE  2 * buffer_len' + 3 * RawUnread' <= 8 * (MaxLength - 1) + 3 * RawSize
    OBVIOUS
  <2>1. Length' = UnreadBytes' /\ UnreadBytes' = UnreadBytes
    BY <1>2, <1>5, SameText DEF Fits
  <2>2. buffer_len' = UnreadBytes
    BY <1>2, <2>1 DEF Length
  <2>3. UnreadBytes \in Nat /\ UnreadBytes <= 4 * unread /\ unread \in Nat
    BY <1>1, Arrivals DEF Types
  <2>4. unread <= MaxLength - 1 /\ MaxLength \in Nat
    BY <1>1, <1>2, <2>3, Sizes, Numbers
  <2>5. RawUnread' \in Nat /\ RawUnread' <= RawSize
    <3>1. /\ Len(raw') \in Nat /\ raw_buffer_pos' \in 0..Len(raw') /\ Len(raw') <= RawSize
      BY <1>3 DEF RawMoves
    <3>2. RawUnread' = Len(raw') - raw_buffer_pos'
      BY DEF RawUnread
    <3> QED
      BY <3>1, <3>2, Sizes
  <2>6. \A b, u, m, r, s \in Nat :
          b <= 4 * u /\ u <= m - 1 /\ r <= s => 2 * b + 3 * r <= 8 * (m - 1) + 3 * s
    OBVIOUS
  <2>7. RawSize \in Nat
    BY Sizes
  <2>8. 2 * UnreadBytes + 3 * RawUnread' <= 8 * (MaxLength - 1) + 3 * RawSize
    BY <2>3, <2>4, <2>5, <2>6, <2>7
  <2> QED
    BY <2>2, <2>8
<1>9. Room'
  <2>1. buffer_pos' = 0 /\ opened' = BufferSize /\ requested' >= 1
    BY <1>1, <1>2 DEF Room
  <2> QED
    BY <1>2, <1>5, <1>8, <2>1 DEF Room
<1>10. Answer'
  BY <1>1, <1>2, <1>5 DEF Answer
<1> QED
  BY <1>5, <1>6, <1>7, <1>9, <1>10 DEF Inv

\* A character that is not complete yet stays in the raw buffer.
LEMMA DecodeMoreStep ==
  ASSUME Inv, DecodeMore
  PROVE  Inv'
<1>1. SourceOK /\ Types /\ Position /\ Fresh /\ Room /\ Answer
  BY DEF Inv
<1>2. /\ pc = "decode" /\ pc' = "fill"
      /\ UNCHANGED <<source, requested, taken, failures, encoding, buffer, opened, buffer_pos, unread,
                     first, buffer_len, error, result, raw, raw_buffer_pos, delivered, eof>>
  BY DEF DecodeMore, Decoded, rawSide, caller, bufferSide, locals
<1>3. RawMoves
  BY <1>1, <1>2, RawStays
<1>4. Length' = Length
  BY <1>2 DEF Length
<1>5. SourceOK' /\ Position' /\ Window' /\ Fits' /\ (Stuck => Stuck')
  BY <1>2, <1>3, <1>4, Kept
<1>6. Types'
  BY <1>1, <1>2, Fixed DEF Types
<1>7. Fresh'
  BY <1>1, <1>2 DEF Fresh
<1>8. Room'
  BY <1>1, <1>2, <1>5 DEF Room
<1>9. Answer'
  BY <1>1, <1>2, <1>5 DEF Answer
<1> QED
  BY <1>5, <1>6, <1>7, <1>8, <1>9 DEF Inv

\* A read that fails ends the call, with what has been decoded.
LEMMA ReadFailsStep ==
  ASSUME Inv, ReadFails
  PROVE  Inv'
<1>1. SourceOK /\ Types /\ Position /\ Fresh /\ Room /\ Answer
  BY DEF Inv
<1>2. /\ ~eof /\ Reads("failed") /\ failures < MaxFailures /\ failures' = failures + 1
      /\ error' = "input" /\ pc' = "idle" /\ result' = "failed" /\ first' = TRUE /\ buffer_len' = 0
      /\ UNCHANGED <<source, requested, taken, encoding, buffer, buffer_pos, unread>>
  BY DEF ReadFails, EnoughForBom, NothingToRead, Return, caller
<1>3. \/ pc = "encoding" /\ opened' = opened
      \/ pc = "fill" /\ opened' = buffer_len
  BY DEF ReadFails, Fills
<1>4. RawMoves
  BY <1>1, <1>2, ReadsMove
<1>5. Length' = Length
  <2>1. CASE pc = "encoding" /\ opened' = opened
    BY <1>2, <2>1 DEF Length
  <2>2. CASE pc = "fill" /\ opened' = buffer_len
    <3>1. buffer_pos' = 0 /\ buffer_len \in Nat
      BY <1>1, <1>2, <2>2, Numbers DEF Room
    <3> QED
      BY <1>2, <2>2, <3>1 DEF Length
  <2> QED
    BY <1>3, <2>1, <2>2
<1>6. SourceOK' /\ Position' /\ Window' /\ Fits' /\ (Stuck => Stuck')
  BY <1>2, <1>4, <1>5, Kept
<1>7. Types'
  <2>1. opened' \in 0..BufferSize /\ buffer_pos' \in 0..opened'
    <3>1. CASE pc = "encoding" /\ opened' = opened
      BY <1>1, <1>2, <3>1 DEF Types
    <3>2. CASE pc = "fill" /\ opened' = buffer_len
      BY <1>1, <1>2, <3>2, Numbers, Sizes DEF Types, Room
    <3> QED
      BY <1>3, <3>1, <3>2
  <2>2. failures' \in 0..MaxFailures
    BY <1>1, <1>2, Sizes DEF Types
  <2>3. WellFormed' = WellFormed /\ 0 \in 0..BufferSize
    BY <1>2, Fixed, Sizes
  <2> QED
    BY <1>1, <1>2, <2>1, <2>2, <2>3 DEF Types
<1>8. Fresh'
  BY <1>1, <1>2, <1>3 DEF Fresh
<1>9. Room'
  BY <1>2, <1>6 DEF Room
<1>10. Answer'
  BY <1>2 DEF Answer
<1> QED
  BY <1>6, <1>7, <1>8, <1>9, <1>10 DEF Inv

-----------------------------------------------------------------------------

\* The unread part of the buffer is moved to the beginning.
LEMMA Opening ==
  ASSUME Types, pc \in {"idle", "encoding"}, Opens
  PROVE  /\ pc' = "fill" /\ buffer_pos' = 0 /\ opened' = BufferSize /\ buffer_len' = Length /\ Length' = Length
         /\ \A i \in 1..Length : buffer'[buffer_pos' + i] = buffer[buffer_pos + i]
         /\ Length \in 0..BufferSize
         /\ UNCHANGED <<unread, first>>
<1>1. pc' = "fill" /\ opened' = BufferSize /\ UNCHANGED <<unread, first>> /\ Moved
  BY DEF Opens
<1>2. /\ Length = opened - buffer_pos
      /\ BufferSize \in Nat /\ opened \in 0..BufferSize /\ buffer_pos \in 0..opened
  BY Sizes DEF Length, Types
<1>3. CASE 0 < buffer_pos /\ buffer_pos < opened
  <2>1. /\ buffer' = [i \in 1..BufferSize |->
                         IF i + buffer_pos <= opened THEN buffer[i + buffer_pos] ELSE buffer[i]]
        /\ buffer_len' = opened - buffer_pos
        /\ buffer_pos' = 0
    BY <1>1, <1>3 DEF Moved
  <2>2. ASSUME NEW i \in 1..Length PROVE buffer'[buffer_pos' + i] = buffer[buffer_pos + i]
    <3>1. i \in 1..BufferSize /\ i + buffer_pos <= opened /\ i + buffer_pos = buffer_pos + i /\ 0 + i = i
      BY <1>2
    <3>2. buffer'[i] = buffer[i + buffer_pos]
      BY <2>1, <3>1
    <3> QED
      BY <2>1, <3>1, <3>2
  <2> QED
    BY <1>1, <1>2, <2>1, <2>2 DEF Length
<1>4. CASE ~ (0 < buffer_pos /\ buffer_pos < opened)
  <2>1. /\ buffer_len' = IF buffer_pos = opened THEN 0 ELSE opened
        /\ buffer_pos' = IF buffer_pos = opened THEN 0 ELSE buffer_pos
        /\ UNCHANGED buffer
    BY <1>1, <1>4 DEF Moved
  <2>2. buffer_pos' = 0 /\ buffer_len' = Length /\ (Length = 0 \/ buffer_pos = 0)
    BY <1>2, <1>4, <2>1
  <2>3. \A i \in 1..Length : buffer'[buffer_pos' + i] = buffer[buffer_pos + i]
    BY <1>2, <2>1, <2>2
  <2> QED
    BY <1>1, <1>2, <2>2, <2>3 DEF Length
<1> QED
  BY <1>3, <1>4

\* A call finds enough characters, or makes room for more.
LEMMA CallStep ==
  ASSUME Inv, Call
  PROVE  Inv'
<1>1. SourceOK /\ Types /\ Position /\ Fresh /\ Room /\ Window /\ Answer
  BY DEF Inv
<1>2. PICK length \in 1..MaxLength :
        /\ requested' = length
        /\ \/ unread >= length /\ Return("ok") /\ UNCHANGED bufferSide
           \/ /\ unread < length /\ encoding = "any"
              /\ pc' = "encoding"
              /\ result' = "none"
              /\ UNCHANGED <<bufferSide, locals>>
           \/ unread < length /\ encoding # "any" /\ Opens /\ result' = "none"
  BY DEF Call
<1>3. /\ pc = "idle"
      /\ UNCHANGED <<source, failures, encoding, raw, raw_buffer_pos, delivered, eof, error, taken>>
  BY DEF Call, rawSide
<1>4. requested' \in 0..MaxLength /\ requested' >= 1 /\ requested' = length
  BY <1>2, Sizes
<1>5. RawMoves
  BY <1>1, <1>3, RawStays
<1>6. WellFormed' = WellFormed /\ (SourceOK => SourceOK')
  BY <1>3, Fixed
<1>7. CASE unread >= length /\ Return("ok") /\ UNCHANGED bufferSide
  <2>1. /\ pc' = "idle" /\ result' = "ok" /\ first' = TRUE /\ buffer_len' = 0
        /\ UNCHANGED <<buffer, opened, buffer_pos, unread>>
    BY <1>7 DEF Return, bufferSide
  <2>2. Length' = Length /\ Length = opened - buffer_pos
    BY <1>3, <2>1 DEF Length
  <2>3. SourceOK' /\ Position' /\ Window' /\ Fits' /\ (Stuck => Stuck')
    BY <1>3, <1>5, <2>1, <2>2, Kept
  <2>4. Types'
    BY <1>1, <1>3, <1>4, <1>6, <2>1, Sizes DEF Types
  <2>5. Fresh'
    BY <1>1, <1>3, <2>1 DEF Fresh
  <2>6. Room'
    BY <2>1, <2>3 DEF Room
  <2>7. requested' <= opened' - buffer_pos'
    <3>1. UnreadBytes <= Length
      BY <1>1 DEF Room, Fits
    <3>2. unread <= UnreadBytes /\ UnreadBytes \in Nat /\ unread \in Nat
      BY <1>1, Arrivals DEF Types
    <3>3. Length \in Nat /\ length \in Nat
      BY <1>1, Numbers
    <3> QED
      BY <1>4, <1>7, <2>1, <2>2, <3>1, <3>2, <3>3
  <2>8. Answer'
    BY <1>1, <1>3, <1>4, <1>7, <2>1, <2>3, <2>7 DEF Answer
  <2> QED
    BY <2>3, <2>4, <2>5, <2>6, <2>8 DEF Inv
<1>8. CASE /\ unread < length /\ encoding = "any"
           /\ pc' = "encoding"
           /\ result' = "none"
           /\ UNCHANGED <<bufferSide, locals>>
  <2>1. UNCHANGED <<buffer, opened, buffer_pos, unread, first, buffer_len>>
    BY <1>8 DEF bufferSide, locals
  <2>2. Length' = Length
    BY <1>3, <1>8, <2>1 DEF Length
  <2>3. SourceOK' /\ Position' /\ Window' /\ Fits' /\ (Stuck => Stuck')
    BY <1>3, <1>5, <2>1, <2>2, Kept
  <2>4. Types'
    BY <1>1, <1>3, <1>4, <1>6, <1>8, <2>1 DEF Types
  <2>5. Fresh'
    BY <1>1, <1>3, <1>8, <2>1 DEF Fresh
  <2>6. Room'
    BY <1>4, <1>8, <2>3 DEF Room
  <2>7. Answer'
    BY <1>1, <1>3, <1>8, <2>3 DEF Answer
  <2> QED
    BY <2>3, <2>4, <2>5, <2>6, <2>7 DEF Inv
<1>9. CASE unread < length /\ encoding # "any" /\ Opens /\ result' = "none"
  <2>1. /\ pc' = "fill" /\ buffer_pos' = 0 /\ opened' = BufferSize /\ buffer_len' = Length /\ Length' = Length
        /\ \A i \in 1..Length : buffer'[buffer_pos' + i] = buffer[buffer_pos + i]
        /\ Length \in 0..BufferSize
        /\ UNCHANGED <<unread, first>>
    BY <1>1, <1>3, <1>9, Opening
  <2>2. Stuck => Stuck'
    BY <1>1, <1>3, <1>5, <2>1, StuckStays
  <2>3. Position'
    BY <1>1, <1>3, <1>5, <2>1, PositionStep
  <2>4. Window' /\ Fits'
    BY <1>1, <1>3, <2>1, <2>2, WindowStep
  <2>5. Types'
    BY <1>1, <1>3, <1>4, <1>6, <1>9, <2>1, Sizes DEF Types
  <2>6. Fresh'
    BY <1>3, <1>9, <2>1 DEF Fresh
  <2>7. Room'
    BY <1>4, <2>1, <2>4 DEF Room
  <2>8. Answer'
    BY <1>1, <1>3, <1>9, <2>2 DEF Answer
  <2> QED
    BY <1>1, <1>6, <2>3, <2>4, <2>5, <2>6, <2>7, <2>8 DEF Inv
<1> QED
  BY <1>2, <1>7, <1>8, <1>9

\* A byte order mark, or its absence, is recognised: it has arrived, or the stream
\* is shorter.
LEMMA DetermineEncodingStep ==
  ASSUME Inv, DetermineEncoding
  PROVE  Inv'
<1>1. SourceOK /\ Types /\ Position /\ Fresh /\ Room /\ Window /\ Answer
  BY DEF Inv
<1>2. /\ pc = "encoding" /\ (eof \/ RawUnread >= 3) /\ Opens
      /\ UNCHANGED <<source, requested, taken, delivered, failures, raw, eof, error, result>>
  BY DEF DetermineEncoding, EnoughForBom, caller
<1>3. encoding = "any" /\ taken = 0 /\ unread = 0 /\ error # "decode"
  BY <1>1, <1>2 DEF Fresh
<1>4. raw_buffer_pos = 0 /\ delivered = Len(raw) /\ RawUnread = Len(raw) /\ Len(raw) \in Nat
  BY <1>1, <1>3 DEF Position, RawUnread
<1>5. BomWidth \in 0..3 /\ RawUnread >= BomWidth
  <2>1. BomWidth \in 0..3
    BY <1>1, Starts
  <2>2. CASE eof
    <3>1. delivered = StreamSize
      BY <1>1, <2>2 DEF Position
    <3>2. N \in Nat /\ 1 \in 1..N + 1 /\ N + 1 \in 1..N + 1
      BY <1>1, Lengths
    <3>3. N <= StartOf(N + 1) - StartOf(1) /\ StartOf(1) = BomWidth + 1 /\ StartOf(N + 1) \in Nat
      <4>1. (N + 1) - 1 <= StartOf(N + 1) - StartOf(1)
        BY <1>1, <3>2, Starts
      <4> QED
        BY <1>1, <3>2, <4>1, Starts
    <3>4. source.flaw = "cut" => N > 0
      BY <1>1 DEF SourceOK
    <3> QED
      BY <1>1, <1>4, <2>1, <3>1, <3>2, <3>3, <3>4, StreamEnd
  <2>3. CASE RawUnread >= 3
    BY <1>4, <2>1, <2>3
  <2> QED
    BY <1>2, <2>1, <2>2, <2>3
<1>6. encoding' = Encoding /\ raw_buffer_pos' = BomWidth
  <2>1. encoding' = IF BomWidth = 0 THEN "utf8" ELSE Encoding
    BY <1>5 DEF DetermineEncoding
  <2>2. raw_buffer_pos' = raw_buffer_pos + BomWidth
    BY <1>5 DEF DetermineEncoding
  <2>3. BomWidth = 0 => Encoding = "utf8"
    BY <1>1 DEF SourceOK, BomWidth, Encoding
  <2> QED
    BY <1>4, <1>5, <2>1, <2>2, <2>3
<1>7. /\ pc' = "fill" /\ buffer_pos' = 0 /\ opened' = BufferSize /\ buffer_len' = Length /\ Length' = Length
      /\ \A i \in 1..Length : buffer'[buffer_pos' + i] = buffer[buffer_pos + i]
      /\ Length \in 0..BufferSize
      /\ UNCHANGED <<unread, first>>
  BY <1>1, <1>2, Opening
<1>8. ~Stuck
  BY <1>3 DEF Stuck
<1>9. /\ WellFormed' = WellFormed /\ StreamSize' = StreamSize /\ Encoding' = Encoding /\ SourceOK'
      /\ Arrived' = Arrived /\ Nuls' = Nuls
  BY <1>1, <1>2, <1>7, Fixed, SameText
<1>10. Arrived = 0 /\ Nuls = 0
  BY <1>1, <1>3, Lengths DEF Arrived, Nuls
<1>11. Position'
  <2>1. RawUnread' = Len(raw) - BomWidth
    BY <1>2, <1>6 DEF RawUnread
  <2>2. (StartOf(Arrived + 1))' = BomWidth + 1
    <3>1. (StartOf(Arrived + 1))' = StartOf(1)
      BY <1>2, <1>9, <1>10 DEF StartOf, Sums, RawWidth, Chars, BomWidth, Encoding
    <3> QED
      BY <1>1, <3>1, Starts
  <2>3. delivered' - RawUnread' + 1 = (StartOf(Arrived + 1))'
    BY <1>2, <1>4, <1>5, <2>1, <2>2
  <2>4. raw_buffer_pos' \in 0..Len(raw')
    BY <1>2, <1>4, <1>5, <1>6
  <2>5. encoding' # "any" /\ encoding' = Encoding'
    BY <1>1, <1>6, <1>9, Starts
  <2> QED
    BY <1>1, <1>2, <1>9, <1>10, <2>3, <2>4, <2>5 DEF Position
<1>12. Window' /\ Fits'
  BY <1>1, <1>2, <1>7, <1>8, WindowStep
<1>13. Types'
  BY <1>1, <1>2, <1>6, <1>7, <1>9, Sizes, Starts DEF Types
<1>14. Fresh'
  BY <1>1, <1>6, <1>7, Starts DEF Fresh
<1>15. Room'
  BY <1>1, <1>2, <1>7, <1>12 DEF Room
<1>16. Answer'
  BY <1>1, <1>2, <1>3 DEF Answer
<1> QED
  BY <1>9, <1>11, <1>12, <1>13, <1>14, <1>15, <1>16 DEF Inv

-----------------------------------------------------------------------------

\* What the raw buffer holds next is the first character that has not been decoded.
LEMMA AtNext ==
  ASSUME SourceOK, Types, Position, encoding # "any", RawUnread > 0
  PROVE  /\ NextChar = Arrived + 1 /\ Arrived + 1 \in 1..N
         /\ Nuls = 0 /\ Arrived = taken + unread
         /\ encoding = Encoding
         /\ delivered - RawUnread + 1 = StartOf(Arrived + 1)
<1>1. /\ N \in Nat /\ Arrived \in 0..N /\ Nuls \in Nat /\ Arrived + Nuls = taken + unread
      /\ taken \in Nat /\ unread \in Nat
  BY Lengths, Arrivals, Numbers DEF Types
<1>2. Nuls = 0
  BY <1>1 DEF Position
<1>3. encoding = Encoding /\ delivered - RawUnread + 1 = StartOf(Arrived + 1)
  BY DEF Position
<1>4. /\ delivered \in Nat /\ delivered <= StreamSize /\ StreamSize \in Nat
      /\ RawUnread \in Nat /\ raw_buffer_pos \in Nat /\ Len(raw) \in Nat
      /\ RawUnread = Len(raw) - raw_buffer_pos
  BY Numbers, StreamEnd DEF Position
<1>5. Arrived + 1 \in 1..N
  <2>1. StartOf(N + 1) \in Nat /\ StreamSize <= StartOf(N + 1) - 1
    <3>1. N + 1 \in 1..N + 1
      BY <1>1
    <3>2. StartOf(N + 1) \in Nat
      BY <3>1, Starts
    <3> QED
      BY <3>2, StreamEnd
  <2>2. Arrived # N
    <3> SUFFICES ASSUME Arrived = N PROVE FALSE
      OBVIOUS
    <3>1. delivered - RawUnread + 1 = StartOf(N + 1)
      BY <1>3
    <3> QED
      BY <1>4, <2>1, <3>1
  <2> QED
    BY <1>1, <2>2
<1>6. raw[raw_buffer_pos + 1] = StartOf(Arrived + 1)
  <2>1. raw_buffer_pos + 1 \in 1..Len(raw)
    BY <1>4
  <2>2. raw[raw_buffer_pos + 1] = delivered - Len(raw) + (raw_buffer_pos + 1)
    BY <2>1 DEF Position
  <2> QED
    BY <1>3, <1>4, <2>2
<1>7. NextChar = Arrived + 1
  BY <1>5, <1>6, CharAtStart DEF NextChar
<1> QED
  BY <1>1, <1>2, <1>3, <1>5, <1>7

\* A character that has arrived and is well-formed is none behind the flaw.
LEMMA BeforeFlaw ==
  ASSUME SourceOK, Types, Position, encoding # "any", RawUnread > 0,
         RawUnread >= RawWidth(NextChar, encoding), ~Malformed(NextChar)
  PROVE  Arrived + 1 <= WellFormed /\ ~Stuck
<1>1. /\ NextChar = Arrived + 1 /\ Arrived + 1 \in 1..N /\ Arrived = taken + unread /\ encoding = Encoding
      /\ delivered - RawUnread + 1 = StartOf(Arrived + 1)
  BY AtNext
<1>2. N \in Nat /\ WellFormed \in 0..N /\ Arrived \in 0..N
  BY Lengths, Arrivals DEF Types
<1>3. Arrived + 1 <= WellFormed
  <2> SUFFICES ASSUME ~ (Arrived + 1 <= WellFormed) PROVE FALSE
    OBVIOUS
  <2>1. source.flaw # "none" /\ Arrived + 1 = N
    BY <1>1, <1>2, Lengths
  <2>2. source.flaw = "cut"
    BY <1>1, <2>1 DEF Malformed, SourceOK, N
  <2>3. StreamSize = StartOf(N + 1) - 2 /\ StreamSize \in Nat /\ N \in 1..N /\ N + 1 \in 1..N + 1 /\ N \in 1..N + 1
    <3>1. N \in 1..N /\ N + 1 \in 1..N + 1 /\ N \in 1..N + 1
      BY <1>2, <2>1
    <3>2. StartOf(N + 1) \in Nat
      BY <3>1, Starts
    <3> QED
      BY <2>2, <3>1, <3>2, StreamEnd
  <2>4. StartOf(N + 1) = StartOf(N) + RawWidth(N, Encoding) /\ RawWidth(N, Encoding) \in 1..4
    BY <2>3, Starts
  <2>5. delivered \in Nat /\ delivered <= StreamSize /\ RawUnread \in Nat
    BY Numbers, StreamEnd DEF Position
  <2>6. RawUnread >= RawWidth(N, Encoding) /\ delivered - RawUnread + 1 = StartOf(N)
    BY <1>1, <2>1
  <2>7. StartOf(N) \in Nat /\ StartOf(N + 1) \in Nat
    BY <2>3, Starts
  <2> QED
    BY <2>3, <2>4, <2>5, <2>6, <2>7
<1>4. ~Stuck
  <2>1. WellFormed \in Nat /\ Arrived \in Nat
    BY <1>2
  <2> QED
    BY <1>1, <1>3, <2>1 DEF Stuck
<1> QED
  BY <1>3, <1>4

\* A decoded character is appended to the window, and fits.
LEMMA DecodeCharStep ==
  ASSUME Inv, DecodeChar
  PROVE  Inv'
<1>1. PICK c : c = Arrived + 1
  OBVIOUS
<1> DEFINE w == source.widths[c]
           rw == RawWidth(c, Encoding)
<1>2. SourceOK /\ Types /\ Position /\ Fresh /\ Room /\ Window /\ Answer
  BY DEF Inv
<1>3. /\ pc = "decode" /\ RawUnread > 0 /\ RawUnread >= RawWidth(NextChar, encoding) /\ ~Malformed(NextChar)
      /\ raw_buffer_pos' = raw_buffer_pos + RawWidth(NextChar, encoding)
      /\ buffer' = [i \in 1..BufferSize |->
            IF i - buffer_len \in DOMAIN BytesOf(NextChar) THEN BytesOf(NextChar)[i - buffer_len] ELSE buffer[i]]
      /\ buffer_len' = buffer_len + source.widths[NextChar]
      /\ unread' = unread + 1
      /\ UNCHANGED <<source, requested, taken, delivered, failures, raw, eof, encoding, opened, buffer_pos,
                     error, pc, first, result>>
  BY DEF DecodeChar, AtChar, caller
<1>4. encoding # "any"
  BY <1>2, <1>3 DEF Fresh
<1>5. /\ NextChar = c /\ c \in 1..N /\ Nuls = 0 /\ Arrived = taken + unread /\ encoding = Encoding
      /\ delivered - RawUnread + 1 = StartOf(c)
  BY <1>1, <1>2, <1>3, <1>4, AtNext
<1>6. c <= WellFormed /\ ~Stuck
  BY <1>1, <1>2, <1>3, <1>4, BeforeFlaw
<1>7. /\ N \in Nat /\ WellFormed \in 0..N /\ taken \in 0..WellFormed /\ unread \in Nat /\ taken \in Nat
      /\ Arrived \in taken..WellFormed /\ Arrived \in 0..N
  BY <1>2, Lengths, Arrivals, Numbers DEF Types
<1>8. /\ w \in 1..4 /\ rw \in 1..4 /\ 2 * w <= 3 * rw
      /\ StartOf(c + 1) = StartOf(c) + rw /\ StartOf(c) \in Nat
  <2>1. c \in 1..N + 1
    BY <1>5, <1>7
  <2> QED
    BY <1>2, <1>5, <2>1, Lengths, Starts
<1>9. /\ raw_buffer_pos' = raw_buffer_pos + rw /\ RawUnread >= rw /\ buffer_len' = buffer_len + w
      /\ DOMAIN BytesOf(c) = 1..w /\ \A k \in 1..w : BytesOf(c)[k] = <<c, k>>
  BY <1>3, <1>5 DEF BytesOf
<1>10. /\ WellFormed' = WellFormed /\ StreamSize' = StreamSize /\ Encoding' = Encoding /\ SourceOK'
       /\ \A d : BytesTo(d)' = BytesTo(d)
  <2>1. \A d : Offset(d)' = Offset(d)
    BY <1>3, Fixed
  <2> QED
    BY <1>2, <1>3, <2>1, Fixed DEF BytesTo
<1>11. Arrived' = c /\ Nuls' = 0
  <2>1. taken' + unread' = c /\ c \in Nat
    BY <1>1, <1>3, <1>5, <1>7
  <2> QED
    <3>1. WellFormed' = WellFormed /\ c <= WellFormed
      BY <1>6, <1>10
    <3>2. Arrived' = c
      BY <2>1, <3>1 DEF Arrived
    <3>3. taken' \in Nat /\ unread' \in Nat
      BY <1>3, <1>7
    <3>4. Nuls' = taken' + unread' - Arrived'
      BY DEF Nuls
    <3>5. Nuls' = taken' + unread' - c
      BY <3>2, <3>4
    <3>6. \A a, b \in Nat : a + b - (a + b) = 0
      OBVIOUS
    <3>7. Nuls' = 0
      BY <2>1, <3>3, <3>5, <3>6
    <3> QED
      BY <3>2, <3>7
<1>12. /\ buffer_len = UnreadBytes /\ UnreadBytes = BytesTo(Arrived) /\ UnreadBytes \in Nat
       /\ 2 * buffer_len + 3 * RawUnread <= 8 * (MaxLength - 1) + 3 * RawSize
       /\ buffer_pos = 0 /\ opened = BufferSize
  <2>1. UnreadBytes \in Nat
    BY <1>2, <1>7, Arrivals
  <2>2. BytesTo(Arrived) \in Nat
    BY <1>2, <1>7, Arrivals
  <2> QED
    BY <1>2, <1>3, <1>5, <1>6, <2>1, <2>2 DEF Room, Fits, Length, UnreadBytes
<1>13. UnreadBytes' = UnreadBytes + w /\ BytesTo(c) = BytesTo(Arrived) + w /\ c - 1 = Arrived
  <2>1. c \in taken + 1..N /\ c - 1 = Arrived
    BY <1>1, <1>5, <1>7
  <2>2. BytesTo(c) = BytesTo(Arrived) + w
    BY <1>2, <1>7, <2>1, Arrivals
  <2>3. UnreadBytes' = BytesTo(c)' + 0
    BY <1>11 DEF UnreadBytes, BytesTo, Offset, Sums
  <2>4. BytesTo(c)' = BytesTo(c)
    BY <1>10
  <2> QED
    BY <1>8, <1>12, <2>1, <2>2, <2>3, <2>4
<1>14. RawUnread' = RawUnread - rw /\ RawUnread' \in Nat /\ raw_buffer_pos' \in 0..Len(raw')
  <2>1. RawUnread = Len(raw) - raw_buffer_pos /\ Len(raw) \in Nat /\ raw_buffer_pos \in Nat
    BY <1>2, Numbers
  <2>2. RawUnread' = Len(raw) - (raw_buffer_pos + rw) /\ raw_buffer_pos' = raw_buffer_pos + rw /\ Len(raw') = Len(raw)
    BY <1>3, <1>9 DEF RawUnread
  <2>3. rw \in Nat /\ rw <= RawUnread
    BY <1>8, <1>9
  <2>4. \A l, p, r \in Nat : r <= l - p =>
          l - (p + r) = l - p - r /\ l - (p + r) \in Nat /\ p + r \in 0..l
    OBVIOUS
  <2> HIDE DEF rw, w
  <2> QED
    BY <2>1, <2>2, <2>3, <2>4
<1>15. /\ buffer_len' \in 0..BufferSize
       /\ 2 * buffer_len' + 3 * RawUnread' <= 8 * (MaxLength - 1) + 3 * RawSize
  <2> HIDE DEF rw, w
  <2>1. \A b, r, x, y, m, s \in Nat :
          /\ x <= r /\ 2 * y <= 3 * x
          /\ 2 * b + 3 * r <= 8 * (m - 1) + 3 * s
          => 2 * (b + y) + 3 * (r - x) <= 8 * (m - 1) + 3 * s
    OBVIOUS
  <2>2. /\ buffer_len \in Nat /\ RawUnread \in Nat /\ MaxLength \in Nat /\ RawSize \in Nat
        /\ rw \in Nat /\ w \in Nat
    <3>1. buffer_len \in Nat /\ RawUnread \in Nat
      BY <1>2, Numbers
    <3>2. rw \in Nat /\ w \in Nat
      BY <1>8
    <3> QED
      BY <3>1, <3>2, Sizes
  <2>3. 2 * (buffer_len + w) + 3 * (RawUnread - rw) <= 8 * (MaxLength - 1) + 3 * RawSize
    <3>1. rw <= RawUnread /\ 2 * w <= 3 * rw
      BY <1>8, <1>9
    <3>2. 2 * buffer_len + 3 * RawUnread <= 8 * (MaxLength - 1) + 3 * RawSize
      BY <1>12
    <3> QED
      BY <2>1, <2>2, <3>1, <3>2
  <2>4. 2 * buffer_len' + 3 * RawUnread' <= 8 * (MaxLength - 1) + 3 * RawSize
    BY <1>9, <1>14, <2>3
  <2>5. buffer_len' \in Nat
    BY <1>9, <2>2
  <2>6. 8 * (MaxLength - 1) + 3 * RawSize + 1 <= 2 * BufferSize /\ BufferSize \in Nat
    BY Sizes
  <2>7. \A b, r, m, s, z \in Nat :
          2 * b + 3 * r <= 8 * (m - 1) + 3 * s /\ 8 * (m - 1) + 3 * s + 1 <= 2 * z => b <= z
    OBVIOUS
  <2>8. buffer_len' <= BufferSize
    BY <1>14, <2>2, <2>4, <2>5, <2>6, <2>7
  <2> QED
    BY <2>4, <2>5, <2>6, <2>8
<1>16. Types'
  BY <1>2, <1>3, <1>7, <1>10, <1>15 DEF Types
<1>17. Fresh'
  BY <1>2, <1>3, <1>4 DEF Fresh
<1>18. Position'
  <2>1. (StartOf(Arrived + 1))' = StartOf(c + 1)
    BY <1>3, <1>11 DEF StartOf, Sums, RawWidth, Chars, BomWidth, Encoding
  <2>2. delivered' - RawUnread' + 1 = (StartOf(Arrived + 1))'
    <3>1. delivered \in Nat /\ RawUnread \in Nat
      BY <1>2, Numbers
    <3> HIDE DEF rw, w
    <3> QED
      BY <1>3, <1>5, <1>8, <1>14, <2>1, <3>1
  <2> QED
    BY <1>2, <1>3, <1>4, <1>5, <1>10, <1>11, <1>14, <2>2 DEF Position
<1>19. Length' = UnreadBytes' /\ Length = buffer_len
  BY <1>3, <1>9, <1>12, <1>13 DEF Length
<1>20. Room'
  <2>1. Fits'
    BY <1>11, <1>12, <1>13, <1>19, <1>8 DEF Fits
  <2> QED
    BY <1>2, <1>3, <1>11, <1>15, <2>1 DEF Room
<1>21. Window'
  <2>1. ASSUME NEW d \in taken + 1..c, NEW k \in 1..source.widths[d]
        PROVE  buffer'[buffer_pos + BytesTo(d - 1) + k] = <<d, k>>
    <3>1. CASE d = c
      <4>1. BytesTo(d - 1) = buffer_len /\ k \in 1..w
        BY <1>12, <1>13, <3>1
      <4>2. buffer_len + k \in 1..BufferSize /\ (buffer_len + k) - buffer_len = k /\ 0 + buffer_len + k = buffer_len + k
        <5>1. buffer_len + w <= BufferSize /\ buffer_len \in Nat /\ w \in Nat /\ BufferSize \in Nat
          <6>1. buffer_len \in Nat /\ BufferSize \in Nat
            BY <1>2, Numbers, Sizes
          <6>2. buffer_len' = buffer_len + w /\ buffer_len' <= BufferSize /\ w \in Nat
            <7>1. w \in Nat
              BY <1>8
            <7>2. buffer_len' <= BufferSize
              BY <1>15, <6>1
            <7> QED
              BY <1>9, <7>1, <7>2
          <6> HIDE DEF w
          <6> QED
            BY <6>1, <6>2
        <5> HIDE DEF w
        <5> QED
          BY <4>1, <5>1
      <4>3. buffer'[buffer_len + k] = BytesOf(c)[k]
        BY <1>3, <1>5, <1>9, <4>1, <4>2
      <4> QED
        BY <1>9, <1>12, <3>1, <4>1, <4>2, <4>3
    <3>2. CASE d # c
      <4>1. d \in taken + 1..Arrived
        BY <1>1, <1>7, <3>2
      <4>2. BytesTo(d - 1) \in Nat /\ BytesTo(d - 1) + k \in 1..BytesTo(Arrived)
        BY <1>2, <1>7, <4>1, InWindow
      <4>3. BytesTo(d - 1) + k \in 1..BufferSize /\ BytesTo(d - 1) + k <= buffer_len
        <5>1. buffer_len \in Nat /\ buffer_len <= BufferSize /\ BufferSize \in Nat
          BY <1>2, Numbers, Sizes
        <5>2. buffer_len = BytesTo(Arrived)
          BY <1>12
        <5>3. BytesTo(d - 1) + k \in 1..buffer_len
          BY <4>2, <5>2
        <5>4. \A b, z \in Nat : b <= z => \A x \in 1..b : x \in 1..z /\ x <= b
          OBVIOUS
        <5> QED
          BY <5>1, <5>3, <5>4
      <4>4. ~ ((BytesTo(d - 1) + k) - buffer_len \in 1..w)
        <5>1. buffer_len \in Nat
          BY <1>2, Numbers
        <5>2. \A b \in Nat : \A x \in 1..BufferSize : x <= b => ~ (x - b >= 1)
          OBVIOUS
        <5> QED
          BY <4>3, <5>1, <5>2
      <4>5. buffer'[BytesTo(d - 1) + k] = buffer[BytesTo(d - 1) + k]
        BY <1>3, <1>5, <1>9, <4>3, <4>4
      <4>6. buffer[buffer_pos + BytesTo(d - 1) + k] = <<d, k>>
        BY <1>2, <4>1 DEF Window
      <4>7. buffer_pos + BytesTo(d - 1) + k = BytesTo(d - 1) + k
        BY <1>12, <4>2
      <4> QED
        BY <4>5, <4>6, <4>7
    <3> QED
      BY <3>1, <3>2
  <2>2. \A d \in taken' + 1..Arrived' : \A k \in 1..source'.widths[d] :
          buffer'[buffer_pos' + (BytesTo(d - 1))' + k] = <<d, k>>
    <3>1. \A d : (BytesTo(d - 1))' = BytesTo(d - 1)
      BY <1>10
    <3>2. source' = source /\ taken' = taken /\ buffer_pos' = buffer_pos /\ Arrived' = c
      BY <1>3, <1>11
    <3> QED
      BY <2>1, <3>1, <3>2
  <2>3. ~ (Nuls' > 0)
    BY <1>11
  <2> QED
    BY <2>2, <2>3 DEF Window
<1>22. Answer'
  BY <1>2, <1>3, <1>6 DEF Answer
<1> QED
  BY <1>10, <1>16, <1>17, <1>18, <1>20, <1>21, <1>22 DEF Inv

\* Only a flaw is refused.
LEMMA DecodeFailsStep ==
  ASSUME Inv, DecodeFails
  PROVE  Inv'
<1>1. SourceOK /\ Types /\ Position /\ Fresh /\ Room /\ Window /\ Answer
  BY DEF Inv
<1>2. /\ pc = "decode" /\ RawUnread > 0
      /\ IF RawUnread < RawWidth(NextChar, encoding) THEN eof ELSE Malformed(NextChar)
      /\ error' = "decode" /\ pc' = "idle" /\ result' = "failed" /\ first' = TRUE /\ buffer_len' = 0
      /\ UNCHANGED <<source, requested, taken, delivered, failures, raw, raw_buffer_pos, eof, encoding,
                     buffer, opened, buffer_pos, unread>>
  BY DEF DecodeFails, AtChar, IncompleteFails, Return, caller, rawSide, bufferSide
<1>3. encoding # "any"
  BY <1>1, <1>2 DEF Fresh
<1>4. PICK c : c = Arrived + 1
  OBVIOUS
<1>5. /\ NextChar = c /\ c \in 1..N /\ Nuls = 0 /\ Arrived = taken + unread /\ encoding = Encoding
      /\ delivered - RawUnread + 1 = StartOf(c)
  BY <1>4, <1>1, <1>2, <1>3, AtNext
<1>6. /\ N \in Nat /\ taken \in 0..WellFormed /\ unread \in Nat /\ Arrived \in 0..N
      /\ RawUnread \in Nat /\ delivered \in Nat
  BY <1>1, Lengths, Arrivals, Numbers DEF Types
<1>7. /\ RawWidth(c, Encoding) \in 1..4 /\ StartOf(c + 1) = StartOf(c) + RawWidth(c, Encoding)
      /\ StartOf(c) \in Nat /\ StartOf(c + 1) \in Nat /\ StartOf(N + 1) \in Nat
      /\ (N + 1) - (c + 1) <= StartOf(N + 1) - StartOf(c + 1)
  <2>1. c \in 1..N + 1 /\ c + 1 \in 1..N + 1 /\ N + 1 \in 1..N + 1 /\ N + 1 \in c + 1..N + 1
    BY <1>5, <1>6
  <2> QED
    BY <1>1, <1>5, <2>1, Starts
<1>8. Stuck
  <2>1. CASE RawUnread < RawWidth(c, Encoding)
    <3>1. eof /\ delivered = StreamSize
      BY <1>1, <1>2, <1>5, <2>1 DEF Position
    <3>2. StartOf(c + 1) > StreamSize + 1
      BY <1>5, <1>6, <1>7, <2>1, <3>1
    <3>3. source.flaw = "cut" /\ c = N
      <4>1. /\ StreamSize \in Nat
            /\ StreamSize = StartOf(N + 1) - 1 - (IF source.flaw = "cut" THEN 1 ELSE 0)
        BY <1>1, StreamEnd
      <4> QED
        BY <1>5, <1>6, <1>7, <3>2, <4>1
    <3>4. taken + unread = WellFormed
      BY <1>4, <1>1, <1>5, <1>6, <3>3, Lengths
    <3> QED
      BY <1>2, <1>3, <3>1, <3>3, <3>4 DEF Stuck
  <2>2. CASE ~ (RawUnread < RawWidth(c, Encoding))
    <3>1. source.flaw = "malformed" /\ c = N
      BY <1>2, <1>5, <2>2 DEF Malformed, N
    <3>2. taken + unread = WellFormed
      BY <1>4, <1>1, <1>5, <1>6, <3>1, Lengths
    <3>3. RawUnread >= RawWidth(N, Encoding)
      BY <1>6, <1>7, <2>2, <3>1
    <3> QED
      BY <1>2, <1>3, <3>1, <3>2, <3>3 DEF Stuck
  <2> QED
    BY <2>1, <2>2
<1>9. RawMoves
  BY <1>1, <1>2, RawStays
<1>10. Position' /\ Stuck'
  BY <1>1, <1>2, <1>8, <1>9, PositionStep, StuckStays
<1>11. /\ WellFormed' = WellFormed /\ Arrived' = Arrived /\ Nuls' = Nuls /\ UnreadBytes' = UnreadBytes
       /\ (\A d : BytesTo(d)' = BytesTo(d)) /\ SourceOK'
  BY <1>1, <1>2, SameText, Fixed
<1>12. Types'
  BY <1>1, <1>2, <1>11, Sizes DEF Types
<1>13. Fresh'
  BY <1>2, <1>3 DEF Fresh
<1>14. Room'
  <2>1. Length' = BufferSize /\ Length = buffer_len
    BY <1>1, <1>2, Sizes DEF Room, Length
  <2>2. UnreadBytes <= buffer_len /\ buffer_len <= BufferSize /\ buffer_len \in Nat /\ BufferSize \in Nat
        /\ UnreadBytes \in Nat
    BY <1>1, <1>6, <2>1, Numbers, Sizes, Arrivals DEF Room, Fits
  <2>3. UnreadBytes' <= Length'
    BY <1>11, <2>1, <2>2
  <2>4. Fits'
    BY <1>5, <1>10, <1>11, <2>3 DEF Fits
  <2> QED
    BY <1>2, <2>4 DEF Room
<1>15. Window'
  BY <1>1, <1>2, <1>5, <1>11 DEF Window
<1>16. Answer'
  BY <1>2, <1>10 DEF Answer
<1> QED
  BY <1>10, <1>11, <1>12, <1>13, <1>14, <1>15, <1>16 DEF Inv

\* A call that has the characters it was asked for.
LEMMA FinishStep ==
  ASSUME Inv, Finish
  PROVE  Inv'
<1>1. SourceOK /\ Types /\ Position /\ Fresh /\ Room /\ Window /\ Answer
  BY DEF Inv
<1>2. /\ pc = "fill" /\ unread >= requested
      /\ buffer' = [i \in 1..BufferSize |->
                      IF i \in buffer_len + 1..Padded(buffer_len + 0) THEN Nul ELSE buffer[i]]
      /\ opened' = Padded(buffer_len + 0)
      /\ unread' = unread + 0
      /\ pc' = "idle" /\ result' = "ok" /\ first' = TRUE /\ buffer_len' = 0
      /\ UNCHANGED <<source, requested, taken, delivered, failures, raw, raw_buffer_pos, eof, encoding,
                     buffer_pos, error>>
  BY DEF Finish, ReturnsOk, Return, caller, rawSide
<1>3. /\ unread \in Nat /\ requested \in Nat /\ buffer_len \in Nat /\ buffer_len <= BufferSize /\ BufferSize \in Nat
  BY <1>1, Numbers, Sizes
<1>4. buffer_pos = 0 /\ Length = buffer_len /\ requested <= buffer_len
  <2>1. UnreadBytes <= Length /\ buffer_pos = 0 /\ Length = buffer_len
    BY <1>1, <1>2 DEF Room, Fits, Length
  <2>2. unread <= UnreadBytes /\ UnreadBytes \in Nat
    BY <1>1, Arrivals DEF Types
  <2> QED
    BY <1>2, <1>3, <2>1, <2>2
<1>5. opened' = buffer_len /\ unread' = unread /\ \A i \in 1..BufferSize : buffer'[i] = buffer[i]
  <2>1. Padded(buffer_len + 0) = buffer_len
    BY <1>3, <1>4 DEF Padded
  <2> QED
    BY <1>2, <1>3, <2>1
<1>6. Length' = Length /\ buffer_pos' \in Nat
      /\ \A i \in 1..Length : buffer'[buffer_pos' + i] = buffer[buffer_pos + i]
  BY <1>2, <1>3, <1>4, <1>5 DEF Length
<1>7. RawMoves
  BY <1>1, <1>2, RawStays
<1>8. Position' /\ (Stuck => Stuck')
  BY <1>1, <1>2, <1>5, <1>7, PositionStep, StuckStays
<1>9. Window' /\ Fits'
  BY <1>1, <1>2, <1>5, <1>6, <1>8, WindowStep
<1>10. WellFormed' = WellFormed /\ SourceOK'
  BY <1>1, <1>2, Fixed
<1>11. Types'
  BY <1>1, <1>2, <1>3, <1>4, <1>5, <1>10 DEF Types
<1>12. Fresh'
  BY <1>1, <1>2 DEF Fresh
<1>13. Room'
  BY <1>2, <1>9 DEF Room
<1>14. Answer'
  BY <1>1, <1>2, <1>3, <1>4, <1>5, <1>8 DEF Answer
<1> QED
  BY <1>8, <1>9, <1>10, <1>11, <1>12, <1>13, <1>14 DEF Inv

\* The end of the stream: a NUL behind the text, and more up to the length asked for.
LEMMA FinishAtEndStep ==
  ASSUME Inv, FinishAtEnd
  PROVE  Inv'
<1>1. SourceOK /\ Types /\ Position /\ Fresh /\ Room /\ Window /\ Answer
  BY DEF Inv
<1> DEFINE L == Padded(buffer_len + 1)
<1>2. /\ Decoded /\ pc = "decode" /\ eof
      /\ buffer' = [i \in 1..BufferSize |-> IF i \in buffer_len + 1..L THEN Nul ELSE buffer[i]]
      /\ opened' = L
      /\ unread' = unread + 1
      /\ pc' = "idle" /\ result' = "ok" /\ first' = TRUE /\ buffer_len' = 0
      /\ UNCHANGED <<source, requested, taken, delivered, failures, raw, raw_buffer_pos, eof, encoding,
                     buffer_pos, error>>
  BY DEF FinishAtEnd, Decoded, ReturnsOk, Return, caller, rawSide
<1>3. /\ unread \in Nat /\ requested \in Nat /\ requested <= MaxLength /\ MaxLength \in Nat
      /\ buffer_len \in Nat /\ buffer_len <= BufferSize /\ BufferSize \in Nat /\ RawSize \in Nat /\ RawSize >= 4
      /\ 8 * (MaxLength - 1) + 3 * RawSize + 1 <= 2 * BufferSize
      /\ taken \in 0..WellFormed /\ RawUnread \in Nat /\ delivered \in Nat
  BY <1>1, Numbers, Sizes DEF Types
<1>4. RawUnread = 0 /\ ~Stuck
  <2>1. ~ (RawUnread > 0)
    BY <1>2 DEF Decoded, IncompleteFails
  <2> QED
    BY <1>3, <2>1 DEF Stuck
<1>5. encoding # "any" /\ encoding = Encoding /\ delivered + 1 = StartOf(Arrived + 1) /\ delivered = StreamSize
  <2>1. encoding # "any"
    BY <1>1, <1>2 DEF Fresh
  <2>2. encoding = Encoding /\ delivered - RawUnread + 1 = StartOf(Arrived + 1) /\ delivered = StreamSize
    BY <1>1, <1>2, <2>1 DEF Position
  <2> QED
    BY <1>3, <1>4, <2>1, <2>2
<1>6. /\ N \in Nat /\ WellFormed \in 0..N /\ Arrived \in taken..WellFormed /\ Arrived \in 0..N
      /\ Nuls \in Nat /\ Nuls <= unread /\ Arrived + Nuls = taken + unread
      /\ UnreadBytes \in Nat /\ unread <= UnreadBytes /\ UnreadBytes <= 4 * unread
  BY <1>1, <1>3, Lengths, Arrivals
<1>7. source.flaw = "none" /\ Arrived = WellFormed
  <2>1. /\ Arrived + 1 \in 1..N + 1 /\ N + 1 \in Arrived + 1..N + 1
    BY <1>6
  <2>2. /\ StartOf(Arrived + 1) \in Nat /\ StartOf(N + 1) \in Nat
        /\ (N + 1) - (Arrived + 1) <= StartOf(N + 1) - StartOf(Arrived + 1)
    <3>1. N + 1 \in 1..N + 1
      BY <1>6
    <3> QED
      BY <1>1, <2>1, <3>1, Starts
  <2>3. StreamSize = StartOf(N + 1) - 1 - (IF source.flaw = "cut" THEN 1 ELSE 0)
    BY <1>1, StreamEnd
  <2>4. CASE source.flaw = "none"
    BY <1>1, <1>5, <1>6, <2>2, <2>3, <2>4, Lengths
  <2>5. CASE source.flaw = "malformed"
    <3>1. WellFormed = N - 1
      BY <1>1, <2>5, Lengths
    <3> QED
      BY <1>5, <1>6, <2>2, <2>3, <2>5, <3>1
  <2>6. CASE source.flaw = "cut"
    <3>1. WellFormed = N - 1 /\ N > 0
      BY <1>1, <2>6, Lengths
    <3>2. N \in 1..N /\ N \in 1..N + 1 /\ Arrived + 1 <= N
      BY <1>6, <3>1
    <3>3. StartOf(N + 1) = StartOf(N) + RawWidth(N, Encoding) /\ RawWidth(N, Encoding) > 1
          /\ RawWidth(N, Encoding) \in 1..4
      BY <1>1, <2>6, <3>2, Starts DEF SourceOK
    <3>4. N - (Arrived + 1) <= StartOf(N) - StartOf(Arrived + 1) /\ StartOf(N) \in Nat
      <4>1. N \in Arrived + 1..N + 1
        BY <1>6, <3>2
      <4> QED
        BY <1>1, <2>1, <3>2, <4>1, Starts
    <3>5. StreamSize = StartOf(N + 1) - 2
      BY <2>2, <2>3, <2>6
    <3>6. StartOf(Arrived + 1) = StartOf(N + 1) - 1
      BY <1>5, <2>2, <3>5
    <3> QED
      BY <1>6, <2>2, <3>2, <3>3, <3>4, <3>6
  <2> QED
    BY <1>1, <2>4, <2>5, <2>6 DEF SourceOK
<1>8. buffer_pos = 0 /\ Length = buffer_len /\ UnreadBytes <= buffer_len
  BY <1>1, <1>2 DEF Room, Fits, Length
<1>9. buffer_len + 1 <= BufferSize /\ requested <= BufferSize /\ requested >= 1
  <2>1. requested >= 1
    BY <1>1, <1>2 DEF Room
  <2>2. requested <= BufferSize
    BY <1>3, <2>1
  <2>3. CASE Nuls = 0
    <3>1. 2 * buffer_len + 3 * RawUnread <= 8 * (MaxLength - 1) + 3 * RawSize
      BY <1>1, <1>2, <1>4, <2>3 DEF Room
    <3> QED
      BY <1>3, <1>4, <2>1, <2>2, <3>1
  <2>4. CASE Nuls > 0
    <3>1. unread < requested
      BY <1>1, <1>2, <2>4 DEF Room
    <3>2. buffer_len = UnreadBytes \/ buffer_len <= MaxLength - 1 + Nuls
      BY <1>1, <1>8, <2>4 DEF Room, Fits
    <3>3. buffer_len <= 4 * (MaxLength - 1)
      BY <1>3, <1>6, <3>1, <3>2
    <3> QED
      BY <1>3, <2>1, <2>2, <3>3
  <2> QED
    BY <1>6, <2>1, <2>2, <2>3, <2>4
<1>10. /\ L \in Nat /\ L <= BufferSize /\ buffer_len + 1 <= L /\ requested <= L
       /\ (L = buffer_len + 1 \/ L = requested)
  BY <1>3, <1>9 DEF Padded
<1> HIDE DEF L
<1>11. /\ WellFormed' = WellFormed /\ StreamSize' = StreamSize /\ Encoding' = Encoding /\ SourceOK'
       /\ \A c : BytesTo(c)' = BytesTo(c)
  <2>1. \A c : Offset(c)' = Offset(c)
    BY <1>2, Fixed
  <2> QED
    BY <1>1, <1>2, <2>1, Fixed DEF BytesTo
<1>12. Arrived' = Arrived /\ Nuls' = Nuls + 1 /\ UnreadBytes' = UnreadBytes + 1
  <2>1. Arrived' = Arrived
    <3>1. taken' = taken /\ unread' = unread + 1 /\ WellFormed' = WellFormed
      BY <1>2, <1>11
    <3>2. taken + unread >= WellFormed /\ taken \in Nat /\ WellFormed \in Nat
      BY <1>3, <1>6, <1>7
    <3>3. Arrived' = IF taken' + unread' <= WellFormed' THEN taken' + unread' ELSE WellFormed'
      BY DEF Arrived
    <3> QED
      BY <1>3, <1>7, <3>1, <3>2, <3>3
  <2>2. Nuls' = taken' + unread' - Arrived' /\ Nuls = taken + unread - Arrived
    BY DEF Nuls
  <2>3. taken \in Nat /\ Arrived \in Nat
    BY <1>3, <1>6
  <2>4. Nuls' = Nuls + 1
    BY <1>2, <1>3, <2>1, <2>2, <2>3
  <2>5. UnreadBytes' = BytesTo(Arrived) + Nuls' /\ UnreadBytes = BytesTo(Arrived) + Nuls
    <3>1. UnreadBytes' = (BytesTo(Arrived))' + Nuls' /\ UnreadBytes = BytesTo(Arrived) + Nuls
      BY DEF UnreadBytes
    <3>2. (BytesTo(Arrived))' = BytesTo(Arrived)
      BY <1>2, <2>1 DEF BytesTo, Offset, Sums
    <3> QED
      BY <3>1, <3>2
  <2>6. BytesTo(Arrived) \in Nat
    <3>1. Arrived \in taken..N
      BY <1>6, <1>3
    <3> QED
      BY <1>1, <1>3, <3>1, Arrivals
  <2> QED
    BY <1>6, <2>1, <2>4, <2>5, <2>6
<1>13. Position'
  <2>1. (StartOf(Arrived + 1))' = StartOf(Arrived + 1)
    BY <1>2, <1>12 DEF StartOf, Sums, RawWidth, Chars, BomWidth, Encoding
  <2>2. RawUnread' = RawUnread
    BY <1>2 DEF RawUnread
  <2>3. delivered' - RawUnread' + 1 = (StartOf(Arrived + 1))'
    BY <1>2, <1>3, <1>4, <1>5, <2>1, <2>2
  <2> QED
    BY <1>1, <1>2, <1>4, <1>5, <1>7, <1>11, <2>2, <2>3 DEF Position
<1>14. Types'
  <2>1. opened' \in 0..BufferSize /\ buffer_pos' \in 0..opened' /\ buffer_len' \in 0..BufferSize /\ unread' \in Nat
    BY <1>2, <1>3, <1>8, <1>10
  <2> QED
    BY <1>1, <1>2, <1>11, <2>1 DEF Types
<1>15. Fresh'
  BY <1>2, <1>5 DEF Fresh
<1>16. Length' = L
  <2>1. Length' = opened' - buffer_pos'
    BY <1>2 DEF Length
  <2> QED
    BY <1>2, <1>8, <1>10, <2>1
<1>17. Fits'
  <2>1. UnreadBytes' <= Length'
    BY <1>3, <1>6, <1>8, <1>10, <1>12, <1>16
  <2>2. Length' = UnreadBytes' \/ Length' <= MaxLength - 1 + Nuls'
    <3>1. CASE L = buffer_len + 1
      <4>1. buffer_len = UnreadBytes \/ (Nuls > 0 /\ buffer_len <= MaxLength - 1 + Nuls)
        BY <1>1, <1>4, <1>6, <1>8 DEF Room, Fits
      <4> QED
        BY <1>3, <1>6, <1>12, <1>16, <3>1, <4>1
    <3>2. CASE L = requested
      BY <1>3, <1>6, <1>12, <1>16, <3>2
    <3> QED
      BY <1>10, <3>1, <3>2
  <2>3. Nuls' # 0
    BY <1>6, <1>12
  <2> QED
    BY <2>1, <2>2, <2>3 DEF Fits
<1>18. Room'
  BY <1>2, <1>17 DEF Room
<1>19. Window'
  <2>1. ASSUME NEW c \in taken + 1..Arrived, NEW k \in 1..source.widths[c]
        PROVE  buffer'[buffer_pos + BytesTo(c - 1) + k] = <<c, k>>
    <3>1. BytesTo(c - 1) \in Nat /\ BytesTo(c - 1) + k \in 1..BytesTo(Arrived) /\ BytesTo(Arrived) <= UnreadBytes
          /\ BytesTo(Arrived) \in Nat
      BY <1>1, <1>3, InWindow
    <3>2. BytesTo(c - 1) + k \in 1..BufferSize /\ ~ (BytesTo(c - 1) + k \in buffer_len + 1..L)
      BY <1>3, <1>6, <1>8, <3>1
    <3>3. buffer'[BytesTo(c - 1) + k] = buffer[BytesTo(c - 1) + k]
      BY <1>2, <3>2
    <3>4. buffer[buffer_pos + BytesTo(c - 1) + k] = <<c, k>>
      BY <1>1, <2>1 DEF Window
    <3>5. buffer_pos + BytesTo(c - 1) + k = BytesTo(c - 1) + k
      BY <1>8, <3>1
    <3> QED
      BY <3>3, <3>4, <3>5
  <2>2. ASSUME NEW i \in BytesTo(WellFormed) + 1..L
        PROVE  buffer'[buffer_pos + i] = Nul
    <3>1. BytesTo(WellFormed) \in Nat
      <4>1. WellFormed \in taken..N
        BY <1>3, <1>6
      <4> QED
        BY <1>1, <1>3, <4>1, Arrivals
    <3>2. i \in 1..BufferSize /\ buffer_pos + i = i
      BY <1>3, <1>8, <1>10, <3>1
    <3>3. CASE i \in buffer_len + 1..L
      BY <1>2, <3>2, <3>3
    <3>4. CASE ~ (i \in buffer_len + 1..L)
      <4>1. i \in BytesTo(WellFormed) + 1..buffer_len
        BY <1>3, <1>10, <3>1, <3>4
      <4>2. Nuls > 0
        <5> SUFFICES ASSUME Nuls = 0 PROVE FALSE
          BY <1>6
        <5>1. buffer_len = UnreadBytes
          BY <1>1, <1>4, <1>8 DEF Room, Fits
        <5>2. UnreadBytes = BytesTo(WellFormed) + 0
          BY <1>7 DEF UnreadBytes
        <5> QED
          BY <3>1, <4>1, <5>1, <5>2
      <4>3. buffer[buffer_pos + i] = Nul
        BY <1>1, <1>8, <4>1, <4>2 DEF Window
      <4> QED
        BY <1>2, <3>2, <3>4, <4>3
    <3> QED
      BY <3>3, <3>4
  <2>3. \A c \in taken' + 1..Arrived' : \A k \in 1..source'.widths[c] :
          buffer'[buffer_pos' + (BytesTo(c - 1))' + k] = <<c, k>>
    <3>1. \A c : (BytesTo(c - 1))' = BytesTo(c - 1)
      BY <1>11, <1>12
    <3>2. source' = source /\ taken' = taken /\ buffer_pos' = buffer_pos /\ Arrived' = Arrived
      BY <1>2, <1>11, <1>12
    <3> QED
      BY <2>1, <3>1, <3>2
  <2>4. \A i \in (BytesTo(WellFormed))' + 1..Length' : buffer'[buffer_pos' + i] = Nul'
    <3>1. (BytesTo(WellFormed))' = BytesTo(WellFormed)
      BY <1>2 DEF BytesTo, Offset, Sums, WellFormed
    <3> QED
      BY <1>2, <1>16, <2>2, <3>1 DEF Nul
  <2> QED
    BY <2>3, <2>4 DEF Window
<1>20. Answer'
  <2>1. error' # "decode"
    BY <1>1, <1>2, <1>4 DEF Answer
  <2>2. requested' <= opened' - buffer_pos' /\ Nuls' > 0
    BY <1>2, <1>3, <1>6, <1>8, <1>10, <1>12
  <2> QED
    BY <1>2, <2>1, <2>2 DEF Answer
<1> QED
  BY <1>11, <1>13, <1>14, <1>15, <1>18, <1>19, <1>20 DEF Inv

\* The scanner skips a character of the text.
LEMMA SkipStep ==
  ASSUME Inv, Skip
  PROVE  Inv'
<1>1. SourceOK /\ Types /\ Position /\ Fresh /\ Room /\ Window /\ Answer
  BY DEF Inv
<1>2. /\ pc = "idle" /\ unread > 0 /\ buffer[buffer_pos + 1] # Nul
      /\ buffer_pos' = buffer_pos + source.widths[buffer[buffer_pos + 1][1]]
      /\ unread' = unread - 1
      /\ taken' = taken + 1
      /\ result' = "none"
      /\ UNCHANGED <<source, delivered, failures, raw, raw_buffer_pos, eof, encoding, buffer, opened,
                     first, buffer_len, error, pc, requested>>
  BY DEF Skip, rawSide, locals
<1>3. /\ unread \in Nat /\ buffer_pos \in Nat /\ opened \in Nat /\ taken \in Nat /\ Length = opened - buffer_pos
      /\ taken \in 0..WellFormed /\ Length \in Nat
  BY <1>1, <1>2, Numbers DEF Types, Length
<1>4. /\ N \in Nat /\ WellFormed \in 0..N /\ Arrived \in taken..WellFormed /\ Arrived \in 0..N
      /\ Nuls \in Nat /\ Nuls <= unread /\ Arrived + Nuls = taken + unread
      /\ (Nuls > 0 => Arrived = WellFormed)
      /\ UnreadBytes \in Nat /\ unread <= UnreadBytes /\ UnreadBytes <= Length
  BY <1>1, <1>3, Lengths, Arrivals DEF Room, Fits
<1>5. BytesTo(taken) = 0
  <2>1. taken \in 0..N
    BY <1>3, <1>4
  <2>2. Offset(taken) \in Nat
    BY <1>1, <2>1, Offsets
  <2> QED
    BY <2>2 DEF BytesTo
<1>6. Arrived > taken
  <2> SUFFICES ASSUME Arrived = taken PROVE FALSE
    BY <1>3, <1>4
  <2>1. Nuls > 0 /\ WellFormed = taken
    BY <1>2, <1>3, <1>4
  <2>2. 1 \in BytesTo(WellFormed) + 1..Length
    BY <1>2, <1>3, <1>4, <1>5, <2>1
  <2>3. buffer[buffer_pos + 1] = Nul
    BY <1>1, <2>1, <2>2 DEF Window
  <2> QED
    BY <1>2, <2>3
<1>7. PICK c \in Nat : c = taken + 1
  BY <1>3
<1>8. c \in 1..N /\ c \in taken + 1..Arrived /\ c \in taken + 1..N /\ c - 1 = taken /\ c \in 0..WellFormed
  BY <1>3, <1>4, <1>6, <1>7
<1>9. PICK w \in 1..4 : w = source.widths[c]
  BY <1>1, <1>8, Lengths
<1>10. buffer[buffer_pos + 1] = <<c, 1>>
  <2>1. buffer[buffer_pos + BytesTo(c - 1) + 1] = <<c, 1>>
    BY <1>1, <1>8, <1>9 DEF Window
  <2> QED
    BY <1>3, <1>5, <1>8, <2>1
<1>11. buffer_pos' = buffer_pos + w
  BY <1>2, <1>9, <1>10
<1>12. /\ WellFormed' = WellFormed /\ StreamSize' = StreamSize /\ Encoding' = Encoding /\ SourceOK'
       /\ N' = N /\ RawWidth(N, Encoding)' = RawWidth(N, Encoding)
  BY <1>1, <1>2, Fixed DEF RawWidth, N, Encoding
<1>13. Arrived' = Arrived /\ Nuls' = Nuls
  <2>1. taken' + unread' = taken + unread
    BY <1>2, <1>3
  <2>2. Arrived' = Arrived
    BY <1>12, <2>1 DEF Arrived
  <2>3. Nuls' = taken' + unread' - Arrived /\ Nuls = taken + unread - Arrived
    BY <2>2 DEF Nuls
  <2>4. Arrived \in Nat
    BY <1>4
  <2> QED
    BY <1>2, <1>3, <2>2, <2>3, <2>4
<1>14. \A d \in taken..N : BytesTo(d)' = BytesTo(d) - w /\ BytesTo(d) \in Nat
  <2> TAKE d \in taken..N
  <2>1. d \in 0..N /\ taken \in 0..N
    BY <1>3, <1>4
  <2>2. Offset(d) \in Nat /\ Offset(taken) \in Nat /\ Offset(c) = Offset(taken) + w
    <3>1. Offset(c) = Offset(c - 1) + source.widths[c]
      BY <1>1, <1>8, Offsets
    <3> QED
      BY <1>1, <1>8, <1>9, <2>1, <3>1, Offsets
  <2>3. BytesTo(d)' = Offset(d) - Offset(c)
    BY <1>2, <1>7 DEF BytesTo, Offset, Sums
  <2>4. BytesTo(d) \in Nat
    BY <1>1, <1>3, Arrivals
  <2> QED
    BY <2>2, <2>3, <2>4 DEF BytesTo
<1>15. UnreadBytes' = UnreadBytes - w
  <2>1. Arrived \in taken..N
    BY <1>4, <1>3
  <2>2. UnreadBytes' = (BytesTo(Arrived))' + Nuls' /\ UnreadBytes = BytesTo(Arrived) + Nuls
    BY DEF UnreadBytes
  <2>3. PICK a : a = Arrived
    OBVIOUS
  <2>4. (BytesTo(Arrived))' = BytesTo(a)'
    BY <1>13, <2>3 DEF BytesTo, Offset, Sums
  <2>5. (BytesTo(Arrived))' = BytesTo(Arrived) - w /\ BytesTo(Arrived) \in Nat
    BY <1>14, <2>1, <2>3, <2>4
  <2> QED
    BY <1>4, <1>13, <2>2, <2>5
<1>16. w <= UnreadBytes
  <2>1. BytesTo(c) = BytesTo(c - 1) + w
    BY <1>1, <1>3, <1>8, <1>9, Arrivals
  <2>2. BytesTo(c - 1) + w \in 1..BytesTo(Arrived) /\ BytesTo(Arrived) <= UnreadBytes /\ BytesTo(Arrived) \in Nat
    <3>1. w \in 1..source.widths[c]
      BY <1>9
    <3> QED
      BY <1>1, <1>3, <1>8, <3>1, InWindow
  <2> QED
    BY <1>4, <1>5, <1>8, <2>2
<1>17. Length' = Length - w /\ buffer_pos' \in 0..opened'
  <2>1. Length' = opened' - buffer_pos'
    BY <1>2 DEF Length
  <2> QED
    BY <1>2, <1>3, <1>4, <1>11, <1>16, <2>1
<1>18. Stuck' <=> Stuck
  <2>1. RawUnread' = RawUnread
    BY <1>2 DEF RawUnread
  <2>2. taken' + unread' = taken + unread
    BY <1>2, <1>3
  <2> QED
    BY <1>2, <1>12, <2>1, <2>2 DEF Stuck
<1>19. Types'
  BY <1>1, <1>2, <1>3, <1>7, <1>8, <1>12, <1>17 DEF Types
<1>20. Fresh'
  BY <1>1, <1>2, <1>3 DEF Fresh
<1>21. Position'
  <2>1. (StartOf(Arrived + 1))' = StartOf(Arrived + 1)
    BY <1>2, <1>13 DEF StartOf, Sums, RawWidth, Chars, BomWidth, Encoding
  <2>2. RawUnread' = RawUnread
    BY <1>2 DEF RawUnread
  <2> QED
    BY <1>1, <1>2, <1>12, <1>13, <2>1, <2>2 DEF Position
<1>22. Room'
  <2>1. UnreadBytes' <= Length'
    BY <1>3, <1>4, <1>15, <1>17
  <2>2. Nuls' = 0 /\ ~Stuck' => Length' = UnreadBytes'
    BY <1>1, <1>13, <1>15, <1>17, <1>18 DEF Room, Fits
  <2>3. Nuls' > 0 => Length' = UnreadBytes' \/ Length' <= MaxLength - 1 + Nuls'
    <3>1. Nuls > 0 => Length = UnreadBytes \/ Length <= MaxLength - 1 + Nuls
      BY <1>1 DEF Room, Fits
    <3> QED
      BY <1>3, <1>4, <1>13, <1>15, <1>17, <3>1, Sizes
  <2>4. Fits'
    BY <2>1, <2>2, <2>3 DEF Fits
  <2> QED
    BY <1>2, <2>4 DEF Room
<1>23. Window'
  <2>1. ASSUME NEW d \in c + 1..Arrived, NEW k \in 1..source.widths[d]
        PROVE  buffer[buffer_pos' + BytesTo(d - 1)' + k] = <<d, k>>
    <3>1. d \in taken + 1..Arrived /\ d - 1 \in taken..N /\ d \in 1..N
      BY <1>3, <1>4, <1>7
    <3>2. BytesTo(d - 1)' = BytesTo(d - 1) - w /\ BytesTo(d - 1) \in Nat
      BY <1>14, <3>1
    <3>3. PICK v \in 1..4 : v = source.widths[d]
      BY <1>1, <3>1, Lengths
    <3>4. buffer_pos' + BytesTo(d - 1)' + k = buffer_pos + BytesTo(d - 1) + k
      BY <1>3, <1>11, <3>2, <3>3
    <3> QED
      BY <1>1, <3>1, <3>4 DEF Window
  <2>2. ASSUME Nuls > 0, NEW i \in BytesTo(WellFormed)' + 1..Length'
        PROVE  buffer[buffer_pos' + i] = Nul
    <3>1. PICK x \in Nat : x = WellFormed
      BY <1>4
    <3>2. BytesTo(WellFormed)' = BytesTo(x)'
      BY <1>12, <3>1 DEF BytesTo, Offset, Sums
    <3>3. BytesTo(WellFormed)' = BytesTo(WellFormed) - w /\ BytesTo(WellFormed) \in Nat
      BY <1>3, <1>4, <1>14, <3>1, <3>2
    <3>4. i + w \in BytesTo(WellFormed) + 1..Length /\ buffer_pos' + i = buffer_pos + (i + w)
      BY <1>3, <1>11, <1>17, <3>3
    <3> QED
      BY <1>1, <2>2, <3>4 DEF Window
  <2>3. \A d \in taken' + 1..Arrived' : \A k \in 1..source'.widths[d] :
          buffer'[buffer_pos' + (BytesTo(d - 1))' + k] = <<d, k>>
    BY <1>2, <1>7, <1>13, <2>1
  <2>4. Nuls' > 0 => \A i \in (BytesTo(WellFormed))' + 1..Length' : buffer'[buffer_pos' + i] = Nul'
    BY <1>2, <1>13, <2>2 DEF Nul
  <2> QED
    BY <2>3, <2>4 DEF Window
<1>24. Answer'
  BY <1>1, <1>2, <1>18 DEF Answer
<1> QED
  BY <1>12, <1>19, <1>20, <1>21, <1>22, <1>23, <1>24 DEF Inv

-----------------------------------------------------------------------------

\* The streams of the initial states are as the invariant wants them.
LEMMA SourcesOK ==
  ASSUME source \in Sources
  PROVE  SourceOK
<1>1. PICK bom \in {"none", "utf8", "utf16"}, text \in UNION {[1..n -> Widths] : n \in 0..MaxChars} :
        \E flaw \in {"none"} \cup (IF text = <<>> THEN {} ELSE {"malformed"})
                    \cup (IF text # <<>> /\ (bom = "utf16" \/ text[Len(text)] > 1) THEN {"cut"} ELSE {}) :
          source = [bom |-> bom, widths |-> text, flaw |-> flaw]
  BY DEF Sources
<1>2. PICK n \in 0..MaxChars : text \in [1..n -> Widths]
  BY <1>1
<1>3. n \in Nat /\ text \in Seq(Widths) /\ Len(text) = n /\ (text # <<>> => n > 0)
  <2>1. n \in Nat
    BY Sizes
  <2> QED
    BY <1>2, <2>1
<1>4. source.widths = text /\ source.bom = bom /\ N = n
  BY <1>1, <1>3 DEF N
<1>5. /\ source.flaw \in {"none", "malformed", "cut"}
      /\ source.flaw # "none" => text # <<>>
      /\ source.flaw = "cut" => bom = "utf16" \/ text[Len(text)] > 1
  BY <1>1
<1>6. source.flaw = "cut" => RawWidth(N, Encoding) > 1
  <2> SUFFICES ASSUME source.flaw = "cut" PROVE RawWidth(N, Encoding) > 1
    OBVIOUS
  <2>1. CASE bom = "utf16"
    BY <1>4, <2>1 DEF RawWidth, Encoding
  <2>2. CASE bom # "utf16"
    <3>1. Encoding = "utf8" /\ text[N] > 1
      BY <1>3, <1>4, <1>5, <2>2 DEF Encoding
    <3> QED
      BY <1>4, <3>1 DEF RawWidth
  <2> QED
    BY <2>1, <2>2
<1> QED
  BY <1>3, <1>4, <1>5, <1>6 DEF SourceOK

\* The invariant holds before the first call,
LEMMA InitInv ==
  ASSUME Init
  PROVE  Inv
<1>1. SourceOK
  BY SourcesOK DEF Init
<1>2. /\ delivered = 0 /\ failures = 0 /\ raw = <<>> /\ raw_buffer_pos = 0 /\ eof = FALSE /\ encoding = "any"
      /\ opened = 0 /\ buffer_pos = 0 /\ unread = 0 /\ buffer_len = 0
      /\ error = "none" /\ pc = "idle" /\ requested = 0 /\ first = TRUE
      /\ result = "none" /\ taken = 0
  BY DEF Init
<1>3. WellFormed \in Nat /\ StreamSize \in Nat
  BY <1>1, Lengths, StreamEnd
<1>4. Arrived = 0 /\ Nuls = 0
  <2>1. taken \in 0..WellFormed /\ unread \in Nat
    BY <1>2, <1>3
  <2>2. Arrived \in taken..WellFormed /\ Nuls \in Nat /\ Nuls <= unread /\ Arrived + Nuls = taken + unread
    BY <1>1, <2>1, Arrivals
  <2> QED
    BY <1>2, <1>3, <2>2
<1>5. UnreadBytes = 0 /\ Length = 0
  <2>1. taken \in 0..WellFormed /\ unread \in Nat
    BY <1>2, <1>3
  <2>2. UnreadBytes \in Nat /\ UnreadBytes <= 4 * unread
    BY <1>1, <2>1, Arrivals
  <2> QED
    BY <1>2, <2>2 DEF Length
<1>6. Types
  BY <1>2, <1>3, Sizes DEF Types
<1>7. Position
  <2>1. raw \in Seq(1..StreamSize) /\ Len(raw) = 0
    BY <1>2
  <2>2. delivered \in 0..StreamSize /\ ~eof /\ eof \in BOOLEAN
    <3>1. delivered = 0 /\ 0 \in 0..StreamSize
      BY <1>2, <1>3
    <3>2. ~eof /\ eof \in BOOLEAN
      BY <1>2, Zenon
    <3> QED
      BY <3>1, <3>2
  <2>3. Len(raw) <= RawSize /\ Len(raw) <= delivered /\ raw_buffer_pos \in 0..Len(raw) /\ delivered = Len(raw)
    BY <1>2, <2>1, Sizes
  <2>4. \A i \in 1..Len(raw) : raw[i] = delivered - Len(raw) + i
    BY <2>1
  <2>5. ~ (Nuls > 0)
    BY <1>4
  <2>6. encoding = "any" /\ raw_buffer_pos = 0
    BY <1>2
  <2> QED
    BY <2>1, <2>2, <2>3, <2>4, <2>5, <2>6 DEF Position
<1>8. Fresh
  BY <1>2 DEF Fresh
<1>9. Room
  BY <1>2, <1>4, <1>5 DEF Room, Fits
<1>10. Window
  <2>1. \A c : ~ (c \in taken + 1..Arrived)
    BY <1>2, <1>4
  <2> QED
    BY <1>4, <2>1 DEF Window
<1>11. Answer
  BY <1>2 DEF Answer
<1> QED
  BY <1>1, <1>6, <1>7, <1>8, <1>9, <1>10, <1>11 DEF Inv

\* a step that changes nothing keeps it,
LEMMA StutterInv ==
  ASSUME Inv, UNCHANGED vars
  PROVE  Inv'
<1>1. SourceOK /\ Types /\ Position /\ Fresh /\ Room /\ Window /\ Answer
  BY DEF Inv
<1>2. UNCHANGED <<source, delivered, failures, raw, raw_buffer_pos, eof, encoding, buffer, opened,
                  buffer_pos, unread, error, pc, requested, first, buffer_len, result, taken>>
  BY DEF vars
<1>3. RawMoves
  BY <1>1, <1>2, RawStays
<1>4. Length' = Length
  BY <1>2 DEF Length
<1>5. SourceOK' /\ Position' /\ Window' /\ Fits' /\ (Stuck => Stuck')
  BY <1>2, <1>3, <1>4, Kept
<1>6. Types'
  BY <1>1, <1>2, Fixed DEF Types
<1>7. Fresh'
  BY <1>1, <1>2 DEF Fresh
<1>8. Nuls' = Nuls /\ (Stuck' <=> Stuck) /\ RawUnread' = RawUnread
  <2>1. N' = N /\ WellFormed' = WellFormed /\ RawWidth(N, Encoding)' = RawWidth(N, Encoding)
    BY <1>2, Fixed DEF RawWidth, N, Encoding
  <2>2. RawUnread' = RawUnread
    BY <1>2 DEF RawUnread
  <2> QED
    BY <1>2, <2>1, <2>2, SameText DEF Stuck
<1>9. Room'
  BY <1>1, <1>2, <1>5, <1>8 DEF Room
<1>10. Answer'
  BY <1>1, <1>2, <1>5, <1>8 DEF Answer
<1> QED
  BY <1>5, <1>6, <1>7, <1>9, <1>10 DEF Inv

\* and so does every step of the reader and of the scanner;
LEMMA NextInv ==
  ASSUME Inv, [Next]_vars
  PROVE  Inv'
<1>1. CASE Call
  BY <1>1, CallStep
<1>2. CASE Skip
  BY <1>2, SkipStep
<1>3. CASE ReadForEncoding
  BY <1>3, ReadForEncodingStep
<1>4. CASE DetermineEncoding
  BY <1>4, DetermineEncodingStep
<1>5. CASE ReadMore \/ ReadNothing
  BY <1>5, ReadStep
<1>6. CASE ReadFails
  BY <1>6, ReadFailsStep
<1>7. CASE DecodeChar
  BY <1>7, DecodeCharStep
<1>8. CASE DecodeFails
  BY <1>8, DecodeFailsStep
<1>9. CASE DecodeMore
  BY <1>9, DecodeMoreStep
<1>10. CASE Finish
  BY <1>10, FinishStep
<1>11. CASE FinishAtEnd
  BY <1>11, FinishAtEndStep
<1>12. CASE UNCHANGED vars
  BY <1>12, StutterInv
<1> QED
  BY <1>1, <1>2, <1>3, <1>4, <1>5, <1>6, <1>7, <1>8, <1>9, <1>10, <1>11, <1>12 DEF Next, Update

\* so it always holds.
LEMMA SpecInv == Spec => []Inv
<1>1. Init => Inv
  BY InitInv
<1>2. Inv /\ [Next]_vars => Inv'
  BY NextInv
<1> QED
  BY <1>1, <1>2, PTL DEF Spec

\* TypeOK of update_raw_buffer and update_buffer: the fields stay well-typed, and what
\* is decoded fits into the buffer, in whatever pieces the bytes come.
THEOREM TypeCorrect == Spec => []TypeOK
<1>1. ASSUME Inv PROVE TypeOK
  <2>1. SourceOK /\ Types /\ Position
    BY <1>1 DEF Inv
  <2>2. taken \in Nat
    BY <2>1, Numbers
  <2> QED
    BY <2>1, <2>2 DEF TypeOK, Types, Position
<1> QED
  BY <1>1, SpecInv, PTL

\* WindowIsText: the unread part of the buffer is the text behind the characters
\* skipped, although update_buffer moves it, characters are split over reads, reads
\* fail and the scanner asks again.
THEOREM WindowTrue == Spec => []WindowIsText
<1>1. ASSUME Inv PROVE WindowIsText
  <2>1. SourceOK /\ Types /\ Position /\ Room /\ Window
    BY <1>1 DEF Inv
  <2>2. /\ taken \in 0..WellFormed /\ unread \in Nat /\ taken \in Nat /\ Length \in Nat /\ buffer_pos \in Nat
    BY <2>1, Numbers DEF Types
  <2>3. /\ N \in Nat /\ WellFormed \in 0..N /\ Nuls \in Nat /\ (Nuls > 0 => Arrived = WellFormed)
        /\ UnreadBytes \in Nat
    BY <2>1, <2>2, Lengths, Arrivals
  <2>4. \A c \in taken + 1..Arrived : \A k \in DOMAIN BytesOf(c) :
          buffer[buffer_pos + BytesTo(c - 1) + k] = BytesOf(c)[k]
    BY <2>1 DEF Window, BytesOf
  <2>5. ASSUME NEW i \in 1..Nuls
        PROVE  buffer[buffer_pos + BytesTo(WellFormed) + i] = Nul /\ source.flaw = "none"
    <3>1. Nuls > 0 /\ Arrived = WellFormed /\ i \in Nat
      BY <2>3
    <3>2. BytesTo(WellFormed) \in Nat
      <4>1. WellFormed \in taken..N
        BY <2>2, <2>3
      <4> QED
        BY <2>1, <2>2, <4>1, Arrivals
    <3>3. UnreadBytes = BytesTo(WellFormed) + Nuls /\ UnreadBytes <= Length
      BY <2>1, <3>1 DEF UnreadBytes, Room, Fits
    <3>4. BytesTo(WellFormed) + i \in BytesTo(WellFormed) + 1..Length
          /\ buffer_pos + BytesTo(WellFormed) + i = buffer_pos + (BytesTo(WellFormed) + i)
      BY <2>2, <2>3, <3>1, <3>2, <3>3
    <3>5. buffer[buffer_pos + (BytesTo(WellFormed) + i)] = Nul
      BY <2>1, <3>1, <3>4 DEF Window
    <3> QED
      BY <2>1, <3>1, <3>4, <3>5 DEF Position
  <2> QED
    BY <2>4, <2>5 DEF WindowIsText, Nuls
<1> QED
  BY <1>1, SpecInv, PTL

\* LengthAvailable: a call of update_buffer that returns true leaves the length that was
\* asked for in the buffer, filled up with NULs behind the end.
THEOREM LookaheadAvailable == Spec => []LengthAvailable
<1>1. ASSUME Inv PROVE LengthAvailable
  <2>1. SourceOK /\ Types /\ Position /\ Room /\ Window /\ Answer
    BY <1>1 DEF Inv
  <2> SUFFICES ASSUME result = "ok"
               PROVE  /\ buffer_pos + requested <= opened
                      /\ \A i \in BytesTo(WellFormed) + 1..requested : buffer[buffer_pos + i] = Nul
    BY DEF LengthAvailable
  <2>2. /\ pc = "idle" /\ requested <= opened - buffer_pos /\ (unread >= requested \/ Nuls > 0)
    BY <2>1 DEF Answer
  <2>3. /\ taken \in 0..WellFormed /\ unread \in Nat /\ taken \in Nat /\ requested \in Nat
        /\ opened \in Nat /\ buffer_pos \in Nat /\ Length = opened - buffer_pos
    BY <2>1, <2>2, Numbers DEF Types, Length
  <2>4. WellFormed \in taken..N /\ taken \in taken..N /\ N \in Nat /\ Arrived \in taken..WellFormed /\ Nuls \in Nat
        /\ Arrived + Nuls = taken + unread
    BY <2>1, <2>3, Lengths, Arrivals
  <2>5. BytesTo(WellFormed) \in Nat /\ WellFormed - taken <= BytesTo(WellFormed)
    <3>1. WellFormed - taken <= BytesTo(WellFormed) - BytesTo(taken) /\ BytesTo(taken) \in Nat /\ BytesTo(WellFormed) \in Nat
      BY <2>1, <2>3, <2>4, Arrivals
    <3> QED
      BY <2>3, <2>4, <3>1
  <2>6. ASSUME NEW i \in BytesTo(WellFormed) + 1..requested PROVE buffer[buffer_pos + i] = Nul
    <3>1. Nuls > 0
      BY <2>2, <2>3, <2>4, <2>5
    <3>2. i \in BytesTo(WellFormed) + 1..Length
      BY <2>2, <2>3, <2>5
    <3> QED
      BY <2>1, <3>1, <3>2 DEF Window
  <2> QED
    BY <2>2, <2>3, <2>6
<1> QED
  BY <1>1, SpecInv, PTL

\* RefusedForFlaw: update_buffer fails with an error of the encoding only at a flaw of
\* the text, never because a character has come in pieces.
THEOREM OnlyFlawsRefused == Spec => []RefusedForFlaw
<1>1. ASSUME Inv PROVE RefusedForFlaw
  BY <1>1 DEF Inv, Answer, Stuck, RefusedForFlaw
<1> QED
  BY <1>1, SpecInv, PTL
=============================================================================
