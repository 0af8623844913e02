--------------------------- MODULE KeyOrder_proofs ---------------------------
(***************************************************************************)
(* Proofs about KeyOrder, for any characters, numbers and bounds: Less      *)
(* orders any two keys one way, and consistently with every third, so the   *)
(* keys of a map come out in one order.                                     *)
(***************************************************************************)
EXTENDS KeyOrder, WellFoundedInduction, TLAPS

-----------------------------------------------------------------------------
(* Numbers                                                                   *)

\* The order of the numbers and its induction.
LEMMA Least ==
  ASSUME NEW S \in SUBSET Nat, S # {}
  PROVE  Min(S) \in S /\ \A n \in S : Min(S) <= n
<1> DEFINE R == OpToRel(<, Nat)
<1>1. IsWellFoundedOn(R, Nat)
  BY NatLessThanWellFounded
<1>2. \A m, n \in Nat : m < n => <<m, n>> \in R
  BY DEF OpToRel
<1> HIDE DEF R
<1>3. PICK n \in S : \A m \in S : ~ (<<m, n>> \in R)
  BY <1>1, WFMin
<1>4. \A m \in S : n <= m
  <2> TAKE m \in S
  <2>1. m \in Nat /\ n \in Nat /\ ~ (m < n)
    BY <1>2, <1>3
  <2> QED
    BY <2>1
<1> QED
  BY <1>3, <1>4 DEF Min

\* A set of numbers with 0 and the successors of its members holds all numbers.
LEMMA Induction ==
  ASSUME NEW T, 0 \in T, \A n \in Nat : n \in T => n + 1 \in T
  PROVE  Nat \subseteq T
<1> DEFINE Missing == Nat \ T
<1> SUFFICES ASSUME Missing # {} PROVE FALSE
  OBVIOUS
<1>1. PICK n \in Missing : \A m \in Missing : n <= m
  BY Least
<1>2. n \in Nat /\ n # 0 /\ n - 1 \in Nat /\ n - 1 < n
  OBVIOUS
<1>3. n - 1 \in T
  BY <1>1, <1>2
<1> QED
  BY <1>2, <1>3

\* The recursive function is what its definition says.
LEMMA PowersDef == Powers = [n \in 0..MaxDigits |-> IF n = 0 THEN 1 ELSE 10 * Powers[n - 1]]
<1> DEFINE Is(g, k) == g = [n \in 0..k |-> IF n = 0 THEN 1 ELSE 10 * g[n - 1]]
           T == {k \in Nat : \E g : Is(g, k)}
<1>1. 0 \in T
  <2>1. Is([n \in 0..0 |-> 1], 0)
    OBVIOUS
  <2> QED
    BY <2>1
<1>2. ASSUME NEW k \in Nat, k \in T PROVE k + 1 \in T
  <2>1. PICK g : Is(g, k)
    BY <1>2
  <2> DEFINE h == [n \in 0..k + 1 |-> IF n = 0 THEN 1 ELSE 10 * g[n - 1]]
  <2>2. \A n \in 0..k : h[n] = g[n]
    BY <2>1
  <2>3. \A n \in 0..k + 1 : h[n] = IF n = 0 THEN 1 ELSE 10 * h[n - 1]
    <3> TAKE n \in 0..k + 1
    <3>1. n # 0 => n - 1 \in 0..k
      OBVIOUS
    <3>2. n # 0 => h[n - 1] = g[n - 1]
      BY <2>2, <3>1
    <3>3. h[n] = IF n = 0 THEN 1 ELSE 10 * g[n - 1]
      OBVIOUS
    <3> HIDE DEF h
    <3> QED
      BY <3>2, <3>3
  <2>4. h = [n \in 0..k + 1 |-> h[n]]
    OBVIOUS
  <2>5. Is(h, k + 1)
    <3> HIDE DEF h
    <3> QED
      BY <2>3, <2>4
  <2>6. \E x : Is(x, k + 1)
    <3> HIDE DEF h, Is
    <3> QED
      BY <2>5
  <2> QED
    BY <2>6
<1> HIDE DEF Is
<1>3. \E g : Is(g, MaxDigits)
  <2>1. Nat \subseteq T
    BY <1>1, <1>2, Induction
  <2> QED
    BY <2>1, KeyConstants
<1>4. Is(CHOOSE g : Is(g, MaxDigits), MaxDigits)
  BY <1>3
<1>5. Powers = CHOOSE g : Is(g, MaxDigits)
  BY DEF Powers, Is
<1> QED
  BY <1>4, <1>5 DEF Is

\* Powers grow.
LEMMA PowerFacts ==
  /\ Powers[0] = 1
  /\ \A n \in 0..MaxDigits : Powers[n] \in Nat \ {0}
  /\ \A n \in 1..MaxDigits : Powers[n] = 10 * Powers[n - 1]
<1> DEFINE T == {n \in Nat : n <= MaxDigits => Powers[n] \in Nat \ {0}}
<1>1. MaxDigits \in Nat
  BY KeyConstants
<1>2. Powers[0] = 1
  BY <1>1, PowersDef
<1>3. \A n \in 1..MaxDigits : Powers[n] = 10 * Powers[n - 1]
  <2> TAKE n \in 1..MaxDigits
  <2>1. n \in 0..MaxDigits /\ n # 0
    BY <1>1
  <2> QED
    BY <2>1, PowersDef
<1>4. 0 \in T
  BY <1>2
<1>5. ASSUME NEW n \in Nat, n \in T PROVE n + 1 \in T
  <2>1. n + 1 <= MaxDigits => Powers[n + 1] = 10 * Powers[n]
    BY <1>1, <1>3
  <2>2. n + 1 <= MaxDigits => Powers[n] \in Nat \ {0}
    BY <1>1, <1>5
  <2> QED
    BY <2>1, <2>2
<1>6. Nat \subseteq T
  BY <1>4, <1>5, Induction
<1>7. \A n \in 0..MaxDigits : Powers[n] \in Nat \ {0}
  BY <1>1, <1>6
<1> QED
  BY <1>2, <1>3, <1>7

\* One more digit makes at least ten times as many.
LEMMA PowersGrow ==
  ASSUME NEW m \in 0..MaxDigits, NEW n \in 0..MaxDigits, m < n
  PROVE  10 * Powers[m] <= Powers[n]
<1> DEFINE T == {d \in Nat : m + d + 1 <= MaxDigits => 10 * Powers[m] <= Powers[m + d + 1]}
<1>1. MaxDigits \in Nat
  BY KeyConstants
<1>2. 0 \in T
  <2>1. m + 1 <= MaxDigits => Powers[m + 1] = 10 * Powers[m] /\ Powers[m] \in Nat
    BY <1>1, PowerFacts
  <2>2. m + 0 + 1 = m + 1
    BY <1>1
  <2> QED
    BY <2>1, <2>2
<1>3. ASSUME NEW d \in Nat, d \in T PROVE d + 1 \in T
  <2> SUFFICES ASSUME m + (d + 1) + 1 <= MaxDigits
               PROVE  10 * Powers[m] <= Powers[m + (d + 1) + 1]
    OBVIOUS
  <2>1. m + d + 1 \in 0..MaxDigits /\ m + (d + 1) + 1 \in 1..MaxDigits /\ m + (d + 1) + 1 - 1 = m + d + 1
    BY <1>1
  <2>2. Powers[m + (d + 1) + 1] = 10 * Powers[m + d + 1]
    BY <2>1, PowerFacts
  <2>3. Powers[m] \in Nat /\ Powers[m + d + 1] \in Nat
    BY <2>1, PowerFacts
  <2>4. 10 * Powers[m] <= Powers[m + d + 1]
    BY <1>1, <1>3, <2>1
  <2> QED
    BY <2>2, <2>3, <2>4
<1>4. n - m - 1 \in Nat /\ m + (n - m - 1) + 1 = n
  BY <1>1
<1>5. n - m - 1 \in T
  BY <1>2, <1>3, <1>4, Induction
<1> HIDE DEF T
<1>6. m + (n - m - 1) + 1 <= MaxDigits
  BY <1>1, <1>4
<1> QED
  BY <1>4, <1>5, <1>6 DEF T

\* What an int64 can hold stays as it is.
LEMMA WrapFits ==
  ASSUME NEW n \in 0..IntLimit - 1
  PROVE  Wrap(n) = n
<1>1. IntLimit \in Nat \ {0} /\ n \in Nat
  BY KeyConstants
<1>2. n + IntLimit \in 0..2 * IntLimit - 1
  BY <1>1
<1>3. (n + IntLimit) % (2 * IntLimit) = n + IntLimit
  <2> DEFINE m == n + IntLimit
             w == 2 * IntLimit
  <2>1. m \in 0..w - 1 /\ w \in Nat \ {0}
    BY <1>1, <1>2
  <2> HIDE DEF m, w
  <2>2. m % w = m
    BY <2>1
  <2> QED
    BY <2>2 DEF m, w
<1> QED
  BY <1>1, <1>3 DEF Wrap

-----------------------------------------------------------------------------
(* Runs of digits                                                            *)

\* What a string is.
LEMMA StringFacts ==
  ASSUME NEW s \in Strings
  PROVE  /\ Len(s) \in Nat /\ DOMAIN s = 1..Len(s)
         /\ \A i \in 1..Len(s) : s[i] \in Codes /\ s[i] \in Nat
<1>1. PICK n \in 0..MaxChars : s \in [1..n -> Codes]
  BY DEF Strings
<1>2. n \in Nat /\ Codes \subseteq Nat
  BY KeyConstants
<1>3. s \in Seq(Codes) /\ Len(s) = n
  BY <1>1, <1>2
<1> QED
  BY <1>1, <1>2, <1>3

\* e is the end of the run of digits that starts at i.
EndsRun(s, i, e) ==
  /\ e \in i..Len(s) + 1
  /\ \A k \in i..e - 1 : IsDigit(s[k])
  /\ e = Len(s) + 1 \/ ~IsDigit(s[e])

\* A run of digits ends in one place.
LEMMA RunEndFacts ==
  ASSUME NEW s \in Strings, NEW i \in 1..Len(s) + 1
  PROVE  EndsRun(s, i, RunEnd(s, i)) /\ \A e : EndsRun(s, i, e) => e = RunEnd(s, i)
<1> DEFINE n == Len(s) + 1
           S == {j \in i..n : j = n \/ ~IsDigit(s[j])}
           e == RunEnd(s, i)
<1>1. n \in Nat /\ i \in Nat /\ i <= n
  BY StringFacts
<1>2. e = Min(S)
  BY DEF RunEnd
<1>3. n \in S /\ S \subseteq Nat
  BY <1>1
<1> HIDE DEF e
<1>4. e \in S /\ \A j \in S : e <= j
  BY <1>2, <1>3, Least
<1>5. \A k \in i..e - 1 : IsDigit(s[k])
  <2> TAKE k \in i..e - 1
  <2>1. k \in i..n /\ ~ (e <= k) /\ k # n
    BY <1>1, <1>4
  <2> QED
    BY <1>4, <2>1
<1>6. EndsRun(s, i, e)
  BY <1>4, <1>5 DEF EndsRun
<1>7. ASSUME NEW f, EndsRun(s, i, f) PROVE f = e
  <2>1. f \in S /\ \A k \in i..f - 1 : IsDigit(s[k])
    BY <1>7 DEF EndsRun
  <2>2. e <= f /\ f \in Nat /\ e \in Nat
    BY <1>3, <1>4, <2>1
  <2>3. CASE e < f
    <3>1. e \in i..f - 1 /\ e # n
      BY <1>1, <1>4, <2>1, <2>2, <2>3
    <3> QED
      BY <1>4, <2>1, <3>1
  <2> QED
    BY <2>2, <2>3
<1> QED
  BY <1>6, <1>7 DEF e

\* A run of digits fits an int64 with the digit in front of it.
LEMMA RunFits ==
  ASSUME NEW s \in Strings, NEW i \in 1..Len(s) + 1
  PROVE  /\ RunEnd(s, i) - i \in 0..MaxDigits
         /\ i > 1 /\ IsDigit(s[i - 1]) => RunEnd(s, i) - i < MaxDigits
<1>1. /\ Len(s) \in Nat /\ MaxDigits \in Nat /\ i \in Nat \ {0}
      /\ \A k \in 1..Len(s) : RunEnd(s, k) - k <= MaxDigits
  BY StringFacts, KeyConstants DEF Strings
<1>2. EndsRun(s, i, RunEnd(s, i))
  BY RunEndFacts
<1>3. RunEnd(s, i) \in i..Len(s) + 1
  BY <1>2 DEF EndsRun
<1>4. RunEnd(s, i) - i \in 0..MaxDigits
  <2>1. CASE i \in 1..Len(s)
    BY <1>1, <1>3, <2>1
  <2>2. CASE i = Len(s) + 1
    BY <1>1, <1>3, <2>2
  <2> QED
    BY <1>1, <2>1, <2>2
<1>5. ASSUME i > 1, IsDigit(s[i - 1]) PROVE RunEnd(s, i) - i < MaxDigits
  <2> DEFINE e == RunEnd(s, i)
  <2>1. i - 1 \in 1..Len(s) /\ i - 1 \in 1..Len(s) + 1
    BY <1>1, <1>5
  <2>2. EndsRun(s, i - 1, e)
    <3> HIDE DEF e
    <3>1. EndsRun(s, i, e) /\ e \in i..Len(s) + 1
      BY <1>2, <1>3 DEF e
    <3>2. e \in i - 1..Len(s) + 1
      BY <1>1, <3>1
    <3>3. \A k \in i - 1..e - 1 : k = i - 1 \/ k \in i..e - 1
      BY <1>1, <3>1
    <3> QED
      BY <1>5, <3>1, <3>2, <3>3 DEF EndsRun
  <2>3. RunEnd(s, i - 1) = e
    BY <2>1, <2>2, RunEndFacts
  <2>4. e - (i - 1) <= MaxDigits
    BY <1>1, <2>1, <2>3
  <2> QED
    BY <1>1, <1>3, <2>4
<1> QED
  BY <1>4, <1>5

\* The recursive function is what its definition says.
LEMMA ValuesDef ==
  ASSUME NEW s \in Strings, NEW i \in 1..Len(s) + 1, NEW c
  PROVE  Values(s, i, c) =
           [k \in i..RunEnd(s, i) |->
              IF k = i THEN c ELSE Wrap(Values(s, i, c)[k - 1] * 10 + (s[k - 1] - Zero))]
<1> DEFINE Is(g, e) == g = [k \in i..e |->
                              IF k = i THEN c ELSE Wrap(g[k - 1] * 10 + (s[k - 1] - Zero))]
           T == {d \in Nat : \E g : Is(g, i + d)}
           end == RunEnd(s, i)
<1>1. i \in Nat /\ end - i \in Nat /\ i + (end - i) = end
  BY RunEndFacts, StringFacts DEF EndsRun
<1>2. 0 \in T
  <2>1. Is([k \in i..i + 0 |-> c], i + 0)
    BY <1>1
  <2>2. \E g : Is(g, i + 0)
    <3> HIDE DEF Is
    <3> QED
      BY <2>1
  <2> QED
    BY <2>2
<1>3. ASSUME NEW d \in Nat, d \in T PROVE d + 1 \in T
  <2>1. PICK g : Is(g, i + d)
    BY <1>3
  <2> DEFINE h == [k \in i..i + (d + 1) |->
                     IF k = i THEN c ELSE Wrap(g[k - 1] * 10 + (s[k - 1] - Zero))]
  <2>2. \A k \in i..i + d : h[k] = g[k]
    BY <1>1, <2>1
  <2>3. \A k \in i..i + (d + 1) :
          h[k] = IF k = i THEN c ELSE Wrap(h[k - 1] * 10 + (s[k - 1] - Zero))
    <3> TAKE k \in i..i + (d + 1)
    <3>1. k # i => k - 1 \in i..i + d
      BY <1>1
    <3>2. k # i => h[k - 1] = g[k - 1]
      BY <2>2, <3>1
    <3>3. h[k] = IF k = i THEN c ELSE Wrap(g[k - 1] * 10 + (s[k - 1] - Zero))
      OBVIOUS
    <3> HIDE DEF h
    <3> QED
      BY <3>2, <3>3
  <2>4. h = [k \in i..i + (d + 1) |-> h[k]]
    OBVIOUS
  <2>5. Is(h, i + (d + 1))
    <3> HIDE DEF h
    <3> QED
      BY <2>3, <2>4
  <2>6. \E x : Is(x, i + (d + 1))
    <3> HIDE DEF h, Is
    <3> QED
      BY <2>5
  <2> QED
    BY <2>6
<1> HIDE DEF Is
<1>4. \E g : Is(g, end)
  <2>1. Nat \subseteq T
    BY <1>2, <1>3, Induction
  <2> HIDE DEF end
  <2>2. end - i \in T
    BY <1>1, <2>1
  <2> QED
    BY <1>1, <2>2
<1>5. Is(CHOOSE g : Is(g, end), end)
  BY <1>4
<1>6. Values(s, i, c) = CHOOSE g : Is(g, end)
  BY DEF Values, Is
<1> QED
  BY <1>5, <1>6 DEF Is

\* A run starts with a value that leaves room in the variable for its digits.
Starts(s, i, c) ==
  c \in {0, 1} /\ i \in 1..Len(s) + 1 /\ (c = 1 => i > 1 /\ IsDigit(s[i - 1]))

\* The values of a run of digits never wrap around.
LEMMA ValuesStep ==
  ASSUME NEW s \in Strings, NEW i, NEW c, Starts(s, i, c)
  PROVE  /\ Values(s, i, c)[i] = c
         /\ \A k \in i..RunEnd(s, i) :
              /\ k - i \in 0..MaxDigits /\ Values(s, i, c)[k] \in Nat
              /\ c = 0 => Values(s, i, c)[k] < Powers[k - i]
         /\ \A k \in i..RunEnd(s, i) - 1 :
              Values(s, i, c)[k + 1] = Values(s, i, c)[k] * 10 + (s[k] - Zero)
<1> DEFINE value == Values(s, i, c)
           end == RunEnd(s, i)
           T == {d \in Nat : i + d <= end => value[i + d] \in Nat /\ value[i + d] < (c + 1) * Powers[d]}
<1>1. /\ i \in Nat \ {0} /\ end \in i..Len(s) + 1 /\ Len(s) \in Nat /\ MaxDigits \in Nat
      /\ c \in {0, 1} /\ end - i \in 0..MaxDigits /\ (c = 1 => end - i < MaxDigits)
  BY StringFacts, RunEndFacts, RunFits, KeyConstants DEF Starts, EndsRun
<1>2. value = [k \in i..end |-> IF k = i THEN c ELSE Wrap(value[k - 1] * 10 + (s[k - 1] - Zero))]
  BY ValuesDef DEF Starts
<1>3. \A k \in i..end - 1 : s[k] - Zero \in 0..9
  BY <1>1, StringFacts, RunEndFacts DEF Starts, EndsRun, IsDigit, Zero
<1>4. value[i] = c
  <2> HIDE DEF value, end
  <2> QED
    BY <1>1, <1>2
<1>5. \A k \in i..end - 1 : value[k + 1] = Wrap(value[k] * 10 + (s[k] - Zero))
  <2> HIDE DEF value, end
  <2> TAKE k \in i..end - 1
  <2>1. k + 1 \in i..end /\ k + 1 # i /\ (k + 1) - 1 = k
    BY <1>1
  <2> QED
    BY <1>2, <2>1
<1> HIDE DEF value, end
\* The next value fits.
<1>6. ASSUME NEW d \in Nat, d \in T, i + d < end
      PROVE  /\ value[i + (d + 1)] = value[i + d] * 10 + (s[i + d] - Zero)
             /\ value[i + (d + 1)] \in Nat /\ value[i + (d + 1)] < (c + 1) * Powers[d + 1]
  <2>1. value[i + d] \in Nat /\ value[i + d] < (c + 1) * Powers[d]
    BY <1>1, <1>6
  <2>2. i + d \in i..end - 1 /\ (i + d) + 1 = i + (d + 1) /\ d + 1 \in 1..MaxDigits /\ d \in 0..MaxDigits
    BY <1>1, <1>6
  <2>3. Powers[d + 1] = 10 * Powers[d] /\ Powers[d] \in Nat /\ Powers[d + 1] \in Nat
    BY <2>2, PowerFacts
  <2> DEFINE next == value[i + d] * 10 + (s[i + d] - Zero)
  <2>4. s[i + d] - Zero \in 0..9
    BY <1>3, <2>2
  <2>5. next \in Nat /\ next < (c + 1) * Powers[d + 1]
    <3>1. CASE c = 0
      BY <2>1, <2>3, <2>4, <3>1
    <3>2. CASE c = 1
      BY <2>1, <2>3, <2>4, <3>2
    <3> QED
      BY <1>1, <3>1, <3>2
  <2>6. (c + 1) * Powers[d + 1] <= IntLimit
    <3>1. Powers[MaxDigits] \in Nat /\ Powers[MaxDigits] <= IntLimit /\ IntLimit \in Nat
      BY <1>1, KeyConstants, PowerFacts
    <3>2. CASE c = 0
      <4>1. d + 1 = MaxDigits \/ 10 * Powers[d + 1] <= Powers[MaxDigits]
        BY <1>1, <2>2, PowersGrow
      <4> QED
        BY <2>3, <3>1, <3>2, <4>1
    <3>3. CASE c = 1
      <4>1. d + 1 < MaxDigits
        BY <1>1, <1>6, <3>3
      <4>2. 10 * Powers[d + 1] <= Powers[MaxDigits]
        BY <1>1, <2>2, <4>1, PowersGrow
      <4> QED
        BY <2>3, <3>1, <3>3, <4>2
    <3> QED
      BY <1>1, <3>2, <3>3
  <2>7. Wrap(next) = next
    <3> DEFINE bound == (c + 1) * Powers[d + 1]
    <3>1. next \in 0..IntLimit - 1
      <4>1. c + 1 \in Nat /\ Powers[d + 1] \in Nat
        BY <1>1, <2>3
      <4>2. bound \in Nat
        BY <4>1
      <4>3. next \in Nat /\ next < bound /\ bound <= IntLimit /\ IntLimit \in Nat
        BY <2>5, <2>6, KeyConstants
      <4> HIDE DEF next, bound
      <4> QED
        BY <4>2, <4>3
    <3> QED
      BY <3>1, WrapFits
  <2>8. value[i + (d + 1)] = next
    BY <1>5, <2>2, <2>7
  <2> QED
    BY <2>5, <2>8
<1>7. Nat \subseteq T
  <2>1. 0 \in T
    <3>1. c < (c + 1) * Powers[0] /\ c \in Nat /\ i + 0 = i
      BY <1>1, PowerFacts
    <3> QED
      BY <1>4, <3>1
  <2>2. ASSUME NEW d \in Nat, d \in T PROVE d + 1 \in T
    <3>1. i + (d + 1) <= end => i + d < end
      BY <1>1
    <3> QED
      BY <1>6, <2>2, <3>1
  <2> QED
    BY <2>1, <2>2, Induction
<1>8. ASSUME NEW k \in i..end
      PROVE  k - i \in 0..MaxDigits /\ value[k] \in Nat /\ (c = 0 => value[k] < Powers[k - i])
  <2>1. k - i \in 0..MaxDigits /\ k - i \in Nat /\ i + (k - i) = k
    BY <1>1
  <2>2. value[k] \in Nat /\ value[k] < (c + 1) * Powers[k - i]
    BY <1>1, <1>7, <2>1
  <2>3. Powers[k - i] \in Nat
    BY <2>1, PowerFacts
  <2> QED
    BY <2>1, <2>2, <2>3
<1>9. ASSUME NEW k \in i..end - 1
      PROVE  value[k + 1] = value[k] * 10 + (s[k] - Zero)
  <2>1. k - i \in Nat /\ i + (k - i) = k /\ i + ((k - i) + 1) = k + 1 /\ k < end
    BY <1>1
  <2>2. k - i \in T
    BY <1>7, <2>1
  <2> HIDE DEF T
  <2> QED
    BY <1>6, <2>1, <2>2
<1> QED
  BY <1>4, <1>8, <1>9 DEF value, end

\* The rest of a run is a run, and the value in front of it counts once for each of its values.
LEMMA ValuesSplit ==
  ASSUME NEW s \in Strings, NEW i, NEW c, Starts(s, i, c), NEW j \in i..RunEnd(s, i)
  PROVE  /\ RunEnd(s, j) = RunEnd(s, i) /\ Starts(s, j, 0)
         /\ \A k \in j..RunEnd(s, i) :
              Values(s, i, c)[k] = Values(s, i, c)[j] * Powers[k - j] + Values(s, j, 0)[k]
<1> DEFINE value == Values(s, i, c)
           rest == Values(s, j, 0)
           end == RunEnd(s, i)
           T == {d \in Nat : j + d <= end => value[j + d] = value[j] * Powers[d] + rest[j + d]}
<1>1. /\ i \in Nat \ {0} /\ j \in i..end /\ end \in i..Len(s) + 1 /\ Len(s) \in Nat
      /\ MaxDigits \in Nat /\ end - i \in 0..MaxDigits
  BY StringFacts, RunEndFacts, RunFits, KeyConstants DEF Starts, EndsRun
<1>2. Starts(s, j, 0)
  BY <1>1 DEF Starts
<1>3. RunEnd(s, j) = end
  <2>1. EndsRun(s, i, end)
    BY RunEndFacts DEF Starts
  <2>2. EndsRun(s, j, end)
    <3> HIDE DEF end
    <3> QED
      BY <1>1, <2>1 DEF EndsRun
  <2> QED
    BY <1>2, <2>2, RunEndFacts DEF Starts
<1>4. \A k \in i..end - 1 : s[k] - Zero \in 0..9
  BY <1>1, StringFacts, RunEndFacts DEF Starts, EndsRun, IsDigit, Zero
<1>5. /\ \A k \in i..end : k - i \in 0..MaxDigits /\ value[k] \in Nat
      /\ \A k \in i..end - 1 : value[k + 1] = value[k] * 10 + (s[k] - Zero)
  BY ValuesStep
<1>6. /\ rest[j] = 0
      /\ \A k \in j..end : k - j \in 0..MaxDigits /\ rest[k] \in Nat
      /\ \A k \in j..end - 1 : rest[k + 1] = rest[k] * 10 + (s[k] - Zero)
  BY <1>2, <1>3, ValuesStep
<1> HIDE DEF value, rest, end
<1>7. 0 \in T
  <2>1. value[j] \in Nat /\ j + 0 = j
    BY <1>1, <1>5
  <2> QED
    BY <1>6, <2>1, PowerFacts
<1>8. ASSUME NEW d \in Nat, d \in T PROVE d + 1 \in T
  <2> SUFFICES ASSUME j + (d + 1) <= end
               PROVE  value[j + (d + 1)] = value[j] * Powers[d + 1] + rest[j + (d + 1)]
    OBVIOUS
  <2>1. /\ j + d \in i..end - 1 /\ j + d \in j..end - 1 /\ j + (d + 1) = (j + d) + 1
        /\ j + d \in i..end /\ j + d \in j..end /\ j \in i..end
    BY <1>1
  <2>2. d + 1 \in 1..MaxDigits /\ (d + 1) - 1 = d /\ d \in 0..MaxDigits
    BY <1>1, <2>1
  <2>3. Powers[d + 1] = 10 * Powers[d] /\ Powers[d] \in Nat
    BY <2>2, PowerFacts
  <2>4. value[j + d] = value[j] * Powers[d] + rest[j + d]
    BY <1>1, <1>8, <2>1
  <2>5. value[j + (d + 1)] = value[j + d] * 10 + (s[j + d] - Zero)
    BY <1>5, <2>1
  <2>6. rest[j + (d + 1)] = rest[j + d] * 10 + (s[j + d] - Zero)
    BY <1>6, <2>1
  <2>7. value[j] \in Nat /\ value[j + d] \in Nat /\ rest[j + d] \in Nat /\ s[j + d] - Zero \in Nat
    BY <1>4, <1>5, <1>6, <2>1
  <2>8. (value[j] * Powers[d]) * 10 = value[j] * Powers[d + 1] /\ value[j] * Powers[d] \in Nat
    BY <2>3, <2>7
  <2> HIDE DEF T
  <2> QED
    BY <2>4, <2>5, <2>6, <2>7, <2>8
<1>9. Nat \subseteq T
  BY <1>7, <1>8, Induction
<1>10. ASSUME NEW k \in j..end PROVE value[k] = value[j] * Powers[k - j] + rest[k]
  <2>1. k - j \in Nat /\ j + (k - j) = k /\ k <= end
    BY <1>1
  <2> QED
    BY <1>9, <2>1
<1> QED
  BY <1>2, <1>3, <1>10 DEF value, rest, end

\* Strings that agree up to e have the same values up to there.
LEMMA ValuesAlike ==
  ASSUME NEW s \in Strings, NEW t \in Strings, NEW i, NEW c, Starts(s, i, c), Starts(t, i, c),
         NEW e \in i..RunEnd(s, i), e <= RunEnd(t, i), \A k \in i..e - 1 : s[k] = t[k]
  PROVE  Values(s, i, c)[e] = Values(t, i, c)[e]
<1> DEFINE v == Values(s, i, c)
           w == Values(t, i, c)
           T == {d \in Nat : i + d <= e => v[i + d] = w[i + d]}
<1>1. i \in Nat \ {0} /\ RunEnd(s, i) \in i..Len(s) + 1 /\ RunEnd(t, i) \in i..Len(t) + 1
  BY StringFacts, RunEndFacts DEF Starts, EndsRun
<1>2. Len(s) \in Nat /\ Len(t) \in Nat
  BY StringFacts
<1>3. e \in i..RunEnd(s, i) /\ e \in i..RunEnd(t, i) /\ e \in Nat
  BY <1>1, <1>2
<1>4. v[i] = c /\ \A k \in i..RunEnd(s, i) - 1 : v[k + 1] = v[k] * 10 + (s[k] - Zero)
  BY ValuesStep
<1>5. w[i] = c /\ \A k \in i..RunEnd(t, i) - 1 : w[k + 1] = w[k] * 10 + (t[k] - Zero)
  BY ValuesStep
<1> HIDE DEF v, w
<1>6. 0 \in T
  BY <1>1, <1>4, <1>5
<1>7. ASSUME NEW d \in Nat, d \in T PROVE d + 1 \in T
  <2> SUFFICES ASSUME i + (d + 1) <= e PROVE v[i + (d + 1)] = w[i + (d + 1)]
    OBVIOUS
  <2>1. /\ i + d \in i..RunEnd(s, i) - 1 /\ i + d \in i..RunEnd(t, i) - 1 /\ i + d \in i..e - 1
        /\ i + (d + 1) = (i + d) + 1 /\ i + d <= e
    BY <1>1, <1>2, <1>3
  <2>2. v[i + d] = w[i + d] /\ s[i + d] = t[i + d]
    BY <1>7, <2>1
  <2> HIDE DEF T
  <2> QED
    BY <1>4, <1>5, <2>1, <2>2
<1>8. e - i \in Nat /\ i + (e - i) = e
  BY <1>1, <1>3
<1>9. e - i \in T
  BY <1>6, <1>7, <1>8, Induction
<1> QED
  BY <1>3, <1>8, <1>9 DEF v, w

\* A run that does not start with a zero has a value of as many digits.
LEMMA FirstDigit ==
  ASSUME NEW s \in Strings, NEW i \in 1..Len(s), s[i] # Zero, NEW k \in i + 1..RunEnd(s, i)
  PROVE  Powers[k - i - 1] <= Values(s, i, 0)[k]
<1> DEFINE value == Values(s, i, 0)
           end == RunEnd(s, i)
           T == {d \in Nat : i + 1 + d <= end => Powers[d] <= value[i + 1 + d]}
<1>1. Starts(s, i, 0) /\ Len(s) \in Nat
  BY StringFacts DEF Starts
<1>2. /\ i \in Nat \ {0} /\ end \in i..Len(s) + 1 /\ Len(s) \in Nat /\ MaxDigits \in Nat
      /\ end - i \in 0..MaxDigits
  BY <1>1, StringFacts, RunEndFacts, RunFits, KeyConstants DEF Starts, EndsRun
<1>3. \A n \in i..end - 1 : s[n] - Zero \in 0..9
  BY <1>1, <1>2, StringFacts, RunEndFacts DEF Starts, EndsRun, IsDigit, Zero
<1>4. /\ value[i] = 0
      /\ \A n \in i..end : n - i \in 0..MaxDigits /\ value[n] \in Nat
      /\ \A n \in i..end - 1 : value[n + 1] = value[n] * 10 + (s[n] - Zero)
  BY <1>1, ValuesStep
<1> HIDE DEF value, end
<1>5. 0 \in T
  <2> SUFFICES ASSUME i + 1 + 0 <= end PROVE Powers[0] <= value[i + 1 + 0]
    OBVIOUS
  <2>1. i \in i..end - 1 /\ i + 1 + 0 = i + 1
    BY <1>2
  <2>2. value[i + 1] = s[i] - Zero /\ s[i] - Zero \in 0..9
    BY <1>3, <1>4, <2>1
  <2>3. s[i] - Zero # 0
    BY <1>2, StringFacts DEF Zero
  <2> QED
    BY <2>1, <2>2, <2>3, PowerFacts
<1>6. ASSUME NEW d \in Nat, d \in T PROVE d + 1 \in T
  <2> SUFFICES ASSUME i + 1 + (d + 1) <= end PROVE Powers[d + 1] <= value[i + 1 + (d + 1)]
    OBVIOUS
  <2>1. /\ i + 1 + d \in i..end - 1 /\ i + 1 + (d + 1) = (i + 1 + d) + 1 /\ i + 1 + d <= end
        /\ i + 1 + d \in i..end
    BY <1>2
  <2>2. d + 1 \in 1..MaxDigits /\ (d + 1) - 1 = d /\ d \in 0..MaxDigits
    BY <1>2, <2>1
  <2>3. Powers[d + 1] = 10 * Powers[d] /\ Powers[d] \in Nat
    BY <2>2, PowerFacts
  <2>4. Powers[d] <= value[i + 1 + d] /\ value[i + 1 + d] \in Nat
    BY <1>4, <1>6, <2>1
  <2>5. value[(i + 1 + d) + 1] = value[i + 1 + d] * 10 + (s[i + 1 + d] - Zero)
    BY <1>4, <2>1
  <2>6. s[i + 1 + d] - Zero \in Nat
    BY <1>3, <2>1
  <2> HIDE DEF T
  <2> QED
    BY <2>1, <2>3, <2>4, <2>5, <2>6
<1>7. k - i - 1 \in Nat /\ i + 1 + (k - i - 1) = k /\ k <= end
  BY <1>2 DEF end
<1>8. k - i - 1 \in T
  BY <1>5, <1>6, <1>7, Induction
<1> QED
  BY <1>7, <1>8 DEF value

-----------------------------------------------------------------------------
(* The order at one place of two strings                                     *)

\* Whether the digits in front of a place count there.
Counts(s, i) == \E j \in 1..i - 1 : s[j] # Zero /\ \A k \in j..i - 1 : IsDigit(s[k])
Start(s, i) == IF Counts(s, i) THEN 1 ELSE 0
Value(s, i) == RunValue(s, i, Start(s, i))

\* Two strings agree in front of a place of both, or behind one.
Share(s, t, i) ==
  /\ i \in 1..Len(s) + 1 /\ i \in 1..Len(t) + 1
  /\ \A k \in 1..i - 1 : s[k] = t[k]

\* What counts is in front of the place.
LEMMA StartFacts ==
  ASSUME NEW s \in Strings, NEW i \in 1..Len(s) + 1
  PROVE  Start(s, i) \in {0, 1} /\ Starts(s, i, Start(s, i)) /\ Starts(s, i, 0)
<1>1. i \in Nat \ {0}
  BY StringFacts
<1>2. Counts(s, i) => i > 1 /\ IsDigit(s[i - 1])
  <2> SUFFICES ASSUME Counts(s, i) PROVE i > 1 /\ IsDigit(s[i - 1])
    OBVIOUS
  <2>1. PICK j \in 1..i - 1 : \A k \in j..i - 1 : IsDigit(s[k])
    BY DEF Counts
  <2>2. i > 1 /\ i - 1 \in j..i - 1
    BY <1>1
  <2> QED
    BY <2>1, <2>2
<1>3. Start(s, i) \in {0, 1} /\ (Start(s, i) = 1 => i > 1 /\ IsDigit(s[i - 1]))
  BY <1>1, <1>2 DEF Start
<1> QED
  BY <1>3 DEF Starts

\* What counts is the same for both.
LEMMA StartAlike ==
  ASSUME NEW s, NEW t, NEW i \in Nat, \A k \in 1..i - 1 : s[k] = t[k]
  PROVE  Counts(s, i) <=> Counts(t, i)
<1>1. \A j \in 1..i - 1 : s[j] = t[j] /\ \A k \in j..i - 1 : s[k] = t[k]
  OBVIOUS
<1> QED
  BY <1>1 DEF Counts

\* A digit counts at the next place if it is not zero, or if something has counted before.
LEMMA CountsStep ==
  ASSUME NEW s, NEW i \in Nat \ {0}, IsDigit(s[i])
  PROVE  Counts(s, i + 1) <=> s[i] # Zero \/ Counts(s, i)
<1>1. ASSUME s[i] # Zero PROVE Counts(s, i + 1)
  <2>1. i \in 1..(i + 1) - 1 /\ \A k \in i..(i + 1) - 1 : k = i
    OBVIOUS
  <2> QED
    BY <1>1, <2>1 DEF Counts
<1>2. ASSUME Counts(s, i) PROVE Counts(s, i + 1)
  <2>1. PICK j \in 1..i - 1 : s[j] # Zero /\ \A k \in j..i - 1 : IsDigit(s[k])
    BY <1>2 DEF Counts
  <2>2. j \in 1..(i + 1) - 1 /\ \A k \in j..(i + 1) - 1 : k = i \/ k \in j..i - 1
    OBVIOUS
  <2> QED
    BY <2>1, <2>2 DEF Counts
<1>3. ASSUME Counts(s, i + 1), s[i] = Zero PROVE Counts(s, i)
  <2>1. PICK j \in 1..(i + 1) - 1 : s[j] # Zero /\ \A k \in j..(i + 1) - 1 : IsDigit(s[k])
    BY <1>3 DEF Counts
  <2>2. j # i
    BY <1>3, <2>1
  <2>3. j \in 1..i - 1 /\ \A k \in j..i - 1 : k \in j..(i + 1) - 1
    BY <2>2
  <2> QED
    BY <2>1, <2>3 DEF Counts
<1> QED
  BY <1>1, <1>2, <1>3

\* In a run of digits, what is in front counts if its value is not zero.
LEMMA CountsInRun ==
  ASSUME NEW s \in Strings, NEW i \in 1..Len(s) + 1, NEW j \in i..RunEnd(s, i)
  PROVE  Values(s, i, Start(s, i))[j] = 0 <=> Start(s, j) = 0
<1> DEFINE value == Values(s, i, Start(s, i))
           end == RunEnd(s, i)
           T == {d \in Nat : i + d <= end => (value[i + d] = 0 <=> ~Counts(s, i + d))}
<1>1. i \in Nat \ {0} /\ end \in i..Len(s) + 1 /\ Len(s) \in Nat
  BY StringFacts, RunEndFacts DEF EndsRun
<1>2. \A n \in i..end - 1 : IsDigit(s[n]) /\ s[n] \in Nat
  BY <1>1, StringFacts, RunEndFacts DEF EndsRun
<1>3. /\ value[i] = Start(s, i)
      /\ \A n \in i..end : value[n] \in Nat
      /\ \A n \in i..end - 1 : value[n + 1] = value[n] * 10 + (s[n] - Zero)
  BY StartFacts, ValuesStep
<1> HIDE DEF value, end
<1>4. 0 \in T
  BY <1>1, <1>3 DEF Start
<1>5. ASSUME NEW d \in Nat, d \in T PROVE d + 1 \in T
  <2> SUFFICES ASSUME i + (d + 1) <= end
               PROVE  value[i + (d + 1)] = 0 <=> ~Counts(s, i + (d + 1))
    OBVIOUS
  <2> DEFINE n == i + d
  <2>1. n \in i..end - 1 /\ n \in i..end /\ i + (d + 1) = n + 1 /\ n <= end /\ n \in Nat \ {0}
    BY <1>1
  <2>2. value[n] = 0 <=> ~Counts(s, n)
    BY <1>5, <2>1
  <2> HIDE DEF T, n
  <2>3. value[n + 1] = value[n] * 10 + (s[n] - Zero) /\ value[n] \in Nat
    BY <1>3, <2>1
  <2>4. s[n] \in 48..57
    BY <1>2, <2>1 DEF IsDigit
  <2>5. value[n + 1] = 0 <=> (value[n] = 0 /\ s[n] = Zero)
    <3>1. PICK x \in 0..9 : x = s[n] - Zero
      BY <2>4 DEF Zero
    <3>2. x = 0 <=> s[n] = Zero
      BY <2>4, <3>1 DEF Zero
    <3>3. PICK v \in Nat : v = value[n]
      BY <2>3
    <3>4. value[n + 1] = v * 10 + x
      BY <2>3, <3>1, <3>3
    <3>5. CASE v = 0 /\ x = 0
      BY <3>2, <3>3, <3>4, <3>5
    <3>6. CASE v > 0 \/ x > 0
      <4>1. v * 10 + x > 0
        <5>1. v * 10 >= 0 /\ (v > 0 => v * 10 > 0) /\ v * 10 \in Int
          OBVIOUS
        <5> QED
          BY <3>6, <5>1
      <4> QED
        BY <3>2, <3>3, <3>4, <3>6, <4>1
    <3> QED
      BY <3>5, <3>6
  <2>6. Counts(s, n + 1) <=> s[n] # Zero \/ Counts(s, n)
    BY <1>2, <2>1, CountsStep
  <2>7. value[n + 1] = 0 <=> ~Counts(s, n + 1)
    BY <2>2, <2>5, <2>6
  <2> QED
    BY <2>1, <2>7
<1>6. j - i \in Nat /\ i + (j - i) = j /\ j <= end
  BY <1>1 DEF end
<1>7. j - i \in T
  BY <1>4, <1>5, <1>6, Induction
<1>8. value[j] = 0 <=> ~Counts(s, j)
  BY <1>6, <1>7
<1> QED
  BY <1>8 DEF value, Start

\* How large the value of a run is that does not start with a zero.
LEMMA Magnitude ==
  ASSUME NEW s \in Strings, NEW i \in 1..Len(s), s[i] # Zero, i > 1, IsDigit(s[i - 1])
  PROVE  LET l == RunEnd(s, i) - i IN
         /\ l \in 0..MaxDigits /\ RunValue(s, i, 0) \in Nat
         /\ RunValue(s, i, 1) = Powers[l] + RunValue(s, i, 0)
         /\ RunValue(s, i, 0) < Powers[l]
         /\ l > 0 => Powers[l - 1] <= RunValue(s, i, 0)
<1> DEFINE end == RunEnd(s, i)
<1>1. Starts(s, i, 0) /\ Starts(s, i, 1) /\ Len(s) \in Nat /\ i \in Nat /\ i \in 1..Len(s) + 1
  BY StringFacts DEF Starts
<1>2. end \in i..Len(s) + 1 /\ i \in i..end /\ end \in i..end
  BY <1>1, RunEndFacts DEF EndsRun
<1>3. /\ end - i \in 0..MaxDigits /\ Values(s, i, 0)[end] \in Nat
      /\ Values(s, i, 0)[end] < Powers[end - i] /\ Values(s, i, 1)[i] = 1
  BY <1>1, <1>2, ValuesStep
<1>4. Values(s, i, 1)[end] = Values(s, i, 1)[i] * Powers[end - i] + Values(s, i, 0)[end]
  BY <1>1, <1>2, ValuesSplit
<1>5. Powers[end - i] \in Nat
  BY <1>3, PowerFacts
<1>6. end - i > 0 => Powers[end - i - 1] <= Values(s, i, 0)[end]
  <2> SUFFICES ASSUME end - i > 0 PROVE Powers[end - i - 1] <= Values(s, i, 0)[end]
    OBVIOUS
  <2>1. end \in i + 1..end
    BY <1>1, <1>2
  <2> QED
    BY <2>1, FirstDigit
<1> QED
  BY <1>3, <1>4, <1>5, <1>6 DEF RunValue

\* Of two runs that do not start with a zero the longer is greater, with or without what
\* stands in front of them.
LEMMA LongerIsGreater ==
  ASSUME NEW s \in Strings, NEW t \in Strings, NEW i \in 1..Len(s), i \in 1..Len(t), i > 1,
         IsDigit(s[i - 1]), IsDigit(t[i - 1]), s[i] # Zero, t[i] # Zero, RunEnd(s, i) < RunEnd(t, i)
  PROVE  /\ RunValue(s, i, 0) < RunValue(t, i, 0)
         /\ RunValue(s, i, 1) < RunValue(t, i, 1)
<1> DEFINE l == RunEnd(s, i) - i
           m == RunEnd(t, i) - i
<1>1. /\ l \in 0..MaxDigits /\ RunValue(s, i, 0) \in Nat
      /\ RunValue(s, i, 1) = Powers[l] + RunValue(s, i, 0)
      /\ RunValue(s, i, 0) < Powers[l]
  BY Magnitude
<1>2. /\ m \in 0..MaxDigits /\ RunValue(t, i, 0) \in Nat
      /\ RunValue(t, i, 1) = Powers[m] + RunValue(t, i, 0)
      /\ m > 0 => Powers[m - 1] <= RunValue(t, i, 0)
  BY Magnitude
<1>3. l < m /\ MaxDigits \in Nat
  <2>1. /\ i \in Nat /\ RunEnd(s, i) \in Nat /\ RunEnd(t, i) \in Nat
    BY StringFacts, RunEndFacts DEF EndsRun
  <2> QED
    BY <2>1, KeyConstants
<1> HIDE DEF l, m
<1>4. m > 0 /\ m - 1 \in 0..MaxDigits /\ (l = m - 1 \/ l < m - 1)
  BY <1>1, <1>2, <1>3
<1>5. Powers[l] \in Nat /\ Powers[m] \in Nat /\ Powers[m - 1] \in Nat
  BY <1>1, <1>2, <1>4, PowerFacts
<1>6. 10 * Powers[l] <= Powers[m]
  BY <1>1, <1>2, <1>3, PowersGrow
<1>7. Powers[l] <= Powers[m - 1]
  <2>1. l < m - 1 => 10 * Powers[l] <= Powers[m - 1]
    BY <1>1, <1>4, PowersGrow
  <2> QED
    BY <1>4, <1>5, <2>1
<1>8. RunValue(s, i, 0) < RunValue(t, i, 0)
  BY <1>1, <1>2, <1>4, <1>5, <1>7
<1>9. RunValue(s, i, 1) < RunValue(t, i, 1)
  <2>1. Powers[l] <= Powers[m]
    BY <1>5, <1>6
  <2> QED
    BY <1>1, <1>2, <1>5, <1>8, <2>1
<1> QED
  BY <1>8, <1>9

\* What stands in front of a run is left out where that makes no difference.
LEMMA CarryAgrees ==
  ASSUME NEW s \in Strings, NEW t \in Strings, NEW i, Share(s, t, i), i <= Len(s), i <= Len(t)
  PROVE  /\ RunValue(s, i, Carry(s, t, i)) < RunValue(t, i, Carry(s, t, i))
              <=> Value(s, i) < Value(t, i)
         /\ RunValue(s, i, Carry(s, t, i)) = RunValue(t, i, Carry(s, t, i))
              <=> Value(s, i) = Value(t, i)
<1>1. /\ i \in 1..Len(s) /\ i \in 1..Len(t) /\ Len(s) \in Nat /\ Len(t) \in Nat /\ i \in Nat
      /\ i \in 1..Len(s) + 1 /\ i \in 1..Len(t) + 1
  BY StringFacts DEF Share
<1>2. Start(s, i) = Start(t, i)
  BY <1>1, StartAlike DEF Share, Start
<1>3. Carry(s, t, i) = IF Zero \in {s[i], t[i]} THEN Start(s, i) ELSE 0
  BY DEF Carry, Start, Counts
<1>4. CASE Carry(s, t, i) = Start(s, i)
  BY <1>2, <1>4 DEF Value
<1>5. CASE Carry(s, t, i) # Start(s, i)
  <2>1. /\ Carry(s, t, i) = 0 /\ Start(s, i) = 1 /\ s[i] # Zero /\ t[i] # Zero /\ i > 1
        /\ IsDigit(s[i - 1]) /\ IsDigit(t[i - 1])
    BY <1>1, <1>2, <1>3, <1>5, StartFacts DEF Starts
  <2>2. RunEnd(s, i) \in Nat /\ RunEnd(t, i) \in Nat
    BY <1>1, RunEndFacts DEF EndsRun
  <2> DEFINE l == RunEnd(s, i) - i
             m == RunEnd(t, i) - i
  <2>3. /\ l \in 0..MaxDigits /\ RunValue(s, i, 0) \in Nat
        /\ RunValue(s, i, 1) = Powers[l] + RunValue(s, i, 0)
    BY <1>1, <2>1, Magnitude
  <2>4. /\ m \in 0..MaxDigits /\ RunValue(t, i, 0) \in Nat
        /\ RunValue(t, i, 1) = Powers[m] + RunValue(t, i, 0)
    BY <1>1, <2>1, Magnitude
  <2>5. Powers[l] \in Nat /\ Powers[m] \in Nat
    BY <2>3, <2>4, PowerFacts
  <2>6. RunEnd(s, i) < RunEnd(t, i) =>
          /\ RunValue(s, i, 0) < RunValue(t, i, 0)
          /\ RunValue(s, i, 1) < RunValue(t, i, 1)
    BY <1>1, <2>1, LongerIsGreater
  <2>7. RunEnd(t, i) < RunEnd(s, i) =>
          /\ RunValue(t, i, 0) < RunValue(s, i, 0)
          /\ RunValue(t, i, 1) < RunValue(s, i, 1)
    BY <1>1, <2>1, LongerIsGreater
  <2>8. RunEnd(t, i) = RunEnd(s, i) => l = m
    OBVIOUS
  <2> HIDE DEF l, m
  <2>9. /\ RunValue(s, i, 0) < RunValue(t, i, 0) <=> RunValue(s, i, 1) < RunValue(t, i, 1)
        /\ RunValue(s, i, 0) = RunValue(t, i, 0) <=> RunValue(s, i, 1) = RunValue(t, i, 1)
    BY <2>2, <2>3, <2>4, <2>5, <2>6, <2>7, <2>8
  <2> QED
    BY <1>2, <2>1, <2>9 DEF Value
<1> QED
  BY <1>4, <1>5

\* Letters come first behind a digit, and last elsewhere; the end comes before everything.
Behind(s, i) == i > 1 /\ IsDigit(s[i - 1])
Class(s, i) ==
  CASE i > Len(s) -> 0
    [] i <= Len(s) /\ IsLetter(s[i]) -> IF Behind(s, i) THEN 1 ELSE 3
    [] i <= Len(s) /\ ~IsLetter(s[i]) -> 2

\* Runs go by value, then length, then their first character.
RunBefore(s, t, i) ==
  \/ Value(s, i) < Value(t, i)
  \/ Value(s, i) = Value(t, i) /\ RunEnd(s, i) < RunEnd(t, i)
  \/ Value(s, i) = Value(t, i) /\ RunEnd(s, i) = RunEnd(t, i) /\ s[i] < t[i]

\* What is at a place decides, whatever follows.
Before(s, t, i) ==
  \/ Class(s, i) < Class(t, i)
  \/ Class(s, i) = Class(t, i) /\ Class(s, i) = 2 /\ RunBefore(s, t, i)
  \/ Class(s, i) = Class(t, i) /\ Class(s, i) \in {1, 3} /\ s[i] < t[i]

\* The place at which two strings begin to differ.
Splits(s, t, i) ==
  /\ Share(s, t, i)
  /\ i <= Len(s) \/ i <= Len(t)
  /\ i <= Len(s) /\ i <= Len(t) => s[i] # t[i]

\* What is compared at a place are numbers.
LEMMA PlaceTypes ==
  ASSUME NEW s \in Strings, NEW i \in 1..Len(s) + 1
  PROVE  /\ Class(s, i) \in 0..3 /\ Value(s, i) \in Nat /\ RunEnd(s, i) \in Nat
         /\ Class(s, i) # 0 => i \in 1..Len(s) /\ s[i] \in Nat
<1>1. Len(s) \in Nat /\ i \in Nat /\ (i <= Len(s) => s[i] \in Nat)
  BY StringFacts
<1>2. RunEnd(s, i) \in i..Len(s) + 1
  BY RunEndFacts DEF EndsRun
<1>3. Starts(s, i, Start(s, i)) /\ RunEnd(s, i) \in i..RunEnd(s, i)
  BY <1>1, <1>2, StartFacts
<1>4. Value(s, i) \in Nat
  BY <1>3, ValuesStep DEF Value, RunValue
<1>5. CASE i > Len(s)
  BY <1>1, <1>2, <1>4, <1>5 DEF Class
<1>6. CASE i <= Len(s)
  <2>1. Class(s, i) = IF IsLetter(s[i]) THEN IF Behind(s, i) THEN 1 ELSE 3 ELSE 2
    BY <1>1, <1>6 DEF Class
  <2> QED
    BY <1>1, <1>2, <1>4, <1>6, <2>1
<1> QED
  BY <1>1, <1>5, <1>6

\* A place that is not after another is before what that one is before.
LEMMA BeforeLimit ==
  ASSUME NEW s \in Strings, NEW t \in Strings, NEW u \in Strings, NEW i,
         i \in 1..Len(s) + 1, i \in 1..Len(t) + 1, i \in 1..Len(u) + 1,
         Before(s, t, i), ~Before(u, t, i)
  PROVE  Before(s, u, i)
<1>1. /\ Class(s, i) \in 0..3 /\ Value(s, i) \in Nat /\ RunEnd(s, i) \in Nat
      /\ Class(s, i) # 0 => s[i] \in Nat
  BY PlaceTypes
<1>2. /\ Class(t, i) \in 0..3 /\ Value(t, i) \in Nat /\ RunEnd(t, i) \in Nat
      /\ Class(t, i) # 0 => t[i] \in Nat
  BY PlaceTypes
<1>3. /\ Class(u, i) \in 0..3 /\ Value(u, i) \in Nat /\ RunEnd(u, i) \in Nat
      /\ Class(u, i) # 0 => u[i] \in Nat
  BY PlaceTypes
<1>4. Class(s, i) <= Class(t, i) /\ Class(t, i) <= Class(u, i)
  <2>1. Class(s, i) < Class(t, i) \/ Class(s, i) = Class(t, i)
    BY DEF Before
  <2>2. ~(Class(u, i) < Class(t, i))
    BY DEF Before
  <2> QED
    BY <1>1, <1>2, <1>3, <2>1, <2>2
<1>5. CASE Class(s, i) < Class(u, i)
  BY <1>5 DEF Before
<1>6. CASE Class(s, i) = Class(u, i)
  <2>1. Class(s, i) = Class(t, i) /\ Class(s, i) # 0
    BY <1>1, <1>2, <1>3, <1>4, <1>6 DEF Before
  <2>2. CASE Class(s, i) = 2
    <3>1. RunBefore(s, t, i) /\ ~RunBefore(u, t, i)
      BY <1>1, <1>2, <1>3, <1>6, <2>1, <2>2 DEF Before
    <3>2. RunBefore(s, u, i)
      BY <1>1, <1>2, <1>3, <1>6, <2>1, <3>1 DEF RunBefore
    <3> QED
      BY <1>6, <2>2, <3>2 DEF Before
  <2>3. CASE Class(s, i) \in {1, 3}
    <3>1. s[i] < t[i] /\ ~(u[i] < t[i])
      BY <1>1, <1>2, <1>3, <1>6, <2>1, <2>3 DEF Before
    <3>2. s[i] < u[i]
      BY <1>1, <1>2, <1>3, <1>6, <2>1, <3>1
    <3> QED
      BY <1>6, <2>3, <3>2 DEF Before
  <2> QED
    BY <1>1, <1>2, <1>3, <2>1, <2>2, <2>3
<1> QED
  BY <1>1, <1>2, <1>3, <1>4, <1>5, <1>6

\* No two places are before each other.
LEMMA BeforeOnce ==
  ASSUME NEW s \in Strings, NEW t \in Strings, NEW i,
         i \in 1..Len(s) + 1, i \in 1..Len(t) + 1, Before(s, t, i)
  PROVE  ~Before(t, s, i)
<1>1. /\ Class(s, i) \in 0..3 /\ Value(s, i) \in Nat /\ RunEnd(s, i) \in Nat
      /\ Class(s, i) # 0 => s[i] \in Nat
  BY PlaceTypes
<1>2. /\ Class(t, i) \in 0..3 /\ Value(t, i) \in Nat /\ RunEnd(t, i) \in Nat
      /\ Class(t, i) # 0 => t[i] \in Nat
  BY PlaceTypes
<1> QED
  BY <1>1, <1>2 DEF Before, RunBefore

\* What of two characters the code compares, by which of them are letters.
LEMMA DifferenceCases ==
  ASSUME NEW s, NEW t, NEW i, s # t
  PROVE  DifferenceLess(s, t, i) <=>
           IF IsLetter(s[i]) /\ IsLetter(t[i]) THEN s[i] < t[i]
           ELSE IF IsLetter(s[i]) THEN Behind(s, i)
           ELSE IF IsLetter(t[i]) THEN ~Behind(s, i)
           ELSE LET m == RunValue(s, i, Carry(s, t, i))
                    n == RunValue(t, i, Carry(s, t, i))
                IN  IF m # n THEN m < n
                    ELSE IF RunEnd(s, i) # RunEnd(t, i) THEN RunEnd(s, i) < RunEnd(t, i)
                    ELSE s[i] < t[i]
<1> DEFINE letters == {x \in {s, t} : IsLetter(x[i])}
<1>1. CASE IsLetter(s[i]) /\ IsLetter(t[i])
  <2>1. letters = {s, t}
    BY <1>1
  <2>2. {s, t} # {s} /\ {s, t} # {t} /\ {s, t} # {}
    OBVIOUS
  <2> QED
    BY <1>1, <2>1, <2>2 DEF DifferenceLess
<1>2. CASE IsLetter(s[i]) /\ ~IsLetter(t[i])
  <2>1. letters = {s}
    BY <1>2
  <2>2. {s} # {s, t} /\ {s} # {t} /\ {s} # {}
    OBVIOUS
  <2> QED
    BY <1>2, <2>1, <2>2 DEF DifferenceLess, Behind
<1>3. CASE ~IsLetter(s[i]) /\ IsLetter(t[i])
  <2>1. letters = {t}
    BY <1>3
  <2>2. {t} # {s, t} /\ {t} # {s} /\ {t} # {}
    OBVIOUS
  <2> QED
    BY <1>3, <2>1, <2>2 DEF DifferenceLess, Behind
<1>4. CASE ~IsLetter(s[i]) /\ ~IsLetter(t[i])
  <2>1. letters = {}
    BY <1>4
  <2>2. {} # {s, t} /\ {} # {s} /\ {} # {t}
    OBVIOUS
  <2> QED
    BY <1>4, <2>1, <2>2 DEF DifferenceLess
<1> QED
  BY <1>1, <1>2, <1>3, <1>4

\* Where two strings begin to differ decides which is less.
LEMMA SplitLess ==
  ASSUME NEW s \in Strings, NEW t \in Strings, NEW i, Splits(s, t, i)
  PROVE  /\ StringLess(s, t) <=> Before(s, t, i)
         /\ Before(s, t, i) \/ Before(t, s, i)
<1> DEFINE different == {k \in DOMAIN s \cap DOMAIN t : s[k] # t[k]}
<1>1. /\ i \in 1..Len(s) + 1 /\ i \in 1..Len(t) + 1 /\ i \in Nat \ {0}
      /\ Len(s) \in Nat /\ Len(t) \in Nat /\ DOMAIN s = 1..Len(s) /\ DOMAIN t = 1..Len(t)
      /\ \A k \in 1..i - 1 : s[k] = t[k]
  BY StringFacts DEF Splits, Share
<1>2. /\ Class(s, i) \in 0..3 /\ Class(t, i) \in 0..3
      /\ Value(s, i) \in Nat /\ Value(t, i) \in Nat /\ RunEnd(s, i) \in Nat /\ RunEnd(t, i) \in Nat
  BY <1>1, PlaceTypes
<1>3. CASE i <= Len(s) /\ i <= Len(t)
  <2>1. s[i] # t[i] /\ s[i] \in Nat /\ t[i] \in Nat
    BY <1>1, <1>3, StringFacts DEF Splits
  <2>2. i \in different /\ different \subseteq Nat
    BY <1>1, <1>3, <2>1
  <2>3. \A k \in different : i <= k
    BY <1>1
  <2> HIDE DEF different
  <2>4. Min(different) \in different /\ \A k \in different : Min(different) <= k
    BY <2>2, Least
  <2>5. Min(different) = i
    <3>1. Min(different) \in Nat /\ Min(different) <= i /\ i <= Min(different)
      BY <2>2, <2>3, <2>4
    <3> QED
      BY <1>1, <3>1
  <2>6. StringLess(s, t) <=> DifferenceLess(s, t, i)
    <3>1. StringLess(s, t) <=> (IF different = {} THEN Len(s) < Len(t)
                                ELSE DifferenceLess(s, t, Min(different)))
      BY DEF StringLess, different
    <3>2. different # {}
      BY <2>2
    <3> QED
      BY <2>5, <3>1, <3>2
  <2>7. s # t
    BY <2>1
  <2>8. Behind(s, i) <=> Behind(t, i)
    BY <1>1 DEF Behind
  <2>9. Class(s, i) = IF IsLetter(s[i]) THEN IF Behind(s, i) THEN 1 ELSE 3 ELSE 2
    BY <1>1, <1>3 DEF Class
  <2>10. Class(t, i) = IF IsLetter(t[i]) THEN IF Behind(s, i) THEN 1 ELSE 3 ELSE 2
    BY <1>1, <1>3, <2>8 DEF Class
  <2>11. CASE IsLetter(s[i]) \/ IsLetter(t[i])
    <3>1. StringLess(s, t) <=>
            IF IsLetter(s[i]) /\ IsLetter(t[i]) THEN s[i] < t[i]
            ELSE IF IsLetter(s[i]) THEN Behind(s, i) ELSE ~Behind(s, i)
      BY <2>6, <2>7, <2>11, DifferenceCases
    <3> QED
      BY <2>1, <2>9, <2>10, <2>11, <3>1 DEF Before
  <2>12. CASE ~IsLetter(s[i]) /\ ~IsLetter(t[i])
    <3> DEFINE m == RunValue(s, i, Carry(s, t, i))
               n == RunValue(t, i, Carry(s, t, i))
    <3>1. StringLess(s, t) <=>
            (IF m # n THEN m < n
             ELSE IF RunEnd(s, i) # RunEnd(t, i) THEN RunEnd(s, i) < RunEnd(t, i)
             ELSE s[i] < t[i])
      BY <2>6, <2>7, <2>12, DifferenceCases
    <3>2. m < n <=> Value(s, i) < Value(t, i)
      BY <1>3, CarryAgrees DEF Splits
    <3>3. m = n <=> Value(s, i) = Value(t, i)
      BY <1>3, CarryAgrees DEF Splits
    <3> HIDE DEF m, n
    <3>4. Before(s, t, i) <=> RunBefore(s, t, i)
      BY <2>9, <2>10, <2>12 DEF Before
    <3>5. Before(t, s, i) <=> RunBefore(t, s, i)
      BY <2>9, <2>10, <2>12 DEF Before
    <3>6. StringLess(s, t) <=> RunBefore(s, t, i)
      BY <1>2, <2>1, <3>1, <3>2, <3>3 DEF RunBefore
    <3>7. RunBefore(s, t, i) \/ RunBefore(t, s, i)
      BY <1>2, <2>1 DEF RunBefore
    <3> QED
      BY <3>4, <3>5, <3>6, <3>7
  <2> QED
    BY <2>11, <2>12
<1>4. CASE ~(i <= Len(s) /\ i <= Len(t))
  <2>1. different = {}
    <3> SUFFICES ASSUME NEW k \in different PROVE FALSE
      OBVIOUS
    <3>1. k \in 1..i - 1
      BY <1>1, <1>4
    <3> QED
      BY <1>1, <3>1
  <2>2. StringLess(s, t) <=> Len(s) < Len(t)
    BY <2>1 DEF StringLess
  <2>3. CASE i > Len(s)
    <3>1. i <= Len(t) /\ Len(s) < Len(t)
      BY <1>1, <2>3 DEF Splits
    <3>2. Class(s, i) = 0
      BY <1>1, <2>3 DEF Class
    <3>3. Class(t, i) # 0
      BY <1>1, <3>1 DEF Class
    <3> QED
      BY <1>2, <2>2, <3>1, <3>2, <3>3 DEF Before
  <2>4. CASE i > Len(t)
    <3>1. i <= Len(s) /\ ~(Len(s) < Len(t))
      BY <1>1, <2>4 DEF Splits
    <3>2. Class(t, i) = 0
      BY <1>1, <2>4 DEF Class
    <3>3. Class(s, i) # 0
      BY <1>1, <3>1 DEF Class
    <3> QED
      BY <1>2, <2>2, <3>1, <3>2, <3>3 DEF Before
  <2> QED
    BY <1>1, <1>4, <2>3, <2>4
<1> QED
  BY <1>3, <1>4

-----------------------------------------------------------------------------
(* Strings                                                                   *)

\* What is in front counts as much for the greater value, or more.
LEMMA Multiples ==
  ASSUME NEW m \in Nat \ {0}, NEW p \in Nat, NEW q \in Nat, NEW v \in Nat, NEW w \in Nat,
         p <= q, p + v <= q + w
  PROVE  m * p + v <= m * q + w
<1>1. PICK k \in Nat : m = k + 1
  <2>1. m - 1 \in Nat /\ m = (m - 1) + 1
    OBVIOUS
  <2> QED
    BY <2>1
<1>2. PICK d \in Nat : q = p + d
  <2>1. q - p \in Nat /\ q = p + (q - p)
    OBVIOUS
  <2> QED
    BY <2>1
<1>3. k * p \in Nat /\ k * q \in Nat /\ k * d \in Nat
  OBVIOUS
<1>4. m * p = k * p + p /\ m * q = k * q + q
  BY <1>1
<1>5. k * q = k * p + k * d
  BY <1>2
<1> QED
  BY <1>3, <1>4, <1>5

\* Where a place is inside the runs of two strings before it, the runs differ there as the
\* rests of them do.
LEMMA RunsGoOn ==
  ASSUME NEW s \in Strings, NEW t \in Strings, NEW j, Splits(s, t, j), NEW i \in 1..j - 1,
         j <= RunEnd(s, i), j <= RunEnd(t, i), Before(s, t, j)
  PROVE  \/ Value(s, i) < Value(t, i)
         \/ Value(s, i) = Value(t, i) /\ RunEnd(s, i) <= RunEnd(t, i)
<1> DEFINE e == RunEnd(s, i)
           f == RunEnd(t, i)
           c == Start(s, i)
           m == Values(s, i, c)[j]
           v == Values(s, j, 0)[e]
           w == Values(t, j, 0)[f]
<1>1. /\ Len(s) \in Nat /\ Len(t) \in Nat /\ j \in 1..Len(s) + 1 /\ j \in 1..Len(t) + 1
      /\ i \in 1..Len(s) + 1 /\ i \in 1..Len(t) + 1 /\ i \in Nat \ {0} /\ j \in Nat \ {0} /\ i < j
      /\ \A k \in 1..j - 1 : s[k] = t[k]
  BY StringFacts DEF Splits, Share
<1>2. /\ e \in i..Len(s) + 1 /\ f \in i..Len(t) + 1
      /\ j \in i..e /\ j \in i..f /\ e \in j..e /\ f \in j..f /\ e \in Nat /\ f \in Nat
  <2>1. e \in i..Len(s) + 1 /\ f \in i..Len(t) + 1
    BY <1>1, RunEndFacts DEF EndsRun
  <2> HIDE DEF e, f
  <2>2. j <= e /\ j <= f
    BY DEF e, f
  <2> QED
    BY <1>1, <2>1, <2>2
<1>3. Start(t, i) = c
  <2>1. \A k \in 1..i - 1 : s[k] = t[k]
    BY <1>1
  <2> QED
    BY <1>1, <2>1, StartAlike DEF Start
<1>4. Start(t, j) = Start(s, j)
  BY <1>1, StartAlike DEF Start
<1>5. Starts(s, i, c) /\ Starts(t, i, c)
  BY <1>1, <1>3, StartFacts
<1>6. m = Values(t, i, c)[j]
  <2>1. \A k \in i..j - 1 : s[k] = t[k]
    BY <1>1
  <2> QED
    BY <1>2, <1>5, <2>1, ValuesAlike
<1>7. RunEnd(s, j) = e /\ Starts(s, j, 0) /\ Values(s, i, c)[e] = m * Powers[e - j] + v
  BY <1>2, <1>5, ValuesSplit
<1>8. RunEnd(t, j) = f /\ Starts(t, j, 0) /\ Values(t, i, c)[f] = m * Powers[f - j] + w
  BY <1>2, <1>5, <1>6, ValuesSplit
<1>9. Value(s, i) = m * Powers[e - j] + v
  BY <1>7 DEF Value, RunValue
<1>10. Value(t, i) = m * Powers[f - j] + w
  BY <1>3, <1>8 DEF Value, RunValue
<1>11. m \in Nat
  BY <1>2, <1>5, ValuesStep
<1>12. e - j \in 0..MaxDigits /\ v \in Nat /\ v < Powers[e - j] /\ Values(s, j, 0)[j] = 0
  BY <1>2, <1>7, ValuesStep
<1>13. f - j \in 0..MaxDigits /\ w \in Nat /\ w < Powers[f - j]
  BY <1>2, <1>8, ValuesStep
<1>14. Powers[e - j] \in Nat \ {0} /\ Powers[f - j] \in Nat \ {0}
  BY <1>12, <1>13, PowerFacts
<1>15. Behind(s, j) /\ Behind(t, j)
  <2>1. j > 1 /\ j - 1 \in i..e - 1 /\ j - 1 \in i..f - 1
    BY <1>1, <1>2
  <2> QED
    BY <1>1, <2>1, RunEndFacts DEF Behind, EndsRun
<1>16. Class(s, j) \in {0, 1, 2} /\ Class(t, j) \in {0, 1, 2}
  BY <1>1, <1>15 DEF Class
<1>17. CASE Class(s, j) \in {0, 1}
  <2>1. e = j
    <3>1. j = Len(s) + 1 \/ ~IsDigit(s[j])
      <4>1. j > Len(s) \/ IsLetter(s[j])
        BY <1>1, <1>17 DEF Class
      <4>2. IsLetter(s[j]) => ~IsDigit(s[j])
        BY DEF IsLetter, IsDigit
      <4> QED
        BY <1>1, <4>1, <4>2
    <3>2. EndsRun(s, j, j)
      BY <1>1, <3>1 DEF EndsRun
    <3> QED
      BY <1>1, <1>7, <3>2, RunEndFacts
  <2>2. v = 0 /\ Powers[e - j] = 1
    <3>1. e - j = 0
      BY <1>1, <2>1
    <3> QED
      BY <1>12, <2>1, <3>1, PowerFacts
  <2> HIDE DEF e, f, m, v, w, c
  <2>3. Value(s, i) = m
    BY <1>9, <1>11, <2>2
  <2>4. m <= m * Powers[f - j]
    BY <1>11, <1>14
  <2>5. m * Powers[f - j] \in Nat
    BY <1>11, <1>14
  <2>6. Value(s, i) < Value(t, i) \/ Value(s, i) = Value(t, i)
    BY <1>10, <1>11, <1>13, <2>3, <2>4, <2>5
  <2>7. e <= f
    BY <1>2, <2>1
  <2> QED
    BY <2>6, <2>7 DEF e, f
<1>18. CASE Class(s, j) = 2
  <2>1. RunBefore(s, t, j)
    BY <1>16, <1>18 DEF Before
  <2>2. Value(s, j) = (IF Start(s, j) = 0 THEN 0 ELSE Powers[e - j]) + v
    <3>1. CASE Start(s, j) = 0
      BY <1>7, <1>12, <3>1 DEF Value, RunValue
    <3>2. CASE Start(s, j) = 1
      <4>1. Starts(s, j, 1) /\ j \in j..RunEnd(s, j) /\ RunEnd(s, j) \in j..RunEnd(s, j)
        BY <1>1, <1>2, <1>7, <3>2, StartFacts
      <4>2. Values(s, j, 1)[e] = Values(s, j, 1)[j] * Powers[e - j] + v
        BY <1>7, <4>1, ValuesSplit
      <4>3. Values(s, j, 1)[j] = 1
        BY <4>1, ValuesStep
      <4>4. Value(s, j) = Values(s, j, 1)[e]
        BY <1>7, <3>2 DEF Value, RunValue
      <4> QED
        BY <1>14, <3>2, <4>2, <4>3, <4>4
    <3> QED
      BY <1>1, <3>1, <3>2, StartFacts
  <2>3. Value(t, j) = (IF Start(s, j) = 0 THEN 0 ELSE Powers[f - j]) + w
    <3>1. CASE Start(s, j) = 0
      BY <1>4, <1>8, <1>13, <3>1 DEF Value, RunValue
    <3>2. CASE Start(s, j) = 1
      <4>1. Starts(t, j, 1) /\ j \in j..RunEnd(t, j) /\ RunEnd(t, j) \in j..RunEnd(t, j)
        BY <1>1, <1>2, <1>4, <1>8, <3>2, StartFacts
      <4>2. Values(t, j, 1)[f] = Values(t, j, 1)[j] * Powers[f - j] + w
        BY <1>8, <4>1, ValuesSplit
      <4>3. Values(t, j, 1)[j] = 1
        BY <4>1, ValuesStep
      <4>4. Value(t, j) = Values(t, j, 1)[f]
        BY <1>4, <1>8, <3>2 DEF Value, RunValue
      <4> QED
        BY <1>14, <3>2, <4>2, <4>3, <4>4
    <3> QED
      BY <1>1, <3>1, <3>2, StartFacts
  <2>4. m = 0 <=> Start(s, j) = 0
    BY <1>1, <1>2, CountsInRun
  <2>5. \/ Value(s, j) < Value(t, j)
        \/ Value(s, j) = Value(t, j) /\ e <= f
    BY <1>2, <1>7, <1>8, <2>1 DEF RunBefore
  <2> HIDE DEF e, f, m, v, w, c
  <2>6. CASE m = 0
    <3>1. Value(s, j) = v /\ Value(t, j) = w
      BY <1>12, <1>13, <2>2, <2>3, <2>4, <2>6
    <3>2. Value(s, i) = v /\ Value(t, i) = w
      BY <1>9, <1>10, <1>12, <1>13, <1>14, <2>6
    <3> QED
      BY <2>5, <3>1, <3>2 DEF e, f
  <2>7. CASE m # 0
    <3> DEFINE p == Powers[e - j]
               q == Powers[f - j]
    <3>1. Value(s, j) = p + v /\ Value(t, j) = q + w
      BY <2>2, <2>3, <2>4, <2>7
    <3>2. p + v <= q + w
      BY <1>12, <1>13, <1>14, <2>5, <3>1
    <3>3. e <= f
      <4>1. f < e => f - j < e - j
        BY <1>1, <1>2
      <4>2. f < e => 10 * q <= p
        BY <1>12, <1>13, <4>1, PowersGrow
      <4> HIDE DEF p, q
      <4>3. p \in Nat \ {0} /\ q \in Nat \ {0} /\ v \in Nat /\ w \in Nat /\ w < q
        BY <1>12, <1>13, <1>14 DEF p, q
      <4>4. ~(f < e)
        BY <3>2, <4>2, <4>3
      <4> QED
        BY <1>2, <4>4
    <3>4. p <= q
      <4>1. e = f \/ e - j < f - j
        BY <1>1, <1>2, <3>3
      <4>2. e # f => 10 * p <= q
        BY <1>12, <1>13, <4>1, PowersGrow
      <4> QED
        BY <1>14, <4>2
    <3>5. m * p + v <= m * q + w
      BY <1>11, <1>12, <1>13, <1>14, <2>7, <3>2, <3>4, Multiples
    <3>6. m * p \in Nat /\ m * q \in Nat
      BY <1>11, <1>14
    <3>7. Value(s, i) < Value(t, i) \/ Value(s, i) = Value(t, i)
      BY <1>9, <1>10, <1>12, <1>13, <3>5, <3>6
    <3> QED
      BY <3>3, <3>7 DEF e, f
  <2> QED
    BY <2>6, <2>7
<1> QED
  BY <1>16, <1>17, <1>18

\* A run that ends in front of a place where two strings still agree ends there in both.
LEMMA RunsEnd ==
  ASSUME NEW s \in Strings, NEW t \in Strings, NEW j, Share(s, t, j), NEW i \in 1..j - 1,
         RunEnd(s, i) < j
  PROVE  RunEnd(t, i) = RunEnd(s, i) /\ Value(t, i) = Value(s, i)
<1> DEFINE e == RunEnd(s, i)
<1>1. /\ Len(s) \in Nat /\ Len(t) \in Nat /\ j \in 1..Len(s) + 1 /\ j \in 1..Len(t) + 1
      /\ i \in 1..Len(s) + 1 /\ i \in 1..Len(t) + 1 /\ i \in Nat \ {0} /\ j \in Nat \ {0} /\ i < j
      /\ \A k \in 1..j - 1 : s[k] = t[k]
  BY StringFacts DEF Share
<1>2. EndsRun(s, i, e)
  BY <1>1, RunEndFacts
<1>3. e < j
  OBVIOUS
<1> HIDE DEF e
<1>4. e \in i..j - 1 /\ e # Len(s) + 1 /\ e \in Nat
  BY <1>1, <1>2, <1>3 DEF EndsRun
<1>5. EndsRun(t, i, e)
  <2>1. e \in i..Len(t) + 1
    BY <1>1, <1>4
  <2>2. \A k \in i..e - 1 : IsDigit(t[k])
    <3> TAKE k \in i..e - 1
    <3>1. k \in 1..j - 1
      BY <1>1, <1>4
    <3> QED
      BY <1>1, <1>2, <3>1 DEF EndsRun
  <2>3. ~IsDigit(t[e])
    <3>1. e \in 1..j - 1
      BY <1>1, <1>4
    <3> QED
      BY <1>1, <1>2, <1>4, <3>1 DEF EndsRun
  <2> QED
    BY <2>1, <2>2, <2>3 DEF EndsRun
<1>6. RunEnd(t, i) = e
  BY <1>1, <1>5, RunEndFacts
<1>7. Start(t, i) = Start(s, i)
  <2>1. \A k \in 1..i - 1 : s[k] = t[k]
    BY <1>1
  <2> QED
    BY <1>1, <2>1, StartAlike DEF Start
<1>8. Starts(s, i, Start(s, i)) /\ Starts(t, i, Start(s, i))
  BY <1>1, <1>7, StartFacts
<1>9. Values(s, i, Start(s, i))[e] = Values(t, i, Start(s, i))[e]
  <2>1. \A k \in i..e - 1 : s[k] = t[k]
    <3> TAKE k \in i..e - 1
    <3>1. k \in 1..j - 1
      BY <1>1, <1>4
    <3> QED
      BY <1>1, <3>1
  <2>2. e \in i..RunEnd(s, i) /\ e <= RunEnd(t, i)
    BY <1>4, <1>6 DEF e
  <2> QED
    BY <1>8, <2>1, <2>2, ValuesAlike
<1> QED
  BY <1>6, <1>7, <1>9 DEF e, Value, RunValue

\* A later difference does not turn the order of an earlier place around.
LEMMA LaterDifference ==
  ASSUME NEW s \in Strings, NEW t \in Strings, NEW j, Splits(s, t, j), NEW i \in 1..j - 1,
         Before(s, t, j)
  PROVE  ~Before(t, s, i)
<1>1. /\ Len(s) \in Nat /\ Len(t) \in Nat /\ j \in Nat /\ i \in Nat \ {0}
      /\ i \in 1..Len(s) /\ i \in 1..Len(t) /\ i \in 1..Len(s) + 1 /\ i \in 1..Len(t) + 1
      /\ s[i] = t[i] /\ s[i] \in Nat /\ Share(s, t, j)
      /\ i > 1 => s[i - 1] = t[i - 1]
  BY StringFacts DEF Splits, Share
<1>2. Share(t, s, j)
  BY <1>1 DEF Share
<1>3. Class(s, i) = Class(t, i)
  BY <1>1 DEF Class, Behind
<1>4. /\ Value(s, i) \in Nat /\ Value(t, i) \in Nat /\ RunEnd(s, i) \in Nat /\ RunEnd(t, i) \in Nat
      /\ Class(s, i) \in 0..3
  BY <1>1, PlaceTypes
<1>5. ~RunBefore(t, s, i)
  <2>1. CASE RunEnd(s, i) < j
    <3>1. RunEnd(t, i) = RunEnd(s, i) /\ Value(t, i) = Value(s, i)
      BY <1>1, <2>1, RunsEnd
    <3> QED
      BY <1>1, <1>4, <3>1 DEF RunBefore
  <2>2. CASE RunEnd(t, i) < j
    <3>1. RunEnd(s, i) = RunEnd(t, i) /\ Value(s, i) = Value(t, i)
      BY <1>2, <2>2, RunsEnd
    <3> QED
      BY <1>1, <1>4, <3>1 DEF RunBefore
  <2>3. CASE j <= RunEnd(s, i) /\ j <= RunEnd(t, i)
    <3>1. \/ Value(s, i) < Value(t, i)
          \/ Value(s, i) = Value(t, i) /\ RunEnd(s, i) <= RunEnd(t, i)
      BY <2>3, RunsGoOn
    <3> QED
      BY <1>1, <1>4, <3>1 DEF RunBefore
  <2> QED
    BY <1>1, <1>4, <2>1, <2>2, <2>3
<1>6. ~(t[i] < s[i])
  BY <1>1
<1> QED
  BY <1>3, <1>4, <1>5, <1>6 DEF Before

\* Two strings begin to differ in some place.
LEMMA FirstDifference ==
  ASSUME NEW s \in Strings, NEW t \in Strings, s # t
  PROVE  \E i \in Nat \ {0} : Splits(s, t, i)
<1> DEFINE Differ(i) == /\ i <= Len(s) \/ i <= Len(t)
                        /\ i <= Len(s) /\ i <= Len(t) => s[i] # t[i]
           S == {i \in 1..Len(s) + 1 : i <= Len(t) + 1 /\ Differ(i)}
<1>1. Len(s) \in Nat /\ Len(t) \in Nat /\ DOMAIN s = 1..Len(s) /\ DOMAIN t = 1..Len(t)
  BY StringFacts
<1>2. S # {}
  <2>1. CASE Len(s) = Len(t)
    <3>1. PICK n \in 0..MaxChars : s \in [1..n -> Codes]
      BY DEF Strings
    <3>2. PICK m \in 0..MaxChars : t \in [1..m -> Codes]
      BY DEF Strings
    <3>3. s = [i \in DOMAIN s |-> s[i]] /\ t = [i \in DOMAIN t |-> t[i]]
      BY <3>1, <3>2
    <3>4. PICK i \in 1..Len(s) : s[i] # t[i]
      BY <1>1, <2>1, <3>3
    <3>5. i \in S
      BY <1>1, <2>1, <3>4
    <3> QED
      BY <3>5
  <2>2. CASE Len(s) < Len(t)
    <3>1. Len(s) + 1 \in S
      BY <1>1, <2>2
    <3> QED
      BY <3>1
  <2>3. CASE Len(t) < Len(s)
    <3>1. Len(t) + 1 \in S
      BY <1>1, <2>3
    <3> QED
      BY <3>1
  <2>4. Len(s) = Len(t) \/ Len(s) < Len(t) \/ Len(t) < Len(s)
    <3>1. Len(s) \in Nat /\ Len(t) \in Nat
      BY <1>1
    <3> QED
      BY <3>1
  <2> QED
    BY <2>1, <2>2, <2>3, <2>4
<1>3. S \subseteq Nat
  BY <1>1
<1> DEFINE i == Min(S)
<1>4. i \in S /\ \A k \in S : i <= k
  <2> HIDE DEF S
  <2> QED
    BY <1>2, <1>3, Least
<1> HIDE DEF i
<1>5. i \in Nat \ {0}
  BY <1>1, <1>4
<1>6. \A k \in 1..i - 1 : s[k] = t[k]
  <2> TAKE k \in 1..i - 1
  <2>1. k \in 1..Len(s) + 1 /\ k <= Len(t) + 1 /\ (k <= Len(s) \/ k <= Len(t)) /\ ~(i <= k)
    BY <1>1, <1>4, <1>5
  <2>2. k \notin S
    BY <1>4, <2>1
  <2> QED
    BY <2>1, <2>2
<1>7. Splits(s, t, i)
  <2>1. Share(s, t, i)
    BY <1>1, <1>4, <1>5, <1>6 DEF Share
  <2> QED
    BY <1>4, <2>1 DEF Splits
<1> QED
  BY <1>5, <1>7

\* One of two strings is less.
LEMMA StringsOrdered ==
  ASSUME NEW s \in Strings, NEW t \in Strings, s # t
  PROVE  StringLess(s, t) <=> ~StringLess(t, s)
<1>1. PICK i \in Nat \ {0} : Splits(s, t, i)
  BY FirstDifference
<1>2. Splits(t, s, i) /\ i \in 1..Len(s) + 1 /\ i \in 1..Len(t) + 1
  BY <1>1 DEF Splits, Share
<1>3. StringLess(s, t) <=> Before(s, t, i)
  BY <1>1, SplitLess
<1>4. StringLess(t, s) <=> Before(t, s, i)
  BY <1>2, SplitLess
<1>5. Before(s, t, i) \/ Before(t, s, i)
  BY <1>1, SplitLess
<1>6. Before(s, t, i) => ~Before(t, s, i)
  BY <1>2, BeforeOnce
<1> QED
  BY <1>3, <1>4, <1>5, <1>6

\* What is less than a string is less than all that the string is less than.
LEMMA StringsTransitive ==
  ASSUME NEW s \in Strings, NEW t \in Strings, NEW u \in Strings,
         s # t, t # u, s # u, StringLess(s, t), StringLess(t, u)
  PROVE  StringLess(s, u)
<1>1. PICK i \in Nat \ {0} : Splits(s, t, i)
  BY FirstDifference
<1>2. PICK j \in Nat \ {0} : Splits(t, u, j)
  BY FirstDifference
<1>3. PICK k \in Nat \ {0} : Splits(s, u, k)
  BY FirstDifference
<1>4. /\ Share(s, t, i) /\ Share(t, u, j) /\ Share(s, u, k)
      /\ Len(s) \in Nat /\ Len(t) \in Nat /\ Len(u) \in Nat
  BY <1>1, <1>2, <1>3, StringFacts DEF Splits
<1>5. Before(s, t, i) /\ Before(t, u, j)
  BY <1>1, <1>2, SplitLess
<1>6. Before(s, u, k) => StringLess(s, u)
  BY <1>3, SplitLess
\* The two strings that differ last agree where the third leaves them.
<1>7. \/ i = j /\ i <= k
      \/ i < j /\ k = i
      \/ j < i /\ k = j
  <2>1. /\ \A n \in 1..i - 1 : s[n] = t[n]
        /\ \A n \in 1..j - 1 : t[n] = u[n]
        /\ \A n \in 1..k - 1 : s[n] = u[n]
        /\ i <= Len(s) + 1 /\ i <= Len(t) + 1 /\ j <= Len(t) + 1 /\ j <= Len(u) + 1
        /\ k <= Len(s) + 1 /\ k <= Len(u) + 1
    BY <1>4 DEF Share
  <2>2. (i <= Len(s) \/ i <= Len(t)) /\ (i <= Len(s) /\ i <= Len(t) => s[i] # t[i])
    BY <1>1 DEF Splits
  <2>3. (j <= Len(t) \/ j <= Len(u)) /\ (j <= Len(t) /\ j <= Len(u) => t[j] # u[j])
    BY <1>2 DEF Splits
  <2>4. (k <= Len(s) \/ k <= Len(u)) /\ (k <= Len(s) /\ k <= Len(u) => s[k] # u[k])
    BY <1>3 DEF Splits
  <2>5. ~(k < i /\ k < j)
    <3> SUFFICES ASSUME k < i, k < j PROVE FALSE
      OBVIOUS
    <3>1. k \in 1..i - 1 /\ k \in 1..j - 1
      OBVIOUS
    <3>2. s[k] = u[k] /\ k <= Len(s) /\ k <= Len(u)
      BY <1>4, <2>1, <3>1
    <3> QED
      BY <2>4, <3>2
  <2>6. ~(i < j /\ i < k)
    <3> SUFFICES ASSUME i < j, i < k PROVE FALSE
      OBVIOUS
    <3>1. i \in 1..j - 1 /\ i \in 1..k - 1
      OBVIOUS
    <3>2. s[i] = t[i] /\ i <= Len(s) /\ i <= Len(t)
      BY <1>4, <2>1, <3>1
    <3> QED
      BY <2>2, <3>2
  <2>7. ~(j < i /\ j < k)
    <3> SUFFICES ASSUME j < i, j < k PROVE FALSE
      OBVIOUS
    <3>1. j \in 1..i - 1 /\ j \in 1..k - 1
      OBVIOUS
    <3>2. t[j] = u[j] /\ j <= Len(t) /\ j <= Len(u)
      BY <1>4, <2>1, <3>1
    <3> QED
      BY <2>3, <3>2
  <2> QED
    BY <2>5, <2>6, <2>7
<1>8. CASE i < j /\ k = i
  <2>1. ~Before(u, t, i)
    <3>1. i \in 1..j - 1
      BY <1>8
    <3> QED
      BY <1>2, <1>5, <3>1, LaterDifference
  <2>2. i \in 1..Len(s) + 1 /\ i \in 1..Len(t) + 1 /\ i \in 1..Len(u) + 1
    BY <1>4, <1>8 DEF Share
  <2>3. Before(s, u, i)
    BY <1>5, <2>1, <2>2, BeforeLimit
  <2> QED
    BY <1>6, <1>8, <2>3
<1>9. CASE j < i /\ k = j
  <2>1. ~Before(t, s, j)
    <3>1. j \in 1..i - 1
      BY <1>9
    <3> QED
      BY <1>1, <1>5, <3>1, LaterDifference
  <2>2. j \in 1..Len(s) + 1 /\ j \in 1..Len(t) + 1 /\ j \in 1..Len(u) + 1
    BY <1>4, <1>9 DEF Share
\* Otherwise t would be before s.
  <2>3. Before(s, u, j)
    <3> SUFFICES ASSUME ~Before(s, u, j) PROVE FALSE
      OBVIOUS
    <3>1. Before(t, s, j)
      BY <1>5, <2>2, BeforeLimit
    <3> QED
      BY <2>1, <3>1
  <2> QED
    BY <1>6, <1>9, <2>3
<1>10. CASE i = j /\ i <= k
  <2>1. i \in 1..Len(s) + 1 /\ i \in 1..Len(t) + 1 /\ i \in 1..Len(u) + 1
    BY <1>4, <1>10 DEF Share
  <2>2. ~Before(u, t, i)
    BY <1>5, <1>10, <2>1, BeforeOnce
  <2>3. Before(s, u, i)
    BY <1>5, <2>1, <2>2, BeforeLimit
  <2>4. CASE i = k
    BY <1>6, <2>3, <2>4
  <2>5. CASE i < k
    <3> SUFFICES ASSUME ~StringLess(s, u) PROVE FALSE
      OBVIOUS
    <3>1. Before(u, s, k)
      BY <1>3, <1>6, SplitLess
    <3>2. Splits(u, s, k) /\ i \in 1..k - 1
      BY <1>3, <2>5 DEF Splits, Share
    <3>3. ~Before(s, u, i)
      BY <3>1, <3>2, LaterDifference
    <3> QED
      BY <2>3, <3>3
  <2> QED
    BY <1>10, <2>4, <2>5
<1> QED
  BY <1>7, <1>8, <1>9, <1>10

-----------------------------------------------------------------------------
(* Keys                                                                      *)

IsString(k) == k.kind = "string"

\* The kinds of keys, and what makes a key.
LEMMA KeyFacts ==
  ASSUME NEW k \in Keys
  PROVE  /\ IsNumber(k) => KindNumber[k.kind] \in 1..14 /\ k.half \in Int
         /\ IsString(k) => KindNumber[k.kind] = 24 /\ k.runes \in Strings
         /\ ~IsNumber(k) /\ ~IsString(k) => KindNumber[k.kind] \in {20, 25}
         /\ ~(IsNumber(k) /\ IsString(k))
         /\ KindNumber[k.kind] \in Nat
<1>1. CASE k \in {[kind |-> "string", runes |-> s] : s \in Strings}
  <2>1. PICK s \in Strings : k = [kind |-> "string", runes |-> s]
    BY <1>1
  <2>2. k.kind = "string" /\ k.runes = s
    BY <2>1
  <2> QED
    BY <2>2 DEF IsString, IsNumber, KindNumber
<1>2. CASE k \in Numbers
  <2>1. k.kind \in {"bool", "int", "uint", "float"} /\ k.half \in Int
    BY <1>2, KeyConstants
  <2> QED
    BY <2>1 DEF IsString, IsNumber, KindNumber
<1>3. CASE k \in Others
  <2>1. k.kind \in {"interface", "struct"}
    BY <1>3 DEF Others
  <2> QED
    BY <2>1 DEF IsString, IsNumber, KindNumber
<1> QED
  BY <1>1, <1>2, <1>3 DEF Keys

\* Keys that the order cannot tell apart are the same.
LEMMA SameKey ==
  ASSUME NEW k \in Keys, NEW l \in Keys, k # l
  PROVE  /\ IsString(k) /\ IsString(l) => k.runes # l.runes
         /\ IsNumber(k) /\ IsNumber(l) => k.half # l.half \/ KindNumber[k.kind] # KindNumber[l.kind]
         /\ ~(IsNumber(k) /\ IsNumber(l)) /\ ~(IsString(k) /\ IsString(l)) =>
              KindNumber[k.kind] # KindNumber[l.kind]
<1>1. ASSUME IsString(k), IsString(l) PROVE k.runes # l.runes
  <2>1. k \notin Numbers /\ l \notin Numbers
    BY <1>1, KeyConstants DEF IsString
  <2>2. k \notin Others /\ l \notin Others
    BY <1>1 DEF IsString, Others
  <2>3. PICK s \in Strings : k = [kind |-> "string", runes |-> s]
    BY <2>1, <2>2 DEF Keys
  <2>4. PICK t \in Strings : l = [kind |-> "string", runes |-> t]
    BY <2>1, <2>2 DEF Keys
  <2> QED
    BY <2>3, <2>4
<1>2. ASSUME IsNumber(k), IsNumber(l), k.half = l.half, KindNumber[k.kind] = KindNumber[l.kind]
      PROVE  FALSE
  <2>1. k.kind \in {"bool", "int", "uint", "float"} /\ l.kind \in {"bool", "int", "uint", "float"}
    BY <1>2 DEF IsNumber
  <2>2. k.kind = l.kind
    BY <1>2, <2>1 DEF KindNumber
  <2>3. k \in Numbers /\ l \in Numbers
    <3>1. k \notin Others /\ l \notin Others
      BY <2>1 DEF Others
    <3>2. ~(\E s \in Strings : k = [kind |-> "string", runes |-> s])
      BY <2>1
    <3>3. ~(\E s \in Strings : l = [kind |-> "string", runes |-> s])
      BY <2>1
    <3> QED
      BY <3>1, <3>2, <3>3 DEF Keys
  <2>4. k \in [kind : {"bool", "int", "uint", "float"}, half : Int]
    BY <2>3, KeyConstants
  <2>5. l \in [kind : {"bool", "int", "uint", "float"}, half : Int]
    BY <2>3, KeyConstants
  <2> QED
    BY <1>2, <2>2, <2>4, <2>5
<1>3. ASSUME ~(IsNumber(k) /\ IsNumber(l)), ~(IsString(k) /\ IsString(l)),
             KindNumber[k.kind] = KindNumber[l.kind]
      PROVE  FALSE
  <2>1. ~IsNumber(k) /\ ~IsNumber(l) /\ ~IsString(k) /\ ~IsString(l)
    BY <1>3, KeyFacts
  <2>2. k \in Others /\ l \in Others
    <3>1. k \notin Numbers /\ l \notin Numbers
      BY <2>1, KeyConstants DEF IsNumber
    <3>2. ~(\E s \in Strings : k = [kind |-> "string", runes |-> s])
      BY <2>1 DEF IsString
    <3>3. ~(\E s \in Strings : l = [kind |-> "string", runes |-> s])
      BY <2>1 DEF IsString
    <3> QED
      BY <3>1, <3>2, <3>3 DEF Keys
  <2>3. k.kind # l.kind
    BY <2>2 DEF Others
  <2>4. k.kind \in {"interface", "struct"} /\ l.kind \in {"interface", "struct"}
    BY <2>2 DEF Others
  <2> QED
    BY <1>3, <2>3, <2>4 DEF KindNumber
<1> QED
  BY <1>1, <1>2, <1>3

\* Of two keys one is less.
LEMMA KeysOrdered ==
  ASSUME NEW k \in Keys, NEW l \in Keys, k # l
  PROVE  Less(k, l) <=> ~Less(l, k)
<1>1. CASE IsNumber(k) /\ IsNumber(l)
  <2>1. k.half # l.half \/ KindNumber[k.kind] # KindNumber[l.kind]
    BY <1>1, SameKey
  <2>2. /\ k.half \in Int /\ l.half \in Int
        /\ KindNumber[k.kind] \in Nat /\ KindNumber[l.kind] \in Nat
    BY <1>1, KeyFacts
  <2>3. NumberLess(k, l) <=> ~NumberLess(l, k)
    BY <2>1, <2>2 DEF NumberLess, KindLess
  <2>4. k.kind # "string"
    BY <1>1 DEF IsNumber
  <2> QED
    BY <1>1, <2>3, <2>4 DEF Less
<1>2. CASE IsString(k) /\ IsString(l)
  <2>1. ~IsNumber(k) /\ ~IsNumber(l)
    BY <1>2, KeyFacts
  <2>2. k.runes \in Strings /\ l.runes \in Strings /\ k.runes # l.runes
    BY <1>2, KeyFacts, SameKey
  <2>3. StringLess(k.runes, l.runes) <=> ~StringLess(l.runes, k.runes)
    BY <2>2, StringsOrdered
  <2> QED
    BY <1>2, <2>1, <2>3 DEF Less, IsString
<1>3. CASE ~(IsNumber(k) /\ IsNumber(l)) /\ ~(IsString(k) /\ IsString(l))
  <2>1. KindNumber[k.kind] # KindNumber[l.kind]
    BY <1>3, SameKey
  <2>2. KindNumber[k.kind] \in Nat /\ KindNumber[l.kind] \in Nat
    BY KeyFacts
  <2>3. KindLess(k, l) <=> ~KindLess(l, k)
    BY <2>1, <2>2 DEF KindLess
  <2> QED
    BY <1>3, <2>3 DEF Less, IsString
<1> QED
  BY <1>1, <1>2, <1>3

\* Keys of different sorts go by their kinds, and so do their sorts.
LEMMA LessByKind ==
  ASSUME NEW k \in Keys, NEW l \in Keys, ~(IsNumber(k) /\ IsNumber(l)), ~(IsString(k) /\ IsString(l))
  PROVE  Less(k, l) <=> KindNumber[k.kind] < KindNumber[l.kind]
BY DEF Less, IsString, KindLess

\* What is less than a key is less than all that the key is less than.
LEMMA KeysTransitive ==
  ASSUME NEW k \in Keys, NEW l \in Keys, NEW m \in Keys, k # l, l # m, k # m,
         Less(k, l), Less(l, m)
  PROVE  Less(k, m)
<1>1. /\ KindNumber[k.kind] \in Nat /\ KindNumber[l.kind] \in Nat /\ KindNumber[m.kind] \in Nat
  BY KeyFacts
<1>2. /\ IsNumber(k) => KindNumber[k.kind] \in 1..14
      /\ IsString(k) => KindNumber[k.kind] = 24
      /\ ~IsNumber(k) /\ ~IsString(k) => KindNumber[k.kind] \in {20, 25}
  BY KeyFacts
<1>3. /\ IsNumber(l) => KindNumber[l.kind] \in 1..14
      /\ IsString(l) => KindNumber[l.kind] = 24
      /\ ~IsNumber(l) /\ ~IsString(l) => KindNumber[l.kind] \in {20, 25}
  BY KeyFacts
<1>4. /\ IsNumber(m) => KindNumber[m.kind] \in 1..14
      /\ IsString(m) => KindNumber[m.kind] = 24
      /\ ~IsNumber(m) /\ ~IsString(m) => KindNumber[m.kind] \in {20, 25}
  BY KeyFacts
<1>5. CASE IsNumber(k) /\ IsNumber(m)
  <2>1. IsNumber(l)
    <3> SUFFICES ASSUME ~IsNumber(l) PROVE FALSE
      OBVIOUS
    <3>1. ~IsString(m)
      BY <1>5, KeyFacts
    <3>2. Less(l, m) <=> KindNumber[l.kind] < KindNumber[m.kind]
      BY <3>1, LessByKind
    <3> QED
      BY <1>1, <1>3, <1>4, <1>5, <3>2
  <2>2. k.half \in Int /\ l.half \in Int /\ m.half \in Int
    BY <1>5, <2>1, KeyFacts
  <2>3. NumberLess(k, l) /\ NumberLess(l, m)
    <3>1. k.kind # "string" /\ l.kind # "string"
      BY <1>5, <2>1 DEF IsNumber
    <3> QED
      BY <1>5, <2>1, <3>1 DEF Less
  <2>4. NumberLess(k, m)
    BY <1>1, <2>2, <2>3 DEF NumberLess, KindLess
  <2>5. k.kind # "string"
    BY <1>5 DEF IsNumber
  <2> QED
    BY <1>5, <2>4, <2>5 DEF Less
<1>6. CASE IsString(k) /\ IsString(m)
  <2>1. ~IsNumber(k) /\ ~IsNumber(m)
    BY <1>6, KeyFacts
  <2>2. IsString(l)
    <3> SUFFICES ASSUME ~IsString(l) PROVE FALSE
      OBVIOUS
    <3>1. Less(l, m) <=> KindNumber[l.kind] < KindNumber[m.kind]
      BY <2>1, LessByKind
    <3>2. Less(k, l) <=> KindNumber[k.kind] < KindNumber[l.kind]
      BY <2>1, LessByKind
    <3> QED
      BY <1>1, <1>2, <1>4, <1>6, <3>1, <3>2
  <2>3. k.runes \in Strings /\ l.runes \in Strings /\ m.runes \in Strings /\ ~IsNumber(l)
    BY <1>6, <2>2, KeyFacts
  <2>4. k.runes # l.runes /\ l.runes # m.runes /\ k.runes # m.runes
    BY <1>6, <2>2, SameKey
  <2>5. StringLess(k.runes, l.runes) /\ StringLess(l.runes, m.runes)
    BY <1>6, <2>1, <2>2, <2>3 DEF Less, IsString
  <2>6. StringLess(k.runes, m.runes)
    BY <2>3, <2>4, <2>5, StringsTransitive
  <2> QED
    BY <1>6, <2>1, <2>6 DEF Less, IsString
<1>7. CASE ~(IsNumber(k) /\ IsNumber(m)) /\ ~(IsString(k) /\ IsString(m))
  <2>1. KindNumber[k.kind] # KindNumber[m.kind]
    BY <1>7, SameKey
  <2>2. KindNumber[k.kind] < KindNumber[l.kind] \/ (IsNumber(k) /\ IsNumber(l)) \/ (IsString(k) /\ IsString(l))
    BY LessByKind
  <2>3. KindNumber[l.kind] < KindNumber[m.kind] \/ (IsNumber(l) /\ IsNumber(m)) \/ (IsString(l) /\ IsString(m))
    BY LessByKind
  <2>4. KindNumber[k.kind] < KindNumber[m.kind]
    BY <1>1, <1>2, <1>3, <1>4, <1>7, <2>1, <2>2, <2>3
  <2> QED
    BY <1>7, <2>4, LessByKind
<1> QED
  BY <1>5, <1>6, <1>7

-----------------------------------------------------------------------------
(* Sorting                                                                   *)

\* All keys but the one that is not in its place are in order, and that one is before
\* those behind it.
SortInv ==
  /\ keys \in Seq(Keys) /\ at \in 0..Len(keys)
  /\ \A i, j \in 1..Len(keys) : i # j => keys[i] # keys[j]
  /\ \A i, j \in 1..Len(keys) : i < j /\ j # at => Less(keys[i], keys[j])

\* No key has been taken.
LEMMA SortInit ==
  ASSUME Init
  PROVE  SortInv
<1>1. keys \in Seq(Keys) /\ Len(keys) = 0 /\ at = 0
  BY DEF Init
<1> QED
  BY <1>1 DEF SortInv

\* A key is taken.
LEMMA TakeSorts ==
  ASSUME SortInv, Take
  PROVE  SortInv'
<1>1. PICK k \in Keys : k \notin Range(keys) /\ keys' = Append(keys, k)
  BY DEF Take
<1>2. keys \in Seq(Keys) /\ Len(keys) \in Nat /\ at = 0 /\ at' = Len(keys) + 1
  BY DEF SortInv, Take
<1>3. keys' \in Seq(Keys) /\ Len(keys') = Len(keys) + 1 /\ keys'[Len(keys) + 1] = k
  BY <1>1, <1>2
<1>4. \A i \in 1..Len(keys) : keys'[i] = keys[i] /\ keys[i] # k
  <2> TAKE i \in 1..Len(keys)
  <2>1. keys[i] \in Range(keys)
    BY <1>2 DEF Range
  <2> QED
    BY <1>1, <1>2, <2>1
<1>5. at' \in 0..Len(keys')
  BY <1>2, <1>3
<1>6. \A i, j \in 1..Len(keys') : i # j => keys'[i] # keys'[j]
  <2> TAKE i, j \in 1..Len(keys')
  <2>1. i \in 1..Len(keys) \/ i = Len(keys) + 1
    BY <1>2, <1>3
  <2>2. j \in 1..Len(keys) \/ j = Len(keys) + 1
    BY <1>2, <1>3
  <2> QED
    BY <1>3, <1>4, <2>1, <2>2 DEF SortInv
<1>7. \A i, j \in 1..Len(keys') : i < j /\ j # at' => Less(keys'[i], keys'[j])
  <2> SUFFICES ASSUME NEW i \in 1..Len(keys'), NEW j \in 1..Len(keys'), i < j, j # at'
               PROVE  Less(keys'[i], keys'[j])
    OBVIOUS
  <2>1. i \in 1..Len(keys) /\ j \in 1..Len(keys) /\ j # at
    BY <1>2, <1>3
  <2> QED
    BY <1>4, <2>1 DEF SortInv
<1> QED
  BY <1>3, <1>5, <1>6, <1>7 DEF SortInv

\* Two keys change places.
LEMMA SwapSorts ==
  ASSUME SortInv, Swap
  PROVE  SortInv'
<1>1. /\ keys \in Seq(Keys) /\ Len(keys) \in Nat /\ at \in 2..Len(keys) /\ at \in Nat
      /\ Less(keys[at], keys[at - 1]) /\ at' = at - 1
      /\ keys' = [keys EXCEPT ![at] = keys[at - 1], ![at - 1] = keys[at]]
  BY DEF SortInv, Swap, Misplaced
<1>2. at - 1 \in 1..Len(keys) /\ at \in 1..Len(keys) /\ at - 1 # at
  BY <1>1
<1>3. keys[at] \in Keys /\ keys[at - 1] \in Keys
  BY <1>1, <1>2
<1>4. keys' \in Seq(Keys) /\ Len(keys') = Len(keys)
  BY <1>1, <1>3
<1>5. /\ keys'[at] = keys[at - 1] /\ keys'[at - 1] = keys[at]
      /\ \A i \in 1..Len(keys) : i # at /\ i # at - 1 => keys'[i] = keys[i]
  BY <1>1, <1>2
<1>6. at' \in 0..Len(keys')
  BY <1>1, <1>2, <1>4
<1>7. \A i, j \in 1..Len(keys') : i # j => keys'[i] # keys'[j]
  BY <1>2, <1>4, <1>5 DEF SortInv
<1>8. \A i, j \in 1..Len(keys') : i < j /\ j # at' => Less(keys'[i], keys'[j])
  <2> SUFFICES ASSUME NEW i \in 1..Len(keys), NEW j \in 1..Len(keys), i < j, j # at - 1
               PROVE  Less(keys'[i], keys'[j])
    BY <1>1, <1>4
  <2>1. CASE j = at
    <3>1. CASE i = at - 1
      BY <1>1, <1>5, <2>1, <3>1
    <3>2. CASE i # at - 1
      <4>1. i < at - 1 /\ i # at
        BY <1>1, <2>1, <3>2
      <4>2. Less(keys[i], keys[at - 1])
        BY <1>2, <4>1 DEF SortInv
      <4> QED
        BY <1>5, <2>1, <3>2, <4>1, <4>2
    <3> QED
      BY <3>1, <3>2
  <2>2. CASE j # at
    <3>1. keys'[j] = keys[j]
      BY <1>5, <2>2
    <3>2. CASE i = at
      <4>1. Less(keys[at - 1], keys[j])
        BY <1>1, <1>2, <2>2, <3>2 DEF SortInv
      <4> QED
        BY <1>5, <3>1, <3>2, <4>1
    <3>3. CASE i = at - 1
      <4>1. at < j
        BY <1>1, <2>2, <3>3
      <4>2. Less(keys[at], keys[j])
        BY <1>2, <2>2, <4>1 DEF SortInv
      <4> QED
        BY <1>5, <3>1, <3>3, <4>2
    <3>4. CASE i # at /\ i # at - 1
      BY <1>5, <2>2, <3>1, <3>4 DEF SortInv
    <3> QED
      BY <3>2, <3>3, <3>4
  <2> QED
    BY <2>1, <2>2
<1> QED
  BY <1>4, <1>6, <1>7, <1>8 DEF SortInv

\* A key has come to its place.
LEMMA PlacedSorts ==
  ASSUME SortInv, Placed
  PROVE  SortInv'
<1>1. /\ keys \in Seq(Keys) /\ Len(keys) \in Nat /\ at \in 1..Len(keys) /\ at \in Nat
      /\ at' = 0 /\ keys' = keys
      /\ at > 1 => ~Less(keys[at], keys[at - 1])
  BY DEF SortInv, Placed, Misplaced
<1>2. \A i, j \in 1..Len(keys) : i < j => Less(keys[i], keys[j])
  <2> SUFFICES ASSUME NEW i \in 1..Len(keys), NEW j \in 1..Len(keys), i < j
               PROVE  Less(keys[i], keys[j])
    OBVIOUS
  <2>1. CASE j # at
    BY <2>1 DEF SortInv
  <2>2. CASE j = at
    <3>1. at > 1 /\ at - 1 \in 1..Len(keys) /\ at - 1 # at /\ i # at
      BY <1>1, <2>2
    <3>2. keys[at] \in Keys /\ keys[at - 1] \in Keys /\ keys[i] \in Keys
      BY <1>1, <3>1
    <3>3. keys[at] # keys[at - 1] /\ keys[i] # keys[at]
      BY <1>1, <3>1 DEF SortInv
    <3>4. Less(keys[at - 1], keys[at])
      BY <1>1, <3>1, <3>2, <3>3, KeysOrdered
    <3>5. CASE i = at - 1
      BY <2>2, <3>4, <3>5
    <3>6. CASE i # at - 1
      <4>1. i < at - 1
        BY <1>1, <2>2, <3>6
      <4>2. Less(keys[i], keys[at - 1]) /\ keys[i] # keys[at - 1]
        BY <3>1, <4>1 DEF SortInv
      <4>3. Less(keys[i], keys[at])
        BY <3>2, <3>3, <3>4, <4>2, KeysTransitive
      <4> QED
        BY <2>2, <4>3
    <3> QED
      BY <3>5, <3>6
  <2> QED
    BY <2>1, <2>2
<1> QED
  BY <1>1, <1>2 DEF SortInv

\* The keys come out in one order, whatever order the map hands them out in: each is less
\* than those behind it, and none of those is less than it.
THEOREM KeysAreOrdered == Spec => []Ordered
<1>1. Init => SortInv
  BY SortInit
<1>2. SortInv /\ [Next]_vars => SortInv'
  <2> SUFFICES ASSUME SortInv, [Next]_vars PROVE SortInv'
    OBVIOUS
  <2>1. CASE UNCHANGED vars
    BY <2>1 DEF vars, SortInv
  <2> QED
    BY <2>1, TakeSorts, SwapSorts, PlacedSorts DEF Next
<1>3. SortInv => Ordered
  <2> SUFFICES ASSUME SortInv, at = 0, NEW i \in DOMAIN keys, NEW j \in DOMAIN keys, i < j
               PROVE  Less(keys[i], keys[j]) /\ ~Less(keys[j], keys[i])
    BY DEF Ordered
  <2>1. keys \in Seq(Keys) /\ i \in 1..Len(keys) /\ j \in 1..Len(keys) /\ i # j /\ j # at
    BY DEF SortInv
  <2>2. keys[i] \in Keys /\ keys[j] \in Keys /\ keys[i] # keys[j]
    BY <2>1 DEF SortInv
  <2>3. Less(keys[i], keys[j])
    BY <2>1 DEF SortInv
  <2> QED
    BY <2>2, <2>3, KeysOrdered
<1> QED
  BY <1>1, <1>2, <1>3, PTL DEF Spec
=============================================================================
