--------------------------- MODULE Composer_proofs ---------------------------
(***************************************************************************)
(* Proofs about Composer, for any anchors and any bound on the nodes.       *)
(*                                                                         *)
(* The composer's recursion and the constructs that the event grammar has   *)
(* open describe the same text in two ways: the grammar says what may come  *)
(* next, the composer what each of its active calls waits for.  A pair in   *)
(* a flow sequence is one construct of the grammar but two calls of the     *)
(* composer.  The inductive invariant relates the two, with the event that  *)
(* was peeked at and not consumed between them.                            *)
(***************************************************************************)
EXTENDS Composer, SequenceTheorems, TLAPS

-----------------------------------------------------------------------------
(* Sequences                                                                 *)

Front(s) == SubSeq(s, 1, Len(s) - 1)

\* A prefix of a sequence.
LEMMA PrefixFacts ==
  ASSUME NEW S, NEW s \in Seq(S), NEW m \in 0..Len(s)
  PROVE  /\ SubSeq(s, 1, m) \in Seq(S) /\ Len(SubSeq(s, 1, m)) = m
         /\ \A i \in 1..m : SubSeq(s, 1, m)[i] = s[i]
<1>1. 1 \in Int /\ m \in Int /\ m \in Nat /\ Len(s) \in Nat
  OBVIOUS
<1>2. \A i \in 1..m : s[i] \in S
  BY <1>1
<1>3. /\ SubSeq(s, 1, m) \in Seq(S)
      /\ Len(SubSeq(s, 1, m)) = IF 1 <= m THEN m - 1 + 1 ELSE 0
      /\ \A i \in 1..m - 1 + 1 : SubSeq(s, 1, m)[i] = s[1 + i - 1]
  BY <1>1, <1>2, SubSeqProperties
<1>. QED
  BY <1>1, <1>3

\* All but the last element of a sequence.
LEMMA FrontFacts ==
  ASSUME NEW S, NEW s \in Seq(S), s # <<>>
  PROVE  /\ Front(s) \in Seq(S) /\ Len(Front(s)) = Len(s) - 1 /\ Len(s) \in Nat \ {0}
         /\ \A i \in 1..Len(s) - 1 : Front(s)[i] = s[i]
         /\ s[Len(s)] \in S
<1>1. Len(s) \in Nat \ {0} /\ s[Len(s)] \in S
  OBVIOUS
<1>2. Len(s) - 1 \in 0..Len(s)
  BY <1>1
<1>. QED
  BY <1>1, <1>2, PrefixFacts DEF Front

\* One element more.
LEMMA AppendFacts ==
  ASSUME NEW S, NEW s \in Seq(S), NEW x \in S
  PROVE  /\ Append(s, x) \in Seq(S) /\ Append(s, x) # <<>>
         /\ Len(Append(s, x)) = Len(s) + 1 /\ Len(s) \in Nat
         /\ \A i \in 1..Len(s) : Append(s, x)[i] = s[i]
         /\ Append(s, x)[Len(s) + 1] = x
         /\ Front(Append(s, x)) = s
BY SMTT(40) DEF Front

\* A sequence of two elements or more.
LEMMA AtLeastTwo ==
  ASSUME NEW s, Len(s) >= 2
  PROVE  s # <<>> /\ \A y : s # <<y>>
<1>1. Len(<<>>) = 0 /\ \A y : Len(<<y>>) = 1
  OBVIOUS
<1>2. ~(0 >= 2) /\ ~(1 >= 2)
  OBVIOUS
<1>. QED
  BY <1>1, <1>2

\* Sequences of the same length with the same elements.
LEMMA SameSequence ==
  ASSUME NEW S, NEW s \in Seq(S), NEW t \in Seq(S), Len(s) = Len(t),
         \A i \in 1..Len(s) : s[i] = t[i]
  PROVE  s = t
BY SeqEqual

-----------------------------------------------------------------------------
(* Constructs and calls                                                      *)

\* The constructs of a pair in a flow sequence, and the step of the call that
\* parses a construct.
Pairs == {"PairKey", "PairValue", "PairEnd"}
StepOf == [Seq |-> "entry", Key |-> "key", Value |-> "value",
           PairKey |-> "key", PairValue |-> "value", PairEnd |-> "key"]
Width(f) == IF f \in Pairs THEN 2 ELSE 1

\* pos says which call parses which construct: the first is the document's,
\* and below the mapping of a pair is the sequence it is an entry of.
Placed(fr, s, pos) ==
  /\ fr[1] = "DocEnd" /\ s[1] = "end" /\ pos[1] = 1 /\ pos[Len(fr)] = Len(s)
  /\ \A j, k \in 1..Len(fr) : j < k => pos[j] < pos[k]
  /\ \A k \in 2..Len(fr) :
       /\ fr[k] \in DOMAIN StepOf /\ s[pos[k]] = StepOf[fr[k]]
       /\ pos[k] = pos[k - 1] + Width(fr[k])
       /\ fr[k] \in Pairs => s[pos[k] - 1] = "entry"

\* The open constructs fr are those of calls that wait for the steps s.
Matches(fr, s) ==
  /\ Len(fr) >= 1 /\ Len(s) >= 1
  /\ \E pos \in [1..Len(fr) -> 1..Len(s)] : Placed(fr, s, pos)
Coupled(fr, s) == Matches(fr, s) \/ (fr = <<"DocEnd", "Node">> /\ s = <<"root">>)

\* One construct more, f, and the steps of its call.
Pushed(c, t, f, fr, u) ==
  /\ f \in DOMAIN StepOf
  /\ Len(fr) = Len(c) + 1 /\ fr[Len(fr)] = f
  /\ \A k \in 1..Len(c) : fr[k] = c[k]
  /\ Len(u) = Len(t) + Width(f) /\ u[Len(u)] = StepOf[f]
  /\ \A i \in 1..Len(t) : u[i] = t[i]
  /\ f \in Pairs => u[Len(u) - 1] = "entry"

\* A construct more, with its call.
LEMMA MatchesPush ==
  ASSUME NEW c \in Seq(Parser!Frames), NEW t \in Seq(Steps), Matches(c, t),
         NEW fr \in Seq(Parser!Frames), NEW u \in Seq(Steps), NEW f, Pushed(c, t, f, fr, u)
  PROVE  Matches(fr, u)
<1> DEFINE n == Len(c)
           m == Len(t)
<1>0. /\ f \in DOMAIN StepOf
      /\ Len(fr) = Len(c) + 1 /\ fr[Len(fr)] = f
      /\ \A k \in 1..Len(c) : fr[k] = c[k]
      /\ Len(u) = Len(t) + Width(f) /\ u[Len(u)] = StepOf[f]
      /\ \A i \in 1..Len(t) : u[i] = t[i]
      /\ f \in Pairs => u[Len(u) - 1] = "entry"
  BY DEF Pushed
<1>1. PICK pos \in [1..n -> 1..m] : Placed(c, t, pos)
  BY DEF Matches
<1>2. n \in Nat /\ m \in Nat /\ n >= 1 /\ m >= 1 /\ Width(f) \in {1, 2}
      /\ (f \in Pairs => Width(f) = 2)
  BY DEF Matches, Width
<1> DEFINE p == [k \in 1..n + 1 |-> IF k = n + 1 THEN m + Width(f) ELSE pos[k]]
<1>3. Len(fr) = n + 1 /\ Len(u) = m + Width(f)
  BY <1>0
<1>4. p \in [1..n + 1 -> 1..m + Width(f)]
  BY <1>1, <1>2
<1>5. /\ \A k \in 1..n : p[k] = pos[k] /\ p[k] \in 1..m
      /\ p[n + 1] = m + Width(f)
  BY <1>1, <1>2, SMTT(40)
<1>6. /\ c[1] = "DocEnd" /\ t[1] = "end" /\ pos[1] = 1 /\ pos[n] = m
      /\ \A j, k \in 1..n : j < k => pos[j] < pos[k]
      /\ \A k \in 2..n :
           /\ c[k] \in DOMAIN StepOf /\ t[pos[k]] = StepOf[c[k]]
           /\ pos[k] = pos[k - 1] + Width(c[k])
           /\ c[k] \in Pairs => t[pos[k] - 1] = "entry"
  BY <1>1 DEF Placed
<1>. HIDE DEF p, n, m
<1>7. fr[1] = "DocEnd" /\ u[1] = "end" /\ p[1] = 1 /\ p[n + 1] = Len(u)
  BY <1>0, <1>2, <1>3, <1>5, <1>6 DEF n, m
<1>8. ASSUME NEW j \in 1..n + 1, NEW k \in 1..n + 1, j < k
      PROVE  p[j] < p[k]
  <2>1. j \in 1..n /\ (k \in 1..n \/ k = n + 1)
    BY <1>2, <1>8
  <2>2. CASE k \in 1..n
    BY <1>5, <1>6, <1>8, <2>1, <2>2
  <2>3. CASE k = n + 1
    <3>1. p[j] \in 1..m /\ p[k] = m + Width(f)
      BY <1>5, <2>1, <2>3
    <3>. QED
      BY <1>2, <3>1, SMTT(40)
  <2>. QED
    BY <2>1, <2>2, <2>3
<1>9. ASSUME NEW k \in 2..n + 1
      PROVE  /\ fr[k] \in DOMAIN StepOf /\ u[p[k]] = StepOf[fr[k]]
             /\ p[k] = p[k - 1] + Width(fr[k])
             /\ fr[k] \in Pairs => u[p[k] - 1] = "entry"
  <2>1. CASE k = n + 1
    <3>1. fr[k] = f /\ p[k] = m + Width(f) /\ p[k] = Len(u)
      BY <1>0, <1>3, <1>5, <2>1 DEF n
    <3>2. p[k - 1] = m
      BY <1>2, <1>5, <1>6, <2>1
    <3>. QED
      BY <1>0, <3>1, <3>2
  <2>2. CASE k \in 2..n
    <3>1. fr[k] = c[k] /\ p[k] = pos[k] /\ p[k] \in 1..m /\ u[p[k]] = t[p[k]]
      <4>1. k \in 1..n
        BY <1>2, <2>2
      <4>2. p[k] = pos[k] /\ p[k] \in 1..m
        BY <1>5, <4>1
      <4>. QED
        BY <1>0, <4>1, <4>2 DEF n, m
    <3>2. k - 1 \in 1..n /\ p[k - 1] = pos[k - 1] /\ p[k - 1] \in 1..m
      BY <1>2, <1>5, <2>2
    <3>3. p[k] = p[k - 1] + Width(fr[k])
      BY <1>6, <2>2, <3>1, <3>2
    <3>4. p[k] - 1 \in 1..m
      <4>1. Width(fr[k]) \in {1, 2}
        BY DEF Width
      <4>. QED
        BY <1>2, <3>1, <3>2, <3>3, <4>1, SMTT(40)
    <3>5. u[p[k] - 1] = t[p[k] - 1]
      BY <1>0, <3>4 DEF m
    <3>. QED
      BY <1>6, <2>2, <3>1, <3>3, <3>5
  <2>. QED
    BY <1>2, <2>1, <2>2
<1>10. Placed(fr, u, p)
  BY <1>3, <1>7, <1>8, <1>9 DEF Placed, n, m
<1>. QED
  BY <1>2, <1>3, <1>4, <1>10, SMTT(40) DEF Matches, n, m

\* The document alone.
LEMMA MatchesDocument ==
  /\ Matches(<<"DocEnd">>, <<"end">>)
  /\ \A s \in Seq(Steps) : Matches(<<"DocEnd">>, s) => s = <<"end">>
<1>1. Matches(<<"DocEnd">>, <<"end">>)
  <2> DEFINE fr == <<"DocEnd">>
             s == <<"end">>
  <2>1. Len(fr) = 1 /\ Len(s) = 1 /\ fr[1] = "DocEnd" /\ s[1] = "end"
    OBVIOUS
  <2>. HIDE DEF fr, s
  <2>2. Placed(fr, s, [k \in 1..1 |-> 1])
    BY <2>1 DEF Placed
  <2>3. [k \in 1..1 |-> 1] \in [1..Len(fr) -> 1..Len(s)]
    BY <2>1
  <2>4. Matches(fr, s)
    BY <2>1, <2>2, <2>3 DEF Matches
  <2>. QED
    BY <2>4 DEF fr, s
<1>2. ASSUME NEW s \in Seq(Steps), Matches(<<"DocEnd">>, s)
      PROVE  s = <<"end">>
  <2>1. Len(<<"DocEnd">>) = 1
    OBVIOUS
  <2>2. Len(s) = 1 /\ s[1] = "end"
    BY <1>2, <2>1 DEF Matches, Placed
  <2>3. <<"end">> \in Seq(Steps) /\ Len(<<"end">>) = 1 /\ <<"end">>[1] = "end"
    BY DEF Steps
  <2>4. \A t \in Seq(Steps) : Len(t) = 1 /\ t[1] = "end" => s = t
    BY <2>2, SameSequence
  <2>. QED
    BY <2>3, <2>4
<1>. QED
  BY <1>1, <1>2

\* A construct less, with its call.
LEMMA MatchesPop ==
  ASSUME NEW fr \in Seq(Parser!Frames), NEW s \in Seq(Steps), Matches(fr, s), Len(fr) >= 2,
         NEW f, f = fr[Len(fr)]
  PROVE  /\ f \in DOMAIN StepOf /\ s[Len(s)] = StepOf[f]
         /\ Len(s) - Width(f) \in 1..Len(s)
         /\ f \in Pairs => s[Len(s) - 1] = "entry"
         /\ Matches(Front(fr), SubSeq(s, 1, Len(s) - Width(f)))
<1> DEFINE n == Len(fr) - 1
           m == Len(s) - Width(f)
           c == Front(fr)
           t == SubSeq(s, 1, m)
<1>1. PICK pos \in [1..Len(fr) -> 1..Len(s)] : Placed(fr, s, pos)
  BY DEF Matches
<1>2. Len(fr) \in Nat /\ Len(s) \in Nat /\ n >= 1 /\ n + 1 = Len(fr) /\ Width(f) \in {1, 2}
      /\ n \in Nat
  BY DEF Width
<1>3. /\ fr[1] = "DocEnd" /\ s[1] = "end" /\ pos[1] = 1 /\ pos[Len(fr)] = Len(s)
      /\ \A j, k \in 1..Len(fr) : j < k => pos[j] < pos[k]
      /\ \A k \in 2..Len(fr) :
           /\ fr[k] \in DOMAIN StepOf /\ s[pos[k]] = StepOf[fr[k]]
           /\ pos[k] = pos[k - 1] + Width(fr[k])
           /\ fr[k] \in Pairs => s[pos[k] - 1] = "entry"
  BY <1>1 DEF Placed
<1>4. Len(fr) \in 2..Len(fr) /\ n \in 1..Len(fr) /\ Len(fr) - 1 = n
  BY <1>2
<1>5. /\ f \in DOMAIN StepOf /\ s[Len(s)] = StepOf[f]
      /\ f \in Pairs => s[Len(s) - 1] = "entry"
      /\ pos[n] = m /\ m \in 1..Len(s)
  <2>1. pos[Len(fr)] = pos[n] + Width(f) /\ pos[n] \in 1..Len(s)
    BY <1>1, <1>3, <1>4
  <2>2. pos[n] = m
    BY <1>2, <1>3, <2>1
  <2>. QED
    BY <1>3, <1>4, <2>1, <2>2
<1>6. /\ c \in Seq(Parser!Frames) /\ Len(c) = n /\ \A k \in 1..n : c[k] = fr[k]
  <2>1. fr # <<>>
    BY <1>2
  <2>. QED
    BY <2>1, FrontFacts
<1>7. m \in 0..Len(s)
  BY <1>2, <1>5
<1>8. t \in Seq(Steps) /\ Len(t) = m /\ \A i \in 1..m : t[i] = s[i]
  BY <1>7, PrefixFacts
<1> DEFINE p == [k \in 1..n |-> pos[k]]
<1>9. \A k \in 1..n : pos[k] \in 1..m
  <2>1. ASSUME NEW k \in 1..n
        PROVE  pos[k] \in 1..m
    <3>1. k \in 1..Len(fr) /\ (k = n \/ k < n)
      <4>1. n \in Nat /\ Len(fr) = n + 1
        BY <1>2
      <4>2. k \in 1..n
        OBVIOUS
      <4>. HIDE DEF n
      <4>. QED
        BY <4>1, <4>2
    <3>2. pos[k] \in 1..Len(s) /\ pos[n] \in 1..Len(s)
      BY <1>1, <1>4, <3>1
    <3>3. k < n => pos[k] < pos[n]
      BY <1>3, <1>4, <3>1
    <3>4. pos[n] = m
      BY <1>5
    <3>. HIDE DEF n, m
    <3>5. pos[k] \in Nat \ {0} /\ m \in Nat /\ pos[k] <= m
      BY <3>1, <3>2, <3>3, <3>4
    <3>. QED
      BY <3>5
  <2>. QED
    BY <2>1
<1>10. p \in [1..n -> 1..m] /\ \A k \in 1..n : p[k] = pos[k]
  BY <1>9
<1>. HIDE DEF n, m, c, t, p
<1>11. c[1] = "DocEnd" /\ t[1] = "end" /\ p[1] = 1 /\ p[n] = m
  BY <1>2, <1>3, <1>5, <1>6, <1>8, <1>10
<1>12. \A j, k \in 1..n : j < k => p[j] < p[k]
  BY <1>2, <1>3, <1>10
<1>13. ASSUME NEW k \in 2..n
       PROVE  /\ c[k] \in DOMAIN StepOf /\ t[p[k]] = StepOf[c[k]]
              /\ p[k] = p[k - 1] + Width(c[k])
              /\ c[k] \in Pairs => t[p[k] - 1] = "entry"
  <2>1. k \in 2..Len(fr) /\ k \in 1..n /\ k - 1 \in 1..n
    BY <1>2
  <2>2. c[k] = fr[k] /\ p[k] = pos[k] /\ p[k - 1] = pos[k - 1] /\ t[p[k]] = s[pos[k]]
        /\ p[k] \in 1..m /\ p[k - 1] \in 1..m
    BY <1>6, <1>8, <1>10, <2>1
  <2>3. p[k] = p[k - 1] + Width(c[k]) /\ Width(c[k]) \in {1, 2}
    BY <1>3, <2>1, <2>2 DEF Width
  <2>4. p[k] - 1 \in 1..m
    BY <1>2, <1>5, <2>2, <2>3, SMTT(40)
  <2>5. t[p[k] - 1] = s[pos[k] - 1]
    BY <1>8, <2>2, <2>4
  <2>. QED
    BY <1>3, <2>1, <2>2, <2>3, <2>5
<1>14. Placed(c, t, p)
  BY <1>6, <1>8, <1>11, <1>12, <1>13 DEF Placed
<1>15. Matches(c, t)
  BY <1>2, <1>5, <1>6, <1>8, <1>10, <1>14 DEF Matches
<1>. QED
  BY <1>5, <1>15 DEF c, t, m

-----------------------------------------------------------------------------
(* What the grammar may send                                                 *)

\* The steps once a child has been delivered to the innermost call.
Advance(s) == [i \in 1..Len(s) |-> IF i = Len(s) THEN NextStep[s[i]] ELSE s[i]]

\* The event is one that calls waiting for the steps s can consume, and fr are
\* the constructs that are open then.
Expected(ev, fr, s) ==
  LET x == s[Len(s)] IN
  \/ ev.typ \in {"SCALAR", "ALIAS"} /\ x # "end" /\ Coupled(fr, Advance(s))
  \/ ev.typ = "SEQUENCE_START" /\ x # "end" /\ Coupled(fr, Append(Advance(s), "entry"))
  \/ ev.typ = "MAPPING_START" /\ x # "end" /\ Coupled(fr, Append(Advance(s), "key"))
  \/ ev.typ = "SEQUENCE_END" /\ x = "entry" /\ Coupled(fr, Front(s))
  \/ ev.typ = "MAPPING_END" /\ x = "key" /\ Coupled(fr, Front(s))
  \/ ev.typ = "DOCUMENT_END" /\ s = <<"end">> /\ fr = <<"Doc">>

\* Advancing changes the last step only.
LEMMA AdvanceFacts ==
  ASSUME NEW s \in Seq(Steps), s # <<>>, s[Len(s)] # "end"
  PROVE  /\ Advance(s) \in Seq(Steps) /\ Len(Advance(s)) = Len(s) /\ Len(s) \in Nat \ {0}
         /\ \A i \in 1..Len(s) - 1 : Advance(s)[i] = s[i]
         /\ Advance(s)[Len(s)] = NextStep[s[Len(s)]]
<1>1. Len(s) \in Nat \ {0} /\ \A i \in 1..Len(s) : s[i] \in Steps
  OBVIOUS
<1> DEFINE y == NextStep[s[Len(s)]]
           n == Len(s)
<1>2. y \in Steps
  BY <1>1 DEF Steps, NextStep
<1>. HIDE DEF Steps, y, n
<1>3. Advance(s) = [i \in 1..n |-> IF i = n THEN y ELSE s[i]]
  BY DEF Advance, n, y
<1>4. n \in Nat \ {0} /\ n = Len(s) /\ \A i \in 1..n : s[i] \in Steps
  BY <1>1 DEF n
<1>5. Advance(s) \in [1..n -> Steps]
  BY <1>2, <1>3, <1>4
<1>6. Advance(s) \in Seq(Steps) /\ Len(Advance(s)) = n
  BY <1>4, <1>5
<1>7. \A i \in 1..n : Advance(s)[i] = IF i = n THEN y ELSE s[i]
  BY <1>3
<1>8. Advance(s)[n] = y /\ \A i \in 1..n - 1 : Advance(s)[i] = s[i]
  BY <1>4, <1>7
<1>. QED
  BY <1>4, <1>6, <1>8 DEF y

\* A construct appended as a sequence of its own.
LEMMA ConcatOne ==
  ASSUME NEW S, NEW c \in Seq(S), NEW f \in S
  PROVE  c \o <<f>> = Append(c, f)
OBVIOUS

\* The root of a document is the only step that advances to the end.
LEMMA AdvanceRoot == Advance(<<"root">>) = <<"end">>
<1>1. <<"root">> \in Seq(Steps) /\ <<"root">> # <<>> /\ Len(<<"root">>) = 1 /\ <<"root">>[1] = "root"
  BY DEF Steps
<1>2. \A s : s \in Seq(Steps) /\ s # <<>> /\ Len(s) = 1 /\ s[1] = "root"
        => Advance(s) \in Seq(Steps) /\ Len(Advance(s)) = 1 /\ Advance(s)[1] = "end"
  BY AdvanceFacts DEF NextStep
<1>3. <<"end">> \in Seq(Steps) /\ Len(<<"end">>) = 1 /\ <<"end">>[1] = "end"
  BY DEF Steps
<1>4. \A s, t \in Seq(Steps) : Len(s) = 1 /\ s[1] = "end" /\ Len(t) = 1 /\ t[1] = "end" => s = t
  BY SameSequence
<1>. QED
  BY <1>1, <1>2, <1>3, <1>4

\* A collection starts.
LEMMA MatchesCollection ==
  ASSUME NEW c \in Seq(Parser!Frames), NEW t \in Seq(Steps), Matches(c, t)
  PROVE  /\ Matches(Append(c, "Seq"), Append(t, "entry"))
         /\ Matches(Append(c, "Key"), Append(t, "key"))
<1>1. ASSUME NEW g \in {"Seq", "Key"}
      PROVE  Matches(Append(c, g), Append(t, StepOf[g]))
  <2>1. /\ g \in DOMAIN StepOf /\ g \in Parser!Frames /\ StepOf[g] \in Steps /\ Width(g) = 1
        /\ g \notin Pairs
    BY DEF Parser!Frames, Steps, StepOf, Width, Pairs
  <2> DEFINE e == StepOf[g]
             fr == Append(c, g)
             u == Append(t, e)
  <2>2. e \in Steps
    BY <2>1
  <2>. HIDE DEF e
  <2>3. /\ fr \in Seq(Parser!Frames) /\ Len(fr) = Len(c) + 1 /\ Len(c) \in Nat
        /\ \A k \in 1..Len(c) : fr[k] = c[k]
        /\ fr[Len(c) + 1] = g
    BY <2>1, AppendFacts
  <2>4. /\ u \in Seq(Steps) /\ Len(u) = Len(t) + 1 /\ Len(t) \in Nat
        /\ \A i \in 1..Len(t) : u[i] = t[i]
        /\ u[Len(t) + 1] = e
    BY <2>2, AppendFacts
  <2>. HIDE DEF fr, u
  <2>5. fr[Len(fr)] = g /\ u[Len(u)] = StepOf[g] /\ Len(u) = Len(t) + Width(g)
    BY <2>1, <2>3, <2>4 DEF e
  <2>6. Matches(fr, u)
    <3>1. Pushed(c, t, g, fr, u)
      BY <2>1, <2>3, <2>4, <2>5 DEF Pushed
    <3>. QED
      BY <2>3, <2>4, <3>1, MatchesPush
  <2>. QED
    BY <2>6 DEF fr, u, e
<1>. QED
  BY <1>1 DEF StepOf

\* The events of the grammar are those of the composer.
LEMMA EventsAgree ==
  /\ Parser!None = None /\ Parser!NoEvent = NoEvent
  /\ \A typ, a : Parser!Event(typ, a) = Event(typ, a)
  /\ \A typ, a : Event(typ, a).typ = typ /\ Event(typ, a).anchor = a
  /\ NoEvent.typ = "NO_EVENT"
BY DEF Parser!None, None, Parser!NoEvent, NoEvent, Parser!Event, Event

\* The root of a document is due.
LEMMA RootEvents ==
  ASSUME frames = <<"DocEnd", "Node">>, Parser!Next
  PROVE  /\ event' = NoEvent => frames' = <<>>
         /\ frames' # <<>> => Expected(event', frames', <<"root">>)
<1>1. /\ frames \in Seq(Parser!Frames) /\ frames # <<>>
      /\ Len(frames) = 2 /\ frames[1] = "DocEnd" /\ frames[2] = "Node"
  BY DEF Parser!Frames
<1>2. \A x : Len(<<x>>) = 1
  OBVIOUS
<1>3. /\ frames # <<"StreamStart">> /\ frames # <<"Doc">> /\ frames # <<"DocEnd">>
      /\ frames # <<"End">>
  BY <1>1, <1>2
<1>4. Parser!Inner = "Node" /\ Parser!Rest = <<>>
  BY <1>1 DEF Parser!Inner, Parser!Rest
<1>5. Parser!Outer = <<"DocEnd">>
  <2>1. /\ Front(frames) \in Seq(Parser!Frames) /\ Len(Front(frames)) = 1
        /\ Front(frames)[1] = "DocEnd"
    <3>. HIDE DEF Parser!Frames
    <3>1. /\ Front(frames) \in Seq(Parser!Frames) /\ Len(Front(frames)) = Len(frames) - 1
          /\ \A i \in 1..Len(frames) - 1 : Front(frames)[i] = frames[i]
      BY <1>1, FrontFacts
    <3>2. Len(frames) - 1 = 1 /\ 1 \in 1..1
      BY <1>1
    <3>. QED
      BY <1>1, <3>1, <3>2
  <2>2. \A c, d \in Seq(Parser!Frames) :
          Len(c) = 1 /\ c[1] = "DocEnd" /\ Len(d) = 1 /\ d[1] = "DocEnd" => c = d
    BY SameSequence
  <2>3. <<"DocEnd">> \in Seq(Parser!Frames) /\ Len(<<"DocEnd">>) = 1 /\ <<"DocEnd">>[1] = "DocEnd"
    BY DEF Parser!Frames
  <2>. QED
    BY <2>1, <2>2, <2>3 DEF Parser!Outer, Front
<1>6. Parser!Outer \o Parser!Rest = <<"DocEnd">>
  BY <1>4, <1>5
<1> DEFINE c == <<"DocEnd">>
           t == <<"end">>
           s == <<"root">>
<1>7. /\ c \in Seq(Parser!Frames) /\ t \in Seq(Steps) /\ Matches(c, t) /\ Advance(s) = t
      /\ s[Len(s)] = "root"
  BY MatchesDocument, AdvanceRoot DEF Parser!Frames, Steps
<1>8. c \o <<"Seq">> = Append(c, "Seq") /\ c \o <<"Key">> = Append(c, "Key")
  BY DEF Parser!Frames
<1>. HIDE DEF c, t, s
<1>9. /\ Matches(Append(c, "Seq"), Append(t, "entry"))
      /\ Matches(Append(c, "Key"), Append(t, "key"))
  BY <1>7, MatchesCollection
<1>10. CASE Parser!Leaf
  <2>1. event'.typ \in {"SCALAR", "ALIAS"} /\ frames' \in {c, <<>>}
    BY <1>6, <1>10, EventsAgree DEF Parser!Leaf, Parser!Emit, c
  <2>. QED
    BY <1>7, <2>1, EventsAgree DEF Expected, Coupled, s
<1>11. CASE Parser!Start
  <2>1. \/ event'.typ = "SEQUENCE_START" /\ frames' \in {Append(c, "Seq"), <<>>}
        \/ event'.typ = "MAPPING_START" /\ frames' \in {Append(c, "Key"), <<>>}
    BY <1>6, <1>8, <1>11, EventsAgree DEF Parser!Start, Parser!Emit, c
  <2>. QED
    BY <1>7, <1>9, <2>1, EventsAgree DEF Expected, Coupled, s
<1>12. CASE Parser!Fail
  BY <1>12 DEF Parser!Fail
<1>. QED
  BY <1>1, <1>3, <1>4, <1>10, <1>11, <1>12 DEF Parser!Next, Parser!StreamStart,
     Parser!DocumentStart, Parser!DocumentEnd, Parser!StreamEnd, Parser!SequenceEnd,
     Parser!MappingEnd, Parser!PairStart, Parser!PairEnd, Parser!Nothing, Parser!Over, Parser!InA

\* The root of a document is complete.
LEMMA DocumentEndEvents ==
  ASSUME frames = <<"DocEnd">>, Parser!Next
  PROVE  /\ event' = NoEvent => frames' = <<>>
         /\ frames' # <<>> => Expected(event', frames', <<"end">>)
<1>1. /\ Len(frames) = 1 /\ frames[1] = "DocEnd" /\ frames # <<>>
      /\ frames # <<"StreamStart">> /\ frames # <<"Doc">> /\ frames # <<"End">>
  OBVIOUS
<1>2. Parser!Inner = "DocEnd"
  BY <1>1 DEF Parser!Inner
<1>3. CASE Parser!DocumentEnd
  BY <1>3, EventsAgree DEF Parser!DocumentEnd, Parser!Emit, Expected
<1>4. CASE Parser!Fail
  BY <1>4 DEF Parser!Fail
<1>. QED
  BY <1>1, <1>2, <1>3, <1>4 DEF Parser!Next, Parser!StreamStart, Parser!DocumentStart,
     Parser!StreamEnd, Parser!Leaf, Parser!Start, Parser!NodeFrames, Parser!SequenceEnd,
     Parser!MappingEnd, Parser!PairStart, Parser!PairEnd, Parser!Nothing, Parser!Over, Parser!InA

\* A collection is open.
LEMMA CollectionEvents ==
  ASSUME frames \in Seq(Parser!Frames), NEW s \in Seq(Steps), Matches(frames, s),
         Len(frames) >= 2, Parser!Next
  PROVE  /\ event' = NoEvent => frames' = <<>>
         /\ frames' # <<>> => Expected(event', frames', s)
<1> DEFINE c == Front(frames)
           f == frames[Len(frames)]
           t == SubSeq(s, 1, Len(s) - Width(f))
           x == s[Len(s)]
<1>1. /\ f \in DOMAIN StepOf /\ x = StepOf[f] /\ Len(s) - Width(f) \in 1..Len(s)
      /\ f \in Pairs => s[Len(s) - 1] = "entry"
      /\ Matches(c, t)
  BY MatchesPop
<1>2. frames # <<>> /\ \A y : frames # <<y>>
  BY AtLeastTwo
<1>3. c \in Seq(Parser!Frames) /\ c = Parser!Outer /\ Parser!Inner = f /\ Len(c) \in Nat
  <2>. HIDE DEF Parser!Frames
  <2>. QED
    BY <1>2, FrontFacts DEF Parser!Outer, Parser!Inner, Front
<1>4. /\ t \in Seq(Steps) /\ Len(t) = Len(s) - Width(f) /\ \A i \in 1..Len(t) : t[i] = s[i]
      /\ Len(t) \in Nat \ {0} /\ Width(f) \in {1, 2}
  <2>1. Width(f) \in {1, 2}
    BY DEF Width
  <2>2. Len(s) - Width(f) \in 0..Len(s) /\ Len(s) \in Nat
    BY <1>1
  <2>. HIDE DEF f, Steps
  <2>. QED
    BY <1>1, <2>1, <2>2, PrefixFacts
<1>5. Len(s) = Len(t) + Width(f) /\ Len(s) \in Nat \ {0} /\ s # <<>> /\ x # "end"
  BY <1>1, <1>4 DEF StepOf
<1> DEFINE a == Advance(s)
<1>6. /\ a \in Seq(Steps) /\ Len(a) = Len(s)
      /\ \A i \in 1..Len(s) - 1 : a[i] = s[i]
      /\ a[Len(s)] = NextStep[x]
  BY <1>5, AdvanceFacts
<1> DEFINE r == [Seq |-> "Seq", Key |-> "Value", Value |-> "Key",
                 PairKey |-> "PairValue", PairValue |-> "PairEnd"][f]
<1>7. f \in Parser!NodeFrames =>
        /\ r \in DOMAIN StepOf /\ r \in Parser!Frames /\ StepOf[r] = NextStep[StepOf[f]]
        /\ Width(r) = Width(f) /\ (r \in Pairs <=> f \in Pairs)
        /\ Parser!Rest = <<r>>
  BY <1>1, <1>3 DEF StepOf, NextStep, Width, Pairs, Parser!NodeFrames, Parser!Rest, Parser!Frames
<1>. HIDE DEF c, f, t, x, a, r
<1>8. ASSUME f \in Parser!NodeFrames
      PROVE  /\ Parser!Outer \o Parser!Rest = Append(c, r) /\ Append(c, r) \in Seq(Parser!Frames)
             /\ Matches(Append(c, r), a)
  <2>1. Parser!Outer \o Parser!Rest = Append(c, r)
    BY <1>3, <1>7, <1>8, ConcatOne
  <2> DEFINE fr == Append(c, r)
  <2>2. /\ fr \in Seq(Parser!Frames) /\ Len(fr) = Len(c) + 1
        /\ \A k \in 1..Len(c) : fr[k] = c[k]
        /\ fr[Len(c) + 1] = r
    BY <1>3, <1>7, <1>8, AppendFacts
  <2>. HIDE DEF fr
  <2>3. \A i \in 1..Len(t) : a[i] = t[i]
    <3>1. \A i \in 1..Len(t) : i \in 1..Len(s) - 1
      BY <1>4, <1>5
    <3>. QED
      BY <1>4, <1>6, <3>1
  <2>4. fr[Len(fr)] = r /\ Len(a) = Len(t) + Width(r) /\ a[Len(a)] = StepOf[r]
    BY <1>1, <1>5, <1>6, <1>7, <1>8, <2>2
  <2>5. r \in Pairs => a[Len(a) - 1] = "entry"
    <3>1. r \in Pairs => Width(f) = 2
      BY <1>7, <1>8 DEF Width
    <3>2. r \in Pairs => Len(s) - 1 \in 1..Len(s) - 1
      BY <1>4, <1>5, <3>1
    <3>. QED
      BY <1>1, <1>6, <1>7, <1>8, <3>2
  <2>6. Matches(fr, a)
    <3>1. Matches(c, t) /\ c \in Seq(Parser!Frames) /\ t \in Seq(Steps) /\ a \in Seq(Steps)
          /\ r \in DOMAIN StepOf
      BY <1>1, <1>3, <1>4, <1>6, <1>7, <1>8
    <3>2. Pushed(c, t, r, fr, a)
      BY <2>2, <2>3, <2>4, <2>5, <3>1 DEF Pushed
    <3>. QED
      BY <2>2, <3>1, <3>2, MatchesPush
  <2>. QED
    BY <2>1, <2>2, <2>6 DEF fr
<1>9. CASE Parser!Leaf
  <2>1. f \in Parser!NodeFrames
    BY <1>3, <1>9 DEF Parser!Leaf, Parser!InA
  <2>2. event'.typ \in {"SCALAR", "ALIAS"} /\ frames' \in {Append(c, r), <<>>}
    BY <1>8, <1>9, <2>1, EventsAgree DEF Parser!Leaf, Parser!Emit
  <2>. QED
    BY <1>5, <1>8, <2>1, <2>2, EventsAgree DEF Expected, Coupled, x, a
<1>10. CASE Parser!Start
  <2>1. f \in Parser!NodeFrames
    BY <1>3, <1>10 DEF Parser!Start, Parser!InA
  <2>2. /\ Append(c, r) \o <<"Seq">> = Append(Append(c, r), "Seq")
        /\ Append(c, r) \o <<"Key">> = Append(Append(c, r), "Key")
    <3>1. "Seq" \in Parser!Frames /\ "Key" \in Parser!Frames
      BY DEF Parser!Frames
    <3>. QED
      BY <1>8, <2>1, <3>1, ConcatOne
  <2>3. \/ event'.typ = "SEQUENCE_START" /\ frames' \in {Append(Append(c, r), "Seq"), <<>>}
        \/ event'.typ = "MAPPING_START" /\ frames' \in {Append(Append(c, r), "Key"), <<>>}
    BY <1>8, <1>10, <2>1, <2>2, EventsAgree DEF Parser!Start, Parser!Emit
  <2>4. /\ Matches(Append(Append(c, r), "Seq"), Append(a, "entry"))
        /\ Matches(Append(Append(c, r), "Key"), Append(a, "key"))
    BY <1>6, <1>8, <2>1, MatchesCollection
  <2>. QED
    BY <1>5, <2>3, <2>4, EventsAgree DEF Expected, Coupled, x, a
<1>11. f \notin Pairs => Front(s) = t
  BY <1>5 DEF Front, t, Width
<1>12. CASE Parser!SequenceEnd
  <2>1. f = "Seq" /\ event'.typ = "SEQUENCE_END" /\ frames' \in {c, <<>>}
    BY <1>3, <1>12, EventsAgree DEF Parser!SequenceEnd, Parser!InA, Parser!Emit
  <2>. QED
    BY <1>1, <1>11, <2>1, EventsAgree DEF Expected, Coupled, x, Pairs, StepOf
<1>13. CASE Parser!MappingEnd
  <2>1. f = "Key" /\ event'.typ = "MAPPING_END" /\ frames' \in {c, <<>>}
    BY <1>3, <1>13, EventsAgree DEF Parser!MappingEnd, Parser!InA, Parser!Emit
  <2>. QED
    BY <1>1, <1>11, <2>1, EventsAgree DEF Expected, Coupled, x, Pairs, StepOf
<1>14. CASE Parser!PairStart
  <2>1. f = "Seq" /\ event'.typ = "MAPPING_START" /\ frames' \in {Append(c, "PairKey"), <<>>}
    BY <1>3, <1>14, EventsAgree DEF Parser!PairStart, Parser!InA, Parser!Emit
  <2> DEFINE fr == Append(c, "PairKey")
             u == Append(a, "key")
  <2>2. /\ "PairKey" \in Parser!Frames /\ "PairKey" \in DOMAIN StepOf /\ Width("PairKey") = 2
        /\ StepOf["PairKey"] = "key" /\ "key" \in Steps /\ Width(f) = 1 /\ NextStep[StepOf[f]] = "entry"
    BY <2>1 DEF Parser!Frames, StepOf, Width, Pairs, Steps, NextStep
  <2>3. /\ fr \in Seq(Parser!Frames) /\ Len(fr) = Len(c) + 1
        /\ \A k \in 1..Len(c) : fr[k] = c[k]
        /\ fr[Len(c) + 1] = "PairKey"
    BY <1>3, <2>2, AppendFacts
  <2>4. /\ u \in Seq(Steps) /\ Len(u) = Len(a) + 1
        /\ \A i \in 1..Len(a) : u[i] = a[i]
        /\ u[Len(a) + 1] = "key"
    BY <1>6, <2>2, AppendFacts
  <2>. HIDE DEF fr, u
  <2>5. \A i \in 1..Len(t) : u[i] = t[i]
    <3>1. \A i \in 1..Len(t) : i \in 1..Len(s) - 1 /\ i \in 1..Len(a)
      BY <1>4, <1>5, <1>6
    <3>. QED
      BY <1>4, <1>6, <2>4, <3>1
  <2>6. /\ fr[Len(fr)] = "PairKey" /\ Len(u) = Len(t) + Width("PairKey")
        /\ u[Len(u)] = StepOf["PairKey"] /\ u[Len(u) - 1] = "entry"
    <3>1. Len(t) = Len(s) - 1 /\ Len(a) = Len(s) /\ Len(s) \in 1..Len(a) /\ a[Len(s)] = "entry"
          /\ Len(s) \in Nat \ {0}
      BY <1>1, <1>4, <1>5, <1>6, <2>2
    <3>2. Len(u) = Len(s) + 1
      BY <2>4, <3>1
    <3>. QED
      BY <2>2, <2>3, <2>4, <3>1, <3>2, <1>3
  <2>7. Matches(fr, u)
    <3>1. Matches(c, t) /\ c \in Seq(Parser!Frames) /\ t \in Seq(Steps)
      BY <1>1, <1>3, <1>4
    <3>2. ASSUME NEW g \in DOMAIN StepOf, fr[Len(fr)] = g, Len(u) = Len(t) + Width(g),
                 u[Len(u)] = StepOf[g], u[Len(u) - 1] = "entry"
          PROVE  Matches(fr, u)
      <4>1. fr \in Seq(Parser!Frames) /\ u \in Seq(Steps) /\ Len(fr) = Len(c) + 1
            /\ \A k \in 1..Len(c) : fr[k] = c[k]
        BY <2>3, <2>4
      <4>2. Pushed(c, t, g, fr, u)
        BY <2>5, <3>2, <4>1 DEF Pushed
      <4>. QED
        BY <3>1, <4>1, <4>2, MatchesPush
    <3>. QED
      BY <2>2, <2>6, <3>2
  <2>. QED
    BY <1>5, <2>1, <2>7, EventsAgree DEF Expected, Coupled, x, a, fr, u
<1>15. CASE Parser!PairEnd
  <2>1. f = "PairEnd" /\ event'.typ = "MAPPING_END" /\ frames' \in {Append(c, "Seq"), <<>>}
    BY <1>3, <1>15, EventsAgree DEF Parser!PairEnd, Parser!InA, Parser!Emit
  <2> DEFINE fr == Append(c, "Seq")
             u == Front(s)
  <2>2. /\ "Seq" \in Parser!Frames /\ "Seq" \in DOMAIN StepOf /\ Width("Seq") = 1
        /\ "Seq" \notin Pairs /\ StepOf["Seq"] = "entry" /\ Width(f) = 2 /\ f \in Pairs
        /\ StepOf[f] = "key"
    BY <2>1 DEF Parser!Frames, StepOf, Width, Pairs
  <2>3. /\ fr \in Seq(Parser!Frames) /\ Len(fr) = Len(c) + 1
        /\ \A k \in 1..Len(c) : fr[k] = c[k]
        /\ fr[Len(c) + 1] = "Seq"
    BY <1>3, <2>2, AppendFacts
  <2>4. /\ u \in Seq(Steps) /\ Len(u) = Len(s) - 1 /\ \A i \in 1..Len(s) - 1 : u[i] = s[i]
    <3>. HIDE DEF Steps
    <3>. QED
      BY <1>5, FrontFacts
  <2>. HIDE DEF fr, u
  <2>5. \A i \in 1..Len(t) : u[i] = t[i]
    <3>1. \A i \in 1..Len(t) : i \in 1..Len(s) - 1
      BY <1>4, <1>5
    <3>. QED
      BY <1>4, <2>4, <3>1
  <2>6. /\ fr[Len(fr)] = "Seq" /\ Len(u) = Len(t) + Width("Seq") /\ u[Len(u)] = StepOf["Seq"]
    <3>1. Len(u) = Len(t) + 1 /\ Len(s) - 1 \in 1..Len(s) - 1
      BY <1>4, <1>5, <2>2, <2>4
    <3>. QED
      BY <1>1, <2>2, <2>3, <2>4, <3>1, <1>3
  <2>7. Matches(fr, u)
    <3>1. Matches(c, t) /\ c \in Seq(Parser!Frames) /\ t \in Seq(Steps)
      BY <1>1, <1>3, <1>4
    <3>2. Pushed(c, t, "Seq", fr, u)
      BY <2>2, <2>3, <2>5, <2>6 DEF Pushed
    <3>. QED
      BY <2>3, <2>4, <3>1, <3>2, MatchesPush
  <2>. QED
    BY <1>1, <2>1, <2>2, <2>7, EventsAgree DEF Expected, Coupled, x, fr, u
<1>16. CASE Parser!Fail
  BY <1>16 DEF Parser!Fail
<1>. QED
  BY <1>2, <1>9, <1>10, <1>12, <1>13, <1>14, <1>15, <1>16 DEF Parser!Next, Parser!StreamStart,
     Parser!DocumentStart, Parser!DocumentEnd, Parser!StreamEnd, Parser!Nothing, Parser!Over

\* The grammar keeps to its constructs and its events.
LEMMA GrammarType ==
  ASSUME frames \in Seq(Parser!Frames), event \in Events, Parser!Next
  PROVE  frames' \in Seq(Parser!Frames) /\ event' \in Events
<1>1. /\ \A typ \in EventTypes, a \in Anchors \cup {None} : Event(typ, a) \in Events
      /\ NoEvent \in Events
  BY DEF Event, Events, NoEvent
<1>2. /\ "Seq" \in Parser!Frames /\ "PairKey" \in Parser!Frames
      /\ <<>> \in Seq(Parser!Frames) /\ <<"Doc">> \in Seq(Parser!Frames)
      /\ <<"DocEnd", "Node">> \in Seq(Parser!Frames) /\ <<"End">> \in Seq(Parser!Frames)
      /\ <<"Seq">> \in Seq(Parser!Frames) /\ <<"Key">> \in Seq(Parser!Frames)
  <2>1. \A S : \A x, y \in S : <<x>> \in Seq(S) /\ <<x, y>> \in Seq(S) /\ <<>> \in Seq(S)
    OBVIOUS
  <2>2. \A x \in {"Doc", "DocEnd", "Node", "End", "Seq", "Key", "PairKey"} : x \in Parser!Frames
    BY DEF Parser!Frames
  <2>. QED
    BY <2>1, <2>2
<1>3. frames # <<>> /\ Parser!Inner \in Parser!NodeFrames => Parser!Rest \in Seq(Parser!Frames)
  <2>1. Parser!Inner \in Parser!NodeFrames
          => Parser!Rest \in {<<>>} \cup {<<x>> : x \in {"Seq", "Key", "Value", "PairValue", "PairEnd"}}
    BY DEF Parser!NodeFrames, Parser!Rest
  <2>2. \A x \in {"Seq", "Key", "Value", "PairValue", "PairEnd"} : x \in Parser!Frames
    BY DEF Parser!Frames
  <2>3. \A S : <<>> \in Seq(S) /\ \A x \in S : <<x>> \in Seq(S)
    OBVIOUS
  <2>. QED
    BY <2>1, <2>2, <2>3
<1>4. frames # <<>> => Parser!Outer \in Seq(Parser!Frames)
  <2>. HIDE DEF Parser!Frames
  <2>. QED
    BY FrontFacts DEF Parser!Outer, Front
<1>5. \A c, d \in Seq(Parser!Frames) : c \o d \in Seq(Parser!Frames)
  OBVIOUS
<1>6. \A c \in Seq(Parser!Frames), f \in Parser!Frames : Append(c, f) \in Seq(Parser!Frames)
  OBVIOUS
<1>7. CASE Parser!StreamStart \/ Parser!DocumentStart \/ Parser!DocumentEnd \/ Parser!StreamEnd
  BY <1>1, <1>2, <1>7, EventsAgree DEF Parser!StreamStart, Parser!DocumentStart,
     Parser!DocumentEnd, Parser!StreamEnd, Parser!Emit, EventTypes
<1>8. CASE Parser!Leaf
  <2>1. frames' \in Seq(Parser!Frames)
    BY <1>2, <1>3, <1>4, <1>5, <1>8 DEF Parser!Leaf, Parser!InA, Parser!Emit
  <2>2. event' \in Events
    BY <1>1, <1>8, EventsAgree DEF Parser!Leaf, Parser!Emit, EventTypes
  <2>. QED
    BY <2>1, <2>2
<1>9. CASE Parser!Start
  <2>1. frames' \in Seq(Parser!Frames)
    <3>1. frames' \in {Parser!Outer \o Parser!Rest \o <<"Seq">>,
                       Parser!Outer \o Parser!Rest \o <<"Key">>, <<>>}
      BY <1>9 DEF Parser!Start, Parser!Emit
    <3>2. Parser!Outer \o Parser!Rest \in Seq(Parser!Frames)
      BY <1>3, <1>4, <1>5, <1>9 DEF Parser!Start, Parser!InA
    <3>. QED
      BY <1>2, <1>5, <3>1, <3>2
  <2>2. event' \in Events
    BY <1>1, <1>9, EventsAgree DEF Parser!Start, Parser!Emit, EventTypes
  <2>. QED
    BY <2>1, <2>2
<1>10. CASE Parser!SequenceEnd \/ Parser!MappingEnd \/ Parser!PairStart \/ Parser!PairEnd
  <2>1. frames' \in Seq(Parser!Frames)
    BY <1>2, <1>4, <1>6, <1>10 DEF Parser!SequenceEnd, Parser!MappingEnd, Parser!PairStart,
       Parser!PairEnd, Parser!InA, Parser!Emit
  <2>2. event' \in Events
    BY <1>1, <1>10, EventsAgree DEF Parser!SequenceEnd, Parser!MappingEnd, Parser!PairStart,
       Parser!PairEnd, Parser!Emit, EventTypes
  <2>. QED
    BY <2>1, <2>2
<1>11. CASE Parser!Fail \/ Parser!Nothing
  BY <1>1, <1>2, <1>11, EventsAgree DEF Parser!Fail, Parser!Nothing
<1>. QED
  BY <1>7, <1>8, <1>9, <1>10, <1>11 DEF Parser!Next

-----------------------------------------------------------------------------
(* The active calls                                                          *)

Calls == [node : Nat, step : Steps]

\* Only the innermost call may be at the end of its document.
Nested(stk) == \A l \in 1..Len(stk) - 1 : stk[l].step # "end"

\* The steps the calls wait for, once the children being parsed are delivered.
Due(stk) == [l \in 1..Len(stk) |-> IF l = Len(stk) THEN stk[l].step ELSE NextStep[stk[l].step]]

\* A call has been given a child.
Advanced(stk) == [stk EXCEPT ![Len(stk)].step = NextStep[@]]

\* The steps due are steps.
LEMMA DueFacts ==
  ASSUME NEW stk \in Seq(Calls), Nested(stk)
  PROVE  /\ Due(stk) \in Seq(Steps) /\ Len(Due(stk)) = Len(stk) /\ Len(stk) \in Nat
         /\ \A l \in 1..Len(stk) - 1 : Due(stk)[l] = NextStep[stk[l].step]
         /\ stk # <<>> => /\ Due(stk)[Len(stk)] = stk[Len(stk)].step
                          /\ Len(stk) \in 1..Len(stk) /\ stk[Len(stk)] \in Calls
<1> DEFINE n == Len(stk)
           y(l) == IF l = n THEN stk[l].step ELSE NextStep[stk[l].step]
<1>1. n \in Nat /\ (stk # <<>> => n \in 1..n) /\ \A l \in 1..n : stk[l] \in Calls
  OBVIOUS
<1>2. \A l \in 1..n : l # n => l \in 1..n - 1
  BY <1>1
<1>3. \A l \in 1..n : y(l) \in Steps
  BY <1>1, <1>2 DEF Nested, Calls, Steps, NextStep
<1>4. Due(stk) = [l \in 1..n |-> y(l)]
  BY DEF Due
<1>. HIDE DEF y, n, Steps
<1>5. Due(stk) \in Seq(Steps) /\ Len(Due(stk)) = n /\ \A l \in 1..n : Due(stk)[l] = y(l)
  BY <1>1, <1>3, <1>4
<1>6. \A l \in 1..n - 1 : l \in 1..n /\ l # n
  BY <1>1
<1>. QED
  BY <1>1, <1>5, <1>6 DEF y, n

\* A child advances the step of the innermost call.
LEMMA DueAdvance ==
  ASSUME NEW stk \in Seq(Calls), Nested(stk), stk # <<>>, stk[Len(stk)].step # "end"
  PROVE  /\ Advanced(stk) \in Seq(Calls) /\ Len(Advanced(stk)) = Len(stk) /\ Nested(Advanced(stk))
         /\ \A l \in 1..Len(stk) : Advanced(stk)[l].node = stk[l].node
         /\ \A l \in 1..Len(stk) - 1 : Advanced(stk)[l] = stk[l]
         /\ Advanced(stk)[Len(stk)].step = NextStep[stk[Len(stk)].step]
         /\ Due(Advanced(stk)) = Advance(Due(stk))
<1> DEFINE n == Len(stk)
           v == Advanced(stk)
<1>1. n \in Nat \ {0} /\ n \in 1..n /\ \A l \in 1..n : stk[l] \in Calls
  OBVIOUS
<1>2. [stk[n] EXCEPT !.step = NextStep[@]] = [node |-> stk[n].node, step |-> NextStep[stk[n].step]]
  <2>1. stk[n] \in Calls
    BY <1>1
  <2>. HIDE DEF n
  <2>. QED
    BY <2>1 DEF Calls
<1>3. NextStep[stk[n].step] \in Steps
  BY <1>1 DEF Calls, Steps, NextStep
<1> DEFINE w == [node |-> stk[n].node, step |-> NextStep[stk[n].step]]
<1>4. w \in Calls
  BY <1>1, <1>3 DEF Calls
<1>5. v = [stk EXCEPT ![n] = w]
  BY <1>2 DEF Advanced
<1>6. w.node = stk[n].node /\ w.step = NextStep[stk[n].step]
  OBVIOUS
<1>. HIDE DEF w, Calls, v, n
<1>7. v \in Seq(Calls) /\ Len(v) = n /\ v[n] = w /\ \A l \in 1..n : l # n => v[l] = stk[l]
  BY <1>1, <1>4, <1>5 DEF n
<1>8. \A l \in 1..n - 1 : l \in 1..n /\ l # n
  BY <1>1
<1>9. Nested(v)
  BY <1>7, <1>8 DEF Nested, n
<1>10. Due(v) = Advance(Due(stk))
  <2>1. /\ Due(stk) \in Seq(Steps) /\ Len(Due(stk)) = n /\ Due(stk)[n] = stk[n].step
        /\ \A l \in 1..n - 1 : Due(stk)[l] = NextStep[stk[l].step]
    BY DueFacts DEF n
  <2>2. /\ Due(v) \in Seq(Steps) /\ Len(Due(v)) = n /\ Due(v)[n] = w.step
        /\ \A l \in 1..n - 1 : Due(v)[l] = NextStep[stk[l].step]
    <3>1. v # <<>>
      BY <1>1, <1>7
    <3>. QED
      BY <1>7, <1>8, <1>9, <3>1, DueFacts, SMTT(40)
  <2>3. Due(stk) # <<>> /\ Due(stk)[Len(Due(stk))] # "end"
    BY <1>1, <2>1 DEF n
  <2>4. /\ Advance(Due(stk)) \in Seq(Steps) /\ Len(Advance(Due(stk))) = n
        /\ \A l \in 1..n - 1 : Advance(Due(stk))[l] = NextStep[stk[l].step]
        /\ Advance(Due(stk))[n] = NextStep[stk[n].step]
    BY <2>1, <2>3, AdvanceFacts
  <2>5. \A l \in 1..n : l = n \/ l \in 1..n - 1
    BY <1>1
  <2>6. \A l \in 1..n : Due(v)[l] = Advance(Due(stk))[l]
    BY <1>6, <2>2, <2>4, <2>5
  <2>. QED
    BY <2>2, <2>4, <2>6, SameSequence
<1>. QED
  BY <1>6, <1>7, <1>8, <1>9, <1>10 DEF v, n

\* A collection opens inside the innermost call.
LEMMA DueOpen ==
  ASSUME NEW stk \in Seq(Calls), Nested(stk), stk # <<>>, stk[Len(stk)].step # "end",
         NEW w \in Calls
  PROVE  /\ Nested(Append(stk, w))
         /\ Due(Append(stk, w)) = Append(Advance(Due(stk)), w.step)
<1> DEFINE n == Len(stk)
           v == Append(stk, w)
<1>1. n \in Nat \ {0} /\ w.step \in Steps
  BY DEF Calls
<1>. HIDE DEF Calls
<1>2. /\ v \in Seq(Calls) /\ Len(v) = n + 1 /\ v[n + 1] = w /\ v # <<>>
      /\ \A l \in 1..n : v[l] = stk[l]
  BY AppendFacts
<1>. HIDE DEF v, n
<1>3. \A l \in 1..n : l = n \/ l \in 1..n - 1
  BY <1>1
<1>4. (n + 1) - 1 = n /\ \A l \in 1..n - 1 : l \in 1..n
  BY <1>1
<1>5. Nested(v)
  BY <1>2, <1>3, <1>4 DEF Nested, n
<1>6. /\ Due(stk) \in Seq(Steps) /\ Len(Due(stk)) = n /\ Due(stk)[n] = stk[n].step
      /\ \A l \in 1..n - 1 : Due(stk)[l] = NextStep[stk[l].step]
  BY DueFacts DEF n
<1>7. /\ Due(v) \in Seq(Steps) /\ Len(Due(v)) = n + 1 /\ Due(v)[n + 1] = w.step
      /\ \A l \in 1..n : Due(v)[l] = NextStep[stk[l].step]
  <2>1. /\ Due(v) \in Seq(Steps) /\ Len(Due(v)) = Len(v) /\ Due(v)[Len(v)] = v[Len(v)].step
        /\ \A l \in 1..Len(v) - 1 : Due(v)[l] = NextStep[v[l].step]
    BY <1>2, <1>5, DueFacts
  <2>2. Len(v) - 1 = n /\ v[Len(v)] = w
    BY <1>2, <1>4
  <2>. QED
    BY <1>2, <2>1, <2>2
<1>8. Due(stk) # <<>> /\ Due(stk)[Len(Due(stk))] # "end"
  BY <1>1, <1>6 DEF n
<1> DEFINE a == Advance(Due(stk))
           u == Append(a, w.step)
<1>9. a \in Seq(Steps) /\ Len(a) = n /\ \A l \in 1..n : a[l] = NextStep[stk[l].step]
  <2>1. /\ a \in Seq(Steps) /\ Len(a) = n
        /\ \A l \in 1..n - 1 : a[l] = NextStep[stk[l].step]
        /\ a[n] = NextStep[stk[n].step]
    BY <1>6, <1>8, AdvanceFacts
  <2>. QED
    BY <1>3, <2>1
<1>. HIDE DEF a
<1>10. /\ u \in Seq(Steps) /\ Len(u) = n + 1 /\ u[n + 1] = w.step
       /\ \A l \in 1..n : u[l] = a[l]
  BY <1>1, <1>9, AppendFacts
<1>. HIDE DEF u
<1>11. \A l \in 1..n + 1 : l = n + 1 \/ l \in 1..n
  BY <1>1
<1>12. \A l \in 1..n + 1 : Due(v)[l] = u[l]
  BY <1>7, <1>9, <1>10, <1>11
<1>13. Due(v) = u
  BY <1>7, <1>10, <1>12, SameSequence
<1>. QED
  BY <1>5, <1>13 DEF u, a, v

\* The innermost call returns and its caller goes on.
LEMMA DueClose ==
  ASSUME NEW stk \in Seq(Calls), Nested(stk), Len(stk) >= 2
  PROVE  /\ Front(stk) \in Seq(Calls) /\ Front(stk) # <<>> /\ Nested(Front(stk))
         /\ Len(Front(stk)) = Len(stk) - 1 /\ \A l \in 1..Len(stk) - 1 : Front(stk)[l] = stk[l]
         /\ Front(stk)[Len(Front(stk))].step # "end"
         /\ Due(Advanced(Front(stk))) = Front(Due(stk))
<1> DEFINE n == Len(stk) - 1
           v == Front(stk)
<1>1. n \in Nat \ {0} /\ Len(stk) = n + 1 /\ stk # <<>>
  <2>1. \A k \in Nat : k >= 2 => k - 1 \in Nat \ {0} /\ k = (k - 1) + 1
    OBVIOUS
  <2>2. Len(stk) \in Nat
    BY LenProperties
  <2>. QED
    BY <2>1, <2>2, AtLeastTwo
<1>2. v \in Seq(Calls) /\ Len(v) = n /\ \A l \in 1..n : v[l] = stk[l]
  BY <1>1, FrontFacts
<1>3. \A l \in 1..n : stk[l].step # "end"
  BY DEF Nested
<1>. HIDE DEF v, n
<1>4. \A l \in 1..n : l = n \/ l \in 1..n - 1
  BY <1>1
<1>5. n \in 1..n /\ \A l \in 1..n - 1 : l \in 1..n
  BY <1>1
<1>6. v # <<>> /\ Nested(v) /\ v[n].step # "end"
  BY <1>1, <1>2, <1>3, <1>5 DEF Nested
<1>7. /\ Due(stk) \in Seq(Steps) /\ Len(Due(stk)) = n + 1 /\ Due(stk) # <<>>
      /\ \A l \in 1..n : Due(stk)[l] = NextStep[stk[l].step]
  BY <1>1, DueFacts DEF n
<1> DEFINE u == Front(Due(stk))
           a == Due(Advanced(v))
<1>8. u \in Seq(Steps) /\ Len(u) = n /\ \A l \in 1..n : u[l] = NextStep[stk[l].step]
  <2>1. (n + 1) - 1 = n
    BY <1>1
  <2>2. /\ u \in Seq(Steps) /\ Len(u) = Len(Due(stk)) - 1
        /\ \A l \in 1..Len(Due(stk)) - 1 : u[l] = Due(stk)[l]
    BY <1>7, FrontFacts
  <2>. HIDE DEF u
  <2>. QED
    BY <1>7, <2>1, <2>2
<1>9. a \in Seq(Steps) /\ Len(a) = n /\ \A l \in 1..n : a[l] = NextStep[stk[l].step]
  <2>1. /\ Due(v) \in Seq(Steps) /\ Len(Due(v)) = n /\ Due(v) # <<>>
        /\ Due(v)[n] = stk[n].step
        /\ \A l \in 1..n - 1 : Due(v)[l] = NextStep[stk[l].step]
    BY <1>1, <1>2, <1>5, <1>6, DueFacts, SMTT(40)
  <2>2. a = Advance(Due(v)) /\ Due(v)[Len(Due(v))] # "end"
    BY <1>2, <1>6, <2>1, <1>5, DueAdvance
  <2>3. /\ a \in Seq(Steps) /\ Len(a) = n /\ a[n] = NextStep[stk[n].step]
        /\ \A l \in 1..n - 1 : a[l] = NextStep[stk[l].step]
    BY <2>1, <2>2, AdvanceFacts
  <2>. QED
    BY <1>4, <2>3
<1>. HIDE DEF a, u
<1>10. a = u
  BY <1>8, <1>9, SameSequence
<1>. QED
  BY <1>2, <1>6, <1>10 DEF v, n, u, a

-----------------------------------------------------------------------------
(* The composer and the grammar in step                                      *)

\* The current call of Decode ended with outcome o, or the one before it did.
After(o) == outcome = o \/ (Running /\ last = o)

\* An alias whose anchor is unknown, which stays in p.event.
Refused == doneInit /\ event.typ = "ALIAS" /\ event.anchor \notin DOMAIN anchors

\* The event in p.event, the open constructs and the active calls fit: the parser
\* has failed and its last event is consumed, or the event is the next one of
\* the stream, of a document, or of the calls that are active; or it is one of
\* the two that an error leaves behind.
Synced ==
  \/ frames = <<>> /\ event = NoEvent
  \/ ~doneInit /\ stack = <<>> /\ event = NoEvent /\ frames = <<"StreamStart">>
  \/ ~doneInit /\ stack = <<>> /\ event.typ = "STREAM_START" /\ frames \in {<<"Doc">>, <<>>}
  \/ doneInit /\ stack = <<>> /\ event = NoEvent /\ frames = <<"Doc">>
  \/ doneInit /\ stack = <<>> /\ event.typ = "STREAM_END"
  \/ doneInit /\ stack = <<>> /\ event.typ = "DOCUMENT_START" /\ frames = <<"DocEnd", "Node">>
  \/ doneInit /\ stack # <<>> /\ event = NoEvent /\ Coupled(frames, Due(stack))
  \/ doneInit /\ stack # <<>> /\ event # NoEvent /\ Expected(event, frames, Due(stack))
  \/ /\ doneInit /\ stack = <<>> /\ event # NoEvent /\ frames = <<>>
     /\ After("late") \/ After("panic")
  \/ stack = <<>> /\ event # NoEvent /\ Refused /\ After("error")

\* What a call of Decode that ended leaves behind.
Final ==
  /\ ~Running => stack = <<>>
  /\ Nested(stack)
  /\ After("error") => stack = <<>> /\ ((frames = <<>> /\ event = NoEvent) \/ Refused)
  /\ After("eof") => stack = <<>> /\ doneInit /\ event.typ = "STREAM_END"
  /\ After("panic") =>
       /\ stack = <<>> /\ doneInit /\ frames = <<>> /\ event # NoEvent
       /\ event.typ \in {"STREAM_START", "DOCUMENT_END", "SEQUENCE_END", "MAPPING_END"}
  /\ After("late") => doneInit /\ frames = <<>>
  /\ OutcomeFinal

\* The sequences and sets of the state.
Shaped ==
  /\ frames \in Seq(Parser!Frames) /\ event \in Events /\ doneInit \in BOOLEAN
  /\ stack \in Seq(Calls)
  /\ outcome \in Outcomes /\ last \in Outcomes

\* What p.event can be when it is looked at.
LEMMA PeekedFacts ==
  ASSUME Synced, Peeked
  PROVE  /\ ~doneInit => /\ stack = <<>> /\ event.typ = "STREAM_START"
                         /\ frames \in {<<"Doc">>, <<>>}
         /\ doneInit /\ stack = <<>> =>
              \/ event.typ = "STREAM_END"
              \/ event.typ = "DOCUMENT_START" /\ frames = <<"DocEnd", "Node">>
              \/ frames = <<>> /\ last \in {"late", "panic"}
              \/ Refused /\ last = "error"
         /\ doneInit /\ stack # <<>> => Expected(event, frames, Due(stack))
<1>1. event # NoEvent /\ outcome = "running"
  BY DEF Peeked, Running
<1>. QED
  BY <1>1 DEF Synced, After, Refused

\* p.event when the active calls wait for it.
LEMMA InnerEvent ==
  ASSUME Shaped, Synced, Final, Peeked, stack # <<>>
  PROVE  /\ doneInit /\ event \in Events
         /\ TopCall \in Calls /\ Len(stack) \in Nat \ {0}
         /\ TopCall.step = Due(stack)[Len(Due(stack))]
         /\ Due(stack) \in Seq(Steps) /\ Due(stack) # <<>> /\ Len(Due(stack)) = Len(stack)
         /\ \/ /\ event.typ \in {"SCALAR", "ALIAS"} /\ TopCall.step # "end"
               /\ Coupled(frames, Advance(Due(stack)))
            \/ /\ event.typ = "SEQUENCE_START" /\ TopCall.step # "end"
               /\ Coupled(frames, Append(Advance(Due(stack)), "entry"))
            \/ /\ event.typ = "MAPPING_START" /\ TopCall.step # "end"
               /\ Coupled(frames, Append(Advance(Due(stack)), "key"))
            \/ /\ event.typ = "SEQUENCE_END" /\ TopCall.step = "entry"
               /\ Coupled(frames, Front(Due(stack)))
            \/ /\ event.typ = "MAPPING_END" /\ TopCall.step = "key"
               /\ Coupled(frames, Front(Due(stack)))
            \/ /\ event.typ = "DOCUMENT_END" /\ Due(stack) = <<"end">>
               /\ TopCall.step = "end" /\ frames = <<"Doc">>
<1>1. doneInit /\ Expected(event, frames, Due(stack)) /\ event \in Events
  BY PeekedFacts DEF Shaped
<1>2. stack \in Seq(Calls) /\ Nested(stack)
  BY DEF Shaped, Final
<1>3. Due(stack) \in Seq(Steps) /\ Len(Due(stack)) = Len(stack) /\ Len(stack) \in Nat
      /\ Due(stack)[Len(stack)] = stack[Len(stack)].step
      /\ Len(stack) \in 1..Len(stack) /\ stack[Len(stack)] \in Calls
  BY <1>2, DueFacts
<1>4. Len(stack) \in Nat \ {0} /\ Due(stack) # <<>>
  <2>. HIDE DEF Steps
  <2>1. Len(stack) \in Nat \ {0}
    BY <1>3
  <2>. QED
    BY <1>3, <2>1
<1>5. Due(stack) = <<"end">> => Due(stack)[Len(Due(stack))] = "end"
  OBVIOUS
<1>. QED
  BY <1>1, <1>3, <1>4, <1>5 DEF Expected, TopCall

\* Whether the event is one of the children or the end of the innermost call.
LEMMA ChildDueFacts ==
  ASSUME Shaped, Synced, Final, Peeked, stack # <<>>
  PROVE  /\ event.typ \in {"SCALAR", "ALIAS", "SEQUENCE_START", "MAPPING_START"} <=> ChildDue
         /\ ~ChildDue => /\ TopCall.step \in {"end", "entry", "key"}
                         /\ event.typ = EndOf[TopCall.step]
<1>1. /\ DOMAIN EndOf = {"entry", "key", "end"}
      /\ EndOf["entry"] = "SEQUENCE_END" /\ EndOf["key"] = "MAPPING_END"
      /\ EndOf["end"] = "DOCUMENT_END"
  BY DEF EndOf
<1>. QED
  BY <1>1, InnerEvent DEF ChildDue

\* The events are those the composer waits for.
LEMMA EventsAreExpected ==
  ASSUME Shaped, Synced, Final
  PROVE  EventsExpected
<1>. SUFFICES ASSUME Peeked
              PROVE  EventsExpected
  BY DEF EventsExpected
<1>1. CASE stack = <<>>
  BY <1>1, PeekedFacts DEF EventsExpected
<1>2. CASE stack # <<>>
  <2>1. /\ DOMAIN EndOf = {"entry", "key", "end"}
        /\ EndOf["entry"] = "SEQUENCE_END" /\ EndOf["key"] = "MAPPING_END"
        /\ EndOf["end"] = "DOCUMENT_END"
    BY DEF EndOf
  <2>. QED
    BY <1>2, <2>1, InnerEvent DEF EventsExpected
<1>. QED
  BY <1>1, <1>2

\* Outcomes behind which the decoder is dead, given the event that is left.
LEMMA Survivors ==
  ASSUME Final, Peeked
  PROVE  /\ last = "error" => Refused /\ stack = <<>>
         /\ last = "eof" => event.typ = "STREAM_END" /\ stack = <<>>
         /\ last = "panic" =>
              /\ stack = <<>> /\ doneInit /\ frames = <<>>
              /\ event.typ \in {"STREAM_START", "DOCUMENT_END", "SEQUENCE_END", "MAPPING_END"}
         /\ last = "late" => doneInit /\ frames = <<>>
         /\ outcome = "running"
BY DEF Final, Peeked, After, Running

\* A node without children arrives.
LEMMA LeafStep ==
  ASSUME Shaped, Synced, Final, Peeked, doneInit, ChildDue,
         event.typ \in {"SCALAR", "ALIAS"}, ~Refused,
         Consume, NEW id, NEW ns, Deliver(id, ns, stack), UNCHANGED <<doneInit, last>>
  PROVE  Shaped' /\ Synced' /\ Final'
<1>1. last \notin {"error", "eof", "panic"} /\ outcome = "running"
  BY Survivors
<1>2. event' = NoEvent /\ frames' = frames /\ doneInit' /\ last' = last
  BY DEF Consume
<1>3. NoEvent \in Events
  BY DEF NoEvent, Event, Events
<1>4. stack \in Seq(Calls) /\ Nested(stack)
  BY DEF Shaped, Final
<1>5. CASE stack = <<>>
  <2>1. frames = <<>>
    BY <1>1, <1>5, PeekedFacts
  <2>2. stack' = <<>> /\ outcome' = "value"
    BY <1>5 DEF Deliver
  <2>3. Nested(<<>>)
    BY DEF Nested
  <2>. QED
    BY <1>1, <1>2, <1>3, <1>4, <2>1, <2>2, <2>3
       DEF Shaped, Synced, Final, After, Running, Outcomes, OutcomeFinal
<1>6. CASE stack # <<>>
  <2>1. stack' = Advanced(stack) /\ outcome' = outcome
    BY <1>6 DEF Deliver, Advanced
  <2>2. TopCall.step # "end" /\ Coupled(frames, Advance(Due(stack)))
    BY <1>6, InnerEvent
  <2>3. /\ stack' \in Seq(Calls) /\ Nested(stack') /\ Len(stack') = Len(stack)
        /\ Due(stack') = Advance(Due(stack))
    BY <1>4, <1>6, <2>1, <2>2, DueAdvance DEF TopCall
  <2>4. stack' # <<>>
    BY <1>4, <1>6, <2>3
  <2>. QED
    BY <1>1, <1>2, <1>3, <2>1, <2>2, <2>3, <2>4
       DEF Shaped, Synced, Final, After, Running, OutcomeFinal
<1>. QED
  BY <1>5, <1>6

\* A node with children starts.
LEMMA OpenStep ==
  ASSUME Shaped, Synced, Final, ParseOpen, Len(nodes) \in Nat
  PROVE  Shaped' /\ Synced' /\ Final'
<1> DEFINE kind == Opened[event.typ]
           w == Call(Fresh, FirstStep[kind])
<1>1. /\ Peeked /\ doneInit /\ ChildDue /\ event.typ \in DOMAIN Opened
      /\ stack' = Append(stack, w) /\ event' = NoEvent /\ frames' = frames
      /\ doneInit' /\ last' = last /\ outcome' = outcome
  BY DEF ParseOpen, Consume
<1>2. last \notin {"error", "eof", "panic"} /\ outcome = "running"
  BY <1>1, Survivors DEF Opened, Refused
<1>3. NoEvent \in Events
  BY DEF NoEvent, Event, Events
<1>4. stack \in Seq(Calls) /\ Nested(stack)
  BY DEF Shaped, Final
<1>5. Fresh \in Nat
  BY DEF Fresh
<1>6. /\ event.typ = "DOCUMENT_START" => w.step = "root"
      /\ event.typ = "SEQUENCE_START" => w.step = "entry"
      /\ event.typ = "MAPPING_START" => w.step = "key"
      /\ event.typ \in {"DOCUMENT_START", "SEQUENCE_START", "MAPPING_START"}
      /\ w \in Calls
  BY <1>1, <1>5 DEF Opened, FirstStep, Call, Calls, Steps
<1>. HIDE DEF w, kind
<1>7. stack' \in Seq(Calls) /\ stack' # <<>>
  BY <1>1, <1>4, <1>6, AppendFacts
<1>8. CASE stack = <<>>
  <2>1. stack' = <<w>>
    BY <1>1, <1>8
  <2>2. Nested(stack') /\ Due(stack') = <<w.step>>
    <3>1. Len(stack') = 1 /\ stack'[1] = w
      BY <2>1
    <3>2. Nested(stack')
      BY <3>1 DEF Nested
    <3>3. Due(stack') \in Seq(Steps) /\ Len(Due(stack')) = 1 /\ Due(stack')[1] = w.step
      BY <1>7, <3>1, <3>2, DueFacts
    <3>4. \A u \in Seq(Steps) : Len(u) = 1 /\ u[1] = w.step => Due(stack') = u
      BY <3>3, SameSequence
    <3>5. <<w.step>> \in Seq(Steps) /\ Len(<<w.step>>) = 1 /\ <<w.step>>[1] = w.step
      <4>1. w.step \in Steps
        BY <1>6 DEF Calls
      <4>. HIDE DEF Steps
      <4>. QED
        BY <4>1
    <3>. QED
      BY <3>2, <3>4, <3>5
  <2>3. frames = <<>> \/ (frames = <<"DocEnd", "Node">> /\ event.typ = "DOCUMENT_START")
    BY <1>1, <1>2, <1>6, <1>8, PeekedFacts
  <2>4. frames = <<>> \/ Coupled(frames, Due(stack'))
    BY <1>6, <2>2, <2>3 DEF Coupled
  <2>. QED
    BY <1>1, <1>2, <1>3, <1>7, <2>2, <2>3, <2>4
       DEF Shaped, Synced, Final, After, Running, OutcomeFinal
<1>9. CASE stack # <<>>
  <2>1. TopCall.step # "end" /\ Coupled(frames, Append(Advance(Due(stack)), w.step))
    BY <1>1, <1>6, <1>9, InnerEvent
  <2>2. Nested(stack') /\ Due(stack') = Append(Advance(Due(stack)), w.step)
    BY <1>1, <1>4, <1>6, <1>9, <2>1, DueOpen DEF TopCall
  <2>. QED
    BY <1>1, <1>2, <1>3, <1>7, <2>1, <2>2
       DEF Shaped, Synced, Final, After, Running, OutcomeFinal
<1>. QED
  BY <1>8, <1>9

\* A node with children ends.
LEMMA CloseStep ==
  ASSUME Shaped, Synced, Final, Close
  PROVE  Shaped' /\ Synced' /\ Final'
<1>1. Peeked /\ doneInit /\ ~ChildDue /\ stack # <<>>
  BY DEF Close, ChildDue
<1>2. event.typ = EndOf[TopCall.step]
  BY <1>1, ChildDueFacts
<1>3. /\ event' = NoEvent /\ frames' = frames /\ doneInit' /\ last' = last
      /\ Deliver(TopCall.node, nodes, Callers)
  BY <1>1, <1>2 DEF Close, Consume
<1>4. last \notin {"error", "eof", "panic"} /\ outcome = "running"
  BY <1>1, <1>2, ChildDueFacts, Survivors
<1>5. NoEvent \in Events
  BY DEF NoEvent, Event, Events
<1>6. stack \in Seq(Calls) /\ Nested(stack) /\ Len(stack) \in Nat \ {0}
  BY <1>1, InnerEvent DEF Shaped, Final
<1>7. Callers = Front(stack)
  BY DEF Callers, Front
<1>8. CASE Len(stack) = 1
  <2>1. Callers = <<>>
    BY <1>6, <1>8, FrontFacts DEF Callers
  <2>2. stack' = <<>> /\ outcome' = "value"
    BY <1>3, <2>1 DEF Deliver
  <2>3. frames = <<>> \/ frames = <<"Doc">>
    <3>1. ~Coupled(frames, Front(Due(stack)))
      <4>1. Len(Front(Due(stack))) = 0
        BY <1>1, <1>8, InnerEvent, FrontFacts
      <4>2. Len(<<"root">>) = 1
        OBVIOUS
      <4>. QED
        BY <4>1, <4>2 DEF Coupled, Matches
    <3>. QED
      BY <1>1, <3>1, InnerEvent, ChildDueFacts
  <2>4. Nested(<<>>) /\ <<>> \in Seq(Calls)
    BY DEF Nested
  <2>. QED
    BY <1>1, <1>3, <1>4, <1>5, <2>2, <2>3, <2>4
       DEF Shaped, Synced, Final, After, Running, Outcomes, OutcomeFinal
<1>9. CASE Len(stack) >= 2
  <2> DEFINE v == Front(stack)
  <2>1. /\ v \in Seq(Calls) /\ v # <<>> /\ Nested(v) /\ v[Len(v)].step # "end"
        /\ Due(Advanced(v)) = Front(Due(stack))
    BY <1>6, <1>9, DueClose
  <2>2. stack' = Advanced(v) /\ outcome' = outcome
    BY <1>3, <1>7, <2>1 DEF Deliver, Advanced
  <2>. HIDE DEF v
  <2>3. stack' \in Seq(Calls) /\ Nested(stack') /\ stack' # <<>>
    <3>1. Advanced(v) \in Seq(Calls) /\ Nested(Advanced(v)) /\ Len(Advanced(v)) = Len(v)
      BY <2>1, DueAdvance
    <3>. QED
      BY <2>1, <2>2, <3>1
  <2>4. Coupled(frames, Due(stack'))
    <3>1. ~(Due(stack) = <<"end">>)
      <4>1. Len(Due(stack)) = Len(stack)
        BY <1>1, InnerEvent
      <4>2. Len(<<"end">>) = 1
        OBVIOUS
      <4>3. ~(1 >= 2)
        OBVIOUS
      <4>. QED
        BY <1>9, <4>1, <4>2, <4>3
    <3>. QED
      BY <1>1, <2>1, <2>2, <3>1, InnerEvent, ChildDueFacts
  <2>. QED
    BY <1>1, <1>3, <1>4, <1>5, <2>2, <2>3, <2>4
       DEF Shaped, Synced, Final, After, Running, OutcomeFinal
<1>10. \A k \in Nat \ {0} : k = 1 \/ k >= 2
  OBVIOUS
<1>. QED
  BY <1>6, <1>8, <1>9, <1>10

\* The parser is called.
LEMMA PeekStep ==
  ASSUME Shaped, Synced, Final, Peek
  PROVE  Shaped' /\ Synced' /\ Final'
<1>1. /\ outcome = "running" /\ event = NoEvent /\ Parser!Next
      /\ doneInit' = doneInit /\ last' = last
      /\ \/ event' = NoEvent /\ outcome' = "error" /\ stack' = <<>> /\ anchors' = anchors
         \/ /\ event' # NoEvent /\ doneInit /\ frames' = <<>> /\ outcome' = "late"
            /\ stack' = <<>>
         \/ /\ event' # NoEvent /\ ~(doneInit /\ frames' = <<>>)
            /\ outcome' = outcome /\ stack' = stack
  BY DEF Peek, Running, Fail
<1>2. frames' \in Seq(Parser!Frames) /\ event' \in Events
  BY <1>1, GrammarType DEF Shaped
<1>3. Nested(<<>>) /\ <<>> \in Seq(Calls)
  BY DEF Nested
<1>4. NoEvent.typ = "NO_EVENT" /\ last \in {"error", "eof", "panic"} => last = "error" /\ frames = <<>>
  BY <1>1, EventsAgree DEF Final, After, Running, Refused
<1>5. last = "late" => doneInit /\ frames = <<>>
  BY <1>1 DEF Final, After, Running
<1>6. CASE frames = <<>>
  <2>1. event' = NoEvent /\ frames' = <<>>
    <3>1. \A y : <<>> # <<y>>
      OBVIOUS
    <3>2. frames # <<"DocEnd", "Node">>
      BY <1>6
    <3>. QED
      BY <1>1, <1>6, <3>1, EventsAgree DEF Parser!Next, Parser!StreamStart, Parser!DocumentStart,
         Parser!DocumentEnd, Parser!StreamEnd, Parser!Leaf, Parser!Start, Parser!SequenceEnd,
         Parser!MappingEnd, Parser!PairStart, Parser!PairEnd, Parser!Fail, Parser!Nothing,
         Parser!Over, Parser!InA
  <2>2. outcome' = "error" /\ stack' = <<>>
    BY <1>1, <2>1
  <2>. QED
    BY <1>1, <1>2, <1>3, <1>4, <2>1, <2>2, EventsAgree
       DEF Shaped, Synced, Final, After, Running, Outcomes, OutcomeFinal
<1>7. CASE frames # <<>>
  <2>1. last \notin {"error", "eof", "panic", "late"}
    BY <1>4, <1>5, <1>7, EventsAgree
  <2>2. /\ event' = NoEvent => frames' = <<>>
        /\ frames' # <<>> /\ ~doneInit =>
             stack = <<>> /\ event'.typ = "STREAM_START" /\ frames' = <<"Doc">>
        /\ ~doneInit /\ event' # NoEvent =>
             stack = <<>> /\ event'.typ = "STREAM_START" /\ frames' \in {<<"Doc">>, <<>>}
        /\ doneInit /\ frames' # <<>> =>
             \/ /\ stack = <<>>
                /\ \/ event'.typ = "STREAM_END"
                   \/ event'.typ = "DOCUMENT_START" /\ frames' = <<"DocEnd", "Node">>
             \/ stack # <<>> /\ Expected(event', frames', Due(stack))
    <3>1. \/ ~doneInit /\ stack = <<>> /\ frames = <<"StreamStart">>
          \/ doneInit /\ stack = <<>> /\ frames = <<"Doc">>
          \/ doneInit /\ stack # <<>> /\ Coupled(frames, Due(stack))
      BY <1>1, <1>7, EventsAgree DEF Synced, Refused
    <3>2. CASE ~doneInit /\ stack = <<>> /\ frames = <<"StreamStart">>
      <4>1. Len(frames) = 1 /\ frames[1] = "StreamStart" /\ frames # <<"Doc">>
            /\ frames # <<"DocEnd">> /\ frames # <<"End">>
        BY <3>2
      <4>. QED
        BY <1>1, <1>7, <3>2, <4>1, EventsAgree DEF Parser!Next, Parser!StreamStart,
           Parser!DocumentStart, Parser!DocumentEnd, Parser!StreamEnd, Parser!Leaf, Parser!Start,
           Parser!SequenceEnd, Parser!MappingEnd, Parser!PairStart, Parser!PairEnd, Parser!Fail,
           Parser!Nothing, Parser!Over, Parser!InA, Parser!Inner, Parser!NodeFrames, Parser!Emit
    <3>3. CASE doneInit /\ stack = <<>> /\ frames = <<"Doc">>
      <4>1. Len(frames) = 1 /\ frames[1] = "Doc" /\ frames # <<"StreamStart">>
            /\ frames # <<"DocEnd">> /\ frames # <<"End">>
        BY <3>3
      <4>. QED
        BY <1>1, <1>7, <3>3, <4>1, EventsAgree DEF Parser!Next, Parser!StreamStart,
           Parser!DocumentStart, Parser!DocumentEnd, Parser!StreamEnd, Parser!Leaf, Parser!Start,
           Parser!SequenceEnd, Parser!MappingEnd, Parser!PairStart, Parser!PairEnd, Parser!Fail,
           Parser!Nothing, Parser!Over, Parser!InA, Parser!Inner, Parser!NodeFrames, Parser!Emit
    <3>4. CASE doneInit /\ stack # <<>> /\ Coupled(frames, Due(stack))
      <4>1. Due(stack) \in Seq(Steps) /\ frames \in Seq(Parser!Frames)
        BY DueFacts DEF Shaped, Final
      <4>2. /\ event' = NoEvent => frames' = <<>>
            /\ frames' # <<>> => Expected(event', frames', Due(stack))
        <5>1. CASE Due(stack) = <<"root">> /\ frames = <<"DocEnd", "Node">>
          BY <1>1, <5>1, RootEvents
        <5>2. CASE Matches(frames, Due(stack)) /\ Len(frames) >= 2
          BY <1>1, <4>1, <5>2, CollectionEvents
        <5>3. CASE Matches(frames, Due(stack)) /\ Len(frames) = 1
          <6>1. frames[1] = "DocEnd"
            BY <5>3 DEF Matches, Placed
          <6>2. frames = <<"DocEnd">>
            <7>1. \A c \in Seq(Parser!Frames) : Len(c) = 1 /\ c[1] = "DocEnd" => frames = c
              BY <4>1, <5>3, <6>1, SameSequence
            <7>2. <<"DocEnd">> \in Seq(Parser!Frames)
              BY DEF Parser!Frames
            <7>. QED
              BY <7>1, <7>2
          <6>3. Due(stack) = <<"end">>
            BY <4>1, <5>3, <6>2, MatchesDocument
          <6>. QED
            BY <1>1, <6>2, <6>3, DocumentEndEvents
        <5>4. Len(frames) \in Nat /\ (Len(frames) >= 1 => Len(frames) = 1 \/ Len(frames) >= 2)
          <6>1. Len(frames) \in Nat
            BY <4>1, LenProperties
          <6>2. \A k \in Nat : k >= 1 => k = 1 \/ k >= 2
            OBVIOUS
          <6>. QED
            BY <6>1, <6>2
        <5>. QED
          BY <3>4, <5>1, <5>2, <5>3, <5>4 DEF Coupled, Matches
      <4>. QED
        BY <1>1, <3>4, <4>2
    <3>. QED
      BY <3>1, <3>2, <3>3, <3>4
  <2>3. \/ event' = NoEvent /\ frames' = <<>>
        \/ event' # NoEvent
    BY <2>2
  <2>4. CASE event' = NoEvent
    BY <1>1, <1>2, <1>3, <2>1, <2>2, <2>4
       DEF Shaped, Synced, Final, After, Running, Outcomes, OutcomeFinal
  <2>5. CASE event' # NoEvent /\ outcome' = "late"
    BY <1>1, <1>2, <1>3, <2>1, <2>5
       DEF Shaped, Synced, Final, After, Running, Outcomes, OutcomeFinal
  <2>6. CASE event' # NoEvent /\ outcome' # "late"
    <3>1. ~(doneInit /\ frames' = <<>>) /\ outcome' = outcome /\ stack' = stack
      BY <1>1, <2>6
    <3>2. Shaped' /\ Final'
      BY <1>1, <1>2, <2>1, <3>1 DEF Shaped, Final, After, Running, OutcomeFinal
    <3>3. Synced'
      BY <1>1, <2>2, <2>6, <3>1 DEF Synced, Shaped
    <3>. QED
      BY <3>2, <3>3
  <2>. QED
    BY <2>3, <2>4, <2>5, <2>6
<1>. QED
  BY <1>6, <1>7

\* The steps that deliver nothing: init, an alias of an unknown anchor, an event
\* that starts no node, and the next call of Decode.
LEMMA OtherStep ==
  ASSUME Shaped, Synced, Final,
         \/ Decode
         \/ InitStream
         \/ ParseAlias /\ event.anchor \notin DOMAIN anchors
         \/ ParseNoNode
  PROVE  Shaped' /\ Synced' /\ Final'
<1>1. Nested(<<>>) /\ <<>> \in Seq(Calls)
  BY DEF Nested
<1>2. NoEvent \in Events
  BY DEF NoEvent, Event, Events
<1>3. CASE Decode
  <2>1. /\ outcome # "running" /\ outcome' = "running" /\ last' = outcome /\ stack' = <<>>
        /\ frames' = frames /\ event' = event /\ doneInit' = doneInit /\ anchors' = anchors
        /\ stack = <<>>
    BY <1>3 DEF Decode, Running, Final
  <2>2. \A o \in {"error", "eof", "panic", "late"} : After(o)' => After(o)
    BY <2>1 DEF After, Running
  <2>3. After("error") /\ Refused /\ event # NoEvent => After("error")' /\ Refused'
    BY <2>1 DEF After, Running, Refused
  <2>4. After("late") \/ After("panic") => After("late")' \/ After("panic")'
    BY <2>1 DEF After, Running
  <2>5. Shaped'
    BY <1>1, <2>1 DEF Shaped, Outcomes
  <2>6. Synced'
    BY <2>1, <2>3, <2>4 DEF Synced
  <2>7. Refused' <=> Refused
    BY <2>1 DEF Refused
  <2>8. Final'
    BY <1>1, <2>1, <2>2, <2>7 DEF Final, Running, OutcomeFinal
  <2>. QED
    BY <2>5, <2>6, <2>8
<1>4. CASE InitStream
  <2>1. /\ Peeked /\ ~doneInit /\ event' = NoEvent /\ frames' = frames /\ doneInit'
        /\ stack' = stack /\ outcome' = outcome /\ last' = last /\ stack = <<>>
        /\ frames \in {<<"Doc">>, <<>>} /\ doneInit' \in BOOLEAN
    BY <1>4, PeekedFacts DEF InitStream, Consume
  <2>2. last \notin {"error", "eof", "panic", "late"} /\ outcome = "running"
    BY <2>1, PeekedFacts, Survivors DEF Refused
  <2>. QED
    BY <1>1, <1>2, <2>1, <2>2 DEF Shaped, Synced, Final, After, Running, OutcomeFinal
<1>5. CASE ParseAlias /\ event.anchor \notin DOMAIN anchors
  <2>1. /\ Peeked /\ doneInit /\ event.typ = "ALIAS" /\ event' = event /\ frames' = frames
        /\ doneInit' = doneInit /\ anchors' = anchors /\ last' = last
        /\ outcome' = "error" /\ stack' = <<>>
    BY <1>5 DEF ParseAlias, Keep, Fail
  <2>2. Refused' /\ event' # NoEvent
    BY <1>5, <2>1 DEF Refused, Peeked
  <2>3. last \notin {"eof", "panic"}
    BY <2>1, Survivors
  <2>. QED
    BY <1>1, <2>1, <2>2, <2>3 DEF Shaped, Synced, Final, After, Running, Outcomes, OutcomeFinal
<1>6. CASE ParseNoNode
  <2>1. /\ Peeked /\ doneInit /\ ChildDue /\ event' = event /\ frames' = frames
        /\ doneInit' = doneInit /\ last' = last /\ event # NoEvent
    BY <1>6 DEF ParseNoNode, Keep, Fail, Peeked
  <2>2. stack = <<>>
    <3>1. SUFFICES ASSUME stack # <<>>
                   PROVE  FALSE
      OBVIOUS
    <3>2. event.typ \in {"SCALAR", "ALIAS", "SEQUENCE_START", "MAPPING_START"}
      BY <2>1, <3>1, ChildDueFacts
    <3>. QED
      BY <1>6, <3>2 DEF ParseNoNode
  <2>3. CASE event.typ = "STREAM_END"
    <3>1. outcome' = "eof" /\ stack' = <<>>
      BY <1>6, <2>2, <2>3 DEF ParseNoNode
    <3>2. last \notin {"error", "panic"}
      BY <2>1, <2>3, Survivors DEF Refused
    <3>. QED
      BY <1>1, <2>1, <2>3, <3>1, <3>2
         DEF Shaped, Synced, Final, After, Running, Outcomes, OutcomeFinal
  <2>4. CASE event.typ \in {"STREAM_START", "DOCUMENT_END", "SEQUENCE_END", "MAPPING_END"}
    <3>1. outcome' = "panic" /\ stack' = <<>>
      BY <1>6, <2>4 DEF ParseNoNode, Fail
    <3>2. frames = <<>> /\ last \notin {"error", "eof"}
      BY <2>1, <2>2, <2>4, PeekedFacts, Survivors DEF Refused
    <3>. QED
      BY <1>1, <2>1, <2>4, <3>1, <3>2
         DEF Shaped, Synced, Final, After, Running, Outcomes, OutcomeFinal
  <2>. QED
    BY <1>6, <2>3, <2>4 DEF ParseNoNode
<1>. QED
  BY <1>3, <1>4, <1>5, <1>6

-----------------------------------------------------------------------------
(* The nodes                                                                 *)

NodeRecords == [kind : Kinds, anchor : Anchors \cup {None}, target : Nat, content : Seq(Nat)]

\* Targets and children are nodes of the table.
NodeTable(ns) ==
  /\ ns \in Seq(NodeRecords)
  /\ \A i \in 1..Len(ns) :
       /\ ns[i].target \in 0..Len(ns)
       /\ \A k \in 1..Len(ns[i].content) : ns[i].content[k] \in 1..Len(ns)

\* Node p has been given the child id.
Attached(ns, p, id) == [ns EXCEPT ![p].content = Append(@, id)]

\* So are the nodes of the active calls and those the anchors stand for.
Typed ==
  /\ Shaped
  /\ NodeTable(nodes)
  /\ \A l \in 1..Len(stack) : stack[l].node \in 1..Len(nodes)
  /\ \A a \in DOMAIN anchors : a \in Anchors /\ anchors[a] \in 1..Len(nodes)
  /\ root \in 0..Fresh

\* A new node is the last of the table.
LEMMA CreateNode ==
  ASSUME NEW ns, NodeTable(ns), NEW kind \in Kinds, NEW anchor \in Anchors \cup {None},
         NEW target \in 0..Len(ns)
  PROVE  LET ms == Append(ns, Node(kind, anchor, target)) IN
         /\ NodeTable(ms) /\ Len(ms) = Len(ns) + 1 /\ Len(ns) \in Nat
         /\ \A i \in 1..Len(ns) : ms[i] = ns[i]
         /\ ms[Len(ns) + 1] = Node(kind, anchor, target)
<1> DEFINE r == Node(kind, anchor, target)
           ms == Append(ns, r)
           n == Len(ns)
<1>1. ns \in Seq(NodeRecords) /\ n \in Nat
  BY LenProperties DEF NodeTable
<1>2. r \in NodeRecords /\ r.target = target /\ r.content = <<>>
  <2>1. target \in Nat /\ <<>> \in Seq(Nat)
    BY <1>1
  <2>. QED
    BY <2>1 DEF Node, NodeRecords
<1>. HIDE DEF r, NodeRecords
<1>3. /\ ms \in Seq(NodeRecords) /\ Len(ms) = n + 1 /\ ms[n + 1] = r
      /\ \A i \in 1..n : ms[i] = ns[i]
  BY <1>1, <1>2, AppendFacts
<1>. HIDE DEF ms, n
<1>4. ASSUME NEW i \in 1..Len(ms)
      PROVE  /\ ms[i].target \in 0..Len(ms)
             /\ \A k \in 1..Len(ms[i].content) : ms[i].content[k] \in 1..Len(ms)
  <2>1. CASE i = n + 1
    <3>1. Len(<<>>) = 0 /\ target \in 0..n + 1
      BY <1>1 DEF n
    <3>. QED
      BY <1>2, <1>3, <2>1, <3>1
  <2>2. CASE i \in 1..n
    <3>1. \A j \in 0..n : j \in 0..n + 1
      BY <1>1
    <3>2. \A j \in 1..n : j \in 1..n + 1
      BY <1>1
    <3>. QED
      BY <1>3, <2>2, <3>1, <3>2 DEF NodeTable, n
  <2>. QED
    BY <1>1, <1>3, <2>1, <2>2
<1>. QED
  BY <1>1, <1>3, <1>4 DEF NodeTable, ms, n, r

\* A child comes last in its parent.
LEMMA AttachNode ==
  ASSUME NEW ns, NodeTable(ns), NEW p \in 1..Len(ns), NEW id \in 1..Len(ns)
  PROVE  LET ms == Attached(ns, p, id) IN
         /\ NodeTable(ms) /\ Len(ms) = Len(ns)
         /\ \A i \in 1..Len(ns) :
              /\ ms[i].kind = ns[i].kind /\ ms[i].anchor = ns[i].anchor
              /\ ms[i].target = ns[i].target
              /\ i # p => ms[i] = ns[i]
         /\ ms[p].content = Append(ns[p].content, id) /\ ns[p].content \in Seq(Nat)
<1> DEFINE n == Len(ns)
           c == Append(ns[p].content, id)
           r == [kind |-> ns[p].kind, anchor |-> ns[p].anchor, target |-> ns[p].target,
                 content |-> c]
           ms == Attached(ns, p, id)
<1>1. ns \in Seq(NodeRecords) /\ n \in Nat
  BY LenProperties DEF NodeTable
<1>2. \A i \in 1..n : ns[i] \in NodeRecords
  BY <1>1
<1>3. id \in Nat /\ ns[p].content \in Seq(Nat)
  BY <1>2 DEF NodeRecords
<1>4. /\ c \in Seq(Nat) /\ Len(c) = Len(ns[p].content) + 1 /\ c[Len(ns[p].content) + 1] = id
      /\ \A k \in 1..Len(ns[p].content) : c[k] = ns[p].content[k]
      /\ Len(ns[p].content) \in Nat
  BY <1>3, AppendFacts
<1>. HIDE DEF c
<1>5. [ns[p] EXCEPT !.content = c] = r
  BY <1>2 DEF NodeRecords
<1>6. ms = [ns EXCEPT ![p] = r]
  BY <1>5 DEF Attached, c
<1>7. r \in NodeRecords
  BY <1>2, <1>4 DEF NodeRecords
<1>8. r.kind = ns[p].kind /\ r.anchor = ns[p].anchor /\ r.target = ns[p].target /\ r.content = c
  OBVIOUS
<1>. HIDE DEF r, ms, NodeRecords, n
<1>9. /\ ms \in Seq(NodeRecords) /\ Len(ms) = n /\ ms[p] = r
      /\ \A i \in 1..n : i # p => ms[i] = ns[i]
  BY <1>1, <1>6, <1>7 DEF n
<1>10. ASSUME NEW i \in 1..n
       PROVE  /\ ms[i].target \in 0..n
              /\ \A k \in 1..Len(ms[i].content) : ms[i].content[k] \in 1..n
  <2>1. CASE i # p
    BY <1>9, <2>1 DEF NodeTable, n
  <2>2. CASE i = p
    <3>1. ns[p].target \in 0..n
          /\ \A k \in 1..Len(ns[p].content) : ns[p].content[k] \in 1..n
      BY DEF NodeTable, n
    <3>2. \A k \in 1..Len(c) : k = Len(ns[p].content) + 1 \/ k \in 1..Len(ns[p].content)
      BY <1>4
    <3>3. \A k \in 1..Len(c) : c[k] \in 1..n
      BY <1>4, <3>1, <3>2 DEF n
    <3>. QED
      BY <1>8, <1>9, <2>2, <3>1, <3>3
  <2>. QED
    BY <2>1, <2>2
<1>11. NodeTable(ms)
  BY <1>9, <1>10 DEF NodeTable
<1>. QED
  BY <1>3, <1>8, <1>9, <1>11 DEF n, ms, c

\* What parse returning a node to its caller does to the nodes and calls.
LEMMA Delivery ==
  ASSUME NEW ns, NodeTable(ns), NEW id \in 1..Len(ns), NEW stk \in Seq(Calls), Nested(stk),
         stk # <<>> => stk[Len(stk)].step # "end",
         \A l \in 1..Len(stk) : stk[l].node \in 1..Len(ns),
         Deliver(id, ns, stk)
  PROVE  /\ NodeTable(nodes') /\ Len(nodes') = Len(ns)
         /\ \A l \in 1..Len(stack') : stack'[l].node \in 1..Len(nodes')
         /\ \A i \in 1..Len(ns) : /\ nodes'[i].kind = ns[i].kind
                                  /\ nodes'[i].anchor = ns[i].anchor
                                  /\ nodes'[i].target = ns[i].target
<1>1. CASE stk = <<>>
  <2>1. nodes' = ns /\ stack' = <<>>
    BY <1>1 DEF Deliver
  <2>. QED
    BY <2>1
<1>2. CASE stk # <<>>
  <2> DEFINE p == stk[Len(stk)].node
  <2>1. nodes' = Attached(ns, p, id) /\ stack' = Advanced(stk)
    BY <1>2 DEF Deliver, Attached, Advanced
  <2>2. Len(stk) \in 1..Len(stk)
    BY <1>2
  <2>3. p \in 1..Len(ns)
    BY <2>2
  <2>. HIDE DEF p
  <2>4. /\ NodeTable(nodes') /\ Len(nodes') = Len(ns)
        /\ \A i \in 1..Len(ns) : /\ nodes'[i].kind = ns[i].kind
                                 /\ nodes'[i].anchor = ns[i].anchor
                                 /\ nodes'[i].target = ns[i].target
    BY <2>1, <2>3, AttachNode
  <2>5. Len(stack') = Len(stk) /\ \A l \in 1..Len(stk) : stack'[l].node = stk[l].node
    BY <1>2, <2>1, DueAdvance
  <2>. QED
    BY <2>4, <2>5
<1>. QED
  BY <1>1, <1>2

\* The innermost call may be given a child.
LEMMA ChildStep ==
  ASSUME Shaped, Synced, Final, Peeked, ChildDue
  PROVE  stack \in Seq(Calls) /\ Nested(stack) /\ (stack # <<>> => stack[Len(stack)].step # "end")
BY DEF Shaped, Final, ChildDue, TopCall

\* A node is created: a scalar, an alias or the start of a collection.
Creates(kind, target) ==
  /\ Peeked /\ doneInit /\ ChildDue
  /\ LET ns == Append(nodes, Node(kind, event.anchor, target)) IN
     \/ /\ event.typ \in {"SCALAR", "ALIAS"} /\ ~Refused /\ kind \notin DOMAIN FirstStep
        /\ Deliver(Fresh, ns, stack)
     \/ /\ event.typ \in DOMAIN Opened /\ kind = Opened[event.typ]
        /\ nodes' = ns /\ outcome' = outcome
        /\ \E step \in Steps :
             step = FirstStep[kind] /\ stack' = Append(stack, Call(Fresh, step))
  /\ \/ kind = "alias" /\ event.anchor \in DOMAIN anchors /\ target = anchors[event.anchor]
        /\ anchors' = anchors
     \/ kind # "alias" /\ target = NoNode /\ Define(event.anchor, Fresh)
  /\ root' = root

\* The actions that create a node.
LEMMA CreatingSteps ==
  /\ ParseScalar => Creates("scalar", NoNode)
  /\ ParseAlias /\ event.anchor \in DOMAIN anchors => Creates("alias", anchors[event.anchor])
  /\ ParseOpen => \E kind \in {"document", "sequence", "mapping"} : Creates(kind, NoNode)
<1>1. ParseScalar => Creates("scalar", NoNode)
  BY DEF ParseScalar, Creates, Refused, FirstStep
<1>2. ParseAlias /\ event.anchor \in DOMAIN anchors => Creates("alias", anchors[event.anchor])
  BY DEF ParseAlias, Creates, Refused, FirstStep
<1>3. ASSUME ParseOpen
      PROVE  \E kind \in {"document", "sequence", "mapping"} : Creates(kind, NoNode)
  <2>1. /\ Opened[event.typ] \in {"document", "sequence", "mapping"}
        /\ FirstStep[Opened[event.typ]] \in Steps
    BY <1>3 DEF ParseOpen, Opened, FirstStep, Steps
  <2>. QED
    BY <1>3, <2>1 DEF ParseOpen, Creates
<1>. QED
  BY <1>1, <1>2, <1>3

\* A new node keeps the types and leaves the others as they are.
LEMMA Creation ==
  ASSUME Typed, Synced, Final, NEW kind \in Kinds, NEW target, Creates(kind, target)
  PROVE  /\ NodeTable(nodes') /\ Len(nodes') = Len(nodes) + 1 /\ Len(nodes) \in Nat
         /\ \A l \in 1..Len(stack') : stack'[l].node \in 1..Len(nodes')
         /\ \A i \in 1..Len(nodes) : /\ nodes'[i].kind = nodes[i].kind
                                     /\ nodes'[i].anchor = nodes[i].anchor
                                     /\ nodes'[i].target = nodes[i].target
         /\ nodes'[Fresh].kind = kind /\ nodes'[Fresh].anchor = event.anchor
         /\ nodes'[Fresh].target = target /\ target \in 0..Len(nodes)
         /\ event.anchor \in Anchors \cup {None}
<1> DEFINE ns == Append(nodes, Node(kind, event.anchor, target))
           n == Len(nodes)
<1>1. n \in Nat
  BY LenProperties DEF Typed, NodeTable
<1>2. event.anchor \in Anchors \cup {None}
  BY DEF Typed, Shaped, Events
<1>3. target \in 0..n
  BY <1>1 DEF Creates, Typed, NoNode
<1>4. /\ NodeTable(ns) /\ Len(ns) = n + 1 /\ ns[n + 1] = Node(kind, event.anchor, target)
      /\ \A i \in 1..n : ns[i] = nodes[i]
  BY <1>2, <1>3, CreateNode DEF Typed
<1>5. /\ stack \in Seq(Calls) /\ Nested(stack) /\ (stack # <<>> => stack[Len(stack)].step # "end")
      /\ Len(stack) \in Nat
  BY ChildStep, LenProperties DEF Typed, Creates
<1>6. \A l \in 1..Len(stack) : stack[l].node \in 1..n + 1
  <2>1. \A j \in 1..n : j \in 1..n + 1
    BY <1>1
  <2>. QED
    BY <2>1 DEF Typed
<1>7. Fresh = n + 1 /\ Fresh \in 1..n + 1 /\ \A i \in 1..n : i \in 1..n + 1
  BY <1>1 DEF Fresh
<1>8. Node(kind, event.anchor, target).kind = kind
      /\ Node(kind, event.anchor, target).anchor = event.anchor
      /\ Node(kind, event.anchor, target).target = target
  BY DEF Node
<1>. HIDE DEF n, ns
<1>9. CASE Deliver(Fresh, ns, stack)
  <2>1. /\ NodeTable(nodes') /\ Len(nodes') = n + 1
        /\ \A l \in 1..Len(stack') : stack'[l].node \in 1..Len(nodes')
        /\ \A i \in 1..n + 1 : /\ nodes'[i].kind = ns[i].kind
                               /\ nodes'[i].anchor = ns[i].anchor
                               /\ nodes'[i].target = ns[i].target
    BY <1>4, <1>5, <1>6, <1>7, <1>9, Delivery
  <2>. QED
    BY <1>1, <1>2, <1>3, <1>4, <1>7, <1>8, <2>1 DEF n
<1>10. CASE nodes' = ns /\ \E step \in Steps : stack' = Append(stack, Call(Fresh, step))
  <2>1. PICK step \in Steps : stack' = Append(stack, Call(Fresh, step))
    BY <1>10
  <2>2. Call(Fresh, step) \in Calls /\ Call(Fresh, step).node = Fresh
    BY <1>1, <1>7 DEF Call, Calls
  <2>3. /\ Len(stack') = Len(stack) + 1 /\ stack'[Len(stack) + 1] = Call(Fresh, step)
        /\ \A l \in 1..Len(stack) : stack'[l] = stack[l]
    BY <1>5, <2>1, <2>2, AppendFacts
  <2>4. \A l \in 1..Len(stack') : l = Len(stack) + 1 \/ l \in 1..Len(stack)
    BY <1>5, <2>3
  <2>5. \A l \in 1..Len(stack') : stack'[l].node \in 1..n + 1
    BY <1>6, <1>7, <2>2, <2>3, <2>4
  <2>. QED
    BY <1>1, <1>2, <1>3, <1>4, <1>7, <1>8, <1>10, <2>5 DEF n
<1>. QED
  BY <1>9, <1>10 DEF Creates, ns

\* A node with children is returned to its caller.
LEMMA Return ==
  ASSUME Typed, Synced, Final, Close
  PROVE  /\ Peeked /\ doneInit /\ stack # <<>> /\ TopCall.step \in {"end", "entry", "key"}
         /\ stack \in Seq(Calls) /\ Nested(stack) /\ Len(stack) \in Nat \ {0}
         /\ TopCall.node \in 1..Len(nodes) /\ TopCall = stack[Len(stack)]
         /\ Deliver(TopCall.node, nodes, Callers) /\ anchors' = anchors /\ root' = root
         /\ last' = last
         /\ Callers \in Seq(Calls) /\ Nested(Callers) /\ Len(Callers) = Len(stack) - 1
         /\ \A l \in 1..Len(stack) - 1 : Callers[l] = stack[l]
         /\ \A l \in 1..Len(Callers) : Callers[l].node \in 1..Len(nodes)
         /\ Callers # <<>> => Callers[Len(Callers)].step # "end"
<1>1. Peeked /\ doneInit /\ ~ChildDue /\ stack # <<>>
  BY DEF Close, ChildDue
<1>2. /\ event.typ = EndOf[TopCall.step] /\ TopCall.step \in {"end", "entry", "key"}
      /\ stack \in Seq(Calls) /\ Nested(stack) /\ Len(stack) \in Nat \ {0}
  BY <1>1, ChildDueFacts, InnerEvent DEF Typed, Shaped, Final
<1>3. Deliver(TopCall.node, nodes, Callers) /\ anchors' = anchors /\ root' = root /\ last' = last
  BY <1>1, <1>2 DEF Close
<1>4. /\ Callers \in Seq(Calls) /\ Len(Callers) = Len(stack) - 1
      /\ \A l \in 1..Len(stack) - 1 : Callers[l] = stack[l]
  BY <1>1, <1>2, FrontFacts DEF Callers, Front
<1>5. Nested(Callers)
  <2>1. \A l \in 1..Len(Callers) - 1 : l \in 1..Len(stack) - 1
    BY <1>2, <1>4
  <2>. QED
    BY <1>2, <1>4, <2>1 DEF Nested
<1>6. Callers # <<>> => Callers[Len(Callers)].step # "end"
  <2>1. Callers # <<>> => Len(Callers) \in 1..Len(Callers)
    BY <1>4
  <2>. QED
    BY <1>2, <1>4, <2>1 DEF Nested
<1>7. TopCall.node \in 1..Len(nodes) /\ \A l \in 1..Len(Callers) : Callers[l].node \in 1..Len(nodes)
  <2>1. Len(stack) \in 1..Len(stack) /\ \A l \in 1..Len(stack) - 1 : l \in 1..Len(stack)
    BY <1>2
  <2>. QED
    BY <1>4, <2>1 DEF Typed, TopCall
<1>. QED
  BY <1>1, <1>2, <1>3, <1>4, <1>5, <1>6, <1>7 DEF TopCall

\* A step that leaves the nodes alone.
Quiet ==
  /\ nodes' = nodes /\ stack' \in {stack, <<>>} /\ anchors' \in {anchors, <<>>}
  /\ outcome' # "value"
  /\ \/ root' = root /\ last' = last /\ stack' = stack /\ Running
     \/ root' = root /\ last' = last /\ outcome' # "running"
     \/ root' = Fresh /\ stack' = <<>>

\* Every step creates a node, returns one, or leaves the nodes alone.
LEMMA NodeSteps ==
  ASSUME Shaped, Synced, Final, Next
  PROVE  \/ \E kind \in Kinds : \E target : Creates(kind, target) /\ last' = last
         \/ Close
         \/ Quiet
<1>1. CASE Decode
  BY <1>1 DEF Decode, Quiet
<1>2. CASE Peek
  BY <1>2 DEF Peek, Fail, Quiet, Running
<1>3. CASE InitStream
  BY <1>3 DEF InitStream, Fail, Quiet, Peeked, Running
<1>4. CASE ParseAlias /\ event.anchor \notin DOMAIN anchors
  BY <1>4 DEF ParseAlias, Fail, Quiet
<1>5. CASE ParseNoNode
  <2>1. event.typ \notin {"SCALAR", "ALIAS", "SEQUENCE_START", "MAPPING_START"}
        /\ Peeked /\ ChildDue
    BY <1>5 DEF ParseNoNode
  <2>2. stack = <<>>
    BY <2>1, ChildDueFacts
  <2>. QED
    BY <1>5, <2>2 DEF ParseNoNode, Fail, Quiet
<1>6. CASE ParseScalar \/ ParseOpen \/ (ParseAlias /\ event.anchor \in DOMAIN anchors)
  <2>1. {"scalar", "alias", "document", "sequence", "mapping"} \subseteq Kinds
    BY DEF Kinds
  <2>2. last' = last
    BY <1>6 DEF ParseScalar, ParseOpen, ParseAlias
  <2>. QED
    BY <1>6, <2>1, <2>2, CreatingSteps
<1>. QED
  BY <1>1, <1>2, <1>3, <1>4, <1>5, <1>6 DEF Next

\* The step keeps the types.
LEMMA TypedStep ==
  ASSUME Typed, Synced, Final, Next, Shaped'
  PROVE  Typed'
<1>1. Len(nodes) \in Nat /\ NodeTable(nodes) /\ Shaped
  BY LenProperties DEF Typed, NodeTable
<1>2. CASE \E kind \in Kinds : \E target : Creates(kind, target)
  <2>1. PICK kind \in Kinds : \E target : Creates(kind, target)
    BY <1>2
  <2>2. PICK target : Creates(kind, target)
    BY <2>1
  <2>3. /\ NodeTable(nodes') /\ Len(nodes') = Len(nodes) + 1
        /\ \A l \in 1..Len(stack') : stack'[l].node \in 1..Len(nodes')
        /\ event.anchor \in Anchors \cup {None}
    BY <2>2, Creation
  <2>4. \A a \in DOMAIN anchors : a \in Anchors /\ anchors[a] \in 1..Len(nodes) + 1
    <3>1. \A i \in 1..Len(nodes) : i \in 1..Len(nodes) + 1
      BY <1>1
    <3>. QED
      BY <3>1 DEF Typed
  <2>5. \A a \in DOMAIN anchors' : a \in Anchors /\ anchors'[a] \in 1..Len(nodes) + 1
    <3>1. Fresh \in 1..Len(nodes) + 1
      BY <1>1 DEF Fresh
    <3>2. CASE anchors' = anchors
      BY <2>4, <3>2
    <3>3. CASE /\ event.anchor # None
               /\ anchors' = [a \in DOMAIN anchors \cup {event.anchor} |->
                                IF a = event.anchor THEN Fresh ELSE anchors[a]]
      BY <2>3, <2>4, <3>1, <3>3
    <3>. QED
      BY <2>2, <3>2, <3>3 DEF Creates, Define
  <2>6. root' \in 0..Len(nodes) + 2
    BY <1>1, <2>2 DEF Creates, Typed, Fresh
  <2>7. Len(nodes) + 2 = Len(nodes') + 1
    BY <1>1, <2>3
  <2>. QED
    BY <2>3, <2>5, <2>6, <2>7 DEF Typed, Fresh
<1>3. CASE Quiet
  <2>1. \A l \in 1..Len(stack') : stack'[l].node \in 1..Len(nodes)
    BY <1>3 DEF Typed, Quiet
  <2>2. \A a \in DOMAIN anchors' : a \in Anchors /\ anchors'[a] \in 1..Len(nodes)
    BY <1>3 DEF Typed, Quiet
  <2>3. root' \in 0..Fresh /\ Fresh' = Fresh
    BY <1>1, <1>3 DEF Typed, Fresh, Quiet
  <2>. QED
    BY <1>1, <1>3, <2>1, <2>2, <2>3 DEF Typed, Quiet
<1>4. CASE Close
  <2>1. /\ NodeTable(nodes') /\ Len(nodes') = Len(nodes)
        /\ \A l \in 1..Len(stack') : stack'[l].node \in 1..Len(nodes')
        /\ anchors' = anchors /\ root' = root
    BY <1>1, <1>4, Return, Delivery
  <2>. QED
    BY <2>1 DEF Typed, Fresh
<1>. QED
  BY <1>1, <1>2, <1>3, <1>4, NodeSteps

-----------------------------------------------------------------------------
(* The inductive invariant                                                   *)

InStep == Typed /\ Synced /\ Final

\* No event has come and no call is active.
LEMMA InitInStep == Init => InStep
<1>. SUFFICES ASSUME Init
              PROVE  InStep
  OBVIOUS
<1>1. /\ frames = <<"StreamStart">> /\ event = NoEvent /\ doneInit = FALSE /\ anchors = <<>>
      /\ nodes = <<>> /\ stack = <<>> /\ outcome = "none" /\ last = "none" /\ root = 0
  BY EventsAgree DEF Init, Parser!Init, NoNode
<1>2. frames \in Seq(Parser!Frames) /\ NoEvent \in Events
  BY <1>1 DEF Parser!Frames, NoEvent, Event, Events
<1>3. Nested(<<>>) /\ <<>> \in Seq(Calls) /\ Len(<<>>) = 0 /\ <<>> \in Seq(NodeRecords)
      /\ DOMAIN <<>> = {}
  BY DEF Nested
<1>4. Typed
  <2>1. Shaped
    BY <1>1, <1>2, <1>3 DEF Shaped, Outcomes
  <2>2. NodeTable(nodes) /\ Fresh = 1
    BY <1>1, <1>3 DEF NodeTable, Fresh
  <2>. QED
    BY <1>1, <1>3, <2>1, <2>2 DEF Typed
<1>5. Synced
  BY <1>1 DEF Synced
<1>6. Final
  BY <1>1, <1>3 DEF Final, After, Running, OutcomeFinal
<1>. QED
  BY <1>4, <1>5, <1>6 DEF InStep

\* Every step keeps the invariant.
LEMMA NextInStep == InStep /\ [Next]_vars => InStep'
<1>. SUFFICES ASSUME InStep, [Next]_vars
              PROVE  InStep'
  OBVIOUS
<1>1. Shaped /\ Synced /\ Final /\ Typed
  BY DEF InStep, Typed
<1>2. CASE UNCHANGED vars
  BY <1>1, <1>2 DEF vars, InStep, Typed, Shaped, Synced, Final, After, Running, Refused, Fresh,
     OutcomeFinal
<1>3. CASE Next
  <2>1. Len(nodes) \in Nat
    BY <1>1, LenProperties DEF Typed, NodeTable
  <2>2. Shaped' /\ Synced' /\ Final'
    <3>1. CASE Decode \/ InitStream \/ ParseNoNode \/ (ParseAlias /\ event.anchor \notin DOMAIN anchors)
      BY <1>1, <3>1, OtherStep
    <3>2. CASE Peek
      BY <1>1, <3>2, PeekStep
    <3>3. CASE ParseScalar
      <4>1. \E id, ns : Deliver(id, ns, stack)
        BY <3>3 DEF ParseScalar
      <4>2. /\ Peeked /\ doneInit /\ ChildDue /\ event.typ \in {"SCALAR", "ALIAS"} /\ ~Refused
            /\ Consume /\ UNCHANGED <<doneInit, last>>
        BY <3>3 DEF ParseScalar, Refused
      <4>. QED
        BY <1>1, <4>1, <4>2, LeafStep
    <3>4. CASE ParseAlias /\ event.anchor \in DOMAIN anchors
      <4>1. \E id, ns : Deliver(id, ns, stack)
        BY <3>4 DEF ParseAlias
      <4>2. /\ Peeked /\ doneInit /\ ChildDue /\ event.typ \in {"SCALAR", "ALIAS"} /\ ~Refused
            /\ Consume /\ UNCHANGED <<doneInit, last>>
        BY <3>4 DEF ParseAlias, Refused
      <4>. QED
        BY <1>1, <4>1, <4>2, LeafStep
    <3>5. CASE ParseOpen
      BY <1>1, <2>1, <3>5, OpenStep
    <3>6. CASE Close
      BY <1>1, <3>6, CloseStep
    <3>. QED
      BY <1>3, <3>1, <3>2, <3>3, <3>4, <3>5, <3>6 DEF Next
  <2>3. Typed'
    BY <1>1, <1>3, <2>2, TypedStep
  <2>. QED
    BY <2>2, <2>3 DEF InStep
<1>. QED
  BY <1>2, <1>3

\* The composer and the grammar stay in step.
LEMMA AlwaysInStep == Spec => []InStep
<1>1. Init => InStep
  BY InitInStep
<1>2. InStep /\ [Next]_vars => InStep'
  BY NextInStep
<1>. QED
  BY <1>1, <1>2, PTL DEF Spec

\* The tables of the nodes and anchors are well formed, and so are the calls: no
\* child is the nil that parse returns at the end of the stream.
THEOREM TypeCorrect == Spec => []TypeOK
<1>1. InStep => TypeOK
  <2>. SUFFICES ASSUME InStep
                PROVE  TypeOK
    OBVIOUS
  <2>1. Typed /\ Shaped /\ NodeTable(nodes)
    BY DEF InStep, Typed
  <2>2. ASSUME NEW i \in DOMAIN nodes
        PROVE  /\ nodes[i].kind \in Kinds /\ nodes[i].anchor \in Anchors \cup {None}
               /\ nodes[i].target \in 0..Len(nodes)
               /\ nodes[i].content \in Seq(1..Len(nodes))
    <3>1. nodes \in Seq(NodeRecords)
      BY <2>1 DEF NodeTable
    <3>2. i \in 1..Len(nodes) /\ nodes[i] \in NodeRecords
      <4>. HIDE DEF NodeRecords
      <4>. QED
        BY <3>1
    <3>3. /\ nodes[i].kind \in Kinds /\ nodes[i].anchor \in Anchors \cup {None}
          /\ nodes[i].content \in Seq(Nat)
      BY <3>2 DEF NodeRecords
    <3>4. /\ nodes[i].target \in 0..Len(nodes)
          /\ \A k \in 1..Len(nodes[i].content) : nodes[i].content[k] \in 1..Len(nodes)
      BY <2>1, <3>2 DEF NodeTable
    <3>5. \A S : \A c \in Seq(Nat) : (\A k \in 1..Len(c) : c[k] \in S) => c \in Seq(S)
      OBVIOUS
    <3>. QED
      BY <3>3, <3>4, <3>5
  <2>3. \A l \in DOMAIN stack : stack[l].node \in 1..Len(nodes) /\ stack[l].step \in Steps
    <3>1. stack \in Seq(Calls) /\ \A l \in 1..Len(stack) : stack[l].node \in 1..Len(nodes)
      BY <2>1 DEF Typed, Shaped
    <3>2. DOMAIN stack = 1..Len(stack) /\ \A l \in 1..Len(stack) : stack[l] \in Calls
      <4>. HIDE DEF Calls
      <4>. QED
        BY <3>1
    <3>. QED
      BY <3>1, <3>2 DEF Calls
  <2>. QED
    BY <2>1, <2>2, <2>3 DEF TypeOK, Typed, Shaped
<1>. QED
  BY <1>1, AlwaysInStep, PTL

\* The recursion of the composer follows the events: it is never given one that
\* its position does not allow, except behind an error.
THEOREM EventsAlwaysExpected == Spec => []EventsExpected
<1>1. InStep => EventsExpected
  BY EventsAreExpected DEF InStep, Typed
<1>. QED
  BY <1>1, AlwaysInStep, PTL

\* After a syntax error, an unknown anchor or the end of the stream, every later
\* call of Decode ends in the same way.
THEOREM OutcomesAreFinal == Spec => []OutcomeFinal
<1>1. InStep => OutcomeFinal
  BY DEF InStep, Final
<1>. QED
  BY <1>1, AlwaysInStep, PTL

-----------------------------------------------------------------------------
(* Anchors                                                                   *)

\* An anchor stands for the last node that defined it.
AnchorTable ==
  \A a \in DOMAIN anchors :
    /\ a # None
    /\ nodes[anchors[a]].kind # "alias" /\ nodes[anchors[a]].anchor = a
    /\ \A j \in anchors[a] + 1..Len(nodes) : nodes[j].kind # "alias" => nodes[j].anchor # a

\* A new node keeps the table of the anchors, and an alias gets its target.
LEMMA CreationNamed ==
  ASSUME Typed, Synced, Final, AnchorTable, AliasTarget,
         NEW kind \in Kinds, NEW target, Creates(kind, target)
  PROVE  AnchorTable' /\ AliasTarget'
<1> DEFINE n == Len(nodes)
<1>1. /\ n \in Nat /\ Len(nodes') = n + 1 /\ Fresh = n + 1
      /\ \A i \in 1..n : /\ nodes'[i].kind = nodes[i].kind
                         /\ nodes'[i].anchor = nodes[i].anchor
                         /\ nodes'[i].target = nodes[i].target
      /\ nodes'[n + 1].kind = kind /\ nodes'[n + 1].anchor = event.anchor
      /\ nodes'[n + 1].target = target
      /\ NodeTable(nodes')
  BY Creation DEF Fresh
<1>2. \A a \in DOMAIN anchors : anchors[a] \in 1..n
  BY DEF Typed
<1>3. /\ DOMAIN nodes = 1..n /\ DOMAIN nodes' = 1..n + 1
  <2>1. nodes \in Seq(NodeRecords) /\ nodes' \in Seq(NodeRecords)
    BY <1>1 DEF Typed, NodeTable
  <2>. HIDE DEF NodeRecords
  <2>. QED
    BY <1>1, <2>1
<1>4. /\ \/ /\ kind = "alias" /\ event.anchor \in DOMAIN anchors /\ target = anchors[event.anchor]
            /\ anchors' = anchors
         \/ /\ kind # "alias"
            /\ \/ event.anchor = None /\ anchors' = anchors
               \/ /\ event.anchor # None
                  /\ anchors' = [a \in DOMAIN anchors \cup {event.anchor} |->
                                   IF a = event.anchor THEN n + 1 ELSE anchors[a]]
  BY <1>1 DEF Creates, Define
<1>. HIDE DEF n
<1>5. \A a \in DOMAIN anchors :
        /\ a # None /\ nodes[anchors[a]].kind # "alias" /\ nodes[anchors[a]].anchor = a
        /\ \A j \in anchors[a] + 1..n : nodes[j].kind # "alias" => nodes[j].anchor # a
  BY DEF AnchorTable, n
<1>6. ASSUME NEW a \in DOMAIN anchors'
      PROVE  /\ a # None
             /\ nodes'[anchors'[a]].kind # "alias" /\ nodes'[anchors'[a]].anchor = a
             /\ \A j \in anchors'[a] + 1..n + 1 : nodes'[j].kind # "alias" => nodes'[j].anchor # a
  <2>1. CASE kind # "alias" /\ event.anchor # None /\ a = event.anchor
    <3>1. anchors'[a] = n + 1
      BY <1>4, <2>1
    <3>2. \A j \in (n + 1) + 1..n + 1 : FALSE
      BY <1>1
    <3>. QED
      BY <1>1, <2>1, <3>1, <3>2
  <2>2. CASE ~(kind # "alias" /\ event.anchor # None /\ a = event.anchor)
    <3>1. a \in DOMAIN anchors /\ anchors'[a] = anchors[a]
      BY <1>4, <2>2
    <3>2. anchors[a] \in 1..n /\ \A j \in anchors[a] + 1..n + 1 : j = n + 1 \/ j \in anchors[a] + 1..n
      BY <1>1, <1>2, <3>1
    <3>3. \A j \in anchors[a] + 1..n : j \in 1..n
      BY <1>1, <3>2
    <3>4. kind # "alias" => event.anchor # a
      BY <1>5, <2>2, <3>1
    <3>. QED
      BY <1>1, <1>5, <3>1, <3>2, <3>3, <3>4
  <2>. QED
    BY <2>1, <2>2
<1>7. AnchorTable'
  BY <1>1, <1>6 DEF AnchorTable
<1>8. ASSUME NEW i \in 1..n + 1, nodes'[i].kind = "alias"
      PROVE  LET t == nodes'[i].target IN
             /\ t \in 1..i - 1 /\ nodes'[t].kind # "alias" /\ nodes'[t].anchor = nodes'[i].anchor
             /\ \A j \in t + 1..i - 1 :
                  nodes'[j].kind # "alias" => nodes'[j].anchor # nodes'[i].anchor
  <2>1. CASE i = n + 1
    <3>1. /\ target = anchors[event.anchor] /\ event.anchor \in DOMAIN anchors
          /\ nodes'[i].target = target /\ nodes'[i].anchor = event.anchor
      BY <1>1, <1>4, <1>8, <2>1
    <3>2. target \in 1..n /\ i - 1 = n /\ \A j \in target + 1..n : j \in 1..n
      BY <1>1, <1>2, <2>1, <3>1
    <3>3. /\ nodes[target].kind # "alias" /\ nodes[target].anchor = event.anchor
          /\ \A j \in target + 1..n : nodes[j].kind # "alias" => nodes[j].anchor # event.anchor
      BY <1>5, <3>1
    <3>. QED
      BY <1>1, <3>1, <3>2, <3>3
  <2>2. CASE i \in 1..n
    <3>1. nodes[i].kind = "alias" /\ nodes'[i].target = nodes[i].target
          /\ nodes'[i].anchor = nodes[i].anchor
      BY <1>1, <1>8, <2>2
    <3> DEFINE t == nodes[i].target
    <3>2. /\ t \in 1..i - 1 /\ nodes[t].kind # "alias" /\ nodes[t].anchor = nodes[i].anchor
          /\ \A j \in t + 1..i - 1 : nodes[j].kind # "alias" => nodes[j].anchor # nodes[i].anchor
      BY <1>3, <2>2, <3>1 DEF AliasTarget
    <3>. HIDE DEF t
    <3>3. t \in 1..n /\ \A j \in t + 1..i - 1 : j \in 1..n
      BY <1>1, <2>2, <3>2
    <3>. QED
      BY <1>1, <3>1, <3>2, <3>3 DEF t
  <2>. QED
    BY <1>1, <2>1, <2>2
<1>9. AliasTarget'
  BY <1>3, <1>8 DEF AliasTarget
<1>. QED
  BY <1>7, <1>9

\* A step that keeps the names keeps the table.
LEMMA NamesKept ==
  ASSUME Typed, AnchorTable, AliasTarget, NodeTable(nodes'), Len(nodes') = Len(nodes),
         anchors' \in {anchors, <<>>},
         \A i \in 1..Len(nodes) : /\ nodes'[i].kind = nodes[i].kind
                                  /\ nodes'[i].anchor = nodes[i].anchor
                                  /\ nodes'[i].target = nodes[i].target
  PROVE  AnchorTable' /\ AliasTarget'
<1> DEFINE n == Len(nodes)
<1>1. /\ DOMAIN nodes = 1..n /\ DOMAIN nodes' = 1..n /\ n \in Nat /\ Len(nodes') = n
  <2>1. nodes \in Seq(NodeRecords) /\ nodes' \in Seq(NodeRecords)
    BY DEF Typed, NodeTable
  <2>. HIDE DEF NodeRecords
  <2>. QED
    BY <2>1, LenProperties
<1>2. \A i \in 1..n : /\ nodes'[i].kind = nodes[i].kind
                      /\ nodes'[i].anchor = nodes[i].anchor
                      /\ nodes'[i].target = nodes[i].target
  OBVIOUS
<1>. HIDE DEF n
<1>3. ASSUME NEW a \in DOMAIN anchors'
      PROVE  /\ a # None
             /\ nodes'[anchors'[a]].kind # "alias" /\ nodes'[anchors'[a]].anchor = a
             /\ \A j \in anchors'[a] + 1..n : nodes'[j].kind # "alias" => nodes'[j].anchor # a
  <2>1. a \in DOMAIN anchors /\ anchors' = anchors
    <3>1. DOMAIN <<>> = {}
      OBVIOUS
    <3>. QED
      BY <1>3, <3>1
  <2>2. anchors[a] \in 1..n
    BY <2>1 DEF Typed, n
  <2>3. \A j \in anchors[a] + 1..n : j \in 1..n
    BY <1>1, <2>2
  <2>4. /\ a # None
        /\ nodes[anchors[a]].kind # "alias" /\ nodes[anchors[a]].anchor = a
        /\ \A j \in anchors[a] + 1..n : nodes[j].kind # "alias" => nodes[j].anchor # a
    BY <2>1 DEF AnchorTable, n
  <2>. QED
    BY <1>2, <2>1, <2>2, <2>3, <2>4
<1>4. ASSUME NEW i \in 1..n, nodes'[i].kind = "alias"
      PROVE  LET t == nodes'[i].target IN
             /\ t \in 1..i - 1 /\ nodes'[t].kind # "alias" /\ nodes'[t].anchor = nodes'[i].anchor
             /\ \A j \in t + 1..i - 1 :
                  nodes'[j].kind # "alias" => nodes'[j].anchor # nodes'[i].anchor
  <2>1. nodes[i].kind = "alias" /\ nodes'[i].target = nodes[i].target
        /\ nodes'[i].anchor = nodes[i].anchor
    BY <1>2, <1>4
  <2> DEFINE t == nodes[i].target
  <2>2. /\ t \in 1..i - 1 /\ nodes[t].kind # "alias" /\ nodes[t].anchor = nodes[i].anchor
        /\ \A j \in t + 1..i - 1 : nodes[j].kind # "alias" => nodes[j].anchor # nodes[i].anchor
    BY <1>1, <2>1 DEF AliasTarget
  <2>. HIDE DEF t
  <2>3. t \in 1..n /\ \A j \in t + 1..i - 1 : j \in 1..n
    BY <1>1, <2>2
  <2>. QED
    BY <1>2, <2>1, <2>2, <2>3 DEF t
<1>5. AnchorTable'
  BY <1>1, <1>3 DEF AnchorTable
<1>6. AliasTarget'
  BY <1>1, <1>4 DEF AliasTarget
<1>. QED
  BY <1>5, <1>6

\* Every alias stands for the node that was given its anchor last.
THEOREM AliasesFindTargets == Spec => []AliasTarget
<1> DEFINE Named == AnchorTable /\ AliasTarget
<1>1. Init => Named
  <2>1. DOMAIN <<>> = {}
    OBVIOUS
  <2>. QED
    BY <2>1 DEF Init, AnchorTable, AliasTarget
<1>2. InStep /\ Named /\ [Next]_vars => Named'
  <2>. SUFFICES ASSUME InStep, Named, [Next]_vars
                PROVE  Named'
    OBVIOUS
  <2>1. Typed /\ Synced /\ Final /\ Shaped /\ NodeTable(nodes)
    BY DEF InStep, Typed
  <2>2. CASE \E kind \in Kinds : \E target : Creates(kind, target)
    BY <2>1, <2>2, CreationNamed
  <2>3. CASE Quiet \/ UNCHANGED vars
    <3>1. nodes' = nodes /\ anchors' \in {anchors, <<>>}
      BY <2>3 DEF Quiet, vars
    <3>. QED
      BY <2>1, <3>1, NamesKept
  <2>4. CASE Close
    <3>1. /\ NodeTable(nodes') /\ Len(nodes') = Len(nodes) /\ anchors' = anchors
          /\ \A i \in 1..Len(nodes) : /\ nodes'[i].kind = nodes[i].kind
                                      /\ nodes'[i].anchor = nodes[i].anchor
                                      /\ nodes'[i].target = nodes[i].target
      BY <2>1, <2>4, Return, Delivery
    <3>. QED
      BY <2>1, <3>1, NamesKept
  <2>. QED
    BY <2>1, <2>2, <2>3, <2>4, NodeSteps
<1>. QED
  BY <1>1, <1>2, AlwaysInStep, PTL DEF Spec

-----------------------------------------------------------------------------
(* The tree                                                                  *)

OnPath(stk, i) == \E l \in 1..Len(stk) : stk[l].node = i

Ascending(c) == \A j, k \in 1..Len(c) : j < k => c[j] < c[k]

\* Slot k of node p is the only place of node i, or it has no place yet, among
\* the nodes from r on.
OnlySlot(ns, r, i, p, k) ==
  /\ k \in 1..Len(ns[p].content) /\ ns[p].content[k] = i
  /\ \A q \in r..Len(ns) : \A m \in 1..Len(ns[q].content) :
       ns[q].content[m] = i => q = p /\ m = k
NoSlot(ns, r, i) ==
  \A q \in r..Len(ns) : \A m \in 1..Len(ns[q].content) : ns[q].content[m] # i

\* The calls parse one document, from its node r down, and have delivered to
\* their nodes what their steps say.
Path(ns, r, stk) ==
  /\ Len(stk) >= 1 /\ stk[1].node = r /\ ns[r].kind = "document"
  /\ \A l \in 1..Len(stk) : stk[l].node \in 1..Len(ns)
  /\ \A l, m \in 1..Len(stk) : l < m => stk[l].node < stk[m].node
  /\ \A l \in 1..Len(stk) - 1 : \A k \in 1..Len(ns[stk[l].node].content) :
       ns[stk[l].node].content[k] < stk[l + 1].node
  /\ \A l \in 1..Len(stk) :
       ns[stk[l].node].kind = "mapping" =>
         \/ stk[l].step = "key" /\ Len(ns[stk[l].node].content) % 2 = 0
         \/ stk[l].step = "value" /\ Len(ns[stk[l].node].content) % 2 = 1
  /\ \/ stk[1].step = "root" /\ Len(ns[r].content) = 0
     \/ stk[1].step = "end" /\ Len(ns[r].content) = 1

\* The nodes from r on form a tree but for those the calls still parse, which
\* have no parent yet.
Tree(ns, r, stk) ==
  /\ \A i \in r + 1..Len(ns) :
       /\ OnPath(stk, i) => NoSlot(ns, r, i)
       /\ ~OnPath(stk, i) => \E p \in r..i - 1 : \E k \in 1..Len(ns[p].content) : OnlySlot(ns, r, i, p, k)
  /\ \A i \in r..Len(ns) :
       /\ Ascending(ns[i].content)
       /\ ns[i].kind = "mapping" /\ ~OnPath(stk, i) => Len(ns[i].content) % 2 = 0

\* While a call of Decode runs, its nodes are the tree of its document.
Building ==
  Running /\ last # "late" =>
    IF stack = <<>> THEN root = Fresh
    ELSE Path(nodes, root, stack) /\ Tree(nodes, root, stack)

\* Remainders modulo two.
LEMMA Parity ==
  \A n \in Nat : /\ n % 2 = 0 => (n + 1) % 2 = 1
                 /\ n % 2 = 1 => (n + 1) % 2 = 0
OBVIOUS

\* A new node under the innermost call, whose own call is now the innermost.
LEMMA TreePush ==
  ASSUME NEW ns, NodeTable(ns), NEW r \in 1..Len(ns), NEW stk \in Seq(Calls),
         Path(ns, r, stk), Tree(ns, r, stk),
         NEW kind \in Kinds, NEW anchor \in Anchors \cup {None}, NEW target \in 0..Len(ns),
         NEW step \in Steps, kind = "mapping" => step = "key"
  PROVE  LET ms == Append(ns, Node(kind, anchor, target))
             v == Append(stk, Call(Len(ns) + 1, step))
         IN  /\ Path(ms, r, v) /\ Tree(ms, r, v) /\ v \in Seq(Calls)
<1> DEFINE n == Len(ns)
           d == Len(stk)
           w == Call(n + 1, step)
           nd == Node(kind, anchor, target)
           ms == Append(ns, nd)
           v == Append(stk, w)
<1>1. /\ NodeTable(ms) /\ Len(ms) = n + 1 /\ n \in Nat
      /\ \A i \in 1..n : ms[i] = ns[i]
      /\ ms[n + 1] = nd
  BY CreateNode
<1>2. nd.kind = kind /\ nd.content = <<>> /\ Len(<<>>) = 0 /\ 0 % 2 = 0
  BY DEF Node
<1>3. w \in Calls /\ w.node = n + 1 /\ w.step = step
  BY <1>1 DEF Call, Calls
<1>. HIDE DEF w, nd, ms
<1>4. /\ v \in Seq(Calls) /\ Len(v) = d + 1 /\ d \in Nat
      /\ \A l \in 1..d : v[l] = stk[l]
      /\ v[d + 1] = w
  BY <1>3, AppendFacts
<1>. HIDE DEF v
<1>5. /\ d >= 1 /\ stk[1].node = r /\ ns[r].kind = "document"
      /\ \A l \in 1..d : stk[l].node \in 1..n
      /\ \A l, m \in 1..d : l < m => stk[l].node < stk[m].node
      /\ \A l \in 1..d - 1 : \A k \in 1..Len(ns[stk[l].node].content) :
           ns[stk[l].node].content[k] < stk[l + 1].node
      /\ \A l \in 1..d :
           ns[stk[l].node].kind = "mapping" =>
             \/ stk[l].step = "key" /\ Len(ns[stk[l].node].content) % 2 = 0
             \/ stk[l].step = "value" /\ Len(ns[stk[l].node].content) % 2 = 1
      /\ \/ stk[1].step = "root" /\ Len(ns[r].content) = 0
         \/ stk[1].step = "end" /\ Len(ns[r].content) = 1
  BY DEF Path
<1>6. \A i \in 1..n : \A k \in 1..Len(ns[i].content) : ns[i].content[k] \in 1..n
  BY DEF NodeTable
<1>7. r \in 1..n
  OBVIOUS
<1>. HIDE DEF n, d
<1>8. (\A l \in 1..d + 1 : l = d + 1 \/ l \in 1..d) /\ (\A l \in 1..d : l \in 1..d + 1)
      /\ d + 1 \in 1..d + 1 /\ (d + 1) - 1 = d
  BY <1>4
<1>9. (\A i \in 1..n + 1 : i = n + 1 \/ i \in 1..n) /\ (\A i \in 1..n : i \in 1..n + 1)
      /\ n + 1 \in 1..n + 1
  BY <1>1
<1>10. \A l \in 1..d : v[l] = stk[l] /\ ms[stk[l].node] = ns[stk[l].node]
  BY <1>1, <1>4, <1>5
<1>11. Path(ms, r, v)
  <2>1. Len(v) >= 1 /\ v[1].node = r /\ ms[r].kind = "document"
    <3>1. 1 \in 1..d /\ d + 1 >= 1
      BY <1>4, <1>5
    <3>. QED
      BY <1>1, <1>4, <1>5, <1>7, <3>1
  <2>2. \A l \in 1..d + 1 : v[l].node \in 1..n + 1
    BY <1>3, <1>4, <1>5, <1>8, <1>9
  <2>3. ASSUME NEW l \in 1..d + 1, NEW m \in 1..d + 1, l < m
        PROVE  v[l].node < v[m].node
    <3>1. l \in 1..d
      BY <1>4, <2>3
    <3>2. CASE m \in 1..d
      BY <1>4, <1>5, <2>3, <3>1, <3>2
    <3>3. CASE m = d + 1
      BY <1>1, <1>3, <1>4, <1>5, <3>1, <3>3
    <3>. QED
      BY <1>8, <3>2, <3>3
  <2>4. ASSUME NEW l \in 1..d, NEW k \in 1..Len(ms[v[l].node].content)
        PROVE  ms[v[l].node].content[k] < v[l + 1].node
    <3>1. ms[v[l].node] = ns[stk[l].node] /\ stk[l].node \in 1..n
      BY <1>5, <1>10
    <3>2. CASE l = d
      <4>1. v[l + 1].node = n + 1 /\ ns[stk[l].node].content[k] \in 1..n
        BY <1>3, <1>4, <1>6, <2>4, <3>1, <3>2
      <4>. QED
        BY <1>1, <3>1, <4>1, SMTT(40)
    <3>3. CASE l \in 1..d - 1
      <4>1. l + 1 \in 1..d
        BY <1>4, <3>3
      <4>. QED
        BY <1>4, <1>5, <2>4, <3>1, <3>3, <4>1
    <3>. QED
      BY <1>4, <3>2, <3>3
  <2>5. ASSUME NEW l \in 1..d + 1, ms[v[l].node].kind = "mapping"
        PROVE  \/ v[l].step = "key" /\ Len(ms[v[l].node].content) % 2 = 0
               \/ v[l].step = "value" /\ Len(ms[v[l].node].content) % 2 = 1
    <3>1. CASE l \in 1..d
      <4>1. v[l] = stk[l] /\ ms[v[l].node] = ns[stk[l].node]
        BY <1>10, <3>1
      <4>. QED
        BY <1>5, <2>5, <3>1, <4>1, Zenon
    <3>2. CASE l = d + 1
      <4>1. v[l] = w /\ ms[v[l].node] = nd
        BY <1>1, <1>3, <1>4, <3>2
      <4>. QED
        BY <1>2, <1>3, <2>5, <4>1
    <3>. QED
      BY <1>8, <3>1, <3>2
  <2>6. \/ v[1].step = "root" /\ Len(ms[r].content) = 0
        \/ v[1].step = "end" /\ Len(ms[r].content) = 1
    <3>1. 1 \in 1..d
      BY <1>4, <1>5
    <3>. QED
      BY <1>1, <1>4, <1>5, <1>7, <3>1
  <2>. QED
    BY <1>1, <1>4, <1>8, <2>1, <2>2, <2>3, <2>4, <2>5, <2>6 DEF Path
<1>12. \A i \in 1..n : OnPath(v, i) <=> OnPath(stk, i)
  <2>1. n + 1 \notin 1..n
    BY <1>1
  <2>. QED
    BY <1>3, <1>4, <1>8, <2>1 DEF OnPath, d
<1>13. OnPath(v, n + 1)
  BY <1>3, <1>4, <1>8 DEF OnPath
<1>14. \A q \in r..n + 1 : q = n + 1 \/ q \in r..n
  BY <1>1, <1>7
<1>15. \A q \in r..n : q \in 1..n /\ ms[q] = ns[q]
  BY <1>1, <1>7
<1>16. \A m \in 1..Len(ms[n + 1].content) : FALSE
  BY <1>1, <1>2
<1>17. Tree(ms, r, v)
  <2>1. ASSUME NEW i \in r + 1..n + 1, OnPath(v, i)
        PROVE  NoSlot(ms, r, i)
    <3>1. CASE i \in 1..n
      <4>1. NoSlot(ns, r, i)
        BY <1>1, <1>7, <1>12, <2>1, <3>1 DEF Tree, n
      <4>. QED
        BY <1>1, <1>14, <1>15, <1>16, <4>1 DEF NoSlot, n
    <3>2. CASE i = n + 1
      <4>1. n + 1 \notin 1..n
        BY <1>1
      <4>. QED
        BY <1>1, <1>6, <1>14, <1>15, <1>16, <3>2, <4>1, SMTT(40) DEF NoSlot
    <3>. QED
      BY <1>1, <1>7, <3>1, <3>2
  <2>2. ASSUME NEW i \in r + 1..n + 1, ~OnPath(v, i)
        PROVE  \E p \in r..i - 1 : \E k \in 1..Len(ms[p].content) : OnlySlot(ms, r, i, p, k)
    <3>1. i \in r + 1..n /\ i \in 1..n /\ ~OnPath(stk, i)
      BY <1>1, <1>7, <1>12, <1>13, <2>2
    <3>2. PICK p \in r..i - 1 : \E k \in 1..Len(ns[p].content) : OnlySlot(ns, r, i, p, k)
      BY <3>1 DEF Tree, n
    <3>3. PICK k \in 1..Len(ns[p].content) : OnlySlot(ns, r, i, p, k)
      BY <3>2
    <3>4. p \in r..n
      BY <1>1, <1>7, <3>1
    <3>5. OnlySlot(ms, r, i, p, k)
      BY <1>1, <1>14, <1>15, <1>16, <3>3, <3>4 DEF OnlySlot, n
    <3>. QED
      BY <1>15, <3>3, <3>4, <3>5
  <2>3. ASSUME NEW i \in r..n + 1
        PROVE  /\ Ascending(ms[i].content)
               /\ ms[i].kind = "mapping" /\ ~OnPath(v, i) => Len(ms[i].content) % 2 = 0
    <3>1. CASE i = n + 1
      BY <1>13, <1>16, <3>1 DEF Ascending
    <3>2. CASE i \in r..n
      BY <1>12, <1>15, <3>2 DEF Tree, n
    <3>. QED
      BY <1>14, <3>1, <3>2
  <2>. QED
    BY <1>1, <2>1, <2>2, <2>3 DEF Tree
<1>. QED
  BY <1>4, <1>11, <1>17 DEF v, ms, w, nd, n

\* AttachNode, for every parent and child.
LEMMA Attaching ==
  ASSUME NEW ns, NodeTable(ns)
  PROVE  \A p, id \in 1..Len(ns) :
           /\ NodeTable(Attached(ns, p, id)) /\ Len(Attached(ns, p, id)) = Len(ns)
           /\ \A i \in 1..Len(ns) :
                /\ Attached(ns, p, id)[i].kind = ns[i].kind
                /\ i # p => Attached(ns, p, id)[i] = ns[i]
           /\ Attached(ns, p, id)[p].content = Append(ns[p].content, id)
           /\ ns[p].content \in Seq(Nat)
<1>. TAKE p, id \in 1..Len(ns)
<1> DEFINE ms == Attached(ns, p, id)
<1>. HIDE DEF ms
<1>1. /\ NodeTable(ms) /\ Len(ms) = Len(ns)
      /\ \A i \in 1..Len(ns) : ms[i].kind = ns[i].kind /\ (i # p => ms[i] = ns[i])
  BY AttachNode DEF ms
<1>2. ms[p].content = Append(ns[p].content, id)
  BY AttachNode DEF ms
<1>3. ns[p].content \in Seq(Nat)
  BY AttachNode
<1>. QED
  BY <1>1, <1>2, <1>3 DEF ms

\* The node of the innermost call becomes the last child of its caller's.
LEMMA TreeReturn ==
  ASSUME NEW ns, NodeTable(ns), NEW r \in 1..Len(ns), NEW stk \in Seq(Calls), Len(stk) >= 2,
         Nested(stk), Path(ns, r, stk), Tree(ns, r, stk),
         ns[stk[Len(stk)].node].kind = "mapping" => stk[Len(stk)].step = "key",
         NEW v, v = Front(stk)
  PROVE  LET ms == Attached(ns, v[Len(v)].node, stk[Len(stk)].node)
         IN  Path(ms, r, Advanced(v)) /\ Tree(ms, r, Advanced(v))
<1> DEFINE n == Len(ns)
           d == Len(v)
           id == stk[Len(stk)].node
           p == v[d].node
           ms == Attached(ns, p, id)
           u == Advanced(v)
           c == ns[p].content
<1>1. /\ v \in Seq(Calls) /\ v # <<>> /\ Nested(v) /\ d = Len(stk) - 1
      /\ \A l \in 1..Len(stk) - 1 : v[l] = stk[l]
      /\ v[d].step # "end"
  BY DueClose
<1>2. /\ u \in Seq(Calls) /\ Len(u) = d
      /\ \A l \in 1..d : u[l].node = v[l].node
      /\ \A l \in 1..d - 1 : u[l] = v[l]
      /\ u[d].step = NextStep[v[d].step]
  BY <1>1, DueAdvance
<1>3. n \in Nat /\ d \in Nat /\ Len(stk) \in Nat
  BY <1>1, LenProperties DEF NodeTable
<1>. HIDE DEF u
<1>4. /\ stk[1].node = r /\ ns[r].kind = "document"
      /\ \A l \in 1..Len(stk) : stk[l].node \in 1..n
      /\ \A l, m \in 1..Len(stk) : l < m => stk[l].node < stk[m].node
      /\ \A l \in 1..Len(stk) - 1 : \A k \in 1..Len(ns[stk[l].node].content) :
           ns[stk[l].node].content[k] < stk[l + 1].node
  BY DEF Path
<1>5. /\ \A l \in 1..Len(stk) :
           ns[stk[l].node].kind = "mapping" =>
             \/ stk[l].step = "key" /\ Len(ns[stk[l].node].content) % 2 = 0
             \/ stk[l].step = "value" /\ Len(ns[stk[l].node].content) % 2 = 1
      /\ \/ stk[1].step = "root" /\ Len(ns[r].content) = 0
         \/ stk[1].step = "end" /\ Len(ns[r].content) = 1
  BY DEF Path
<1>6. /\ Len(stk) = d + 1 /\ d >= 1 /\ d \in 1..d /\ 1 \in 1..d
      /\ d + 1 \in 1..Len(stk) /\ d \in 1..Len(stk)
      /\ \A l \in 1..d : l \in 1..Len(stk) /\ l \in 1..Len(stk) - 1
      /\ \A l \in 1..d - 1 : l \in 1..d /\ l + 1 \in 1..d
      /\ \A l \in 1..d : l = d \/ l \in 1..d - 1
      /\ \A l \in 1..Len(stk) : l = d + 1 \/ l \in 1..d
  <2>1. \A j, k \in Nat : k >= 2 /\ j = k - 1 => k = j + 1 /\ j >= 1
    OBVIOUS
  <2>2. Len(stk) = d + 1 /\ d >= 1
    BY <1>1, <1>3, <2>1
  <2>. HIDE DEF d
  <2>. QED
    BY <1>3, <2>2
<1>7. /\ p = stk[d].node /\ id = stk[d + 1].node /\ p \in 1..n /\ id \in 1..n /\ p < id
      /\ \A l \in 1..d : v[l] = stk[l]
  <2>. HIDE DEF n, d
  <2>1. \A l \in 1..d : v[l] = stk[l]
    BY <1>1, <1>6
  <2>2. p = stk[d].node /\ id = stk[d + 1].node
    BY <1>6, <2>1
  <2>3. d < d + 1
    BY <1>3
  <2>. QED
    BY <1>4, <1>6, <2>1, <2>2, <2>3
<1>. HIDE DEF p, id, ms
<1>8. /\ NodeTable(ms) /\ Len(ms) = n
      /\ \A i \in 1..n : ms[i].kind = ns[i].kind /\ (i # p => ms[i] = ns[i])
      /\ ms[p].content = Append(c, id) /\ c \in Seq(Nat)
  <2>1. p \in 1..Len(ns) /\ id \in 1..Len(ns)
    BY <1>7
  <2>2. /\ NodeTable(ms) /\ Len(ms) = Len(ns)
        /\ \A i \in 1..Len(ns) : ms[i].kind = ns[i].kind /\ (i # p => ms[i] = ns[i])
        /\ ms[p].content = Append(ns[p].content, id) /\ ns[p].content \in Seq(Nat)
    BY <2>1, Attaching DEF ms
  <2>. QED
    BY <2>2
<1>9. id \in Nat /\ Len(c) \in Nat
  <2>1. c \in Seq(Nat) /\ id \in 1..n /\ n \in Nat
    BY <1>3, <1>7, <1>8
  <2>. HIDE DEF c, n
  <2>2. Len(c) \in Nat
    BY <2>1, LenProperties
  <2>. QED
    BY <2>1, <2>2
<1>. HIDE DEF n, d, c
<1>10. /\ Len(ms[p].content) = Len(c) + 1 /\ ms[p].content[Len(c) + 1] = id
       /\ \A k \in 1..Len(c) : ms[p].content[k] = c[k]
       /\ \A k \in 1..Len(c) + 1 : k = Len(c) + 1 \/ k \in 1..Len(c)
       /\ Len(c) + 1 \in 1..Len(c) + 1 /\ \A k \in 1..Len(c) : k \in 1..Len(c) + 1
  BY <1>8, <1>9, AppendFacts, SMTT(40)
<1>11. \A k \in 1..Len(c) : c[k] < id
  BY <1>4, <1>6, <1>7 DEF c
<1>12. \A i \in 1..n : \A k \in 1..Len(ns[i].content) : ns[i].content[k] \in 1..n
  BY DEF NodeTable, n
<1>13. \A l \in 1..d : u[l].node = stk[l].node /\ stk[l].node \in 1..n
  BY <1>2, <1>4, <1>6, <1>7
<1>14. \A l \in 1..d - 1 : u[l] = stk[l] /\ stk[l].node # p /\ ms[stk[l].node] = ns[stk[l].node]
  <2>1. ASSUME NEW l \in 1..d - 1
        PROVE  u[l] = stk[l] /\ stk[l].node # p /\ ms[stk[l].node] = ns[stk[l].node]
    <3>1. u[l] = stk[l]
      BY <1>2, <1>6, <1>7
    <3>2. stk[l].node < p
      <4>1. l < d
        BY <1>3
      <4>. QED
        BY <1>4, <1>6, <1>7, <4>1
    <3>3. stk[l].node # p /\ stk[l].node \in 1..n
      BY <1>3, <1>7, <1>13, <1>6, <3>2
    <3>. QED
      BY <1>8, <3>1, <3>3
  <2>. QED
    BY <2>1
<1>15. NextStep["root"] = "end" /\ NextStep["key"] = "value" /\ NextStep["value"] = "key"
  BY DEF NextStep
<1>16. u[d].step = NextStep[stk[d].step] /\ stk[d].step # "end"
  BY <1>1, <1>2, <1>6, <1>7
<1>17. Path(ms, r, u)
  <2>1. Len(u) >= 1 /\ u[1].node = r /\ ms[r].kind = "document"
    BY <1>2, <1>4, <1>6, <1>8, <1>13
  <2>2. \A l \in 1..d : u[l].node \in 1..n
    BY <1>13
  <2>3. \A l, m \in 1..d : l < m => u[l].node < u[m].node
    BY <1>4, <1>6, <1>13
  <2>4. ASSUME NEW l \in 1..d - 1, NEW k \in 1..Len(ms[u[l].node].content)
        PROVE  ms[u[l].node].content[k] < u[l + 1].node
    BY <1>4, <1>6, <1>13, <1>14, <2>4, SMTT(40)
  <2>5. ASSUME NEW l \in 1..d, ms[u[l].node].kind = "mapping"
        PROVE  \/ u[l].step = "key" /\ Len(ms[u[l].node].content) % 2 = 0
               \/ u[l].step = "value" /\ Len(ms[u[l].node].content) % 2 = 1
    <3>1. CASE l \in 1..d - 1
      <4>1. u[l] = stk[l] /\ ms[u[l].node] = ns[stk[l].node] /\ l \in 1..Len(stk)
        BY <1>6, <1>14, <3>1
      <4>. QED
        BY <1>5, <2>5, <4>1, Zenon
    <3>2. CASE l = d
      <4>1. u[l].node = p /\ u[l].step = NextStep[stk[d].step] /\ ns[p].kind = "mapping"
        BY <1>6, <1>7, <1>8, <1>13, <1>16, <2>5, <3>2
      <4>2. \/ stk[d].step = "key" /\ Len(c) % 2 = 0
            \/ stk[d].step = "value" /\ Len(c) % 2 = 1
        BY <1>5, <1>6, <1>7, <4>1, Zenon DEF c
      <4>3. Len(ms[u[l].node].content) = Len(c) + 1
        BY <1>10, <4>1
      <4>4. \/ stk[d].step = "key" /\ (Len(c) + 1) % 2 = 1
            \/ stk[d].step = "value" /\ (Len(c) + 1) % 2 = 0
        BY <1>9, <4>2, Parity
      <4>. QED
        BY <1>15, <4>1, <4>3, <4>4, Zenon
    <3>. QED
      BY <1>6, <3>1, <3>2
  <2>6. \/ u[1].step = "root" /\ Len(ms[r].content) = 0
        \/ u[1].step = "end" /\ Len(ms[r].content) = 1
    <3>1. CASE d = 1
      <4>1. p = r /\ u[1].step = NextStep[stk[1].step] /\ stk[1].step # "end"
        BY <1>4, <1>7, <1>16, <3>1
      <4>2. stk[1].step = "root" /\ Len(c) = 0
        BY <1>5, <4>1 DEF c
      <4>. QED
        BY <1>10, <1>15, <4>1, <4>2
    <3>2. CASE 1 \in 1..d - 1
      <4>1. u[1] = stk[1] /\ ms[r] = ns[r]
        BY <1>4, <1>14, <3>2
      <4>. QED
        BY <1>5, <4>1, Zenon
    <3>. QED
      BY <1>6, <3>1, <3>2
  <2>. QED
    BY <1>2, <1>8, <2>1, <2>2, <2>3, <2>4, <2>5, <2>6 DEF Path
<1>18. \A i : OnPath(stk, i) <=> (OnPath(u, i) \/ i = id)
  BY <1>2, <1>6, <1>7, <1>13 DEF OnPath
<1>19. ~OnPath(u, id)
  <2>1. \A l \in 1..d : stk[l].node < id
    <3>1. \A l \in 1..d : l < d + 1
      BY <1>3
    <3>. QED
      BY <1>4, <1>6, <1>7, <3>1
  <2>2. ~(id < id)
    BY <1>9
  <2>. QED
    BY <1>2, <1>13, <2>1, <2>2 DEF OnPath
<1>20. \A q \in r..n : q \in 1..n
  BY <1>3 DEF n
<1>21. r \in Nat /\ r <= p /\ p \in r..id - 1 /\ p \in r..n /\ id \in r + 1..n
  <2>1. d = 1 => p = r
    BY <1>4, <1>7
  <2>2. d # 1 => r < p
    <3>1. d # 1 => 1 < d
      BY <1>3, <1>6
    <3>. QED
      BY <1>4, <1>6, <1>7, <3>1
  <2>3. r \in 1..n
    BY DEF n
  <2>4. \A j, k, m \in 1..n : j <= k /\ k < m => j \in Nat /\ k \in j..m - 1 /\ k \in j..n /\ m \in j + 1..n
    BY <1>3
  <2>5. r <= p
    BY <1>7, <2>1, <2>2, <2>3
  <2>. QED
    BY <1>7, <2>3, <2>4, <2>5
<1>22. \A q \in r..n : \A m \in 1..Len(ms[q].content) :
         \/ q = p /\ m = Len(c) + 1 /\ ms[q].content[m] = id
         \/ m \in 1..Len(ns[q].content) /\ ms[q].content[m] = ns[q].content[m]
  BY <1>8, <1>10, <1>20 DEF c
<1>23. \A q \in r..n : \A m \in 1..Len(ns[q].content) :
         m \in 1..Len(ms[q].content) /\ ms[q].content[m] = ns[q].content[m]
  BY <1>8, <1>10, <1>20 DEF c
<1>24. Tree(ms, r, u)
  <2>1. ASSUME NEW i \in r + 1..n, OnPath(u, i)
        PROVE  NoSlot(ms, r, i)
    <3>1. i # id /\ NoSlot(ns, r, i)
      BY <1>18, <1>19, <2>1 DEF Tree, n
    <3>. QED
      BY <1>8, <1>22, <3>1 DEF NoSlot, n
  <2>2. ASSUME NEW i \in r + 1..n, ~OnPath(u, i)
        PROVE  \E q \in r..i - 1 : \E k \in 1..Len(ms[q].content) : OnlySlot(ms, r, i, q, k)
    <3>1. CASE i = id
      <4>1. NoSlot(ns, r, id)
        BY <1>18, <1>21 DEF Tree, n
      <4>2. OnlySlot(ms, r, id, p, Len(c) + 1)
        <5>1. \A q \in r..n : \A m \in 1..Len(ns[q].content) : ns[q].content[m] # id
          BY <4>1 DEF NoSlot, n
        <5>2. \A q \in r..n : \A m \in 1..Len(ms[q].content) :
                ms[q].content[m] = id => q = p /\ m = Len(c) + 1
          BY <1>22, <5>1
        <5>. QED
          BY <1>8, <1>10, <5>2 DEF OnlySlot
      <4>. QED
        BY <1>10, <1>21, <3>1, <4>2
    <3>2. CASE i # id
      <4>1. PICK q \in r..i - 1 : \E k \in 1..Len(ns[q].content) : OnlySlot(ns, r, i, q, k)
        BY <1>18, <2>2, <3>2 DEF Tree, n
      <4>2. PICK k \in 1..Len(ns[q].content) : OnlySlot(ns, r, i, q, k)
        BY <4>1
      <4>3. q \in r..n
        BY <1>3, <1>21
      <4>4. OnlySlot(ms, r, i, q, k)
        <5>1. /\ k \in 1..Len(ns[q].content) /\ ns[q].content[k] = i
              /\ \A j \in r..n : \A m \in 1..Len(ns[j].content) :
                   ns[j].content[m] = i => j = q /\ m = k
          BY <4>2 DEF OnlySlot, n
        <5>2. k \in 1..Len(ms[q].content) /\ ms[q].content[k] = i
          BY <1>23, <4>3, <5>1
        <5>3. \A j \in r..n : \A m \in 1..Len(ms[j].content) :
                ms[j].content[m] = i => j = q /\ m = k
          <6>. SUFFICES ASSUME NEW j \in r..n, NEW m \in 1..Len(ms[j].content), ms[j].content[m] = i
                        PROVE  j = q /\ m = k
            OBVIOUS
          <6>1. m \in 1..Len(ns[j].content) /\ ms[j].content[m] = ns[j].content[m]
            BY <1>22, <3>2
          <6>. QED
            BY <5>1, <6>1
        <5>. QED
          BY <1>8, <5>2, <5>3 DEF OnlySlot
      <4>. QED
        BY <1>23, <4>3, <4>4
    <3>. QED
      BY <3>1, <3>2
  <2>3. ASSUME NEW i \in r..n
        PROVE  /\ Ascending(ms[i].content)
               /\ ms[i].kind = "mapping" /\ ~OnPath(u, i) => Len(ms[i].content) % 2 = 0
    <3>1. Ascending(ns[i].content)
          /\ (ns[i].kind = "mapping" /\ ~OnPath(stk, i) => Len(ns[i].content) % 2 = 0)
      BY DEF Tree, n
    <3>2. CASE i = p
      <4>1. OnPath(u, i)
        BY <1>2, <1>6, <1>7, <1>13, <3>2 DEF OnPath
      <4>2. Ascending(ms[i].content)
        <5>1. ASSUME NEW j \in 1..Len(c) + 1, NEW k \in 1..Len(c) + 1, j < k
              PROVE  ms[p].content[j] < ms[p].content[k]
          <6>1. j \in 1..Len(c)
            BY <1>9, <5>1
          <6>2. CASE k \in 1..Len(c)
            BY <1>10, <3>1, <3>2, <5>1, <6>1, <6>2 DEF Ascending, c
          <6>3. CASE k = Len(c) + 1
            BY <1>10, <1>11, <6>1, <6>3
          <6>. QED
            BY <1>10, <6>2, <6>3
        <5>. QED
          BY <1>10, <3>2, <5>1 DEF Ascending
      <4>. QED
        BY <4>1, <4>2
    <3>3. CASE i # p /\ i # id
      <4>1. ms[i] = ns[i]
        BY <1>8, <1>20, <3>3
      <4>. QED
        BY <1>18, <3>1, <3>3, <4>1, Zenon
    <3>4. CASE i # p /\ i = id
      <4>1. ms[i] = ns[i]
        BY <1>8, <1>20, <3>4
      <4>2. ns[id].kind = "mapping" => Len(ns[id].content) % 2 = 0
        <5>1. ns[id].kind = "mapping" => stk[d + 1].step = "key"
          BY <1>6, <1>7
        <5>2. "key" # "value"
          OBVIOUS
        <5>. QED
          BY <1>5, <1>6, <1>7, <5>1, <5>2, Zenon
      <4>. QED
        BY <3>1, <3>4, <4>1, <4>2, Zenon
    <3>. QED
      BY <3>2, <3>3, <3>4
  <2>. QED
    BY <1>8, <2>1, <2>2, <2>3 DEF Tree
<1>. QED
  BY <1>17, <1>24 DEF ms, u, p, id, d

\* WholeDocument, of the nodes ns and the first node r.
WholeAt(ns, r) ==
  /\ ns[r].kind = "document" /\ Len(ns[r].content) = 1
  /\ \A i \in r + 1..Len(ns) :
       \E p \in r..i - 1 :
         /\ {q \in r..Len(ns) : \E k \in DOMAIN ns[q].content : ns[q].content[k] = i} = {p}
         /\ \E k \in DOMAIN ns[p].content : {m \in DOMAIN ns[p].content : ns[p].content[m] = i} = {k}
  /\ \A i \in r..Len(ns) :
       /\ ns[i].kind = "mapping" => Len(ns[i].content) % 2 = 0
       /\ \A j, k \in DOMAIN ns[i].content : j < k => ns[i].content[j] < ns[i].content[k]

\* A tree whose root is all that is left to return is a whole document.
LEMMA WholeTree ==
  ASSUME NodeTable(nodes), root \in 1..Len(nodes), NEW stk, Len(stk) = 1,
         Path(nodes, root, stk), Tree(nodes, root, stk), stk[1].step = "end"
  PROVE  WholeAt(nodes, root)
<1> DEFINE n == Len(nodes)
<1>1. n \in Nat /\ root \in 1..n
  BY LenProperties DEF NodeTable
<1>2. ASSUME NEW i \in root..n
      PROVE  DOMAIN nodes[i].content = 1..Len(nodes[i].content)
  <2>1. nodes \in Seq(NodeRecords) /\ i \in 1..n
    BY <1>1 DEF NodeTable
  <2>2. nodes[i] \in NodeRecords
    <3>. HIDE DEF NodeRecords
    <3>. QED
      BY <2>1
  <2>3. nodes[i].content \in Seq(Nat)
    BY <2>2 DEF NodeRecords
  <2>. QED
    BY <2>3
<1>3. \A i : OnPath(stk, i) <=> i = root
  <2>1. Len(stk) = 1 /\ stk[1].node = root /\ \A l \in 1..1 : l = 1
    BY DEF Path
  <2>. QED
    BY <2>1 DEF OnPath
<1>4. nodes[root].kind = "document" /\ Len(nodes[root].content) = 1
  BY DEF Path
<1>5. ASSUME NEW i \in root + 1..n
      PROVE  \E p \in root..i - 1 :
               Parents(i) = {p} /\ \E k \in DOMAIN nodes[p].content : Times(p, i) = {k}
  <2>1. ~OnPath(stk, i)
    BY <1>1, <1>3
  <2>2. PICK p \in root..i - 1 : \E k \in 1..Len(nodes[p].content) : OnlySlot(nodes, root, i, p, k)
    BY <2>1 DEF Tree, n
  <2>3. PICK k \in 1..Len(nodes[p].content) : OnlySlot(nodes, root, i, p, k)
    BY <2>2
  <2>4. p \in root..n
    BY <1>1
  <2>5. /\ nodes[p].content[k] = i
        /\ \A q \in root..n : \A m \in 1..Len(nodes[q].content) :
             nodes[q].content[m] = i => q = p /\ m = k
    BY <2>3 DEF OnlySlot, n
  <2>. HIDE DEF n
  <2>6. Parents(i) = {p}
    <3>1. Parents(i) = {q \in root..n : \E m \in DOMAIN nodes[q].content : nodes[q].content[m] = i}
      BY DEF Parents, n
    <3>. QED
      BY <1>2, <2>3, <2>4, <2>5, <3>1
  <2>7. Times(p, i) = {k}
    BY <1>2, <2>3, <2>4, <2>5 DEF Times
  <2>. QED
    BY <1>2, <2>3, <2>4, <2>6, <2>7
<1>6. ASSUME NEW i \in root..n
      PROVE  /\ nodes[i].kind = "mapping" => Len(nodes[i].content) % 2 = 0
             /\ \A j, k \in DOMAIN nodes[i].content :
                  j < k => nodes[i].content[j] < nodes[i].content[k]
  <2>1. /\ Ascending(nodes[i].content)
        /\ nodes[i].kind = "mapping" /\ ~OnPath(stk, i) => Len(nodes[i].content) % 2 = 0
    BY DEF Tree, n
  <2>2. nodes[i].kind = "mapping" => ~OnPath(stk, i)
    BY <1>3, <1>4
  <2>3. \A j, k \in DOMAIN nodes[i].content :
          j < k => nodes[i].content[j] < nodes[i].content[k]
    BY <1>2, <2>1, Zenon DEF Ascending
  <2>. QED
    BY <2>1, <2>2, <2>3, Zenon
<1>. QED
  BY <1>4, <1>5, <1>6 DEF n, WholeAt, Parents, Times

\* A document node of a new call.
LEMMA TreeRoot ==
  ASSUME NEW ns, NodeTable(ns), NEW n, n = Len(ns), n \in Nat \ {0},
         ns[n].kind = "document", ns[n].content = <<>>, NEW stk, stk = <<Call(n, "root")>>
  PROVE  Path(ns, n, stk) /\ Tree(ns, n, stk)
<1>1. Len(stk) = 1 /\ stk[1].node = n /\ stk[1].step = "root" /\ Len(<<>>) = 0
  BY DEF Call
<1>2. (\A l \in 1..1 : l = 1) /\ (\A l \in 1..0 : FALSE) /\ (\A i \in n + 1..n : FALSE)
      /\ (\A i \in n..n : i = n) /\ 1 - 1 = 0 /\ n \in 1..n /\ ~(1 < 1) /\ 1 >= 1
  OBVIOUS
<1>3. Path(ns, n, stk)
  BY <1>1, <1>2 DEF Path
<1>4. Tree(ns, n, stk)
  BY <1>1, <1>2 DEF Tree, Ascending
<1>. QED
  BY <1>3, <1>4

\* A new node keeps the tree.
LEMMA BuildingCreation ==
  ASSUME Typed, Synced, Final, Building, last # "late", last' = last,
         NEW kind \in Kinds, NEW target, Creates(kind, target)
  PROVE  /\ outcome' = "running" /\ stack' # <<>>
         /\ Path(nodes', root', stack') /\ Tree(nodes', root', stack')
<1> DEFINE n == Len(nodes)
           nd == Node(kind, event.anchor, target)
           ns == Append(nodes, nd)
<1>1. /\ Shaped /\ NodeTable(nodes) /\ n \in Nat
      /\ event.anchor \in Anchors \cup {None} /\ target \in 0..n
      /\ Fresh = n + 1
  BY Creation DEF Typed, Fresh
<1>2. /\ NodeTable(ns) /\ Len(ns) = n + 1 /\ ns[n + 1] = nd
      /\ \A i \in 1..n : ns[i] = nodes[i]
  BY <1>1, CreateNode
<1>3. nd.kind = kind /\ nd.content = <<>>
  BY DEF Node
<1>4. Peeked /\ doneInit /\ ChildDue /\ outcome = "running" /\ root' = root
  BY DEF Creates, Peeked, Running
<1>5. /\ stack \in Seq(Calls) /\ Nested(stack) /\ (stack # <<>> => stack[Len(stack)].step # "end")
      /\ Len(stack) \in Nat
  BY <1>1, <1>4, ChildStep, LenProperties
<1>6. \/ /\ event.typ \in {"SCALAR", "ALIAS"} /\ ~Refused /\ kind \notin DOMAIN FirstStep
         /\ Deliver(Fresh, ns, stack)
      \/ /\ event.typ \in DOMAIN Opened /\ kind = Opened[event.typ]
         /\ nodes' = ns /\ outcome' = outcome
         /\ FirstStep[kind] \in Steps /\ stack' = Append(stack, Call(Fresh, FirstStep[kind]))
  BY DEF Creates
<1>7. /\ DOMAIN FirstStep = {"document", "sequence", "mapping"}
      /\ FirstStep["mapping"] = "key" /\ FirstStep["document"] = "root"
      /\ DOMAIN Opened = {"DOCUMENT_START", "SEQUENCE_START", "MAPPING_START"}
      /\ Opened["DOCUMENT_START"] = "document"
      /\ "entry" \in Steps
  BY DEF FirstStep, Opened, Steps
<1>. HIDE DEF n, nd, ns
<1>8. CASE stack = <<>>
  <2>1. root = n + 1
    BY <1>1, <1>4, <1>8 DEF Building, Running
  <2>2. event.typ = "DOCUMENT_START"
    BY <1>4, <1>6, <1>7, <1>8, PeekedFacts, Survivors DEF Refused
  <2>3. kind = "document" /\ nodes' = ns /\ outcome' = outcome
        /\ stack' = Append(stack, Call(n + 1, "root"))
    BY <1>1, <1>6, <1>7, <2>2
  <2>4. stack' = <<Call(n + 1, "root")>>
    BY <1>8, <2>3
  <2>5. Path(nodes', n + 1, stack') /\ Tree(nodes', n + 1, stack')
    <3>1. n + 1 \in Nat \ {0}
      BY <1>1
    <3>. QED
      BY <1>2, <1>3, <2>3, <2>4, <3>1, TreeRoot
  <2>6. stack' # <<>>
    BY <2>4
  <2>. QED
    BY <1>4, <2>1, <2>3, <2>5, <2>6
<1>9. CASE stack # <<>>
  <2>1. Path(nodes, root, stack) /\ Tree(nodes, root, stack)
    BY <1>4, <1>9 DEF Building, Running
  <2>2. root \in 1..n /\ Len(stack) >= 1
    <3>1. 1 \in 1..Len(stack) /\ Len(stack) >= 1
      BY <1>5, <2>1 DEF Path
    <3>. QED
      BY <2>1, <3>1 DEF Path, n
  <2>3. ASSUME NEW step \in Steps, kind = "mapping" => step = "key"
        PROVE  LET v == Append(stack, Call(n + 1, step)) IN
               Path(ns, root, v) /\ Tree(ns, root, v) /\ v \in Seq(Calls)
    BY <1>1, <1>5, <2>1, <2>2, <2>3, TreePush DEF n, ns, nd
  <2>4. CASE event.typ \in DOMAIN Opened
    <3>1. /\ nodes' = ns /\ outcome' = outcome /\ FirstStep[kind] \in Steps
          /\ stack' = Append(stack, Call(n + 1, FirstStep[kind]))
      BY <1>1, <1>6, <1>7, <2>4
    <3>2. Path(nodes', root, stack') /\ Tree(nodes', root, stack')
      BY <1>7, <2>3, <3>1
    <3>3. stack' # <<>>
      BY <1>5, <3>1
    <3>. QED
      BY <1>4, <3>1, <3>2, <3>3
  <2>5. CASE event.typ \in {"SCALAR", "ALIAS"}
    <3> DEFINE w == Call(n + 1, "entry")
               v == Append(stack, w)
    <3>1. kind # "mapping" /\ Deliver(n + 1, ns, stack)
      BY <1>1, <1>6, <1>7, <2>5
    <3>2. Path(ns, root, v) /\ Tree(ns, root, v) /\ v \in Seq(Calls)
      BY <1>7, <2>3, <3>1
    <3>3. w \in Calls /\ w.node = n + 1
      BY <1>1, <1>7 DEF Call, Calls
    <3>. HIDE DEF w
    <3>4. /\ Len(v) = Len(stack) + 1 /\ v[Len(stack) + 1] = w /\ Front(v) = stack
          /\ Nested(v)
      BY <1>5, <1>9, <3>3, AppendFacts, DueOpen
    <3>. HIDE DEF v
    <3>5. Len(v) >= 2 /\ v[Len(v)].node = n + 1 /\ root \in 1..Len(ns)
      BY <1>1, <1>2, <1>5, <2>2, <3>3, <3>4
    <3>6. ns[v[Len(v)].node].kind # "mapping"
      BY <1>2, <1>3, <3>1, <3>5
    <3> DEFINE ms == Attached(ns, stack[Len(stack)].node, n + 1)
    <3>7. Path(ms, root, Advanced(stack)) /\ Tree(ms, root, Advanced(stack))
      <4>1. LET ms2 == Attached(ns, stack[Len(stack)].node, v[Len(v)].node)
            IN  Path(ms2, root, Advanced(stack)) /\ Tree(ms2, root, Advanced(stack))
        BY <1>2, <3>2, <3>4, <3>5, <3>6, TreeReturn
      <4>. QED
        BY <3>5, <4>1
    <3>8. nodes' = ms /\ stack' = Advanced(stack) /\ outcome' = outcome
      BY <1>9, <3>1 DEF Deliver, Attached, Advanced
    <3>9. stack' # <<>>
      <4>1. Len(Advanced(stack)) = Len(stack)
        BY <1>5, <1>9, DueAdvance
      <4>. QED
        BY <2>2, <3>8, <4>1, <1>5
    <3>. QED
      BY <1>4, <3>7, <3>8, <3>9
  <2>. QED
    BY <1>6, <2>4, <2>5
<1>. QED
  BY <1>8, <1>9

\* A value is a whole document, with every node that was read in its place.
THEOREM ValuesAreWhole == Spec => []WholeDocument
<1> DEFINE Whole == Building /\ WholeDocument
<1>1. Init => Whole
  BY DEF Init, Building, Running, WholeDocument
<1>2. InStep /\ Whole /\ [Next]_vars => Whole'
  <2>. SUFFICES ASSUME InStep, Whole, [Next]_vars
                PROVE  Whole'
    OBVIOUS
  <2>1. Typed /\ Synced /\ Final /\ Shaped /\ NodeTable(nodes)
    BY DEF InStep, Typed
  <2>2. CASE UNCHANGED vars
    <3>1. Building'
      BY <2>2 DEF vars, Building, Running, Fresh
    <3>2. WholeDocument'
      <4>1. outcome = "value" /\ last # "late" => WholeAt(nodes, root)
        BY DEF WholeDocument, WholeAt, Parents, Times
      <4>2. outcome' = "value" /\ last' # "late" => WholeAt(nodes', root')
        BY <2>2, <4>1 DEF vars
      <4>. QED
        BY <4>2 DEF WholeDocument, WholeAt, Parents, Times
    <3>. QED
      BY <3>1, <3>2
  <2>3. CASE Quiet
    <3>1. WholeDocument'
      BY <2>3 DEF Quiet, WholeDocument
    <3>2. Building'
      BY <2>3 DEF Quiet, Building, Running, Fresh
    <3>. QED
      BY <3>1, <3>2
  <2>4. CASE last = "late" /\ last' = last
    BY <2>4 DEF Building, WholeDocument
  <2>5. CASE \E kind \in Kinds : \E target : Creates(kind, target) /\ last' = last
    <3>1. CASE last # "late"
      <4>1. /\ outcome' = "running" /\ stack' # <<>>
            /\ Path(nodes', root', stack') /\ Tree(nodes', root', stack')
        BY <2>1, <2>5, <3>1, BuildingCreation
      <4>. QED
        BY <4>1 DEF Building, WholeDocument
    <3>. QED
      BY <2>4, <2>5, <3>1
  <2>6. CASE Close
    <3>1. /\ Peeked /\ stack # <<>> /\ TopCall.step \in {"end", "entry", "key"}
          /\ stack \in Seq(Calls) /\ Nested(stack) /\ Len(stack) \in Nat \ {0}
          /\ TopCall = stack[Len(stack)]
          /\ Deliver(TopCall.node, nodes, Callers) /\ root' = root /\ last' = last
          /\ Callers \in Seq(Calls) /\ Nested(Callers) /\ Len(Callers) = Len(stack) - 1
          /\ Callers # <<>> => Callers[Len(Callers)].step # "end"
      BY <2>1, <2>6, Return
    <3>2. CASE last # "late"
      <4>1. Path(nodes, root, stack) /\ Tree(nodes, root, stack) /\ outcome = "running"
        BY <3>1, <3>2 DEF Building, Peeked, Running
      <4>2. root \in 1..Len(nodes)
        <5>1. 1 \in 1..Len(stack)
          BY <3>1
        <5>. QED
          BY <4>1, <5>1 DEF Path
      <4>3. CASE Len(stack) = 1
        <5>1. Callers = <<>>
          BY <3>1, <4>3
        <5>2. nodes' = nodes /\ stack' = <<>> /\ outcome' = "value"
          BY <3>1, <5>1 DEF Deliver
        <5>3. stack[1].step = "end"
          BY <3>1, <4>1, <4>3 DEF Path
        <5>4. WholeDocument'
          <6>1. WholeAt(nodes, root)
            BY <2>1, <4>1, <4>2, <4>3, <5>3, WholeTree
          <6>2. WholeAt(nodes', root')
            BY <3>1, <5>2, <6>1
          <6>. QED
            BY <6>2 DEF WholeDocument, WholeAt, Parents, Times
        <5>. QED
          BY <5>2, <5>4 DEF Building, Running
      <4>4. CASE Len(stack) >= 2
        <5>1. Callers = Front(stack) /\ Callers # <<>>
          BY <3>1, <4>4, DueClose DEF Callers, Front
        <5>2. nodes' = Attached(nodes, Callers[Len(Callers)].node, TopCall.node)
              /\ stack' = Advanced(Callers) /\ outcome' = "running"
          BY <3>1, <4>1, <5>1 DEF Deliver, Attached, Advanced
        <5>3. nodes[TopCall.node].kind = "mapping" => TopCall.step = "key"
          <6>1. Len(stack) \in 1..Len(stack)
            BY <3>1
          <6>2. nodes[TopCall.node].kind = "mapping" => TopCall.step \in {"key", "value"}
            BY <3>1, <4>1, <6>1, Zenon DEF Path
          <6>. QED
            BY <3>1, <6>2
        <5>4. Path(nodes', root, stack') /\ Tree(nodes', root, stack')
          BY <2>1, <3>1, <4>1, <4>2, <4>4, <5>1, <5>2, <5>3, TreeReturn
        <5>5. stack' # <<>>
          <6>1. Len(Advanced(Callers)) = Len(Callers)
            BY <3>1, <5>1, DueAdvance
          <6>2. Len(<<>>) = 0 /\ Len(Callers) # 0
            BY <3>1, <5>1
          <6>. QED
            BY <5>2, <6>1, <6>2
        <5>. QED
          BY <3>1, <5>2, <5>4, <5>5 DEF Building, WholeDocument
      <4>5. Len(stack) = 1 \/ Len(stack) >= 2
        <5>1. \A k \in Nat \ {0} : k = 1 \/ k >= 2
          OBVIOUS
        <5>. QED
          BY <3>1, <5>1
      <4>. QED
        BY <4>3, <4>4, <4>5
    <3>. QED
      BY <2>4, <3>1, <3>2
  <2>. QED
    BY <2>1, <2>2, <2>3, <2>5, <2>6, NodeSteps
<1>. QED
  BY <1>1, <1>2, AlwaysInStep, PTL DEF Spec
=============================================================================
