--------------------------- MODULE Decoder_proofs ---------------------------
(***************************************************************************)
(* Proofs about Decoder, for any keys, struct types and bounds.             *)
(*                                                                         *)
(* The set of aliases and the stack of calls agree, also when an            *)
(* unmarshaler has swallowed the failure of a call in the middle of the     *)
(* recursion.  What a call names exists, as the tree grows under the calls  *)
(* and merges drop the sets they have made.  A mapping gets one origin,     *)
(* whatever decodes it.                                                     *)
(***************************************************************************)
EXTENDS Decoder, SequenceTheorems, FiniteSetTheorems, WellFoundedInduction, TLAPS

-----------------------------------------------------------------------------
(* Sequences of calls                                                        *)

IsSequence(s) == \E S : s \in Seq(S)

\* What a call leaves when it returns.
LEMMA FrontFacts ==
  ASSUME NEW s, IsSequence(s), s # <<>>
  PROVE  /\ IsSequence(Front(s)) /\ DOMAIN s = 1..Len(s) /\ Len(s) \in Nat \ {0}
         /\ Len(Front(s)) = Len(s) - 1 /\ DOMAIN Front(s) = 1..Len(s) - 1
         /\ \A i \in 1..Len(s) - 1 : Front(s)[i] = s[i]
<1>1. PICK S : s \in Seq(S)
  BY DEF IsSequence
<1>2. Len(s) \in Nat \ {0} /\ DOMAIN s = 1..Len(s)
  BY <1>1
<1>. DEFINE n == Len(s) - 1
<1>3. n \in Nat /\ n \in Int /\ 1 \in Int /\ \A i \in 1..n : s[i] \in S
  BY <1>1, <1>2
<1>. HIDE DEF n
<1>4. /\ SubSeq(s, 1, n) \in Seq(S)
      /\ Len(SubSeq(s, 1, n)) = IF 1 <= n THEN n - 1 + 1 ELSE 0
  BY <1>3, SubSeqProperties
<1>5. Len(SubSeq(s, 1, n)) = n
  BY <1>3, <1>4
<1>6. \A i \in 1..n : SubSeq(s, 1, n)[i] = s[i]
  BY <1>1, <1>2, <1>3 DEF n
<1>7. DOMAIN SubSeq(s, 1, n) = 1..n
  BY <1>4, <1>5
<1>8. Front(s) = SubSeq(s, 1, n)
  BY DEF n, Front
<1>. QED
  BY <1>2, <1>4, <1>5, <1>6, <1>7, <1>8 DEF n, IsSequence

\* What a call finds when it has been made.
LEMMA AppendFacts ==
  ASSUME NEW s, IsSequence(s), NEW x
  PROVE  /\ IsSequence(Append(s, x)) /\ DOMAIN s = 1..Len(s) /\ Len(s) \in Nat
         /\ Len(Append(s, x)) = Len(s) + 1 /\ DOMAIN Append(s, x) = 1..Len(s) + 1
         /\ Append(s, x) # <<>>
         /\ \A i \in 1..Len(s) : Append(s, x)[i] = s[i]
         /\ Append(s, x)[Len(s) + 1] = x
<1>1. PICK S : s \in Seq(S)
  BY DEF IsSequence
<1>. DEFINE T == S \cup {x}
<1>2. s \in Seq(T) /\ x \in T
  BY <1>1, SeqMonotonic
<1>. HIDE DEF T
<1>3. Append(s, x) \in Seq(T)
  BY <1>2, AppendProperties
<1>. QED
  BY <1>2, <1>3, AppendProperties DEF IsSequence

\* What is left when a failure has unwound the calls behind l.
LEMMA PrefixFacts ==
  ASSUME NEW s, IsSequence(s), NEW l \in DOMAIN s
  PROVE  /\ IsSequence(SubSeq(s, 1, l)) /\ DOMAIN SubSeq(s, 1, l) = 1..l
         /\ l \in Nat \ {0} /\ DOMAIN s = 1..Len(s) /\ Len(s) \in Nat
         /\ \A i \in 1..l : SubSeq(s, 1, l)[i] = s[i]
<1>1. PICK S : s \in Seq(S)
  BY DEF IsSequence
<1>2. l \in Nat \ {0} /\ l \in Int /\ 1 \in Int /\ DOMAIN s = 1..Len(s) /\ Len(s) \in Nat
  BY <1>1
<1>3. \A i \in 1..l : s[i] \in S
  BY <1>1, <1>2
<1>4. /\ SubSeq(s, 1, l) \in Seq(S)
      /\ Len(SubSeq(s, 1, l)) = IF 1 <= l THEN l - 1 + 1 ELSE 0
  BY <1>2, <1>3, SubSeqProperties
<1>5. DOMAIN SubSeq(s, 1, l) = 1..l
  BY <1>2, <1>4
<1>6. \A i \in 1..l : SubSeq(s, 1, l)[i] = s[i]
  BY <1>1, <1>2, <1>3
<1>. QED
  BY <1>2, <1>4, <1>5, <1>6 DEF IsSequence

\* A function on 1..n is a sequence.
LEMMA FunctionFacts ==
  ASSUME NEW n \in Nat, NEW f, f = [i \in 1..n |-> f[i]]
  PROVE  IsSequence(f) /\ DOMAIN f = 1..n /\ Len(f) = n
<1>. DEFINE S == {f[i] : i \in 1..n}
<1>1. f \in [1..n -> S]
  OBVIOUS
<1>. HIDE DEF S
<1>2. f \in Seq(S)
  BY <1>1, SeqDef
<1>. QED
  BY <1>1, <1>2 DEF IsSequence

-----------------------------------------------------------------------------
(* Stacks of calls                                                           *)

\* A call is a record with its operation, that of an alias with its node; merge's
\* lies on its mapping's.
Calls(s) ==
  /\ IsSequence(s)
  /\ \A l \in DOMAIN s :
       /\ "op" \in DOMAIN s[l]
       /\ s[l].op = "alias" => "node" \in DOMAIN s[l]
       /\ s[l].op = "merge" => l > 1 /\ s[l - 1].op = "mapping"

AliasesOf(s) == {l \in DOMAIN s : s[l].op = "alias"}

\* The aliases being decoded in t are some of those in s, or the same.
Kept(s, t) ==
  /\ Calls(t)
  /\ AliasesOf(t) \subseteq AliasesOf(s)
  /\ \A l \in AliasesOf(t) : t[l].node = s[l].node
Same(s, t) == Kept(s, t) /\ AliasesOf(s) \subseteq AliasesOf(t)

\* A call other than of an alias returns.
LEMMA ReturnSame ==
  ASSUME NEW s, Calls(s), s # <<>>
  PROVE  /\ Kept(s, Front(s))
         /\ Last(s).op # "alias" => Same(s, Front(s))
<1>1. /\ IsSequence(Front(s)) /\ DOMAIN s = 1..Len(s) /\ Len(s) \in Nat \ {0}
      /\ DOMAIN Front(s) = 1..Len(s) - 1
      /\ \A i \in 1..Len(s) - 1 : Front(s)[i] = s[i]
  BY FrontFacts DEF Calls
<1>2. Calls(Front(s))
  BY <1>1 DEF Calls
<1>3. Kept(s, Front(s))
  BY <1>1, <1>2 DEF Kept, AliasesOf
<1>4. ASSUME Last(s).op # "alias"
      PROVE  AliasesOf(s) \subseteq AliasesOf(Front(s))
  BY <1>1, <1>4 DEF AliasesOf, Last
<1>. QED
  BY <1>3, <1>4 DEF Same

\* A call is made of anything but an alias.
LEMMA CallSame ==
  ASSUME NEW s, Calls(s), NEW f, "op" \in DOMAIN f, f.op # "alias",
         f.op = "merge" => s # <<>> /\ Last(s).op = "mapping"
  PROVE  /\ Same(s, Append(s, f)) /\ Append(s, f) # <<>>
         /\ Last(Append(s, f)) = f
<1>. DEFINE t == Append(s, f)
<1>1. /\ IsSequence(t) /\ DOMAIN s = 1..Len(s) /\ Len(s) \in Nat
      /\ Len(t) = Len(s) + 1 /\ DOMAIN t = 1..Len(s) + 1 /\ t # <<>>
      /\ \A i \in 1..Len(s) : t[i] = s[i]
      /\ t[Len(s) + 1] = f
  BY AppendFacts DEF Calls
<1>. HIDE DEF t
<1>2. f.op = "merge" => Len(s) > 0 /\ s[Len(s)].op = "mapping"
  <2>1. s # <<>> => Len(s) > 0
    BY FrontFacts DEF Calls
  <2>. QED
    BY <2>1 DEF Last
<1>3. Calls(t)
  <2>1. ASSUME NEW l \in DOMAIN t
        PROVE  /\ "op" \in DOMAIN t[l]
               /\ t[l].op = "alias" => "node" \in DOMAIN t[l]
               /\ t[l].op = "merge" => l > 1 /\ t[l - 1].op = "mapping"
    <3>1. CASE l = Len(s) + 1
      BY <1>1, <1>2, <3>1
    <3>2. CASE l \in 1..Len(s)
      <4>1. /\ "op" \in DOMAIN s[l]
            /\ s[l].op = "alias" => "node" \in DOMAIN s[l]
            /\ s[l].op = "merge" => l > 1 /\ s[l - 1].op = "mapping"
        BY <1>1, <3>2 DEF Calls
      <4>2. l > 1 => l - 1 \in 1..Len(s)
        BY <1>1, <3>2
      <4>. QED
        BY <1>1, <3>2, <4>1, <4>2
    <3>. QED
      BY <1>1, <3>1, <3>2
  <2>. QED
    BY <1>1, <2>1 DEF Calls
<1>4. AliasesOf(t) = AliasesOf(s) /\ \A l \in AliasesOf(t) : t[l].node = s[l].node
  BY <1>1 DEF AliasesOf
<1>. QED
  BY <1>1, <1>3, <1>4 DEF Same, Kept, Last, t

\* The innermost call goes on as f.
LEMMA ReplaceSame ==
  ASSUME NEW s, Calls(s), s # <<>>, Last(s).op # "alias",
         NEW f, "op" \in DOMAIN f, f.op # "alias", f.op = "merge" => Last(s).op = "merge"
  PROVE  /\ Same(s, Append(Front(s), f)) /\ Append(Front(s), f) # <<>>
         /\ Last(Append(Front(s), f)) = f
<1>1. Calls(Front(s)) /\ Same(s, Front(s))
  BY ReturnSame DEF Same, Kept
<1>2. f.op = "merge" => Front(s) # <<>> /\ Last(Front(s)).op = "mapping"
  <2>1. /\ IsSequence(Front(s)) /\ DOMAIN s = 1..Len(s) /\ Len(s) \in Nat \ {0}
        /\ Len(Front(s)) = Len(s) - 1
        /\ \A i \in 1..Len(s) - 1 : Front(s)[i] = s[i]
    BY FrontFacts DEF Calls
  <2>2. Last(s).op = "merge" => Len(s) > 1 /\ s[Len(s) - 1].op = "mapping"
    <3>1. Len(s) \in DOMAIN s
      BY <2>1
    <3>. QED
      BY <3>1 DEF Last, Calls
  <2>3. Len(<<>>) = 0
    OBVIOUS
  <2>. QED
    BY <2>1, <2>2, <2>3 DEF Last
<1>3. /\ Same(Front(s), Append(Front(s), f)) /\ Append(Front(s), f) # <<>>
      /\ Last(Append(Front(s), f)) = f
  BY <1>1, <1>2, CallSame
<1>. QED
  BY <1>1, <1>3 DEF Same, Kept

\* One after the other.
LEMMA SameTransitive ==
  ASSUME NEW s, NEW t, NEW u, Same(s, t), Same(t, u)
  PROVE  Same(s, u)
BY DEF Same, Kept

\* Storing a value changes what has been filled, and no operation.
LEMMA StoreSame ==
  ASSUME Calls(stack), stack # <<>>
  PROVE  Same(stack, Store)
<1>1. DOMAIN stack = 1..Len(stack) /\ Len(stack) \in Nat
  BY FrontFacts DEF Calls
<1>2. IsSequence(Store) /\ DOMAIN Store = 1..Len(stack)
  <2>1. Store = [l \in 1..Len(stack) |-> Store[l]]
    BY <1>1 DEF Store
  <2>. QED
    BY <1>1, <2>1, FunctionFacts
<1>3. ASSUME NEW l \in DOMAIN stack
      PROVE  /\ DOMAIN Store[l] = DOMAIN stack[l]
             /\ Store[l].op = stack[l].op
             /\ "node" \in DOMAIN stack[l] => Store[l].node = stack[l].node
  <2>. DEFINE put(f) == [f EXCEPT !.out = Put(@, Entry.key, Top.node)]
              count(f) == [f EXCEPT !.i = @ + 1]
              last == IF l = Top.owner THEN count(put(stack[l])) ELSE count(stack[l])
              other == IF l = Top.owner THEN put(stack[l]) ELSE stack[l]
  <2>1. "op" \in DOMAIN stack[l]
    BY DEF Calls
  <2>2. ASSUME NEW f, "op" \in DOMAIN f
        PROVE  /\ DOMAIN put(f) = DOMAIN f /\ put(f).op = f.op
               /\ "node" \in DOMAIN f => put(f).node = f.node
    BY <2>2
  <2>3. ASSUME NEW f, "op" \in DOMAIN f
        PROVE  /\ DOMAIN count(f) = DOMAIN f /\ count(f).op = f.op
               /\ "node" \in DOMAIN f => count(f).node = f.node
    BY <2>3
  <2>4. Store[l] = IF l = Len(stack) THEN last ELSE other
    <3>1. l = Len(stack) => stack[l] = Top
      BY DEF Last, Top
    <3>. QED
      BY <3>1 DEF Store
  <2>. HIDE DEF put, count
  <2>. QED
    BY <2>1, <2>2, <2>3, <2>4
<1>4. Calls(Store)
  BY <1>1, <1>2, <1>3 DEF Calls
<1>5. AliasesOf(Store) = AliasesOf(stack)
  BY <1>1, <1>2, <1>3 DEF AliasesOf
<1>6. \A l \in AliasesOf(stack) : Store[l].node = stack[l].node
  BY <1>3 DEF AliasesOf, Calls
<1>. QED
  BY <1>4, <1>5, <1>6 DEF Same, Kept

-----------------------------------------------------------------------------
(* The invariant                                                             *)

\* The aliases being decoded are in d.aliases: it may hold others, that a failure
\* has left behind.
AliasesKnown == \A l \in AliasesOf(stack) : stack[l].node \in aliases

\* Nothing is being decoded before Decode is called and after it has returned.
Idle ==
  /\ ~Running => stack = <<>>
  /\ outcome = "none" => aliases = {} /\ aliasDepth = 0

\* The depth counts them, and may count more, unless a failure that an unmarshaler
\* swallowed has left it at 0.
Covered ==
  /\ aliasDepth \in Int
  /\ "zeroed" \notin departed => Cardinality(AliasesOf(stack)) <= aliasDepth

AliasInv ==
  Calls(stack) /\ AliasesKnown /\ AliasEnteredOnce /\ AliasesExact /\ Covered /\ Idle

\* No call is active on an empty stack: it has no aliases, and its shape is right.
LEMMA NoAliases == AliasesOf(<<>>) = {} /\ Calls(<<>>) /\ Cardinality(AliasesOf(<<>>)) = 0
<1>1. <<>> \in Seq({}) /\ DOMAIN <<>> = {}
  OBVIOUS
<1>. QED
  BY <1>1, FS_EmptySet DEF AliasesOf, Calls, IsSequence

\* A step that decodes the same aliases before and after.
LEMMA SameStep ==
  ASSUME AliasInv, Running, Running', Same(stack, stack'),
         UNCHANGED <<aliases, aliasDepth>>, departed \subseteq departed'
  PROVE  AliasInv'
<1>1. Calls(stack') /\ AliasesOf(stack') = AliasesOf(stack)
      /\ \A l \in AliasesOf(stack) : stack'[l].node = stack[l].node
  BY DEF Same, Kept
<1>2. AliasCalls = AliasesOf(stack) /\ AliasCalls' = AliasesOf(stack')
  BY DEF AliasCalls, AliasesOf
<1>3. AliasesKnown'
  BY <1>1 DEF AliasInv, AliasesKnown
<1>4. AliasEnteredOnce'
  BY <1>1, <1>2 DEF AliasInv, AliasEnteredOnce
<1>5. AliasesExact'
  <2>1. {stack'[l].node : l \in AliasCalls'} = {stack[l].node : l \in AliasCalls}
    BY <1>1, <1>2
  <2>. QED
    BY <1>1, <1>2, <2>1 DEF AliasInv, AliasesExact
<1>6. Idle'
  BY DEF Idle, Running
<1>7. Covered'
  BY <1>1 DEF AliasInv, Covered
<1>. QED
  BY <1>1, <1>3, <1>4, <1>5, <1>6, <1>7 DEF AliasInv

\* A stack has finitely many aliases, so that their number is a natural number.
LEMMA AliasesFinite ==
  ASSUME NEW s, Calls(s)
  PROVE  IsFiniteSet(AliasesOf(s))
<1>1. DOMAIN s = 1..Len(s) /\ Len(s) \in Nat
  <2>1. PICK S : s \in Seq(S)
    BY DEF Calls, IsSequence
  <2>. QED
    BY <2>1
<1>2. IsFiniteSet(1..Len(s))
  BY <1>1, FS_Interval
<1>. QED
  BY <1>1, <1>2, FS_Subset DEF AliasesOf

\* A failure unwinds to an unmarshaler's function, or to Decode.
LEMMA FailStep ==
  ASSUME AliasInv, Running, NEW frames, Kept(stack, frames), NEW left, Panic(frames, left),
         UNCHANGED aliases, aliasDepth' = aliasDepth \/ (aliasDepth' = 0 /\ "zeroed" \in left)
  PROVE  AliasInv'
<1>1. CASE stack' = <<>> /\ outcome' = "error" /\ UNCHANGED departed
  <2>1. AliasesOf(stack') = {} /\ Calls(stack') /\ AliasCalls' = {}
    BY <1>1, NoAliases DEF AliasesOf, AliasCalls
  <2>2. Idle' /\ ~Running'
    BY <1>1 DEF Idle, Running
  <2>3. Covered'
    <3>1. Cardinality(AliasesOf(stack)) \in Nat
      BY AliasesFinite, FS_CardinalityType DEF AliasInv
    <3>. QED
      BY <1>1, <3>1, NoAliases DEF AliasInv, Covered
  <2>. QED
    BY <2>1, <2>2, <2>3 DEF AliasInv, AliasesKnown, AliasEnteredOnce, AliasesExact
<1>2. ASSUME NEW l \in DOMAIN frames,
             stack' = SubSeq(frames, 1, l),
             departed' = departed \cup {"recovered"} \cup left, UNCHANGED outcome
      PROVE  AliasInv'
  <2>1. Calls(frames)
    BY DEF Kept
  <2>2. /\ IsSequence(stack') /\ DOMAIN stack' = 1..l /\ l \in Nat \ {0}
        /\ DOMAIN frames = 1..Len(frames) /\ Len(frames) \in Nat
        /\ \A i \in 1..l : stack'[i] = frames[i]
    BY <1>2, <2>1, PrefixFacts DEF Calls
  <2>3. \A i \in 1..l : i \in DOMAIN frames
    BY <1>2, <2>2
  <2>4. Calls(stack')
    BY <2>1, <2>2, <2>3 DEF Calls
  <2>5. AliasesOf(stack') \subseteq AliasesOf(stack)
        /\ \A i \in AliasesOf(stack') : stack'[i].node = stack[i].node
    BY <2>2, <2>3 DEF Kept, AliasesOf
  <2>6. AliasCalls = AliasesOf(stack) /\ AliasCalls' = AliasesOf(stack')
    BY DEF AliasCalls, AliasesOf
  <2>7. AliasesKnown'
    BY <2>5 DEF AliasInv, AliasesKnown
  <2>8. AliasEnteredOnce'
    BY <2>5, <2>6 DEF AliasInv, AliasEnteredOnce
  <2>9. AliasesExact' /\ Idle'
    BY <1>2 DEF AliasesExact, Idle, Running
  <2>10. Covered'
    <3>1. IsFiniteSet(AliasesOf(stack))
      BY AliasesFinite DEF AliasInv
    <3>2. /\ IsFiniteSet(AliasesOf(stack'))
          /\ Cardinality(AliasesOf(stack')) <= Cardinality(AliasesOf(stack))
      BY <2>5, <3>1, FS_Subset
    <3>3. Cardinality(AliasesOf(stack')) \in Nat /\ Cardinality(AliasesOf(stack)) \in Nat
      BY <3>1, <3>2, FS_CardinalityType
    <3>4. aliasDepth' = aliasDepth \/ (aliasDepth' = 0 /\ "zeroed" \in departed')
      BY <1>2
    <3>5. departed \subseteq departed'
      BY <1>2
    <3>. QED
      BY <3>2, <3>3, <3>4, <3>5 DEF AliasInv, Covered
  <2>. QED
    BY <2>4, <2>7, <2>8, <2>9, <2>10 DEF AliasInv
<1>. QED
  BY <1>1, <1>2 DEF Panic

\* An alias that is not being decoded is entered.
LEMMA EnterStep ==
  ASSUME AliasInv, DecodeAlias
  PROVE  AliasInv'
<1>. DEFINE n == Len(stack)
            a == [op |-> "alias", node |-> Top.node]
            u == Unmarshal(nodes[Top.node].target, Top.into)
            f == Append(Front(stack), a)
<1>1. /\ Running /\ stack # <<>> /\ Top.op = "unmarshal" /\ Top.node \notin aliases
      /\ stack' = Append(f, u)
      /\ aliases' = aliases \cup {Top.node} /\ aliasDepth' = aliasDepth + 1
      /\ UNCHANGED <<outcome, departed>>
  BY DEF DecodeAlias, AtKind, AtCall, Replace
<1>2. /\ a.op = "alias" /\ a.node = Top.node /\ DOMAIN a = {"op", "node"}
      /\ u.op = "unmarshal" /\ "op" \in DOMAIN u
  BY DEF Unmarshal
<1>3. Calls(stack) /\ IsSequence(stack)
  BY DEF AliasInv, Calls
<1>. HIDE DEF a, u
<1>4. /\ DOMAIN stack = 1..n /\ n \in Nat \ {0} /\ stack[n] = Top
      /\ IsSequence(Front(stack)) /\ Len(Front(stack)) = n - 1
      /\ \A i \in 1..n - 1 : Front(stack)[i] = stack[i]
  BY <1>1, <1>3, FrontFacts DEF Top, Last
<1>5. /\ IsSequence(f) /\ Len(f) = n /\ f[n] = a
      /\ \A i \in 1..n - 1 : f[i] = stack[i]
  <2>. DEFINE g == Front(stack)
  <2>1. IsSequence(g) /\ Len(g) = n - 1 /\ \A i \in 1..n - 1 : g[i] = stack[i]
    BY <1>4
  <2>. HIDE DEF g
  <2>2. LET h == Append(g, a) IN
        /\ IsSequence(h) /\ Len(h) = Len(g) + 1
        /\ \A i \in 1..Len(g) : h[i] = g[i]
        /\ h[Len(g) + 1] = a
    BY <2>1, AppendFacts
  <2>3. f = Append(g, a)
    BY DEF g
  <2>. HIDE DEF f, n
  <2>. QED
    BY <1>4, <2>1, <2>2, <2>3
<1>. HIDE DEF f
<1>6. /\ IsSequence(stack') /\ DOMAIN stack' = 1..n + 1
      /\ stack'[n] = a /\ stack'[n + 1] = u
      /\ \A i \in 1..n - 1 : stack'[i] = stack[i]
  <2>1. /\ IsSequence(stack') /\ DOMAIN stack' = 1..Len(f) + 1
        /\ \A i \in 1..Len(f) : stack'[i] = f[i]
        /\ stack'[Len(f) + 1] = u
    BY <1>1, <1>5, AppendFacts
  <2>. QED
    BY <1>4, <1>5, <2>1
<1>. HIDE DEF n
<1>7. Calls(stack')
  <2>1. ASSUME NEW l \in 1..n + 1
        PROVE  /\ "op" \in DOMAIN stack'[l]
               /\ stack'[l].op = "alias" => "node" \in DOMAIN stack'[l]
               /\ stack'[l].op = "merge" => l > 1 /\ stack'[l - 1].op = "mapping"
    <3>1. CASE l \in {n, n + 1}
      BY <1>2, <1>4, <1>6, <3>1
    <3>2. CASE l \in 1..n - 1
      <4>1. stack'[l] = stack[l] /\ l \in DOMAIN stack /\ (l > 1 => l - 1 \in 1..n - 1)
        BY <1>4, <1>6, <3>2
      <4>. QED
        BY <1>3, <1>6, <4>1 DEF Calls
    <3>. QED
      BY <1>4, <3>1, <3>2
  <2>. QED
    BY <1>6, <2>1 DEF Calls
<1>8. /\ AliasesOf(stack') = AliasesOf(stack) \cup {n}
      /\ n \notin AliasesOf(stack)
      /\ \A l \in AliasesOf(stack) : stack'[l].node = stack[l].node
      /\ stack'[n].node = Top.node
  BY <1>1, <1>2, <1>4, <1>6 DEF AliasesOf
<1>9. AliasCalls = AliasesOf(stack) /\ AliasCalls' = AliasesOf(stack')
  BY DEF AliasCalls, AliasesOf
<1>10. AliasesKnown'
  BY <1>1, <1>8 DEF AliasInv, AliasesKnown
<1>11. AliasEnteredOnce'
  <2>1. \A l \in AliasesOf(stack) : stack[l].node # Top.node
    BY <1>1 DEF AliasInv, AliasesKnown
  <2>. QED
    BY <1>8, <1>9, <2>1 DEF AliasInv, AliasEnteredOnce
<1>12. AliasesExact'
  <2>1. SUFFICES ASSUME "recovered" \notin departed
                 PROVE  /\ aliases' = {stack'[l].node : l \in AliasCalls'}
                        /\ aliasDepth' = Cardinality(AliasCalls')
    BY <1>1 DEF AliasesExact
  <2>2. aliases = {stack[l].node : l \in AliasCalls} /\ aliasDepth = Cardinality(AliasCalls)
    BY <1>1, <2>1 DEF AliasInv, AliasesExact
  <2>3. {stack'[l].node : l \in AliasCalls'} = {stack[l].node : l \in AliasCalls} \cup {Top.node}
    BY <1>8, <1>9
  <2>4. Cardinality(AliasesOf(stack) \cup {n}) = Cardinality(AliasesOf(stack)) + 1
    BY <1>3, <1>8, AliasesFinite, FS_AddElement
  <2>. QED
    BY <1>1, <1>8, <1>9, <2>2, <2>3, <2>4
<1>13. Idle'
  BY <1>1 DEF Idle, Running
<1>14. Covered'
  <2>1. IsFiniteSet(AliasesOf(stack)) /\ Cardinality(AliasesOf(stack)) \in Nat
    BY <1>3, AliasesFinite, FS_CardinalityType
  <2>2. Cardinality(AliasesOf(stack')) = Cardinality(AliasesOf(stack)) + 1
    BY <1>8, <2>1, FS_AddElement
  <2>. QED
    BY <1>1, <2>1, <2>2 DEF AliasInv, Covered
<1>. QED
  BY <1>7, <1>10, <1>11, <1>12, <1>13, <1>14 DEF AliasInv

\* The innermost alias has been decoded.
LEMMA LeaveStep ==
  ASSUME AliasInv, AliasReturns
  PROVE  AliasInv'
<1>. DEFINE n == Len(stack)
<1>1. /\ Running /\ stack # <<>> /\ Top.op = "alias"
      /\ stack' = Front(stack)
      /\ aliases' = aliases \ {Top.node} /\ aliasDepth' = aliasDepth - 1
      /\ UNCHANGED <<outcome, departed>>
  BY DEF AliasReturns, In, Return
<1>2. Calls(stack) /\ IsSequence(stack) /\ Calls(stack')
  BY <1>1, ReturnSame DEF AliasInv, Calls, Kept
<1>3. /\ DOMAIN stack = 1..n /\ n \in Nat \ {0} /\ stack[n] = Top
      /\ DOMAIN stack' = 1..n - 1
      /\ \A i \in 1..n - 1 : stack'[i] = stack[i]
  BY <1>1, <1>2, FrontFacts DEF Top, Last
<1>. HIDE DEF n
<1>4. /\ AliasesOf(stack') = AliasesOf(stack) \ {n}
      /\ n \in AliasesOf(stack)
      /\ \A l \in AliasesOf(stack') : stack'[l].node = stack[l].node
      /\ stack[n].node = Top.node
  BY <1>1, <1>3 DEF AliasesOf
<1>5. AliasCalls = AliasesOf(stack) /\ AliasCalls' = AliasesOf(stack')
  BY DEF AliasCalls, AliasesOf
<1>6. \A l \in AliasesOf(stack) \ {n} : stack[l].node # Top.node
  BY <1>4, <1>5 DEF AliasInv, AliasEnteredOnce
<1>7. AliasesKnown'
  BY <1>1, <1>4, <1>6 DEF AliasInv, AliasesKnown
<1>8. AliasEnteredOnce'
  BY <1>4, <1>5 DEF AliasInv, AliasEnteredOnce
<1>9. AliasesExact'
  <2>1. SUFFICES ASSUME "recovered" \notin departed
                 PROVE  /\ aliases' = {stack'[l].node : l \in AliasCalls'}
                        /\ aliasDepth' = Cardinality(AliasCalls')
    BY <1>1 DEF AliasesExact
  <2>2. aliases = {stack[l].node : l \in AliasCalls} /\ aliasDepth = Cardinality(AliasCalls)
    BY <1>1, <2>1 DEF AliasInv, AliasesExact
  <2>3. {stack'[l].node : l \in AliasCalls'} = {stack[l].node : l \in AliasCalls} \ {Top.node}
    BY <1>4, <1>5, <1>6
  <2>4. Cardinality(AliasesOf(stack) \ {n}) = Cardinality(AliasesOf(stack)) - 1
    BY <1>2, <1>4, AliasesFinite, FS_RemoveElement
  <2>. QED
    BY <1>1, <1>4, <1>5, <2>2, <2>3, <2>4
<1>10. Idle'
  BY <1>1 DEF Idle, Running
<1>11. Covered'
  <2>1. IsFiniteSet(AliasesOf(stack)) /\ Cardinality(AliasesOf(stack)) \in Nat
    BY <1>2, AliasesFinite, FS_CardinalityType
  <2>2. /\ IsFiniteSet(AliasesOf(stack'))
        /\ Cardinality(AliasesOf(stack')) = Cardinality(AliasesOf(stack)) - 1
    BY <1>4, <2>1, FS_RemoveElement
  <2>3. Cardinality(AliasesOf(stack')) \in Nat
    BY <2>2, FS_CardinalityType
  <2>. QED
    BY <1>1, <2>1, <2>2, <2>3 DEF AliasInv, Covered
<1>. QED
  BY <1>2, <1>7, <1>8, <1>9, <1>10, <1>11 DEF AliasInv

-----------------------------------------------------------------------------
(* The steps                                                                 *)

\* The call on top of a stack that is not empty says which method runs.
LEMMA TopFacts ==
  ASSUME Calls(stack), stack # <<>>
  PROVE  "op" \in DOMAIN Top
<1>1. Len(stack) \in DOMAIN stack
  BY FrontFacts DEF Calls
<1>. QED
  BY <1>1 DEF Calls, Top, Last

\* The innermost call goes on, or makes a call as it does.
LEMMA ReplaceStack ==
  ASSUME Calls(stack), stack # <<>>, Top.op # "alias",
         NEW f, "op" \in DOMAIN f, f.op # "alias", f.op = "merge" => Top.op = "merge"
  PROVE  /\ Same(stack, Replace(f))
         /\ \A n, into : Same(stack, Append(Replace(f), Unmarshal(n, into)))
<1>1. Same(stack, Replace(f)) /\ Calls(Replace(f))
  BY ReplaceSame DEF Replace, Top, Same, Kept
<1>2. ASSUME NEW n, NEW into
      PROVE  Same(Replace(f), Append(Replace(f), Unmarshal(n, into)))
  <2>1. "op" \in DOMAIN Unmarshal(n, into) /\ Unmarshal(n, into).op = "unmarshal"
    BY DEF Unmarshal
  <2>. QED
    BY <1>1, <2>1, CallSame
<1>. QED
  BY <1>1, <1>2, SameTransitive

\* It makes a call and stays as it is.
LEMMA CallStack ==
  ASSUME Calls(stack), NEW n, NEW into
  PROVE  Same(stack, Append(stack, Unmarshal(n, into)))
<1>1. "op" \in DOMAIN Unmarshal(n, into) /\ Unmarshal(n, into).op = "unmarshal"
  BY DEF Unmarshal
<1>. QED
  BY <1>1, CallSame

\* A call that counts on changes no operation.
LEMMA Counted ==
  ASSUME Calls(stack), stack # <<>>, Top.op # "alias"
  PROVE  /\ Same(stack, Advance)
         /\ \A n, into : Same(stack, Append(Advance, Unmarshal(n, into)))
<1>. DEFINE f == [Top EXCEPT !.i = @ + 1]
<1>1. "op" \in DOMAIN f /\ f.op = Top.op
  BY TopFacts
<1>2. Advance = Replace(f)
  BY DEF Advance
<1>. HIDE DEF f
<1>. QED
  BY <1>1, <1>2, ReplaceStack

\* The decoder starts without calls, aliases and depth.
LEMMA AliasInit ==
  ASSUME Init
  PROVE  AliasInv
<1>1. AliasesOf(stack) = {} /\ Calls(stack) /\ AliasCalls = {} /\ Covered
  BY NoAliases DEF Init, AliasesOf, AliasCalls, Covered
<1>. QED
  BY <1>1 DEF Init, AliasInv, AliasesKnown, AliasEnteredOnce, AliasesExact, Idle, Running

\* Decode begins with the root of a document, in no alias.
LEMMA StartStep ==
  ASSUME AliasInv, Start
  PROVE  AliasInv'
<1>. DEFINE u == Unmarshal(1, 0)
<1>1. /\ stack = <<>> /\ aliases = {} /\ aliasDepth = 0
      /\ aliases' = {} /\ aliasDepth' = 0
      /\ stack' = Append(<<>>, u) /\ outcome' = "running"
  BY DEF Start, decoder, AliasInv, Idle, Running
<1>2. Calls(stack') /\ AliasesOf(stack') = {}
  BY <1>1, CallStack, NoAliases DEF Same, Kept
<1>3. AliasCalls' = {}
  BY <1>2 DEF AliasCalls, AliasesOf
<1>4. Cardinality({}) = 0
  BY FS_EmptySet
<1>5. Covered'
  <2>1. Cardinality(AliasesOf(stack')) <= aliasDepth' /\ aliasDepth' \in Int
    BY <1>1, <1>2, <1>4
  <2>. QED
    BY <2>1 DEF Covered
<1>6. Idle' /\ AliasesKnown' /\ AliasEnteredOnce'
  BY <1>1, <1>2, <1>3 DEF Idle, Running, AliasesKnown, AliasEnteredOnce
<1>7. AliasesExact'
  BY <1>1, <1>3, <1>4 DEF AliasesExact
<1>. QED
  BY <1>2, <1>5, <1>6, <1>7 DEF AliasInv

\* Decode returns when the stack is empty, and so are the aliases being decoded.
LEMMA FinishStep ==
  ASSUME AliasInv, Finish
  PROVE  AliasInv'
<1>1. /\ stack' = <<>> /\ ~Running' /\ outcome' # "none"
  BY DEF Finish, Running
<1>2. Calls(stack') /\ AliasesOf(stack') = {}
  BY <1>1, NoAliases
<1>3. AliasCalls' = {}
  BY <1>2 DEF AliasCalls, AliasesOf
<1>4. Covered'
  BY <1>1, NoAliases DEF Finish, decoder, AliasInv, Covered
<1>. QED
  BY <1>1, <1>2, <1>3, <1>4 DEF AliasInv, AliasesKnown, AliasEnteredOnce, AliasesExact, Idle

\* A call other than of an alias returns.
LEMMA ReturnStep ==
  ASSUME AliasInv, Running, stack # <<>>, Top.op # "alias", NEW r, Return(r),
         UNCHANGED <<aliases, aliasDepth, outcome, departed>>
  PROVE  AliasInv'
<1>1. Same(stack, stack')
  BY ReturnSame DEF Return, AliasInv, Top
<1>. QED
  BY <1>1, SameStep DEF Running

\* A failure of the innermost call.
LEMMA FailsStep ==
  ASSUME AliasInv, Running, NEW left, Panic(stack, left), UNCHANGED aliases,
         aliasDepth' = aliasDepth \/ (aliasDepth' = 0 /\ "zeroed" \in left)
  PROVE  AliasInv'
<1>1. Kept(stack, stack)
  BY DEF AliasInv, Kept
<1>. QED
  BY <1>1, FailStep

\* merge and its mapping return together.
LEMMA MergeReturnsStep ==
  ASSUME AliasInv, MergeReturns
  PROVE  AliasInv'
<1>1. /\ Running /\ stack # <<>> /\ Top.op = "merge" /\ stack' = Front(Front(stack))
      /\ UNCHANGED <<aliases, aliasDepth, outcome, departed>>
  BY DEF MergeReturns, In
<1>2. Calls(stack) /\ IsSequence(stack)
  BY DEF AliasInv, Calls
<1>3. Same(stack, Front(stack)) /\ Calls(Front(stack))
  BY <1>1, <1>2, ReturnSame DEF Top, Same, Kept
<1>4. /\ DOMAIN stack = 1..Len(stack) /\ Len(stack) \in Nat \ {0}
      /\ IsSequence(Front(stack)) /\ Len(Front(stack)) = Len(stack) - 1
      /\ \A i \in 1..Len(stack) - 1 : Front(stack)[i] = stack[i]
  BY <1>1, <1>2, FrontFacts
<1>5. Len(stack) > 1 /\ stack[Len(stack) - 1].op = "mapping"
  <2>1. Len(stack) \in DOMAIN stack /\ stack[Len(stack)].op = "merge"
    BY <1>1, <1>4 DEF Top, Last
  <2>. QED
    BY <1>2, <2>1 DEF Calls
<1>6. Front(stack) # <<>> /\ Last(Front(stack)).op = "mapping"
  <2>1. Len(<<>>) = 0
    OBVIOUS
  <2>. QED
    BY <1>4, <1>5, <2>1 DEF Last
<1>7. Same(Front(stack), Front(Front(stack)))
  BY <1>3, <1>6, ReturnSame
<1>. QED
  BY <1>1, <1>3, <1>7, SameTransitive, SameStep DEF Running

\* Each step keeps the invariant.
LEMMA NextStep ==
  ASSUME AliasInv, [Next]_vars
  PROVE  AliasInv'
<1>. USE DEF decoder
<1>1. CASE UNCHANGED vars
  BY <1>1 DEF vars, AliasInv, AliasesKnown, AliasEnteredOnce, AliasesExact, AliasCalls,
              Covered, Idle, Running
<1>2. CASE Start
  BY <1>2, StartStep
<1>3. CASE Finish
  BY <1>3, FinishStep
<1>4. CASE DecodeWhole \/ Mismatch \/ RefuseDuplicate
  <2>1. /\ Running /\ stack # <<>> /\ Top.op = "unmarshal" /\ (Return("good") \/ Return("bad"))
        /\ UNCHANGED <<aliases, aliasDepth, outcome, departed>>
    BY <1>4 DEF DecodeWhole, Mismatch, RefuseDuplicate, AtKind, AtCall
  <2>. QED
    BY <2>1, ReturnStep
<1>5. CASE Refuse \/ RefuseCycle \/ OriginFails
  <2>1. PICK left : /\ Running /\ Panic(stack, left) /\ UNCHANGED aliases
                    /\ aliasDepth' = aliasDepth \/ (aliasDepth' = 0 /\ "zeroed" \in left)
    BY <1>5 DEF Refuse, RefuseCycle, OriginFails, Fail, AtKind, AtCall, AtEntry, In
  <2>. QED
    BY <2>1, FailsStep
<1>6. CASE DecodeAlias
  BY <1>6, EnterStep
<1>7. CASE AliasReturns
  BY <1>7, LeaveStep
<1>8. CASE SequenceReturns
  <2>1. /\ Running /\ stack # <<>> /\ Top.op = "sequence" /\ Return("good")
        /\ UNCHANGED <<aliases, aliasDepth, outcome, departed>>
    BY <1>8 DEF SequenceReturns, In
  <2>. QED
    BY <2>1, ReturnStep
<1>9. CASE MappingReturns
  <2>1. /\ Running /\ stack # <<>> /\ Top.op = "mapping" /\ Return("good")
        /\ UNCHANGED <<aliases, aliasDepth, outcome, departed>>
    BY <1>9 DEF MappingReturns, AtMerge, In
  <2>. QED
    BY <2>1, ReturnStep
<1>10. CASE MergeReturns
  BY <1>10, MergeReturnsStep
<1>11. CASE UnmarshalerReturns
  <2>1. /\ Running /\ stack # <<>> /\ Top.op = "unmarshaler" /\ UNCHANGED <<aliases, aliasDepth>>
        /\ \/ (Return("good") \/ Return("bad")) /\ UNCHANGED <<outcome, departed>>
           \/ Fail(Front(stack))
    BY <1>11 DEF UnmarshalerReturns, In
  <2>2. CASE (Return("good") \/ Return("bad")) /\ UNCHANGED <<outcome, departed>>
    BY <2>1, <2>2, ReturnStep
  <2>3. CASE Fail(Front(stack))
    <3>1. Kept(stack, Front(stack))
      BY <2>1, ReturnSame DEF AliasInv
    <3>. QED
      BY <2>1, <2>3, <3>1, FailStep DEF Fail
  <2>. QED
    BY <2>1, <2>2, <2>3
<1>12. CASE MergeSource
  <2>1. /\ Running /\ stack # <<>> /\ Top.op = "merge" /\ UNCHANGED <<aliases, aliasDepth>>
        /\ \/ /\ stack' = Append(Advance, Unmarshal(Sources(nodes, Top.node)[Top.i], Top.owner))
              /\ UNCHANGED <<outcome, departed>>
           \/ Fail(stack)
    BY <1>12 DEF MergeSource, In
  <2>2. CASE Fail(stack)
    BY <2>1, <2>2, FailsStep DEF Fail
  <2>3. CASE /\ stack' = Append(Advance, Unmarshal(Sources(nodes, Top.node)[Top.i], Top.owner))
             /\ UNCHANGED <<outcome, departed>>
    <3>1. Same(stack, stack')
      BY <2>1, <2>3, Counted DEF AliasInv
    <3>. QED
      BY <2>1, <2>3, <3>1, SameStep DEF Running
  <2>. QED
    BY <2>1, <2>2, <2>3
<1>13. CASE DecodeSequence \/ DecodeMapping \/ CallUnmarshaler \/ FunctionReturns
  <2>1. /\ Running /\ Running' /\ stack # <<>> /\ Top.op \in {"unmarshal", "unmarshaler"}
        /\ UNCHANGED <<aliases, aliasDepth, departed>>
    BY <1>13 DEF DecodeSequence, DecodeMapping, CallUnmarshaler, FunctionReturns, AtKind, AtCall,
                 In, Running
  <2>2. \E f : /\ stack' = Replace(f) /\ "op" \in DOMAIN f
               /\ f.op \in {"sequence", "mapping", "unmarshaler"}
    <3>1. CASE DecodeSequence
      BY <3>1 DEF DecodeSequence
    <3>2. CASE DecodeMapping
      BY <3>2 DEF DecodeMapping
    <3>3. CASE CallUnmarshaler
      BY <3>3 DEF CallUnmarshaler
    <3>4. CASE FunctionReturns
      <4>1. "op" \in DOMAIN Top /\ Top.op = "unmarshaler"
        BY <2>1, <3>4, TopFacts DEF AliasInv, FunctionReturns, In
      <4>2. PICK r, n : stack' = Replace([Top EXCEPT !.result = r, !.issues = n])
        BY <3>4 DEF FunctionReturns
      <4>. DEFINE f == [Top EXCEPT !.result = r, !.issues = n]
      <4>3. "op" \in DOMAIN f /\ f.op = "unmarshaler"
        BY <4>1
      <4>. QED
        BY <4>2, <4>3
    <3>. QED
      BY <1>13, <3>1, <3>2, <3>3, <3>4
  <2>3. Same(stack, stack')
    BY <2>1, <2>2, ReplaceStack DEF AliasInv
  <2>. QED
    BY <2>1, <2>3, SameStep
<1>14. CASE SequenceItem \/ UnmarshalerCalls
  <2>1. /\ Running /\ Running' /\ stack # <<>> /\ Top.op \in {"sequence", "unmarshaler"}
        /\ UNCHANGED <<aliases, aliasDepth>> /\ departed \subseteq departed'
    BY <1>14 DEF SequenceItem, UnmarshalerCalls, In, Running
  <2>2. \E f, n, into : /\ stack' = Append(Replace(f), Unmarshal(n, into))
                        /\ "op" \in DOMAIN f /\ f.op = Top.op
    <3>1. "op" \in DOMAIN Top
      BY <2>1, TopFacts DEF AliasInv
    <3>2. CASE SequenceItem
      <4>1. stack' = Append(Replace([Top EXCEPT !.i = @ + 1]),
                            Unmarshal(nodes[Top.node].content[Top.i], 0))
        BY <3>2 DEF SequenceItem
      <4>. QED
        BY <3>1, <4>1
    <3>3. CASE UnmarshalerCalls
      <4>1. stack' = Append(Replace([Top EXCEPT !.calls = @ + 1]), Unmarshal(Top.node, 0))
        BY <3>3 DEF UnmarshalerCalls
      <4>. QED
        BY <3>1, <4>1
    <3>. QED
      BY <1>14, <3>2, <3>3
  <2>3. Same(stack, stack')
    BY <2>1, <2>2, ReplaceStack DEF AliasInv
  <2>. QED
    BY <2>1, <2>3, SameStep
<1>15. CASE MappingSkips \/ MappingIgnores \/ MappingOrigin \/ OriginMismatch \/ MappingStores
  <2>1. /\ Running /\ Running' /\ stack # <<>> /\ Top.op = "mapping"
        /\ UNCHANGED <<aliases, aliasDepth, departed>>
        /\ stack' \in {Advance, Store}
    BY <1>15 DEF MappingSkips, MappingIgnores, MappingOrigin, OriginMismatch, MappingStores, AtEntry,
                 In, Running
  <2>2. Same(stack, Advance) /\ Same(stack, Store)
    BY <2>1, Counted, StoreSame DEF AliasInv
  <2>. QED
    BY <2>1, <2>2, SameStep
<1>16. CASE MappingValue
  <2>1. /\ Running /\ Running' /\ stack # <<>>
        /\ UNCHANGED <<aliases, aliasDepth, departed>>
        /\ stack' = Append(stack, Unmarshal(Entry.value, 0))
    BY <1>16 DEF MappingValue, AtEntry, In, Running
  <2>2. Same(stack, stack')
    BY <2>1, CallStack DEF AliasInv
  <2>. QED
    BY <2>1, <2>2, SameStep
<1>17. CASE DecodeMerge
  <2>1. /\ Running /\ Running' /\ stack # <<>> /\ Top.op = "mapping"
        /\ UNCHANGED <<aliases, aliasDepth, departed>>
    BY <1>17 DEF DecodeMerge, AtMerge, In, Running
  <2>2. \E f : stack' = Append(stack, f) /\ "op" \in DOMAIN f /\ f.op = "merge"
    BY <1>17 DEF DecodeMerge
  <2>3. Same(stack, stack')
    BY <2>1, <2>2, CallSame DEF AliasInv, Top
  <2>. QED
    BY <2>1, <2>3, SameStep
<1>. QED
  BY <1>1, <1>2, <1>3, <1>4, <1>5, <1>6, <1>7, <1>8, <1>9, <1>10, <1>11, <1>12, <1>13, <1>14,
     <1>15, <1>16, <1>17 DEF Next

-----------------------------------------------------------------------------
\* The invariant of the aliases holds in every state.
LEMMA SpecAliasInv == Spec => []AliasInv
<1>1. Init => AliasInv
  BY AliasInit
<1>2. AliasInv /\ [Next]_vars => AliasInv'
  BY NextStep
<1>. QED
  BY <1>1, <1>2, PTL DEF Spec

\* However many calls are active, no alias is entered again while it is being
\* decoded, recovered failures included.
THEOREM AliasesAreEnteredOnce == Spec => []AliasEnteredOnce
<1>1. AliasInv => AliasEnteredOnce
  BY DEF AliasInv
<1>. QED
  BY <1>1, SpecAliasInv, PTL

\* Unless an unmarshaler has swallowed a failure, d.aliases and d.aliasDepth are
\* those of the aliases being decoded.
THEOREM AliasesAreExact == Spec => []AliasesExact
<1>1. AliasInv => AliasesExact
  BY DEF AliasInv
<1>. QED
  BY <1>1, SpecAliasInv, PTL

-----------------------------------------------------------------------------
(* The tree                                                                  *)

\* A set of numbers with 0 and the successors of its members holds all numbers.
LEMMA Induction ==
  ASSUME NEW T, 0 \in T, \A n \in Nat : n \in T => n + 1 \in T
  PROVE  Nat \subseteq T
<1> DEFINE R == OpToRel(<, Nat)
           Missing == Nat \ T
<1>1. IsWellFoundedOn(R, Nat)
  BY NatLessThanWellFounded
<1>2. \A m, n \in Nat : m < n => <<m, n>> \in R
  BY DEF OpToRel
<1>3. Missing \subseteq Nat
  OBVIOUS
<1> SUFFICES ASSUME Missing # {} PROVE FALSE
  OBVIOUS
<1> HIDE DEF R
<1>4. PICK n \in Missing : \A m \in Missing : ~ (<<m, n>> \in R)
  BY <1>1, <1>3, WFMin
<1>5. n \in Nat /\ n # 0 /\ n - 1 \in Nat /\ n - 1 < n
  OBVIOUS
<1>6. n - 1 \in T
  BY <1>2, <1>4, <1>5
<1> QED
  BY <1>5, <1>6

\* Entries of mappings and nodes of a tree of k nodes.
Entries(k) == [key : Keys \cup {Merge, Origin}, value : 0..k]
Nodes(k) ==
  {Unknown} \cup [kind : {"alias"}, target : 0..k]
            \cup [kind : {"sequence"}, content : Seq(0..k)]
            \cup [kind : {"mapping"}, content : Seq(Entries(k))]
\* All that a node names is in the tree.
Tree(ns) == ns \in Seq(Nodes(Len(ns)))

\* What is known of a node stays so.
Grows(ns, ms) ==
  /\ Tree(ms) /\ Len(ns) <= Len(ms)
  /\ \A n \in DOMAIN ns : ns[n].kind # "unknown" => ms[n].kind = ns[n].kind

\* The constants as the proofs use them.
LEMMA Bounds ==
  /\ MaxNodes \in Nat /\ MaxNodes >= 1 /\ MaxItems \in Nat
  /\ MaxUnmarshalers \in Nat /\ MaxCalls \in Nat
  /\ IsFiniteSet(Keys)
BY DecoderConstants

\* Each kind has its own fields.
LEMMA NodeFacts ==
  ASSUME NEW k \in Nat, NEW node \in Nodes(k)
  PROVE  /\ node.kind \in {"unknown", "alias", "sequence", "mapping"}
         /\ node.kind = "unknown" => node = Unknown
         /\ node.kind = "alias" => node \in [kind : {"alias"}, target : 0..k]
         /\ node.kind = "sequence" => node \in [kind : {"sequence"}, content : Seq(0..k)]
         /\ node.kind = "mapping" => node \in [kind : {"mapping"}, content : Seq(Entries(k))]
<1>1. Unknown.kind = "unknown"
  BY DEF Unknown
<1> QED
  BY <1>1 DEF Nodes

\* A tree of k nodes is a part of one of more.
LEMMA NodesMonotone ==
  ASSUME NEW k \in Nat, NEW m \in Nat, k <= m
  PROVE  Nodes(k) \subseteq Nodes(m) /\ Seq(0..k) \subseteq Seq(0..m) /\ Seq(Entries(k)) \subseteq Seq(Entries(m))
<1>1. 0..k \subseteq 0..m
  OBVIOUS
<1>2. Entries(k) \subseteq Entries(m)
  BY <1>1 DEF Entries
<1>3. Seq(0..k) \subseteq Seq(0..m) /\ Seq(Entries(k)) \subseteq Seq(Entries(m))
  BY <1>1, <1>2, SeqMonotonic
<1> HIDE DEF Entries
<1> QED
  BY <1>1, <1>3 DEF Nodes

\* The slots of a mapping: one for each key and one to merge from.
LEMMA SlotsOK == Slots \in Seq(Keys \cup {Merge}) /\ Len(Slots) \in Nat /\ DOMAIN Slots = 1..Len(Slots)
<1>1. Cardinality(Keys) \in Nat /\ ExistsBijection(1..Cardinality(Keys), Keys)
  BY Bounds, FS_CardinalityType
<1>2. SetToSeq(Keys) \in [1..Cardinality(Keys) -> Keys]
  <2>1. PICK f \in Bijection(1..Cardinality(Keys), Keys) : TRUE
    BY <1>1 DEF ExistsBijection
  <2>2. f \in [1..Cardinality(Keys) -> Keys] /\ IsInjective(f)
    BY <2>1 DEF Bijection, Injection, IsInjective
  <2> QED
    BY <2>2 DEF SetToSeq
<1>3. SetToSeq(Keys) \in Seq(Keys)
  BY <1>1, <1>2, SeqDef
<1>4. SetToSeq(Keys) \in Seq(Keys \cup {Merge}) /\ <<Merge>> \in Seq(Keys \cup {Merge})
  BY <1>3, SeqMonotonic
<1>5. Slots \in Seq(Keys \cup {Merge})
  BY <1>4, ConcatProperties DEF Slots
<1> QED
  BY <1>5

\* A choice for each of n places, where 1 stands for a new node.
LEMMA NewsOK ==
  ASSUME NEW n \in Nat, NEW p, DOMAIN p = 1..n, Len(nodes) \in Nat
  PROVE  News(p) \in Nat /\ \A i \in 1..n : Value(p, i) \in 0..Len(nodes) + News(p)
<1> DEFINE all == {i \in DOMAIN p : p[i] = 1}
           upto(i) == {j \in 1..i : p[j] = 1}
<1>1. IsFiniteSet(1..n)
  BY FS_Interval
<1>2. IsFiniteSet(all)
  BY <1>1, FS_Subset
<1>3. News(p) = Cardinality(all) /\ News(p) \in Nat
  BY <1>2, FS_CardinalityType DEF News
<1>4. ASSUME NEW i \in 1..n
      PROVE  Value(p, i) \in 0..Len(nodes) + News(p)
  <2>1. upto(i) \subseteq all
    OBVIOUS
  <2>2. IsFiniteSet(upto(i)) /\ Cardinality(upto(i)) <= Cardinality(all)
    BY <1>2, <2>1, FS_Subset
  <2>3. Cardinality(upto(i)) \in Nat
    BY <2>2, FS_CardinalityType
  <2>4. Value(p, i) = IF p[i] = 1 THEN Len(nodes) + Cardinality(upto(i)) ELSE 0
    BY DEF Value
  <2> HIDE DEF all, upto
  <2> QED
    BY <1>3, <2>2, <2>3, <2>4
<1> QED
  BY <1>3, <1>4

\* The content of a mapping is made slot by slot.
LEMMA MappingSteps ==
  ASSUME NEW p
  PROVE  \E c : /\ MappingOf(p) = [kind |-> "mapping", content |-> c[Len(Slots)]]
                /\ c[0] = <<>>
                /\ \A i \in 1..Len(Slots) :
                     c[i] = IF p[i] = -1 THEN c[i - 1]
                            ELSE Append(c[i - 1], [key |-> Slots[i], value |-> Value(p, i)])
<1>1. PICK none : none = <<>>
  OBVIOUS
<1> DEFINE e(i) == [key |-> Slots[i], value |-> Value(p, i)]
           step(i, x) == IF p[i] = -1 THEN x ELSE Append(x, e(i))
           Is(g, m) == g = [i \in 0..m |-> IF i = 0 THEN none ELSE step(i, g[i - 1])]
           T == {m \in Nat : m <= Len(Slots) => \E g : Is(g, m)}
<1>2. Len(Slots) \in Nat
  BY SlotsOK
<1>3. MappingOf(p) = [kind |-> "mapping", content |-> (CHOOSE g : Is(g, Len(Slots)))[Len(Slots)]]
  BY <1>1 DEF MappingOf
<1>4. \A i, x : step(i, x) = IF p[i] = -1 THEN x ELSE Append(x, [key |-> Slots[i], value |-> Value(p, i)])
  OBVIOUS
<1> HIDE DEF e, step
<1>5. 0 \in T
  <2>1. Is([i \in 0..0 |-> none], 0)
    OBVIOUS
  <2> QED
    BY <2>1
<1>6. ASSUME NEW m \in Nat, m \in T PROVE m + 1 \in T
  <2> SUFFICES ASSUME m + 1 <= Len(Slots) PROVE \E g : Is(g, m + 1)
    OBVIOUS
  <2>1. PICK g : Is(g, m)
    BY <1>2, <1>6
  <2> DEFINE h == [i \in 0..m + 1 |-> IF i = 0 THEN none ELSE step(i, g[i - 1])]
  <2>2. \A i \in 0..m : h[i] = g[i]
    BY <2>1
  <2>3. \A i \in 0..m + 1 : h[i] = IF i = 0 THEN none ELSE step(i, h[i - 1])
    <3> TAKE i \in 0..m + 1
    <3>1. i # 0 => i - 1 \in 0..m
      OBVIOUS
    <3>2. i # 0 => h[i - 1] = g[i - 1]
      BY <2>2, <3>1
    <3>3. h[i] = IF i = 0 THEN none ELSE step(i, g[i - 1])
      OBVIOUS
    <3> HIDE DEF h
    <3> QED
      BY <3>2, <3>3
  <2>4. h = [i \in 0..m + 1 |-> h[i]]
    OBVIOUS
  <2>5. Is(h, m + 1)
    <3> HIDE DEF h
    <3> QED
      BY <2>3, <2>4
  <2> QED
    BY <2>5
<1> HIDE DEF Is
<1>7. \E g : Is(g, Len(Slots))
  <2>1. Nat \subseteq T
    BY <1>5, <1>6, Induction
  <2> QED
    BY <1>2, <2>1
<1>8. PICK c : c = CHOOSE g : Is(g, Len(Slots))
  OBVIOUS
<1>9. Is(c, Len(Slots))
  BY <1>7, <1>8
<1>10. c[0] = none
  <2>1. 0 \in 0..Len(Slots)
    BY <1>2
  <2> QED
    BY <1>9, <2>1 DEF Is
<1>11. \A i \in 1..Len(Slots) : c[i] = step(i, c[i - 1])
  <2> TAKE i \in 1..Len(Slots)
  <2>1. i \in 0..Len(Slots) /\ i # 0
    BY <1>2
  <2> QED
    BY <1>9, <2>1 DEF Is
<1>12. MappingOf(p) = [kind |-> "mapping", content |-> c[Len(Slots)]]
  BY <1>3, <1>8
<1>13. \A i \in 1..Len(Slots) :
         c[i] = IF p[i] = -1 THEN c[i - 1]
                ELSE Append(c[i - 1], [key |-> Slots[i], value |-> Value(p, i)])
  BY <1>4, <1>11
<1>14. c[0] = <<>>
  BY <1>1, <1>10
<1> QED
  BY <1>12, <1>13, <1>14

\* What holds of it without an entry, and stays with each, holds of the content.
LEMMA MappingInduction ==
  ASSUME NEW p, NEW T,
         <<0, <<>>>> \in T,
         \A i \in 1..Len(Slots) : \A x :
           <<i - 1, x>> \in T =>
             /\ p[i] = -1 => <<i, x>> \in T
             /\ p[i] # -1 => <<i, Append(x, [key |-> Slots[i], value |-> Value(p, i)])>> \in T
  PROVE  <<Len(Slots), MappingOf(p).content>> \in T
<1>1. PICK c : /\ MappingOf(p) = [kind |-> "mapping", content |-> c[Len(Slots)]]
               /\ c[0] = <<>>
               /\ \A i \in 1..Len(Slots) :
                    c[i] = IF p[i] = -1 THEN c[i - 1]
                           ELSE Append(c[i - 1], [key |-> Slots[i], value |-> Value(p, i)])
  BY MappingSteps
<1>2. Len(Slots) \in Nat
  BY SlotsOK
<1> DEFINE U == {m \in Nat : m <= Len(Slots) => <<m, c[m]>> \in T}
<1>3. 0 \in U
  BY <1>1
<1>4. ASSUME NEW m \in Nat, m \in U PROVE m + 1 \in U
  <2> SUFFICES ASSUME m + 1 <= Len(Slots) PROVE <<m + 1, c[m + 1]>> \in T
    OBVIOUS
  <2>1. PICK i : i = m + 1
    OBVIOUS
  <2>2. i \in 1..Len(Slots) /\ <<i - 1, c[i - 1]>> \in T
    BY <1>2, <1>4, <2>1
  <2>3. CASE p[i] = -1
    <3>1. <<i, c[i - 1]>> \in T /\ c[i] = c[i - 1]
      BY <1>1, <2>2, <2>3
    <3> QED
      BY <2>1, <3>1
  <2>4. CASE p[i] # -1
    <3>1. /\ <<i, Append(c[i - 1], [key |-> Slots[i], value |-> Value(p, i)])>> \in T
          /\ c[i] = Append(c[i - 1], [key |-> Slots[i], value |-> Value(p, i)])
      BY <1>1, <2>2, <2>4
    <3> QED
      BY <2>1, <3>1
  <2> QED
    BY <2>3, <2>4
<1>5. <<Len(Slots), c[Len(Slots)]>> \in T
  <2> HIDE DEF U
  <2>1. Nat \subseteq U
    BY <1>3, <1>4, Induction
  <2> QED
    BY <1>2, <2>1 DEF U
<1>6. MappingOf(p).content = c[Len(Slots)]
  <2>1. PICK q : q = c[Len(Slots)]
    OBVIOUS
  <2>2. MappingOf(p) = [kind |-> "mapping", content |-> q]
    BY <1>1, <2>1
  <2> QED
    BY <2>1, <2>2
<1> QED
  BY <1>5, <1>6

\* What a mapping turns out to hold.
LEMMA MappingOK ==
  ASSUME NEW p, DOMAIN p = DOMAIN Slots, Len(nodes) \in Nat
  PROVE  MappingOf(p) \in [kind : {"mapping"}, content : Seq(Entries(Len(nodes) + News(p)))]
<1> DEFINE k == Len(nodes) + News(p)
           e(i) == [key |-> Slots[i], value |-> Value(p, i)]
<1>1. Len(Slots) \in Nat /\ DOMAIN p = 1..Len(Slots) /\ \A i \in 1..Len(Slots) : Slots[i] \in Keys \cup {Merge}
  BY SlotsOK
<1>2. \A i \in 1..Len(Slots) : e(i) \in Entries(k)
  <2>1. \A i \in 1..Len(Slots) : Value(p, i) \in 0..k
    BY <1>1, NewsOK
  <2> QED
    BY <1>1, <2>1 DEF Entries
<1> DEFINE S == Seq(Entries(k))
           R == (0..Len(Slots)) \X S
<1>3. <<0, <<>>>> \in R
  <2>1. \A X : <<>> \in Seq(X)
    OBVIOUS
  <2>2. <<>> \in S /\ 0 \in 0..Len(Slots)
    BY <1>1, <2>1
  <2> HIDE DEF S
  <2> QED
    BY <2>2
<1>4. ASSUME NEW i \in 1..Len(Slots), NEW x, <<i - 1, x>> \in R
      PROVE  <<i, x>> \in R /\ <<i, Append(x, e(i))>> \in R
  <2>1. x \in S /\ i \in 0..Len(Slots)
    BY <1>1, <1>4
  <2>2. Append(x, e(i)) \in S
    <3> HIDE DEF k, e
    <3> QED
      BY <1>2, <2>1, AppendProperties
  <2> QED
    BY <2>1, <2>2
<1>5. <<Len(Slots), MappingOf(p).content>> \in R
  <2> HIDE DEF R
  <2> QED
    BY <1>3, <1>4, MappingInduction
<1>6. MappingOf(p) = [kind |-> "mapping", content |-> MappingOf(p).content]
  BY MappingSteps
<1> QED
  BY <1>5, <1>6

\* A node is learned, and new ones come behind the tree.
LEMMA PutOK ==
  ASSUME Tree(nodes), NEW n \in DOMAIN nodes, nodes[n].kind = "unknown", NEW new \in Nat,
         NEW node \in Nodes(Len(nodes) + new)
  PROVE  LET ns == [nodes EXCEPT ![n] = node] \o [i \in 1..new |-> Unknown]
         IN Grows(nodes, ns) /\ Len(ns) = Len(nodes) + new
<1> DEFINE k == Len(nodes)
           put == [nodes EXCEPT ![n] = node]
           rest == [i \in 1..new |-> Unknown]
<1>1. nodes \in Seq(Nodes(k)) /\ k \in Nat /\ DOMAIN nodes = 1..k
  BY DEF Tree
<1>2. nodes \in Seq(Nodes(k + new))
  <2>1. k + new \in Nat /\ k <= k + new
    BY <1>1
  <2> HIDE DEF k
  <2>2. Nodes(k) \subseteq Nodes(k + new)
    BY <1>1, <2>1, NodesMonotone
  <2> QED
    BY <1>1, <2>2, SeqMonotonic
<1>3. put \in Seq(Nodes(k + new)) /\ Len(put) = k /\ \A i \in 1..k : put[i] = IF i = n THEN node ELSE nodes[i]
  BY <1>1, <1>2
<1>4. rest \in Seq(Nodes(k + new)) /\ Len(rest) = new
  <2>1. Unknown \in Nodes(k + new)
    BY DEF Nodes
  <2>2. rest \in [1..new -> Nodes(k + new)]
    BY <2>1
  <2> HIDE DEF rest
  <2> QED
    BY <2>2, SeqDef, LenProperties
<1> HIDE DEF put, rest, k
<1>5. /\ put \o rest \in Seq(Nodes(k + new)) /\ Len(put \o rest) = k + new
      /\ \A i \in 1..k : (put \o rest)[i] = put[i]
  <2>1. PICK S : S = Nodes(k + new)
    OBVIOUS
  <2>2. put \in Seq(S) /\ rest \in Seq(S)
    BY <1>3, <1>4, <2>1
  <2>3. /\ put \o rest \in Seq(S) /\ Len(put \o rest) = Len(put) + Len(rest)
        /\ \A i \in 1..Len(put) + Len(rest) :
             (put \o rest)[i] = IF i <= Len(put) THEN put[i] ELSE rest[i - Len(put)]
    BY <2>2, ConcatProperties
  <2>4. \A i \in 1..k : i \in 1..k + new /\ i <= k
    BY <1>1
  <2> QED
    BY <1>3, <1>4, <2>1, <2>3, <2>4
<1>6. Tree(put \o rest) /\ k <= k + new
  BY <1>1, <1>5 DEF Tree
<1>7. \A i \in 1..k : nodes[i].kind # "unknown" => (put \o rest)[i].kind = nodes[i].kind
  BY <1>3, <1>5
<1> QED
  BY <1>1, <1>5, <1>6, <1>7 DEF Grows, k, put, rest

\* The decoder looks at a node, for the first time or not.
LEMMA KnownOK ==
  ASSUME Tree(nodes), Len(nodes) + unmarshalers <= MaxNodes, unmarshalers \in Nat,
         NEW n \in 0..Len(nodes), NEW ns \in Known(n)
  PROVE  Grows(nodes, ns) /\ Len(ns) + unmarshalers <= MaxNodes
<1> DEFINE k == Len(nodes)
<1>1. nodes \in Seq(Nodes(k)) /\ k \in Nat /\ DOMAIN nodes = 1..k /\ MaxNodes \in Nat
  BY Bounds DEF Tree
<1>2. CASE ns = nodes
  BY <1>1, <1>2 DEF Grows
<1>3. CASE ns \in Learned(n) /\ n # 0 /\ nodes[n].kind = "unknown"
  <2>1. n \in DOMAIN nodes
    BY <1>1, <1>3
  <2>2. SUFFICES \E new \in Nat : \E node \in Nodes(k + new) :
                   /\ ns = [nodes EXCEPT ![n] = node] \o [i \in 1..new |-> Unknown]
                   /\ k + new + unmarshalers <= MaxNodes
    <3>1. PICK new \in Nat : \E node \in Nodes(k + new) :
                /\ ns = [nodes EXCEPT ![n] = node] \o [i \in 1..new |-> Unknown]
                /\ k + new + unmarshalers <= MaxNodes
      BY <2>2
    <3>2. PICK node \in Nodes(k + new) :
                /\ ns = [nodes EXCEPT ![n] = node] \o [i \in 1..new |-> Unknown]
                /\ k + new + unmarshalers <= MaxNodes
      BY <3>1
    <3>3. Grows(nodes, ns) /\ Len(ns) = k + new
      BY <1>3, <2>1, <3>2, PutOK
    <3> QED
      BY <3>2, <3>3
  <2>3. CASE \E p \in [DOMAIN Slots -> {-1, 0, 1}] :
               /\ News(p) <= Room
               /\ ns = [nodes EXCEPT ![n] = MappingOf(p)] \o [i \in 1..News(p) |-> Unknown]
    <3>1. PICK p \in [DOMAIN Slots -> {-1, 0, 1}] :
               /\ News(p) <= Room
               /\ ns = [nodes EXCEPT ![n] = MappingOf(p)] \o [i \in 1..News(p) |-> Unknown]
      BY <2>3
    <3>2. DOMAIN p = DOMAIN Slots /\ DOMAIN p = 1..Len(Slots) /\ Len(Slots) \in Nat
      BY SlotsOK
    <3>3. MappingOf(p) \in Nodes(k + News(p))
      BY <1>1, <3>2, MappingOK DEF Nodes
    <3>4. News(p) \in Nat
      BY <1>1, <3>2, NewsOK
    <3>5. k + News(p) + unmarshalers <= MaxNodes
      BY <1>1, <3>1, <3>4 DEF Room
    <3> QED
      BY <3>1, <3>3, <3>4, <3>5
  <2>4. CASE \E l \in 0..MaxItems : \E p \in [1..l -> {0, 1}] :
               /\ News(p) <= Room
               /\ ns = [nodes EXCEPT ![n] = SequenceOf(p)] \o [i \in 1..News(p) |-> Unknown]
    <3>1. PICK l \in 0..MaxItems : \E p \in [1..l -> {0, 1}] :
               /\ News(p) <= Room
               /\ ns = [nodes EXCEPT ![n] = SequenceOf(p)] \o [i \in 1..News(p) |-> Unknown]
      BY <2>4
    <3>2. PICK p \in [1..l -> {0, 1}] :
               /\ News(p) <= Room
               /\ ns = [nodes EXCEPT ![n] = SequenceOf(p)] \o [i \in 1..News(p) |-> Unknown]
      BY <3>1
    <3>3. l \in Nat /\ DOMAIN p = 1..l
      BY Bounds
    <3>4. News(p) \in Nat /\ \A i \in 1..l : Value(p, i) \in 0..k + News(p)
      BY <1>1, <3>3, NewsOK
    <3>5. SequenceOf(p) \in Nodes(k + News(p))
      <4> DEFINE c == [i \in 1..l |-> Value(p, i)]
      <4>1. c \in [1..l -> 0..k + News(p)]
        BY <3>4
      <4>2. c \in Seq(0..k + News(p))
        BY <3>3, <4>1, SeqDef
      <4>3. SequenceOf(p) = [kind |-> "sequence", content |-> c]
        BY <3>3 DEF SequenceOf
      <4> HIDE DEF c
      <4> QED
        BY <4>2, <4>3 DEF Nodes
    <3>6. k + News(p) + unmarshalers <= MaxNodes
      BY <1>1, <3>2, <3>4 DEF Room
    <3> QED
      BY <3>2, <3>4, <3>5, <3>6
  <2>5. CASE \E t \in {0} \cup DOMAIN nodes :
               ns = [nodes EXCEPT ![n] = [kind |-> "alias", target |-> t]] \o [i \in 1..0 |-> Unknown]
    <3>1. PICK t \in {0} \cup DOMAIN nodes :
               ns = [nodes EXCEPT ![n] = [kind |-> "alias", target |-> t]] \o [i \in 1..0 |-> Unknown]
      BY <2>5
    <3>2. t \in 0..k + 0 /\ k + 0 + unmarshalers <= MaxNodes
      BY <1>1
    <3>3. [kind |-> "alias", target |-> t] \in Nodes(k + 0)
      BY <3>2 DEF Nodes
    <3> QED
      BY <3>1, <3>2, <3>3
  <2> QED
    BY <1>3, <2>3, <2>4, <2>5 DEF Learned
<1> QED
  BY <1>2, <1>3 DEF Known

\* One after the other.
LEMMA GrowsTransitive ==
  ASSUME NEW ns, NEW ms, NEW qs, Tree(ns), Grows(ns, ms), Grows(ms, qs)
  PROVE  Grows(ns, qs)
<1>1. ns \in Seq(Nodes(Len(ns))) /\ ms \in Seq(Nodes(Len(ms))) /\ qs \in Seq(Nodes(Len(qs)))
  BY DEF Tree, Grows
<1>2. /\ DOMAIN ns = 1..Len(ns) /\ DOMAIN ms = 1..Len(ms)
      /\ Len(ns) \in Nat /\ Len(ms) \in Nat /\ Len(qs) \in Nat
  BY <1>1
<1>3. Len(ns) <= Len(ms) /\ Len(ms) <= Len(qs)
  BY DEF Grows
<1>4. DOMAIN ns \subseteq DOMAIN ms /\ Len(ns) <= Len(qs)
  BY <1>2, <1>3
<1> QED
  BY <1>4 DEF Grows

\* An origin is added to a mapping.
LEMMA AddOriginOK ==
  ASSUME NEW ns, Tree(ns), NEW n \in 0..Len(ns), NEW atLeast
  PROVE  Grows(ns, AddOriginTo(ns, n, atLeast)) /\ Len(AddOriginTo(ns, n, atLeast)) = Len(ns)
<1> DEFINE k == Len(ns)
<1>1. ns \in Seq(Nodes(k)) /\ k \in Nat /\ DOMAIN ns = 1..k
  BY DEF Tree
<1>2. Grows(ns, ns)
  BY <1>1 DEF Grows
<1>3. CASE n # 0 /\ ns[n].kind = "mapping"
  <2> DEFINE c == ns[n].content
             e == [key |-> Origin, value |-> 0]
             ms == [ns EXCEPT ![n].content = Append(@, e)]
  <2>1. n \in DOMAIN ns /\ ns[n] \in Nodes(k)
    BY <1>1, <1>3
  <2>2. ns[n] \in [kind : {"mapping"}, content : Seq(Entries(k))]
    BY <1>1, <1>3, <2>1, NodeFacts
  <2>3. e \in Entries(k)
    BY <1>1 DEF Entries
  <2>4. Append(c, e) \in Seq(Entries(k))
    <3> HIDE DEF e
    <3> QED
      BY <2>2, <2>3, AppendProperties
  <2>5. PICK a : a = Append(c, e)
    OBVIOUS
  <2>6. [ns[n] EXCEPT !.content = a] \in [kind : {"mapping"}, content : Seq(Entries(k))]
    BY <2>2, <2>4, <2>5
  <2>7. ms = [ns EXCEPT ![n] = [ns[n] EXCEPT !.content = a]]
    BY <2>5
  <2>8. PICK b : b = [ns[n] EXCEPT !.content = a]
    OBVIOUS
  <2>9. b \in Nodes(k) /\ b.kind = "mapping" /\ ms = [ns EXCEPT ![n] = b]
    BY <2>6, <2>7, <2>8 DEF Nodes
  <2>10. ms \in Seq(Nodes(k)) /\ Len(ms) = k /\ \A i \in 1..k : ms[i] = IF i = n THEN b ELSE ns[i]
    <3> HIDE DEF ms
    <3> QED
      BY <1>1, <2>1, <2>9
  <2>11. AddOrigin(ns, n) = ms
    BY DEF AddOrigin
  <2> HIDE DEF ms
  <2>12. Grows(ns, ms) /\ Len(ms) = k
    BY <1>1, <1>3, <2>9, <2>10 DEF Grows, Tree
  <2> QED
    BY <1>2, <2>11, <2>12 DEF AddOriginTo
<1>4. CASE ~ (n # 0 /\ ns[n].kind = "mapping")
  BY <1>2, <1>4 DEF AddOriginTo, Kind
<1> QED
  BY <1>3, <1>4

-----------------------------------------------------------------------------
(* The types of calls                                                        *)

\* What a call may name: nodes of the tree of their kind, and the first m sets of
\* merged fields.
FrameOK(f, ns, m) ==
  /\ {"op", "node"} \subseteq DOMAIN f
  /\ f.op = "unmarshal" => f.node \in 0..Len(ns)
  /\ f.op = "alias" => f.node \in DOMAIN ns
  /\ f.op = "sequence" =>
       /\ "i" \in DOMAIN f
       /\ f.node \in DOMAIN ns /\ ns[f.node].kind = "sequence" /\ f.i \in Nat \ {0}
  /\ f.op = "mapping" =>
       /\ {"i", "own"} \subseteq DOMAIN f
       /\ f.node \in DOMAIN ns /\ ns[f.node].kind = "mapping" /\ f.i \in Nat \ {0}
       /\ f.own \in 0..m
  /\ f.op = "merge" =>
       /\ {"i", "saved", "fields"} \subseteq DOMAIN f
       /\ f.node \in 0..Len(ns) /\ f.i \in Nat \ {0} /\ f.saved \in 0..m /\ f.fields \in 1..m
  /\ f.op = "unmarshaler" =>
       /\ {"terrlen", "calls", "result", "issues"} \subseteq DOMAIN f
       /\ f.node \in 0..Len(ns) /\ f.terrlen \in Nat
       /\ f.result = "type_error" => f.issues \in Nat

\* A merge that made its set made it last: the calls around it name earlier ones.
FramesOK(s, ns, m) ==
  \A l \in DOMAIN s :
    /\ FrameOK(s[l], ns, m)
    /\ s[l].op = "merge" /\ s[l].saved = 0 => \A j \in 1..l - 1 : FrameOK(s[j], ns, s[l].fields - 1)

\* The types of all variables, those of the stack by its calls.
TypeInv ==
  /\ Tree(nodes) /\ Len(nodes) >= 1
  /\ unmarshalers \in Nat /\ Len(nodes) + unmarshalers <= MaxNodes
  /\ FramesOK(stack, nodes, Len(merged))
  /\ IsSequence(merged) /\ mergedFields \in 0..Len(merged)
  /\ ret \in Results /\ outcome \in Outcomes /\ terrors \in Nat
  /\ aliases \subseteq DOMAIN nodes /\ aliased \in BOOLEAN
  /\ departed \subseteq {"recovered", "zeroed", "repeated"}

\* A call keeps its type as the tree and the sets of merged fields grow.
LEMMA FrameGrows ==
  ASSUME NEW f, NEW ns, NEW ms, NEW m \in Nat, NEW k \in Nat, m <= k,
         Tree(ns), Grows(ns, ms), FrameOK(f, ns, m)
  PROVE  FrameOK(f, ms, k)
<1>1. ns \in Seq(Nodes(Len(ns))) /\ ms \in Seq(Nodes(Len(ms)))
  BY DEF Tree, Grows
<1>2. DOMAIN ns = 1..Len(ns) /\ DOMAIN ms = 1..Len(ms) /\ Len(ns) \in Nat /\ Len(ms) \in Nat
  BY <1>1
<1>3. Len(ns) <= Len(ms)
  BY DEF Grows
<1>4. 0..Len(ns) \subseteq 0..Len(ms) /\ DOMAIN ns \subseteq DOMAIN ms
  BY <1>2, <1>3
<1>5. Seq(0..Len(ns)) \subseteq Seq(0..Len(ms))
  BY <1>4, SeqMonotonic
<1>6. \A n \in DOMAIN ns : ns[n].kind \in {"sequence", "mapping"} => ms[n].kind = ns[n].kind
  BY DEF Grows
<1>7. 0..m \subseteq 0..k /\ 1..m \subseteq 1..k
  OBVIOUS
<1> QED
  BY <1>4, <1>5, <1>6, <1>7 DEF FrameOK

\* So do all calls.
LEMMA FramesGrow ==
  ASSUME NEW s, NEW ns, NEW ms, NEW m \in Nat, NEW k \in Nat, m <= k,
         Tree(ns), Grows(ns, ms), FramesOK(s, ns, m)
  PROVE  FramesOK(s, ms, k)
<1> SUFFICES ASSUME NEW l \in DOMAIN s
             PROVE  /\ FrameOK(s[l], ms, k)
                    /\ s[l].op = "merge" /\ s[l].saved = 0 =>
                         \A j \in 1..l - 1 : FrameOK(s[j], ms, s[l].fields - 1)
  BY DEF FramesOK
<1>1. FrameOK(s[l], ns, m)
  BY DEF FramesOK
<1>2. FrameOK(s[l], ms, k)
  BY <1>1, FrameGrows
<1>3. ASSUME s[l].op = "merge", s[l].saved = 0, NEW j \in 1..l - 1
      PROVE  FrameOK(s[j], ms, s[l].fields - 1)
  <2>1. FrameOK(s[j], ns, s[l].fields - 1)
    BY <1>3 DEF FramesOK
  <2>2. s[l].fields \in 1..m
    BY <1>1, <1>3 DEF FrameOK
  <2>3. s[l].fields - 1 \in Nat /\ s[l].fields - 1 <= s[l].fields - 1
    BY <2>2
  <2> QED
    BY <2>1, <2>3, FrameGrows
<1> QED
  BY <1>2, <1>3

\* A call is made.
LEMMA FramesPush ==
  ASSUME NEW s, IsSequence(s), NEW ns, NEW m \in Nat, FramesOK(s, ns, m),
         NEW f, FrameOK(f, ns, m),
         f.op = "merge" /\ f.saved = 0 => \A j \in DOMAIN s : FrameOK(s[j], ns, f.fields - 1)
  PROVE  FramesOK(Append(s, f), ns, m)
<1> DEFINE t == Append(s, f)
<1>1. /\ DOMAIN s = 1..Len(s) /\ Len(s) \in Nat /\ DOMAIN t = 1..Len(s) + 1
      /\ \A i \in 1..Len(s) : t[i] = s[i]
      /\ t[Len(s) + 1] = f
  BY AppendFacts
<1> HIDE DEF t
<1> SUFFICES ASSUME NEW l \in DOMAIN t
             PROVE  /\ FrameOK(t[l], ns, m)
                    /\ t[l].op = "merge" /\ t[l].saved = 0 =>
                         \A j \in 1..l - 1 : FrameOK(t[j], ns, t[l].fields - 1)
  BY DEF FramesOK, t
<1>2. CASE l = Len(s) + 1
  <2>1. \A j \in 1..l - 1 : j \in DOMAIN s /\ t[j] = s[j]
    BY <1>1, <1>2
  <2> QED
    BY <1>1, <1>2, <2>1
<1>3. CASE l \in 1..Len(s)
  <2>1. \A j \in 1..l - 1 : j \in 1..Len(s)
    BY <1>1, <1>3
  <2>2. \A j \in 1..l - 1 : t[j] = s[j]
    BY <1>1, <2>1
  <2>3. t[l] = s[l]
    BY <1>1, <1>3
  <2>4. /\ FrameOK(s[l], ns, m)
        /\ s[l].op = "merge" /\ s[l].saved = 0 => \A j \in 1..l - 1 : FrameOK(s[j], ns, s[l].fields - 1)
    BY <1>1, <1>3 DEF FramesOK
  <2> QED
    BY <2>2, <2>3, <2>4
<1> QED
  BY <1>1, <1>2, <1>3

\* Calls return.
LEMMA FramesBelow ==
  ASSUME NEW s, NEW t, NEW n \in Nat, NEW k \in Nat, n <= k,
         DOMAIN s = 1..k, DOMAIN t = 1..n, \A i \in 1..n : t[i] = s[i],
         NEW ns, NEW m, FramesOK(s, ns, m)
  PROVE  FramesOK(t, ns, m)
<1> SUFFICES ASSUME NEW l \in DOMAIN t
             PROVE  /\ FrameOK(t[l], ns, m)
                    /\ t[l].op = "merge" /\ t[l].saved = 0 =>
                         \A j \in 1..l - 1 : FrameOK(t[j], ns, t[l].fields - 1)
  BY DEF FramesOK
<1>1. l \in DOMAIN s /\ t[l] = s[l]
  OBVIOUS
<1>2. \A j \in 1..l - 1 : j \in 1..n
  OBVIOUS
<1>3. \A j \in 1..l - 1 : t[j] = s[j]
  BY <1>2
<1>4. /\ FrameOK(s[l], ns, m)
      /\ s[l].op = "merge" /\ s[l].saved = 0 => \A j \in 1..l - 1 : FrameOK(s[j], ns, s[l].fields - 1)
  BY <1>1 DEF FramesOK
<1> QED
  BY <1>1, <1>3, <1>4

\* One call returns.
LEMMA FramesFront ==
  ASSUME NEW s, IsSequence(s), s # <<>>, NEW ns, NEW m, FramesOK(s, ns, m)
  PROVE  FramesOK(Front(s), ns, m) /\ FrameOK(Last(s), ns, m)
<1>1. /\ DOMAIN s = 1..Len(s) /\ Len(s) \in Nat \ {0} /\ DOMAIN Front(s) = 1..Len(s) - 1
      /\ \A i \in 1..Len(s) - 1 : Front(s)[i] = s[i]
  BY FrontFacts
<1>2. Len(s) - 1 \in Nat /\ Len(s) - 1 <= Len(s) /\ Len(s) \in DOMAIN s
  BY <1>1
<1>3. FramesOK(Front(s), ns, m)
  BY <1>1, <1>2, FramesBelow
<1>4. FrameOK(Last(s), ns, m)
  BY <1>2 DEF FramesOK, Last
<1> QED
  BY <1>3, <1>4

\* A call goes on.
LEMMA FramesReplace ==
  ASSUME NEW s, IsSequence(s), s # <<>>, NEW ns, NEW m \in Nat, FramesOK(s, ns, m),
         NEW f, FrameOK(f, ns, m),
         f.op = "merge" =>
           /\ Last(s).op = "merge" /\ f.saved = Last(s).saved /\ f.fields = Last(s).fields
  PROVE  FramesOK(Append(Front(s), f), ns, m) /\ IsSequence(Append(Front(s), f))
<1>1. /\ IsSequence(Front(s)) /\ DOMAIN s = 1..Len(s) /\ Len(s) \in Nat \ {0}
      /\ DOMAIN Front(s) = 1..Len(s) - 1
      /\ \A i \in 1..Len(s) - 1 : Front(s)[i] = s[i]
  BY FrontFacts
<1>2. FramesOK(Front(s), ns, m)
  BY FramesFront
<1>3. f.op = "merge" /\ f.saved = 0 => \A j \in DOMAIN Front(s) : FrameOK(Front(s)[j], ns, f.fields - 1)
  <2> SUFFICES ASSUME f.op = "merge", f.saved = 0, NEW j \in 1..Len(s) - 1
               PROVE  FrameOK(s[j], ns, f.fields - 1)
    BY <1>1
  <2>1. Len(s) \in DOMAIN s /\ Last(s) = s[Len(s)]
    BY <1>1 DEF Last
  <2> QED
    BY <2>1 DEF FramesOK
<1>4. FramesOK(Append(Front(s), f), ns, m)
  BY <1>1, <1>2, <1>3, FramesPush
<1> QED
  BY <1>1, <1>4, AppendFacts

\* What a call keeps its type with: its fields but those that are filled or counted.
LEMMA FrameAlike ==
  ASSUME NEW f, NEW g, NEW ns, NEW m, FrameOK(f, ns, m), DOMAIN g = DOMAIN f,
         \A x \in DOMAIN f \ {"out", "i"} : g[x] = f[x],
         f.op \in {"sequence", "mapping", "merge"} => g.i \in Nat \ {0}
  PROVE  /\ FrameOK(g, ns, m) /\ g.op = f.op
         /\ f.op = "merge" => g.saved = f.saved /\ g.fields = f.fields
<1>1. "op" \in DOMAIN f /\ g.op = f.op
  BY DEF FrameOK
<1> QED
  BY <1>1 DEF FrameOK

\* Storing a value leaves the calls their types.
LEMMA StoreFrame ==
  ASSUME NEW l, NEW ns, NEW m, FrameOK(stack[l], ns, m), l \in DOMAIN stack
  PROVE  /\ FrameOK(Store[l], ns, m) /\ Store[l].op = stack[l].op
         /\ stack[l].op = "merge" => Store[l].saved = stack[l].saved /\ Store[l].fields = stack[l].fields
<1> DEFINE put(f) == [f EXCEPT !.out = Put(@, Entry.key, Top.node)]
           count(f) == [f EXCEPT !.i = @ + 1]
           last == IF l = Top.owner THEN count(put(stack[l])) ELSE count(stack[l])
           other == IF l = Top.owner THEN put(stack[l]) ELSE stack[l]
<1>1. ASSUME NEW f
      PROVE  DOMAIN put(f) = DOMAIN f /\ \A x \in DOMAIN f \ {"out"} : put(f)[x] = f[x]
  OBVIOUS
<1>2. ASSUME NEW f
      PROVE  /\ DOMAIN count(f) = DOMAIN f /\ \A x \in DOMAIN f \ {"i"} : count(f)[x] = f[x]
             /\ "i" \in DOMAIN f => count(f).i = f.i + 1
  OBVIOUS
<1>3. Store[l] = IF l = Len(stack) THEN last ELSE other
  <2>1. l = Len(stack) => stack[l] = Top
    BY DEF Last, Top
  <2> QED
    BY <2>1 DEF Store
<1> HIDE DEF put, count
<1>4. /\ DOMAIN Store[l] = DOMAIN stack[l]
      /\ \A x \in DOMAIN stack[l] \ {"out", "i"} : Store[l][x] = stack[l][x]
      /\ "i" \in DOMAIN stack[l] => Store[l].i \in {stack[l].i, stack[l].i + 1}
  BY <1>1, <1>2, <1>3
<1>5. stack[l].op \in {"sequence", "mapping", "merge"} => "i" \in DOMAIN stack[l] /\ stack[l].i \in Nat \ {0}
  BY DEF FrameOK
<1>6. stack[l].op \in {"sequence", "mapping", "merge"} => Store[l].i \in Nat \ {0}
  BY <1>4, <1>5
<1> HIDE DEF Store
<1> QED
  BY <1>4, <1>6, FrameAlike

\* All of them.
LEMMA FramesStore ==
  ASSUME Calls(stack), stack # <<>>, NEW ns, NEW m, FramesOK(stack, ns, m)
  PROVE  FramesOK(Store, ns, m) /\ IsSequence(Store)
<1>1. IsSequence(Store)
  BY StoreSame DEF Same, Kept, Calls
<1>2. DOMAIN Store = DOMAIN stack /\ DOMAIN stack = 1..Len(stack) /\ Len(stack) \in Nat
  <2>1. DOMAIN stack = 1..Len(stack) /\ Len(stack) \in Nat
    BY FrontFacts DEF Calls
  <2> QED
    BY <2>1 DEF Store
<1> HIDE DEF Store
<1> SUFFICES ASSUME NEW l \in DOMAIN stack
             PROVE  /\ FrameOK(Store[l], ns, m)
                    /\ Store[l].op = "merge" /\ Store[l].saved = 0 =>
                         \A j \in 1..l - 1 : FrameOK(Store[j], ns, Store[l].fields - 1)
  BY <1>1, <1>2 DEF FramesOK
<1>3. FrameOK(stack[l], ns, m)
  BY DEF FramesOK
<1>4. /\ FrameOK(Store[l], ns, m) /\ Store[l].op = stack[l].op
      /\ stack[l].op = "merge" => Store[l].saved = stack[l].saved /\ Store[l].fields = stack[l].fields
  BY <1>3, StoreFrame
<1>5. ASSUME stack[l].op = "merge", stack[l].saved = 0, NEW j \in 1..l - 1
      PROVE  FrameOK(Store[j], ns, stack[l].fields - 1)
  <2>1. FrameOK(stack[j], ns, stack[l].fields - 1)
    BY <1>5 DEF FramesOK
  <2>2. j \in DOMAIN stack
    BY <1>2
  <2> QED
    BY <2>1, <2>2, StoreFrame
<1> QED
  BY <1>4, <1>5

\* A failure leaves the calls outside of it.
LEMMA FramesFail ==
  ASSUME TypeInv, NEW frames, IsSequence(frames), FramesOK(frames, nodes, Len(merged)),
         NEW left \in SUBSET {"zeroed"}, Panic(frames, left)
  PROVE  /\ FramesOK(stack', nodes, Len(merged))
         /\ ret' \in Results /\ outcome' \in Outcomes /\ departed' \subseteq {"recovered", "zeroed", "repeated"}
<1>1. CASE stack' = <<>> /\ ret' = "none" /\ outcome' = "error" /\ UNCHANGED departed
  BY <1>1 DEF TypeInv, FramesOK, Results, Outcomes
<1>2. ASSUME NEW l \in DOMAIN frames,
             stack' = SubSeq(frames, 1, l), ret' = "error",
             departed' = departed \cup {"recovered"} \cup left, UNCHANGED outcome
      PROVE  /\ FramesOK(stack', nodes, Len(merged))
             /\ ret' \in Results /\ outcome' \in Outcomes /\ departed' \subseteq {"recovered", "zeroed", "repeated"}
  <2>1. /\ DOMAIN stack' = 1..l /\ l \in Nat \ {0}
        /\ DOMAIN frames = 1..Len(frames) /\ Len(frames) \in Nat
        /\ \A i \in 1..l : stack'[i] = frames[i]
    BY <1>2, PrefixFacts
  <2>2. l <= Len(frames)
    BY <2>1
  <2>3. FramesOK(stack', nodes, Len(merged))
    BY <2>1, <2>2, FramesBelow
  <2> QED
    BY <1>2, <2>3 DEF TypeInv, Results
<1> QED
  BY <1>1, <1>2 DEF Panic

-----------------------------------------------------------------------------
(* The steps keep the types                                                  *)

\* What the steps use of the invariants.
LEMMA TypeFacts ==
  ASSUME TypeInv, AliasInv
  PROVE  /\ IsSequence(stack) /\ Calls(stack)
         /\ Len(nodes) \in Nat /\ DOMAIN nodes = 1..Len(nodes) /\ Len(merged) \in Nat
         /\ Grows(nodes, nodes)
         /\ stack # <<>> => FrameOK(Top, nodes, Len(merged)) /\ "op" \in DOMAIN Top
<1>1. Calls(stack) /\ IsSequence(stack)
  BY DEF AliasInv, Calls
<1>2. nodes \in Seq(Nodes(Len(nodes)))
  BY DEF TypeInv, Tree
<1>3. Len(merged) \in Nat
  <2>1. PICK S : merged \in Seq(S)
    BY DEF TypeInv, IsSequence
  <2> QED
    BY <2>1
<1>4. Grows(nodes, nodes)
  BY <1>2 DEF Grows, TypeInv
<1>5. ASSUME stack # <<>>
      PROVE  FrameOK(Top, nodes, Len(merged)) /\ "op" \in DOMAIN Top
  BY <1>1, <1>5, FramesFront, TopFacts DEF TypeInv, Top
<1> QED
  BY <1>1, <1>2, <1>3, <1>4, <1>5

\* A node of the tree that is not a scalar.
LEMMA AtKindFacts ==
  ASSUME TypeInv, AliasInv, NEW kind, AtKind(kind), kind # "scalar"
  PROVE  Top.node \in DOMAIN nodes /\ nodes[Top.node].kind = kind /\ nodes[Top.node] \in Nodes(Len(nodes))
<1>1. stack # <<>> /\ Top.op = "unmarshal" /\ Kind(nodes, Top.node) = kind
  BY DEF AtKind, AtCall
<1>2. Top.node \in 0..Len(nodes)
  BY <1>1, TypeFacts DEF FrameOK
<1>3. Top.node \in DOMAIN nodes /\ nodes[Top.node].kind = kind
  BY <1>1, <1>2, TypeFacts DEF Kind
<1> QED
  BY <1>3 DEF TypeInv, Tree

\* A call of unmarshal.
LEMMA UnmarshalFrame ==
  ASSUME NEW ns, NEW n \in 0..Len(ns), NEW into, NEW m
  PROVE  FrameOK(Unmarshal(n, into), ns, m)
BY DEF FrameOK, Unmarshal

\* The tree after a look at one of its nodes.
LEMMA GrownTree ==
  ASSUME TypeInv, AliasInv, NEW n \in 0..Len(nodes), NEW ns \in Known(n), NEW atLeast
  PROVE  /\ Grows(nodes, ns) /\ Len(ns) + unmarshalers <= MaxNodes
         /\ Grows(nodes, AddOriginTo(ns, n, atLeast))
         /\ Len(AddOriginTo(ns, n, atLeast)) + unmarshalers <= MaxNodes
         /\ Len(nodes) <= Len(ns) /\ Len(ns) \in Nat /\ Tree(ns)
<1>1. Grows(nodes, ns) /\ Len(ns) + unmarshalers <= MaxNodes
  BY KnownOK DEF TypeInv
<1>2. Tree(ns) /\ Len(nodes) <= Len(ns) /\ Len(ns) \in Nat
  BY <1>1 DEF Grows, Tree
<1>3. n \in 0..Len(ns)
  BY <1>2, TypeFacts
<1>4. Grows(ns, AddOriginTo(ns, n, atLeast)) /\ Len(AddOriginTo(ns, n, atLeast)) = Len(ns)
  BY <1>2, <1>3, AddOriginOK
<1>5. Tree(nodes)
  BY DEF TypeInv
<1>6. Grows(nodes, AddOriginTo(ns, n, atLeast))
  BY <1>1, <1>4, <1>5, GrowsTransitive
<1> QED
  BY <1>1, <1>2, <1>4, <1>6

\* A call returns, or two.
LEMMA ReturnTypes ==
  ASSUME TypeInv, AliasInv, stack # <<>>, stack' = Front(stack),
         UNCHANGED <<nodes, merged, aliased, outcome, unmarshalers, departed>>,
         aliases' \subseteq aliases, ret' \in Results, terrors' \in Nat,
         mergedFields' \in 0..Len(merged)
  PROVE  TypeInv'
<1>1. FramesOK(stack', nodes, Len(merged))
  BY TypeFacts, FramesFront DEF TypeInv
<1> QED
  BY <1>1 DEF TypeInv

\* A call fails.
LEMMA FailTypes ==
  ASSUME TypeInv, NEW frames, IsSequence(frames), FramesOK(frames, nodes, Len(merged)), Fail(frames),
         UNCHANGED <<decoder, terrors, unmarshalers>>,
         Grows(nodes, nodes'), Len(nodes') + unmarshalers <= MaxNodes
  PROVE  TypeInv'
<1>1. /\ FramesOK(stack', nodes, Len(merged))
      /\ ret' \in Results /\ outcome' \in Outcomes /\ departed' \subseteq {"recovered", "zeroed", "repeated"}
  BY FramesFail DEF Fail
<1>2. /\ nodes \in Seq(Nodes(Len(nodes))) /\ nodes' \in Seq(Nodes(Len(nodes')))
      /\ Len(nodes) <= Len(nodes')
  BY DEF Grows, TypeInv, Tree
<1>3. Len(nodes') >= 1 /\ DOMAIN nodes \subseteq DOMAIN nodes'
  BY <1>2 DEF TypeInv
<1>4. Len(merged) \in Nat
  <2>1. PICK S : merged \in Seq(S)
    BY DEF TypeInv, IsSequence
  <2> QED
    BY <2>1
<1>5. FramesOK(stack', nodes', Len(merged))
  BY <1>1, <1>4, FramesGrow DEF TypeInv
<1> QED
  BY <1>1, <1>3, <1>5 DEF TypeInv, decoder, Grows

\* The calls change while the tree may grow.
LEMMA GoOnTypes ==
  ASSUME TypeInv, AliasInv, Grows(nodes, nodes'), Len(nodes') + unmarshalers <= MaxNodes,
         FramesOK(stack', nodes', Len(merged')), IsSequence(merged'), mergedFields' \in 0..Len(merged'),
         ret' \in Results, terrors' \in Nat, outcome' \in Outcomes,
         aliases' \subseteq DOMAIN nodes', aliased' \in BOOLEAN,
         UNCHANGED unmarshalers, departed' \subseteq {"recovered", "zeroed", "repeated"}
  PROVE  TypeInv'
<1>1. nodes \in Seq(Nodes(Len(nodes))) /\ nodes' \in Seq(Nodes(Len(nodes'))) /\ Len(nodes) <= Len(nodes')
  BY DEF Grows, TypeInv, Tree
<1>2. Len(nodes') >= 1
  BY <1>1 DEF TypeInv
<1> QED
  BY <1>2 DEF TypeInv, Grows

\* A tree that grows keeps its nodes.
LEMMA GrowsDomain ==
  ASSUME TypeInv, Grows(nodes, nodes')
  PROVE  DOMAIN nodes \subseteq DOMAIN nodes' /\ Len(nodes') \in Nat /\ aliases \subseteq DOMAIN nodes'
<1>1. nodes \in Seq(Nodes(Len(nodes))) /\ nodes' \in Seq(Nodes(Len(nodes'))) /\ Len(nodes) <= Len(nodes')
  BY DEF Grows, TypeInv, Tree
<1> QED
  BY <1>1 DEF TypeInv

\* Decode begins at the root.
LEMMA StartTypes ==
  ASSUME TypeInv, AliasInv, Start
  PROVE  TypeInv'
<1>1. PICK ns \in Known(1) : nodes' = AddOriginTo(ns, 1, 1)
  BY DEF Start
<1>2. 1 \in 0..Len(nodes)
  BY TypeFacts DEF TypeInv
<1>3. Grows(nodes, nodes') /\ Len(nodes') + unmarshalers <= MaxNodes
  BY <1>1, <1>2, GrownTree
<1>4. DOMAIN nodes \subseteq DOMAIN nodes' /\ Len(nodes') \in Nat /\ aliases \subseteq DOMAIN nodes'
  BY <1>3, GrowsDomain
<1>5. Len(nodes) <= Len(nodes')
  BY <1>3 DEF Grows
<1>6. 1 \in 0..Len(nodes')
  BY <1>2, <1>4, <1>5, TypeFacts
<1>7. FrameOK(Unmarshal(1, 0), nodes', Len(merged)) /\ Unmarshal(1, 0).op = "unmarshal"
  BY <1>6, UnmarshalFrame DEF Unmarshal
<1>8. stack' = <<Unmarshal(1, 0)>>
  BY DEF Start
<1>9. DOMAIN stack' = {1} /\ stack'[1] = Unmarshal(1, 0)
  BY <1>8
<1>10. FramesOK(stack', nodes', Len(merged))
  BY <1>7, <1>9 DEF FramesOK
<1> QED
  BY <1>3, <1>4, <1>10, GoOnTypes DEF Start, decoder, TypeInv, Outcomes

\* Decode returns.
LEMMA FinishTypes ==
  ASSUME TypeInv, AliasInv, Finish
  PROVE  TypeInv'
<1>1. Grows(nodes, nodes') /\ Len(nodes') + unmarshalers <= MaxNodes
  BY TypeFacts DEF Finish, TypeInv
<1> QED
  BY <1>1, GoOnTypes DEF Finish, decoder, TypeInv, Outcomes, Results

\* A call that ends with good, bad, or what the one it made has given.
LEMMA ReturnsTypes ==
  ASSUME TypeInv, AliasInv,
         \/ DecodeWhole \/ Mismatch \/ RefuseDuplicate \/ SequenceReturns \/ AliasReturns
         \/ MappingReturns
  PROVE  TypeInv'
<1>1. stack # <<>> /\ stack' = Front(stack)
  BY DEF DecodeWhole, Mismatch, RefuseDuplicate, SequenceReturns, AliasReturns, MappingReturns,
         AtKind, AtCall, AtMerge, In, Return
<1>2. /\ UNCHANGED <<nodes, merged, aliased, outcome, unmarshalers, departed>>
      /\ aliases' \subseteq aliases
  BY DEF DecodeWhole, Mismatch, RefuseDuplicate, SequenceReturns, AliasReturns, MappingReturns,
         decoder
<1>3. ret' \in Results
  BY DEF DecodeWhole, Mismatch, RefuseDuplicate, SequenceReturns, AliasReturns, MappingReturns,
         Return, TypeInv, Results
<1>4. terrors' \in Nat
  BY DEF DecodeWhole, Mismatch, RefuseDuplicate, SequenceReturns, AliasReturns, MappingReturns,
         TypeInv
<1>5. mergedFields' \in 0..Len(merged)
  <2>1. CASE MappingReturns
    <3>1. mergedFields' = Top.own /\ Top.op = "mapping"
      BY <2>1 DEF MappingReturns, AtMerge, In
    <3> QED
      BY <1>1, <3>1, TypeFacts DEF FrameOK
  <2>2. CASE UNCHANGED mergedFields
    BY <2>2 DEF TypeInv
  <2> QED
    BY <2>1, <2>2 DEF DecodeWhole, Mismatch, RefuseDuplicate, SequenceReturns, AliasReturns, decoder
<1> QED
  BY <1>1, <1>2, <1>3, <1>4, <1>5, ReturnTypes

\* A call that fails.
LEMMA FailsTypes ==
  ASSUME TypeInv, AliasInv, Refuse \/ RefuseCycle
  PROVE  TypeInv'
<1>1. Fail(stack) /\ UNCHANGED <<nodes, decoder, terrors, unmarshalers>>
  BY DEF Refuse, RefuseCycle
<1>2. Grows(nodes, nodes') /\ Len(nodes') + unmarshalers <= MaxNodes
  BY <1>1, TypeFacts DEF TypeInv
<1>3. IsSequence(stack) /\ FramesOK(stack, nodes, Len(merged))
  BY TypeFacts DEF TypeInv
<1> QED
  BY <1>1, <1>2, <1>3, FailTypes

\* The target of an alias is a node of the tree.
LEMMA DecodeAliasTypes ==
  ASSUME TypeInv, AliasInv, DecodeAlias
  PROVE  TypeInv'
<1> DEFINE a == [op |-> "alias", node |-> Top.node]
           u == Unmarshal(nodes[Top.node].target, Top.into)
<1>1. /\ stack # <<>> /\ AtKind("alias") /\ stack' = Append(Append(Front(stack), a), u)
      /\ aliases' = aliases \cup {Top.node} /\ aliased' = (aliased \/ aliasDepth >= 0)
      /\ UNCHANGED <<nodes, ret, mergedFields, merged, terrors, outcome, unmarshalers, departed>>
  BY DEF DecodeAlias, AtKind, AtCall, Replace
<1>2. Top.node \in DOMAIN nodes /\ nodes[Top.node].kind = "alias" /\ nodes[Top.node] \in Nodes(Len(nodes))
  BY <1>1, AtKindFacts
<1>3. nodes[Top.node].target \in 0..Len(nodes)
  BY <1>2, NodeFacts, TypeFacts
<1>4. FrameOK(a, nodes, Len(merged)) /\ a.op = "alias"
  BY <1>2 DEF FrameOK
<1>5. FrameOK(u, nodes, Len(merged)) /\ u.op = "unmarshal"
  BY <1>3, UnmarshalFrame DEF Unmarshal
<1>6. FramesOK(stack, nodes, Len(merged)) /\ IsSequence(stack) /\ Len(merged) \in Nat
  BY TypeFacts DEF TypeInv
<1> HIDE DEF a, u
<1>7. FramesOK(Append(Front(stack), a), nodes, Len(merged)) /\ IsSequence(Append(Front(stack), a))
  BY <1>1, <1>4, <1>6, FramesReplace
<1>8. FramesOK(stack', nodes, Len(merged))
  BY <1>1, <1>5, <1>6, <1>7, FramesPush
<1> QED
  BY <1>1, <1>2, <1>8 DEF TypeInv

\* A collection is decoded, or its unmarshaler called.
LEMMA BeginTypes ==
  ASSUME TypeInv, AliasInv, DecodeSequence \/ DecodeMapping \/ CallUnmarshaler
  PROVE  TypeInv'
<1>1. /\ stack # <<>> /\ Top.op = "unmarshal"
      /\ UNCHANGED <<nodes, ret, aliases, aliased, merged, terrors, outcome, departed>>
  BY DEF DecodeSequence, DecodeMapping, CallUnmarshaler, AtKind, AtCall, decoder
<1>2. \E f : stack' = Append(Front(stack), f) /\ f.op # "merge" /\ FrameOK(f, nodes, Len(merged))
  <2>1. CASE DecodeSequence
    <3>1. Top.node \in DOMAIN nodes /\ nodes[Top.node].kind = "sequence"
      BY <2>1, AtKindFacts DEF DecodeSequence
    <3>2. PICK f : f = [op |-> "sequence", node |-> Top.node, i |-> 1]
      OBVIOUS
    <3>3. FrameOK(f, nodes, Len(merged)) /\ f.op # "merge"
      BY <3>1, <3>2 DEF FrameOK
    <3> QED
      BY <2>1, <3>2, <3>3 DEF DecodeSequence, Replace
  <2>2. CASE DecodeMapping
    <3>1. Top.node \in DOMAIN nodes /\ nodes[Top.node].kind = "mapping"
      BY <2>2, AtKindFacts DEF DecodeMapping
    <3>2. PICK owner, target, f :
             /\ f = [op |-> "mapping", node |-> Top.node, i |-> 1, own |-> mergedFields,
                     owner |-> owner, target |-> target, out |-> <<>>]
             /\ stack' = Append(Front(stack), f)
      BY <2>2 DEF DecodeMapping, Replace
    <3>3. f.op = "mapping" /\ f.node = Top.node /\ f.i = 1 /\ f.own = mergedFields
          /\ DOMAIN f = {"op", "node", "i", "own", "owner", "target", "out"}
      BY <3>2
    <3>4. FrameOK(f, nodes, Len(merged)) /\ f.op # "merge"
      BY <3>1, <3>3 DEF FrameOK, TypeInv
    <3> QED
      BY <3>2, <3>4
  <2>3. CASE CallUnmarshaler
    <3>1. Top.node \in 0..Len(nodes)
      BY <1>1, TypeFacts DEF FrameOK
    <3>2. PICK f : f = [op |-> "unmarshaler", node |-> Top.node, terrlen |-> terrors,
                        calls |-> 0, result |-> "none", issues |-> 0]
      OBVIOUS
    <3>3. FrameOK(f, nodes, Len(merged)) /\ f.op # "merge"
      BY <3>1, <3>2 DEF FrameOK, TypeInv
    <3> QED
      BY <2>3, <3>2, <3>3 DEF CallUnmarshaler, Replace
  <2> QED
    BY <2>1, <2>2, <2>3
<1>3. FramesOK(stack', nodes, Len(merged))
  BY <1>1, <1>2, TypeFacts, FramesReplace DEF TypeInv
<1>4. mergedFields' \in 0..Len(merged)
  BY TypeFacts DEF DecodeSequence, DecodeMapping, CallUnmarshaler, decoder, TypeInv
<1>5. unmarshalers' \in Nat /\ Len(nodes) + unmarshalers' <= MaxNodes
  <2>1. CASE UNCHANGED unmarshalers
    BY <2>1 DEF TypeInv
  <2>2. CASE unmarshalers' = unmarshalers + 1 /\ Room > 0
    BY <2>2, TypeFacts, Bounds DEF Room, TypeInv
  <2> QED
    BY <2>1, <2>2 DEF DecodeSequence, DecodeMapping, CallUnmarshaler
<1> QED
  BY <1>1, <1>3, <1>4, <1>5 DEF TypeInv

\* The content of the collection that is being decoded.
LEMMA ContentFacts ==
  ASSUME TypeInv, AliasInv, stack # <<>>
  PROVE  /\ Top.op = "sequence" =>
              /\ nodes[Top.node].content \in Seq(0..Len(nodes))
              /\ Top.i <= Len(nodes[Top.node].content) =>
                   nodes[Top.node].content[Top.i] \in 0..Len(nodes)
         /\ Top.op = "mapping" =>
              /\ nodes[Top.node].content \in Seq(Entries(Len(nodes)))
              /\ Top.i <= Len(nodes[Top.node].content) => Entry.value \in 0..Len(nodes)
<1> DEFINE k == Len(nodes)
           c == nodes[Top.node].content
<1>1. /\ k \in Nat /\ DOMAIN nodes = 1..k
      /\ FrameOK(Top, nodes, Len(merged)) /\ nodes \in Seq(Nodes(k))
  BY TypeFacts DEF TypeInv, Tree
<1>2. ASSUME Top.op = "sequence"
      PROVE  c \in Seq(0..k) /\ (Top.i <= Len(c) => c[Top.i] \in 0..k)
  <2>1. Top.node \in DOMAIN nodes /\ nodes[Top.node].kind = "sequence" /\ Top.i \in Nat \ {0}
    BY <1>1, <1>2 DEF FrameOK
  <2>2. nodes[Top.node] \in [kind : {"sequence"}, content : Seq(0..k)]
    BY <1>1, <2>1, NodeFacts
  <2>3. c \in Seq(0..k)
    BY <2>2
  <2> HIDE DEF c
  <2> QED
    BY <2>1, <2>3
<1>3. ASSUME Top.op = "mapping"
      PROVE  c \in Seq(Entries(k)) /\ (Top.i <= Len(c) => Entry.value \in 0..k)
  <2>1. Top.node \in DOMAIN nodes /\ nodes[Top.node].kind = "mapping" /\ Top.i \in Nat \ {0}
    BY <1>1, <1>3 DEF FrameOK
  <2>2. nodes[Top.node] \in [kind : {"mapping"}, content : Seq(Entries(k))]
    BY <1>1, <2>1, NodeFacts
  <2>3. c \in Seq(Entries(k))
    BY <2>2
  <2>4. Entry = c[Top.i]
    BY DEF Entry
  <2> HIDE DEF c, k
  <2>5. Top.i <= Len(c) => c[Top.i] \in Entries(k)
    BY <2>1, <2>3
  <2> QED
    BY <2>3, <2>4, <2>5 DEF Entries
<1> QED
  BY <1>2, <1>3

\* Counting on leaves the calls their types.
LEMMA AdvanceFrames ==
  ASSUME TypeInv, AliasInv, stack # <<>>, Top.op \in {"sequence", "mapping", "merge"},
         NEW ns, NEW m \in Nat, FramesOK(stack, ns, m)
  PROVE  FramesOK(Advance, ns, m) /\ IsSequence(Advance)
<1> DEFINE f == [Top EXCEPT !.i = @ + 1]
<1>1. FrameOK(Top, ns, m) /\ IsSequence(stack)
  BY FramesFront, TypeFacts DEF Top
<1>2. /\ DOMAIN f = DOMAIN Top /\ \A x \in DOMAIN Top \ {"out", "i"} : f[x] = Top[x]
      /\ "i" \in DOMAIN Top => f.i = Top.i + 1
  OBVIOUS
<1>3. "i" \in DOMAIN Top /\ Top.i \in Nat \ {0}
  BY <1>1 DEF FrameOK
<1>4. Advance = Append(Front(stack), f)
  BY DEF Advance, Replace
<1> HIDE DEF f
<1>5. f.i \in Nat \ {0}
  BY <1>2, <1>3
<1>6. /\ FrameOK(f, ns, m) /\ f.op = Top.op
      /\ f.op = "merge" => f.saved = Top.saved /\ f.fields = Top.fields
  BY <1>1, <1>2, <1>5, FrameAlike
<1> QED
  BY <1>1, <1>4, <1>6, FramesReplace DEF Top

\* An item of a sequence.
LEMMA SequenceItemTypes ==
  ASSUME TypeInv, AliasInv, SequenceItem
  PROVE  TypeInv'
<1>1. PICK item : item = nodes[Top.node].content[Top.i]
  OBVIOUS
<1>2. /\ stack # <<>> /\ Top.op = "sequence" /\ Top.i <= Len(nodes[Top.node].content)
      /\ stack' = Append(Advance, Unmarshal(item, 0)) /\ ret' = "none"
      /\ UNCHANGED <<decoder, terrors, outcome, unmarshalers, departed>>
  BY <1>1 DEF SequenceItem, In, Advance
<1>3. PICK ns \in Known(item) : nodes' = AddOriginTo(ns, item, 1)
  BY <1>1 DEF SequenceItem
<1>4. item \in 0..Len(nodes)
  BY <1>1, <1>2, ContentFacts
<1>5. Grows(nodes, nodes') /\ Len(nodes') + unmarshalers <= MaxNodes
  BY <1>3, <1>4, GrownTree
<1>6. DOMAIN nodes \subseteq DOMAIN nodes' /\ Len(nodes') \in Nat /\ aliases \subseteq DOMAIN nodes'
  BY <1>5, GrowsDomain
<1>7. item \in 0..Len(nodes')
  BY <1>4, <1>5, <1>6, TypeFacts DEF Grows
<1>8. FramesOK(stack, nodes', Len(merged)) /\ Len(merged) \in Nat
  BY <1>5, TypeFacts, FramesGrow DEF TypeInv
<1>9. FramesOK(Advance, nodes', Len(merged)) /\ IsSequence(Advance)
  BY <1>2, <1>8, AdvanceFrames
<1>10. FrameOK(Unmarshal(item, 0), nodes', Len(merged)) /\ Unmarshal(item, 0).op = "unmarshal"
  BY <1>7, UnmarshalFrame DEF Unmarshal
<1>11. FramesOK(stack', nodes', Len(merged))
  BY <1>2, <1>8, <1>9, <1>10, FramesPush
<1>12. /\ IsSequence(merged') /\ mergedFields' \in 0..Len(merged') /\ Len(merged') = Len(merged)
       /\ ret' \in Results /\ terrors' \in Nat /\ outcome' \in Outcomes
       /\ aliases' \subseteq DOMAIN nodes' /\ aliased' \in BOOLEAN
       /\ UNCHANGED unmarshalers /\ departed' \subseteq {"recovered", "zeroed", "repeated"}
  BY <1>2, <1>6 DEF TypeInv, decoder, Results
<1> QED
  BY <1>5, <1>11, <1>12, GoOnTypes

\* A key that is remembered goes into a set there is.
LEMMA RememberTypes ==
  ASSUME TypeInv, AliasInv, stack # <<>>, Top.op = "mapping"
  PROVE  IsSequence(Remember) /\ Len(Remember) = Len(merged)
<1>1. PICK S : merged \in Seq(S)
  BY DEF TypeInv, IsSequence
<1>2. PICK T : T = S \cup {merged[Top.own] \cup {Entry.key}}
  OBVIOUS
<1>3. merged \in Seq(T) /\ merged[Top.own] \cup {Entry.key} \in T
  BY <1>1, <1>2, SeqMonotonic
<1>4. PICK x : x = merged[Top.own] \cup {Entry.key}
  OBVIOUS
<1>5. Top.own # 0 => Remember = [merged EXCEPT ![Top.own] = x]
  BY <1>4 DEF Remember
<1>6. Top.own \in 0..Len(merged) /\ Len(merged) \in Nat
  BY TypeFacts DEF FrameOK
<1>7. CASE Top.own # 0
  <2>1. [merged EXCEPT ![Top.own] = x] \in Seq(T) /\ Len([merged EXCEPT ![Top.own] = x]) = Len(merged)
    BY <1>3, <1>4, <1>6, <1>7, ExceptSeq
  <2> QED
    BY <1>5, <1>7, <2>1 DEF IsSequence
<1>8. CASE Top.own = 0
  BY <1>1, <1>8 DEF Remember, IsSequence
<1> QED
  BY <1>7, <1>8

\* A key is passed over or its value stored.
LEMMA EntryTypes ==
  ASSUME TypeInv, AliasInv,
         MappingSkips \/ MappingIgnores \/ MappingOrigin \/ OriginMismatch \/ MappingStores
  PROVE  TypeInv'
<1>1. /\ stack # <<>> /\ Top.op = "mapping" /\ stack' \in {Advance, Store}
      /\ merged' \in {merged, Remember}
      /\ UNCHANGED <<nodes, aliases, aliased, mergedFields, outcome, unmarshalers, departed>>
      /\ ret' \in {ret, "none"} /\ terrors' \in {terrors, terrors + 1}
  BY DEF MappingSkips, MappingIgnores, MappingOrigin, OriginMismatch, OriginReached, MappingStores,
         AtEntry, In, decoder, TypeInv
<1>2. IsSequence(Remember) /\ Len(Remember) = Len(merged)
  BY <1>1, RememberTypes
<1>3. IsSequence(merged') /\ Len(merged') = Len(merged)
  BY <1>1, <1>2 DEF TypeInv
<1>4. FramesOK(stack, nodes, Len(merged)) /\ Len(merged) \in Nat /\ Calls(stack)
  BY TypeFacts DEF TypeInv
<1>5. FramesOK(stack', nodes, Len(merged))
  BY <1>1, <1>4, AdvanceFrames, FramesStore
<1> QED
  BY <1>1, <1>3, <1>5 DEF TypeInv, Results

\* An origin entry fails.
LEMMA OriginFailsTypes ==
  ASSUME TypeInv, AliasInv, OriginFails
  PROVE  TypeInv'
<1>1. PICK left \in SUBSET {"zeroed"} : Panic(stack, left)
  BY DEF OriginFails
<1>2. /\ stack # <<>> /\ Top.op = "mapping" /\ merged' \in {merged, Remember}
      /\ terrors' \in {terrors, terrors + 1}
      /\ UNCHANGED <<nodes, aliases, aliased, mergedFields, unmarshalers>>
  BY DEF OriginFails, OriginReached, AtEntry, In, TypeInv
<1>3. IsSequence(Remember) /\ Len(Remember) = Len(merged)
  BY <1>2, RememberTypes
<1>4. IsSequence(merged') /\ Len(merged') = Len(merged)
  BY <1>2, <1>3 DEF TypeInv
<1>5. /\ FramesOK(stack', nodes, Len(merged))
      /\ ret' \in Results /\ outcome' \in Outcomes /\ departed' \subseteq {"recovered", "zeroed", "repeated"}
  BY <1>1, TypeFacts, FramesFail DEF TypeInv
<1> QED
  BY <1>2, <1>4, <1>5 DEF TypeInv

\* The value of a key is decoded.
LEMMA MappingValueTypes ==
  ASSUME TypeInv, AliasInv, MappingValue
  PROVE  TypeInv'
<1>1. PICK v : v = Entry.value
  OBVIOUS
<1>2. /\ stack # <<>> /\ Top.op = "mapping" /\ Top.i <= Len(nodes[Top.node].content)
      /\ merged' = Remember /\ stack' = Append(stack, Unmarshal(v, 0))
      /\ UNCHANGED <<ret, aliases, aliased, mergedFields, terrors, outcome, unmarshalers, departed>>
  BY <1>1 DEF MappingValue, AtEntry, In
<1>3. PICK ns \in Known(v) : nodes' \in {ns, AddOriginTo(ns, v, 0)}
  BY <1>1 DEF MappingValue
<1>4. v \in 0..Len(nodes)
  BY <1>1, <1>2, ContentFacts
<1>5. Grows(nodes, nodes') /\ Len(nodes') + unmarshalers <= MaxNodes
  BY <1>3, <1>4, GrownTree
<1>6. DOMAIN nodes \subseteq DOMAIN nodes' /\ Len(nodes') \in Nat /\ aliases \subseteq DOMAIN nodes'
  BY <1>5, GrowsDomain
<1>7. v \in 0..Len(nodes')
  BY <1>4, <1>5, <1>6, TypeFacts DEF Grows
<1>8. FramesOK(stack, nodes', Len(merged)) /\ Len(merged) \in Nat /\ IsSequence(stack)
  BY <1>5, TypeFacts, FramesGrow DEF TypeInv
<1>9. FrameOK(Unmarshal(v, 0), nodes', Len(merged)) /\ Unmarshal(v, 0).op = "unmarshal"
  BY <1>7, UnmarshalFrame DEF Unmarshal
<1>10. FramesOK(stack', nodes', Len(merged))
  BY <1>2, <1>8, <1>9, FramesPush
<1>11. IsSequence(merged') /\ Len(merged') = Len(merged)
  BY <1>2, RememberTypes
<1>12. /\ mergedFields' \in 0..Len(merged')
       /\ ret' \in Results /\ terrors' \in Nat /\ outcome' \in Outcomes
       /\ aliases' \subseteq DOMAIN nodes' /\ aliased' \in BOOLEAN
       /\ UNCHANGED unmarshalers /\ departed' \subseteq {"recovered", "zeroed", "repeated"}
  BY <1>2, <1>6, <1>11 DEF TypeInv
<1> QED
  BY <1>5, <1>10, <1>11, <1>12, GoOnTypes

\* The value to merge is a node of the tree.
LEMMA MergeValueFacts ==
  ASSUME TypeInv, AliasInv, AtMerge, EntryOf(nodes[Top.node].content, Merge) # {}
  PROVE  MergeValue(nodes[Top.node].content) \in 0..Len(nodes)
<1>1. PICK c : c = nodes[Top.node].content
  OBVIOUS
<1>2. PICK i : i = CHOOSE j \in EntryOf(c, Merge) : TRUE
  OBVIOUS
<1>3. i \in DOMAIN c
  BY <1>1, <1>2 DEF EntryOf
<1>4. c \in Seq(Entries(Len(nodes)))
  BY <1>1, ContentFacts DEF AtMerge, In
<1>5. c[i] \in Entries(Len(nodes))
  BY <1>3, <1>4
<1> QED
  BY <1>1, <1>2, <1>5 DEF MergeValue, Entries

\* A merge makes the set of merged fields, or shares the one it finds.
LEMMA DecodeMergeTypes ==
  ASSUME TypeInv, AliasInv, DecodeMerge
  PROVE  TypeInv'
<1>1. PICK c, v : c = nodes[Top.node].content /\ v = MergeValue(c)
  OBVIOUS
<1>2. /\ stack # <<>> /\ Top.op = "mapping" /\ AtMerge /\ EntryOf(c, Merge) # {}
      /\ UNCHANGED <<ret, aliases, aliased, terrors, outcome, unmarshalers, departed>>
  BY <1>1 DEF DecodeMerge, AtMerge, In
<1>3. IF Top.own = 0
        THEN merged' = Append(merged, MergeFields(c)) /\ mergedFields' = Len(merged) + 1
        ELSE mergedFields' = Top.own /\ UNCHANGED merged
  BY <1>1 DEF DecodeMerge
<1>4. PICK ns, f :
        /\ ns \in Known(v) /\ nodes' = ns /\ stack' = Append(stack, f)
        /\ f = [op |-> "merge", node |-> v, i |-> 1, owner |-> Top.owner,
                saved |-> Top.own, fields |-> mergedFields']
  BY <1>1 DEF DecodeMerge
<1>5. v \in 0..Len(nodes)
  BY <1>1, <1>2, MergeValueFacts
<1>6. Grows(nodes, nodes') /\ Len(nodes') + unmarshalers <= MaxNodes /\ Tree(nodes')
  BY <1>4, <1>5, GrownTree
<1>7. DOMAIN nodes \subseteq DOMAIN nodes' /\ Len(nodes') \in Nat /\ aliases \subseteq DOMAIN nodes'
  BY <1>6, GrowsDomain
<1>8. v \in 0..Len(nodes')
  BY <1>5, <1>6, <1>7, TypeFacts DEF Grows
<1>9. Top.own \in 0..Len(merged) /\ Len(merged) \in Nat /\ IsSequence(stack) /\ IsSequence(merged)
  BY <1>2, TypeFacts DEF FrameOK, TypeInv
<1>10. /\ IsSequence(merged') /\ Len(merged') \in Nat /\ Len(merged) <= Len(merged')
       /\ mergedFields' \in 1..Len(merged')
       /\ Top.own = 0 => mergedFields' - 1 = Len(merged)
  <2>1. CASE Top.own = 0
    <3>1. IsSequence(merged') /\ Len(merged') = Len(merged) + 1
      BY <1>3, <1>9, <2>1, AppendFacts
    <3> QED
      BY <1>3, <1>9, <2>1, <3>1
  <2>2. CASE Top.own # 0
    BY <1>3, <1>9, <2>2
  <2> QED
    BY <2>1, <2>2
<1>11. /\ f.op = "merge" /\ f.saved = Top.own /\ f.fields = mergedFields' /\ f.node = v /\ f.i = 1
       /\ DOMAIN f = {"op", "node", "i", "owner", "saved", "fields"}
  BY <1>4
<1>12. FrameOK(f, nodes', Len(merged'))
  BY <1>8, <1>9, <1>10, <1>11 DEF FrameOK
<1>13. FramesOK(stack, nodes', Len(merged)) /\ FramesOK(stack, nodes', Len(merged'))
  BY <1>6, <1>9, <1>10, TypeFacts, FramesGrow DEF TypeInv
<1>14. f.saved = 0 => \A j \in DOMAIN stack : FrameOK(stack[j], nodes', f.fields - 1)
  BY <1>10, <1>11, <1>13 DEF FramesOK
<1>15. FramesOK(stack', nodes', Len(merged'))
  BY <1>4, <1>9, <1>10, <1>12, <1>13, <1>14, FramesPush
<1>16. /\ mergedFields' \in 0..Len(merged')
       /\ ret' \in Results /\ terrors' \in Nat /\ outcome' \in Outcomes
       /\ aliases' \subseteq DOMAIN nodes' /\ aliased' \in BOOLEAN
       /\ UNCHANGED unmarshalers /\ departed' \subseteq {"recovered", "zeroed", "repeated"}
  BY <1>2, <1>7, <1>10 DEF TypeInv
<1> QED
  BY <1>6, <1>10, <1>15, <1>16, GoOnTypes

\* What is merged are nodes of the tree.
LEMMA SourcesOK ==
  ASSUME NEW ns, Tree(ns), NEW n \in 0..Len(ns)
  PROVE  Sources(ns, n) \in Seq(0..Len(ns))
<1>1. ns \in Seq(Nodes(Len(ns))) /\ Len(ns) \in Nat /\ DOMAIN ns = 1..Len(ns)
  BY DEF Tree
<1>2. CASE Kind(ns, n) = "sequence"
  <2>1. n # 0 /\ ns[n].kind = "sequence"
    BY <1>2 DEF Kind
  <2>2. ns[n] \in Nodes(Len(ns))
    BY <1>1, <2>1
  <2>3. ns[n] \in [kind : {"sequence"}, content : Seq(0..Len(ns))]
    BY <1>1, <2>1, <2>2, NodeFacts
  <2> QED
    BY <1>2, <2>3 DEF Sources
<1>3. CASE Kind(ns, n) # "sequence"
  BY <1>3 DEF Sources
<1> QED
  BY <1>2, <1>3

\* The next mapping to merge.
LEMMA MergeSourceTypes ==
  ASSUME TypeInv, AliasInv, MergeSource
  PROVE  TypeInv'
<1>1. PICK all, source : all = Sources(nodes, Top.node) /\ source = all[Top.i]
  OBVIOUS
<1>2. /\ stack # <<>> /\ Top.op = "merge" /\ Top.i <= Len(all)
      /\ UNCHANGED <<decoder, terrors, unmarshalers>>
  BY <1>1 DEF MergeSource, In
<1>3. PICK ns \in Known(source) :
        /\ nodes' = ns
        /\ \/ /\ stack' = Append(Advance, Unmarshal(source, Top.owner))
              /\ ret' = "none" /\ UNCHANGED <<outcome, departed>>
           \/ Fail(stack)
  BY <1>1 DEF MergeSource
<1>4. Top.node \in 0..Len(nodes) /\ Top.i \in Nat \ {0}
  BY <1>2, TypeFacts DEF FrameOK
<1>5. source \in 0..Len(nodes)
  <2>1. all \in Seq(0..Len(nodes))
    BY <1>1, <1>4, SourcesOK DEF TypeInv
  <2>2. Top.i \in 1..Len(all)
    BY <1>2, <1>4, <2>1
  <2> QED
    BY <1>1, <2>1, <2>2
<1>6. Grows(nodes, nodes') /\ Len(nodes') + unmarshalers <= MaxNodes
  BY <1>3, <1>5, GrownTree
<1>7. DOMAIN nodes \subseteq DOMAIN nodes' /\ Len(nodes') \in Nat /\ aliases \subseteq DOMAIN nodes'
  BY <1>6, GrowsDomain
<1>8. CASE Fail(stack)
  BY <1>2, <1>6, <1>8, TypeFacts, FailTypes DEF TypeInv
<1>9. CASE /\ stack' = Append(Advance, Unmarshal(source, Top.owner))
           /\ ret' = "none" /\ UNCHANGED <<outcome, departed>>
  <2>1. FramesOK(stack, nodes', Len(merged)) /\ Len(merged) \in Nat
    BY <1>6, TypeFacts, FramesGrow DEF TypeInv
  <2>2. FramesOK(Advance, nodes', Len(merged)) /\ IsSequence(Advance)
    BY <1>2, <2>1, AdvanceFrames
  <2>3. source \in 0..Len(nodes')
    BY <1>5, <1>6, <1>7, TypeFacts DEF Grows
  <2>4. FrameOK(Unmarshal(source, Top.owner), nodes', Len(merged))
        /\ Unmarshal(source, Top.owner).op = "unmarshal"
    BY <2>3, UnmarshalFrame DEF Unmarshal
  <2>5. FramesOK(stack', nodes', Len(merged))
    BY <1>9, <2>1, <2>2, <2>4, FramesPush
  <2>6. /\ IsSequence(merged') /\ mergedFields' \in 0..Len(merged') /\ Len(merged') = Len(merged)
        /\ ret' \in Results /\ terrors' \in Nat /\ outcome' \in Outcomes
        /\ aliases' \subseteq DOMAIN nodes' /\ aliased' \in BOOLEAN
        /\ UNCHANGED unmarshalers /\ departed' \subseteq {"recovered", "zeroed", "repeated"}
    BY <1>2, <1>7, <1>9 DEF TypeInv, decoder, Results
  <2> QED
    BY <1>6, <2>5, <2>6, GoOnTypes
<1> QED
  BY <1>3, <1>8, <1>9

\* A merge drops the set it made, which no other call names.
LEMMA MergeReturnsTypes ==
  ASSUME TypeInv, AliasInv, MergeReturns
  PROVE  TypeInv'
<1> DEFINE n == Len(stack)
<1>1. /\ stack # <<>> /\ Top.op = "merge" /\ mergedFields' = Top.saved /\ ret' = "good"
      /\ stack' = Front(Front(stack))
      /\ merged' = IF Top.saved = 0 THEN SubSeq(merged, 1, Top.fields - 1) ELSE merged
      /\ UNCHANGED <<nodes, aliases, aliased, terrors, outcome, unmarshalers, departed>>
  BY DEF MergeReturns, In
<1>2. /\ DOMAIN stack = 1..n /\ n \in Nat \ {0} /\ IsSequence(Front(stack))
      /\ Len(Front(stack)) = n - 1 /\ DOMAIN Front(stack) = 1..n - 1
      /\ \A i \in 1..n - 1 : Front(stack)[i] = stack[i]
  BY <1>1, TypeFacts, FrontFacts
<1>3. stack[n] = Top /\ n \in DOMAIN stack
  BY <1>2 DEF Top, Last
<1>4. n > 1
  BY <1>1, <1>3, TypeFacts DEF Calls
<1>5. Front(stack) # <<>>
  <2>1. Len(<<>>) = 0
    OBVIOUS
  <2> QED
    BY <1>2, <1>4, <2>1
<1>6. /\ DOMAIN stack' = 1..n - 2
      /\ \A i \in 1..n - 2 : stack'[i] = stack[i]
  <2>1. /\ DOMAIN Front(Front(stack)) = 1..Len(Front(stack)) - 1
        /\ \A i \in 1..Len(Front(stack)) - 1 : Front(Front(stack))[i] = Front(stack)[i]
    BY <1>2, <1>5, FrontFacts
  <2> HIDE DEF n
  <2>2. Len(Front(stack)) - 1 = n - 2 /\ \A i \in 1..n - 2 : i \in 1..n - 1
    BY <1>2
  <2> QED
    BY <1>1, <1>2, <2>1, <2>2
<1> HIDE DEF n
<1>7. n - 2 \in Nat /\ n - 2 <= n /\ n \in Nat
  BY <1>2, <1>4
<1>8. FramesOK(stack', nodes, Len(merged))
  BY <1>2, <1>6, <1>7, FramesBelow DEF TypeInv
<1>9. Top.saved \in 0..Len(merged) /\ Top.fields \in 1..Len(merged) /\ Len(merged) \in Nat
  BY <1>1, TypeFacts DEF FrameOK
<1>10. CASE Top.saved # 0
  BY <1>1, <1>8, <1>9, <1>10 DEF TypeInv, Results
<1>11. CASE Top.saved = 0
  <2>1. PICK m : m = Top.fields - 1
    OBVIOUS
  <2>2. m \in Nat /\ m <= Len(merged)
    BY <1>9, <2>1
  <2>3. merged' = SubSeq(merged, 1, m)
    BY <1>1, <1>11, <2>1
  <2>4. IsSequence(merged') /\ Len(merged') = m
    <3>1. PICK S : merged \in Seq(S)
      BY DEF TypeInv, IsSequence
    <3>2. m \in Int /\ 1 \in Int /\ \A i \in 1..m : merged[i] \in S
      BY <1>9, <2>2, <3>1
    <3>3. /\ SubSeq(merged, 1, m) \in Seq(S)
          /\ Len(SubSeq(merged, 1, m)) = IF 1 <= m THEN m - 1 + 1 ELSE 0
      BY <3>2, SubSeqProperties
    <3> QED
      BY <2>2, <2>3, <3>3 DEF IsSequence
  <2>5. \A l \in 1..n - 1 : FrameOK(stack[l], nodes, m)
    BY <1>1, <1>3, <1>11, <2>1 DEF TypeInv, FramesOK
  <2>6. \A l \in DOMAIN stack' : l \in 1..n - 1 /\ stack'[l] = stack[l]
    BY <1>2, <1>6
  <2>7. FramesOK(stack', nodes, m)
    BY <1>8, <2>5, <2>6 DEF FramesOK
  <2>8. FramesOK(stack', nodes', Len(merged'))
    BY <1>1, <2>4, <2>7
  <2>9. mergedFields' \in 0..Len(merged') /\ ret' \in Results
    <3>1. mergedFields' = 0 /\ Len(merged') \in Nat
      BY <1>1, <1>11, <2>2, <2>4
    <3>2. mergedFields' \in 0..Len(merged')
      BY <3>1
    <3> QED
      BY <1>1, <3>2 DEF Results
  <2> QED
    BY <1>1, <2>4, <2>8, <2>9 DEF TypeInv
<1> QED
  BY <1>10, <1>11

\* The unmarshaler calls its function, or the function returns.
LEMMA FunctionTypes ==
  ASSUME TypeInv, AliasInv, UnmarshalerCalls \/ FunctionReturns
  PROVE  TypeInv'
<1>1. /\ stack # <<>> /\ Top.op = "unmarshaler"
      /\ UNCHANGED <<nodes, decoder, outcome, unmarshalers>>
      /\ departed' \subseteq departed \cup {"repeated"} /\ ret' \in Results
  BY DEF UnmarshalerCalls, FunctionReturns, In, TypeInv, Results
<1>2. /\ FrameOK(Top, nodes, Len(merged)) /\ IsSequence(stack) /\ Len(merged) \in Nat
      /\ FramesOK(stack, nodes, Len(merged))
  BY <1>1, TypeFacts DEF TypeInv
<1>3. /\ {"op", "node", "terrlen", "calls", "result", "issues"} \subseteq DOMAIN Top
      /\ Top.node \in 0..Len(nodes) /\ Top.terrlen \in Nat
  BY <1>1, <1>2 DEF FrameOK
<1>4. CASE UnmarshalerCalls
  <2>1. PICK f : f = [Top EXCEPT !.calls = @ + 1]
    OBVIOUS
  <2>2. stack' = Append(Append(Front(stack), f), Unmarshal(Top.node, 0)) /\ terrors' = terrors
    BY <1>4, <2>1 DEF UnmarshalerCalls, Replace
  <2>3. DOMAIN f = DOMAIN Top /\ \A x \in DOMAIN Top \ {"calls"} : f[x] = Top[x]
    BY <2>1
  <2>4. /\ f.op = "unmarshaler" /\ f.node = Top.node /\ f.terrlen = Top.terrlen
        /\ f.result = Top.result /\ f.issues = Top.issues
    BY <1>1, <1>3, <2>3
  <2>5. FrameOK(f, nodes, Len(merged))
    BY <1>1, <1>2, <1>3, <2>3, <2>4 DEF FrameOK
  <2>6. FramesOK(Append(Front(stack), f), nodes, Len(merged)) /\ IsSequence(Append(Front(stack), f))
    BY <1>1, <1>2, <2>4, <2>5, FramesReplace
  <2>7. FrameOK(Unmarshal(Top.node, 0), nodes, Len(merged)) /\ Unmarshal(Top.node, 0).op = "unmarshal"
    BY <1>3, UnmarshalFrame DEF Unmarshal
  <2>8. FramesOK(stack', nodes, Len(merged))
    BY <1>2, <2>2, <2>6, <2>7, FramesPush
  <2> QED
    BY <1>1, <2>2, <2>8 DEF TypeInv, decoder
<1>5. CASE FunctionReturns
  <2>1. PICK r, n, f : /\ f = [Top EXCEPT !.result = r, !.issues = n] /\ stack' = Append(Front(stack), f)
                       /\ \/ r = "error" /\ UNCHANGED terrors
                          \/ /\ r = IF terrors > Top.terrlen THEN "type_error" ELSE "nil"
                             /\ n = terrors - Top.terrlen /\ terrors' = Top.terrlen
    BY <1>5 DEF FunctionReturns, Replace
  <2>2. /\ DOMAIN f = DOMAIN Top /\ \A x \in DOMAIN Top \ {"result", "issues"} : f[x] = Top[x]
        /\ f.result = r /\ f.issues = n
    BY <1>3, <2>1
  <2>3. f.op = "unmarshaler" /\ f.node = Top.node /\ f.terrlen = Top.terrlen
    BY <1>1, <1>3, <2>2
  <2>4. terrors \in Nat
    BY DEF TypeInv
  <2>5. r = "type_error" => n \in Nat
    BY <1>3, <2>1, <2>4
  <2>6. FrameOK(f, nodes, Len(merged))
    BY <1>1, <1>3, <2>2, <2>3, <2>5 DEF FrameOK
  <2>7. FramesOK(stack', nodes, Len(merged))
    BY <1>1, <1>2, <2>1, <2>3, <2>6, FramesReplace
  <2>8. terrors' \in Nat
    BY <1>3, <2>1, <2>4
  <2> QED
    BY <1>1, <2>7, <2>8 DEF TypeInv, decoder
<1> QED
  BY <1>4, <1>5

\* The unmarshaler returns, or fails.
LEMMA UnmarshalerReturnsTypes ==
  ASSUME TypeInv, AliasInv, UnmarshalerReturns
  PROVE  TypeInv'
<1>1. /\ stack # <<>> /\ Top.op = "unmarshaler" /\ UNCHANGED <<nodes, decoder, unmarshalers>>
      /\ \/ Return("good") /\ UNCHANGED <<terrors, outcome, departed>>
         \/ /\ Top.result = "type_error" /\ terrors' = terrors + Top.issues
            /\ Return("bad") /\ UNCHANGED <<outcome, departed>>
         \/ Fail(Front(stack)) /\ UNCHANGED terrors
  BY DEF UnmarshalerReturns, In
<1>2. Top.result = "type_error" => Top.issues \in Nat
  BY <1>1, TypeFacts DEF FrameOK
<1>3. CASE Fail(Front(stack)) /\ UNCHANGED terrors
  <2>1. IsSequence(Front(stack)) /\ FramesOK(Front(stack), nodes, Len(merged))
    BY <1>1, TypeFacts, FrontFacts, FramesFront DEF TypeInv
  <2>2. Grows(nodes, nodes') /\ Len(nodes') + unmarshalers <= MaxNodes
    BY <1>1, TypeFacts DEF TypeInv
  <2> QED
    BY <1>1, <1>3, <2>1, <2>2, FailTypes
<1>4. CASE (Return("good") \/ Return("bad")) /\ terrors' \in Nat /\ UNCHANGED <<outcome, departed>>
  <2>1. /\ stack' = Front(stack) /\ ret' \in Results /\ mergedFields' \in 0..Len(merged)
        /\ aliases' \subseteq aliases /\ UNCHANGED <<merged, aliased>>
    BY <1>1, <1>4 DEF Return, Results, decoder, TypeInv
  <2> QED
    BY <1>1, <1>4, <2>1, ReturnTypes
<1>5. terrors \in Nat
  BY DEF TypeInv
<1> QED
  BY <1>1, <1>2, <1>3, <1>4, <1>5

\* Before Decode is called there is one node that nobody has looked at.
LEMMA TypeInit ==
  ASSUME Init
  PROVE  TypeInv
<1>1. nodes = <<Unknown>> /\ Len(nodes) = 1
  BY DEF Init
<1>2. Unknown \in Nodes(1)
  BY DEF Nodes
<1>3. Tree(nodes)
  BY <1>1, <1>2 DEF Tree
<1>4. /\ merged = <<>> /\ stack = <<>> /\ mergedFields = 0 /\ unmarshalers = 0
      /\ ret = "none" /\ outcome = "none" /\ terrors = 0 /\ aliases = {} /\ aliased = FALSE /\ departed = {}
  BY DEF Init
<1>5. FramesOK(stack, nodes, Len(merged))
  BY <1>4 DEF FramesOK
<1>6. IsSequence(merged) /\ Len(merged) = 0
  <2>1. <<>> \in Seq({})
    OBVIOUS
  <2> QED
    BY <1>4, <2>1 DEF IsSequence
<1>7. mergedFields \in 0..Len(merged) /\ ret \in Results /\ outcome \in Outcomes
  BY <1>4, <1>6 DEF Results, Outcomes
<1>8. Len(nodes) >= 1 /\ unmarshalers \in Nat /\ Len(nodes) + unmarshalers <= MaxNodes
  BY <1>1, <1>4, Bounds
<1>9. /\ terrors \in Nat /\ aliases \subseteq DOMAIN nodes /\ aliased \in BOOLEAN
      /\ departed \subseteq {"recovered", "zeroed", "repeated"}
  BY <1>4
<1> QED
  BY <1>3, <1>5, <1>6, <1>7, <1>8, <1>9 DEF TypeInv

\* Each step keeps the types.
LEMMA TypeStep ==
  ASSUME TypeInv, AliasInv, [Next]_vars
  PROVE  TypeInv'
<1>1. CASE UNCHANGED vars
  BY <1>1 DEF vars, TypeInv
<1>2. CASE Start \/ Finish
  BY <1>2, StartTypes, FinishTypes
<1>3. CASE \/ DecodeWhole \/ Mismatch \/ RefuseDuplicate \/ SequenceReturns \/ AliasReturns
           \/ MappingReturns
  BY <1>3, ReturnsTypes
<1>4. CASE Refuse \/ RefuseCycle
  BY <1>4, FailsTypes
<1>5. CASE DecodeAlias
  BY <1>5, DecodeAliasTypes
<1>6. CASE DecodeSequence \/ DecodeMapping \/ CallUnmarshaler
  BY <1>6, BeginTypes
<1>7. CASE SequenceItem
  BY <1>7, SequenceItemTypes
<1>8. CASE MappingSkips \/ MappingIgnores \/ MappingOrigin \/ OriginMismatch \/ MappingStores
  BY <1>8, EntryTypes
<1>81. CASE OriginFails
  BY <1>81, OriginFailsTypes
<1>9. CASE MappingValue
  BY <1>9, MappingValueTypes
<1>10. CASE DecodeMerge
  BY <1>10, DecodeMergeTypes
<1>11. CASE MergeSource
  BY <1>11, MergeSourceTypes
<1>12. CASE MergeReturns
  BY <1>12, MergeReturnsTypes
<1>13. CASE UnmarshalerCalls \/ FunctionReturns
  BY <1>13, FunctionTypes
<1>14. CASE UnmarshalerReturns
  BY <1>14, UnmarshalerReturnsTypes
<1> QED
  BY <1>1, <1>2, <1>3, <1>4, <1>5, <1>6, <1>7, <1>8, <1>81, <1>9, <1>10, <1>11, <1>12, <1>13,
     <1>14 DEF Next

\* The decoder keeps its types: whatever is named by a call is a node that has been
\* met and a set of merged fields that has not been dropped, failures that leave
\* sets behind included.
THEOREM DecoderTypes == Spec => []TypeOK
<1>1. Init => TypeInv /\ AliasInv
  BY TypeInit, AliasInit
<1>2. TypeInv /\ AliasInv /\ [Next]_vars => (TypeInv /\ AliasInv)'
  BY TypeStep, NextStep
<1>3. TypeInv /\ AliasInv => TypeOK
  <2> SUFFICES ASSUME TypeInv, AliasInv PROVE TypeOK
    OBVIOUS
  <2>1. \A n \in DOMAIN nodes : nodes[n].kind \in {"unknown", "alias", "sequence", "mapping"}
    <3> TAKE n \in DOMAIN nodes
    <3>1. nodes[n] \in Nodes(Len(nodes)) /\ Len(nodes) \in Nat
      BY TypeFacts DEF TypeInv, Tree
    <3> QED
      BY <3>1, NodeFacts
  <2>2. Len(nodes) <= MaxNodes
    BY TypeFacts, Bounds DEF TypeInv
  <2>3. aliasDepth \in Int /\ (stack # <<>> => Running)
    BY DEF AliasInv, Covered, Idle
  <2> QED
    BY <2>1, <2>2, <2>3 DEF TypeInv, TypeOK
<1> QED
  BY <1>1, <1>2, <1>3, PTL DEF Spec

-----------------------------------------------------------------------------
(* The places of a tree                                                      *)

\* Where a node holds others, and which.
PlacesIn(node) == IF node.kind \in {"sequence", "mapping"} THEN DOMAIN node.content ELSE {}
ChildIn(node, i) == IF node.kind = "sequence" THEN node.content[i] ELSE node.content[i].value
Places(ns, n) == IF n = 0 THEN {} ELSE PlacesIn(ns[n])
Child(ns, n, i) == ChildIn(ns[n], i)

\* A node other than a scalar stands in one place.
OnePlace(ns) ==
  \A m, n \in DOMAIN ns : \A i \in Places(ns, m), j \in Places(ns, n) :
    Child(ns, m, i) # 0 /\ Child(ns, m, i) = Child(ns, n, j) => m = n /\ i = j

\* A call in no alias decodes a node where it stands.
Direct(s) == {l \in DOMAIN s : \A k \in 1..l : s[k].op # "alias"}

\* The places of its node that a call at level l of s has still to look at; r is what
\* the innermost call has been given.
Waits(s, l, r, ns, i) ==
  LET f == s[l] IN
  \/ f.op = "unmarshal"
  \/ f.op = "sequence" /\ i >= f.i
  \/ /\ f.op = "mapping"
     /\ l = Len(s) \/ s[l + 1].op # "merge"
     /\ \/ i > f.i
        \/ i = f.i /\ l = Len(s) /\ r = "none"
        \/ ns[f.node].content[i].key = Merge
  \/ f.op = "merge" /\ (IF Kind(ns, f.node) = "sequence" THEN i >= f.i ELSE f.i = 1)
  \/ f.op = "unmarshaler" /\ f.calls = 0
Waiting(s, l, r, ns) == {i \in Places(ns, s[l].node) : Waits(s, l, r, ns, i)}

\* A node without an origin that holds nodes of F.
Untouched(node, F) ==
  \A i \in PlacesIn(node) :
    /\ ChildIn(node, i) \in F \cup {0}
    /\ node.kind = "mapping" => node.content[i].key # Origin

\* F: the nodes that nobody has decoded where they stand.  They have no origin and hold
\* no others, and what the calls have still to look at is among them, each in one call.
Fresh(F, s, r, ns) ==
  /\ F \subseteq DOMAIN ns
  /\ \A n \in F : Untouched(ns[n], F)
  /\ \A l \in Direct(s) :
       /\ s[l].node \in {0} \cup (DOMAIN ns \ F) /\ Kind(ns, s[l].node) # "unknown"
       /\ \A i \in Waiting(s, l, r, ns) : Child(ns, s[l].node, i) \in F \cup {0}
  /\ \A k, l \in Direct(s) :
       k # l /\ s[k].node = s[l].node => Waiting(s, k, r, ns) \cap Waiting(s, l, r, ns) = {}

\* The trees in question are those of nodes with numbers from 1.
Numbers(ns) == DOMAIN ns \subseteq Nat \ {0}

\* A mapping has an origin at most once.
Single(node) == node.kind = "mapping" => \A i, j \in EntryOf(node.content, Origin) : i = j
Origins(ns) == \A n \in DOMAIN ns : Single(ns[n])

-----------------------------------------------------------------------------
(* How calls pass on what they wait for                                      *)

\* Calls that wait for less.
LEMMA FreshLess ==
  ASSUME NEW F, NEW s, NEW r, NEW t, NEW q, NEW ns, Fresh(F, s, r, ns),
         \A l \in Direct(t) :
           l \in Direct(s) /\ t[l].node = s[l].node /\ Waiting(t, l, q, ns) \subseteq Waiting(s, l, r, ns)
  PROVE  Fresh(F, t, q, ns)
<1>1. \A l \in Direct(t) :
        /\ t[l].node \in {0} \cup (DOMAIN ns \ F) /\ Kind(ns, t[l].node) # "unknown"
        /\ \A i \in Waiting(t, l, q, ns) : Child(ns, t[l].node, i) \in F \cup {0}
  BY DEF Fresh
<1>2. \A k, l \in Direct(t) :
        k # l /\ t[k].node = t[l].node => Waiting(t, k, q, ns) \cap Waiting(t, l, q, ns) = {}
  <2> SUFFICES ASSUME NEW k \in Direct(t), NEW l \in Direct(t), k # l, t[k].node = t[l].node
               PROVE  Waiting(t, k, q, ns) \cap Waiting(t, l, q, ns) = {}
    OBVIOUS
  <2>1. Waiting(s, k, r, ns) \cap Waiting(s, l, r, ns) = {}
    BY DEF Fresh
  <2> QED
    BY <2>1
<1> QED
  BY <1>1, <1>2 DEF Fresh

\* The calls of t but that at level m are calls of s and wait for what they waited for.
Keeps(s, r, t, q, ns, m) ==
  \A l \in Direct(t) \ {m} :
    l \in Direct(s) /\ t[l].node = s[l].node /\ Waiting(t, l, q, ns) \subseteq Waiting(s, l, r, ns)

\* A call at level m takes over what the call at level k waits for.
LEMMA FreshMove ==
  ASSUME NEW F, NEW s, NEW r, NEW t, NEW q, NEW ns, Fresh(F, s, r, ns),
         NEW k \in Direct(s), NEW m,
         Keeps(s, r, t, q, ns, m),
         Waiting(t, k, q, ns) = {}, k # m,
         t[m].node = s[k].node, Waiting(t, m, q, ns) \subseteq Waiting(s, k, r, ns)
  PROVE  Fresh(F, t, q, ns)
<1> USE DEF Keeps
<1>1. ASSUME NEW l \in Direct(t)
      PROVE  /\ t[l].node \in {0} \cup (DOMAIN ns \ F) /\ Kind(ns, t[l].node) # "unknown"
             /\ \A i \in Waiting(t, l, q, ns) : Child(ns, t[l].node, i) \in F \cup {0}
  <2>1. CASE l = m
    BY <2>1 DEF Fresh
  <2>2. CASE l # m
    BY <2>2 DEF Fresh
  <2> QED
    BY <2>1, <2>2
<1>2. ASSUME NEW i \in Direct(t), NEW l \in Direct(t), i # l, t[i].node = t[l].node
      PROVE  Waiting(t, i, q, ns) \cap Waiting(t, l, q, ns) = {}
  <2>1. ASSUME NEW a \in Direct(t), NEW b \in Direct(t), a # b, t[a].node = t[b].node, a # m
        PROVE  Waiting(t, a, q, ns) \cap Waiting(t, b, q, ns) = {}
    <3>1. a \in Direct(s) /\ t[a].node = s[a].node /\ Waiting(t, a, q, ns) \subseteq Waiting(s, a, r, ns)
      BY <2>1
    <3>2. CASE b = m /\ a = k
      BY <3>2
    <3>3. CASE b = m /\ a # k
      <4>1. Waiting(s, a, r, ns) \cap Waiting(s, k, r, ns) = {}
        BY <2>1, <3>1, <3>3 DEF Fresh
      <4> QED
        BY <3>1, <3>3, <4>1
    <3>4. CASE b # m
      <4>1. b \in Direct(s) /\ t[b].node = s[b].node /\ Waiting(t, b, q, ns) \subseteq Waiting(s, b, r, ns)
        BY <3>4
      <4>2. Waiting(s, a, r, ns) \cap Waiting(s, b, r, ns) = {}
        BY <2>1, <3>1, <4>1 DEF Fresh
      <4> QED
        BY <3>1, <4>1, <4>2
    <3> QED
      BY <3>2, <3>3, <3>4
  <2> QED
    BY <1>2, <2>1
<1> QED
  BY <1>1, <1>2 DEF Fresh

\* The call at level m, and no other, is for the node n, which is no longer fresh.
Visited(F, t, q, ns, n, m) ==
  /\ n \in F \cup {0}
  /\ Fresh(F \ {n}, t, q, ns)
  /\ n # 0 => \A l \in Direct(t) : t[l].node = n => l = m

\* The call at level k calls for the node in one of the places it waits for.
LEMMA FreshVisit ==
  ASSUME NEW F, NEW s, NEW r, NEW t, NEW q, NEW ns, Fresh(F, s, r, ns), OnePlace(ns), Numbers(ns),
         NEW k \in Direct(s), NEW p \in Waiting(s, k, r, ns),
         NEW n, n = Child(ns, s[k].node, p), Kind(ns, n) # "unknown", NEW m,
         Keeps(s, r, t, q, ns, m),
         p \notin Waiting(t, k, q, ns), t[m].node = n
  PROVE  Visited(F, t, q, ns, n, m)
<1> USE DEF Keeps
<1>1. n \in F \cup {0} /\ 0 \notin F
  BY DEF Fresh, Numbers
<1>2. s[k].node \in DOMAIN ns /\ s[k].node \notin F /\ p \in Places(ns, s[k].node)
  BY DEF Fresh, Waiting, Places
<1>3. \A l \in Direct(t) \ {m} : t[l].node \in {0} \cup (DOMAIN ns \ F)
  BY DEF Fresh
<1>4. \A a \in DOMAIN ns : \A i : i \in Places(ns, a) /\ Child(ns, a, i) = n /\ n # 0 => a = s[k].node /\ i = p
  BY <1>2 DEF OnePlace
<1>5. ASSUME NEW a \in F \ {n}
      PROVE  Untouched(ns[a], F \ {n})
  <2>1. Untouched(ns[a], F) /\ a # 0 /\ a \in DOMAIN ns
    BY <1>1 DEF Fresh
  <2>2. \A i \in Places(ns, a) : ~ (Child(ns, a, i) = n /\ n # 0)
    BY <1>2, <1>4, <2>1
  <2> QED
    BY <1>1, <2>1, <2>2 DEF Untouched, Places, Child
<1>6. ASSUME NEW l \in Direct(t) \ {m}
      PROVE  /\ t[l].node \in {0} \cup (DOMAIN ns \ (F \ {n})) /\ Kind(ns, t[l].node) # "unknown"
             /\ \A i \in Waiting(t, l, q, ns) : Child(ns, t[l].node, i) \in (F \ {n}) \cup {0}
  <2>1. /\ l \in Direct(s) /\ t[l].node = s[l].node /\ Waiting(t, l, q, ns) \subseteq Waiting(s, l, r, ns)
        /\ s[l].node \in {0} \cup (DOMAIN ns \ F) /\ Kind(ns, s[l].node) # "unknown"
        /\ \A i \in Waiting(s, l, r, ns) : Child(ns, s[l].node, i) \in F \cup {0}
    BY DEF Fresh
  <2>2. ASSUME NEW i \in Waiting(t, l, q, ns), Child(ns, s[l].node, i) = n, n # 0
        PROVE  FALSE
    <3>1. i \in Places(ns, s[l].node) /\ s[l].node \in DOMAIN ns
      BY <2>1 DEF Waiting, Places
    <3>2. s[l].node = s[k].node /\ i = p
      BY <1>4, <2>2, <3>1
    <3>3. l # k
      BY <2>2, <3>2
    <3>4. Waiting(s, l, r, ns) \cap Waiting(s, k, r, ns) = {}
      BY <2>1, <3>2, <3>3 DEF Fresh
    <3> QED
      BY <2>1, <2>2, <3>2, <3>4
  <2> QED
    BY <2>1, <2>2
<1>7. /\ n \in {0} \cup (DOMAIN ns \ (F \ {n}))
      /\ \A i \in Waiting(t, m, q, ns) : Child(ns, n, i) \in (F \ {n}) \cup {0}
  <2>1. n \in {0} \cup (DOMAIN ns \ (F \ {n}))
    BY <1>1 DEF Fresh
  <2>2. ASSUME NEW i \in Waiting(t, m, q, ns)
        PROVE  Child(ns, n, i) \in (F \ {n}) \cup {0}
    <3>1. i \in Places(ns, n) /\ n # 0
      BY DEF Waiting, Places
    <3>2. n \in F /\ Untouched(ns[n], F) /\ n \in DOMAIN ns
      BY <1>1, <3>1 DEF Fresh
    <3>3. Child(ns, n, i) \in F \cup {0}
      BY <3>1, <3>2 DEF Untouched, Places, Child
    <3>4. Child(ns, n, i) # n
      BY <1>2, <1>4, <3>1, <3>2
    <3> QED
      BY <3>3, <3>4
  <2> QED
    BY <2>1, <2>2
<1>8. n # 0 => \A l \in Direct(t) : t[l].node = n => l = m
  BY <1>1, <1>3
<1>9. ASSUME NEW a \in Direct(t), NEW b \in Direct(t), a # b, t[a].node = t[b].node
      PROVE  Waiting(t, a, q, ns) \cap Waiting(t, b, q, ns) = {}
  <2>1. CASE t[a].node = 0
    BY <2>1 DEF Waiting, Places
  <2>2. CASE t[a].node # 0
    <3>1. a # m /\ b # m
      BY <1>8, <1>9, <2>2
    <3>2. a \in Direct(s) /\ t[a].node = s[a].node /\ Waiting(t, a, q, ns) \subseteq Waiting(s, a, r, ns)
      BY <3>1
    <3>3. b \in Direct(s) /\ t[b].node = s[b].node /\ Waiting(t, b, q, ns) \subseteq Waiting(s, b, r, ns)
      BY <3>1
    <3>4. Waiting(s, a, r, ns) \cap Waiting(s, b, r, ns) = {}
      BY <1>9, <3>2, <3>3 DEF Fresh
    <3> QED
      BY <3>2, <3>3, <3>4
  <2> QED
    BY <2>1, <2>2
<1>10. F \ {n} \subseteq DOMAIN ns
  BY DEF Fresh
<1>11. \A l \in Direct(t) :
        /\ t[l].node \in {0} \cup (DOMAIN ns \ (F \ {n})) /\ Kind(ns, t[l].node) # "unknown"
        /\ \A i \in Waiting(t, l, q, ns) : Child(ns, t[l].node, i) \in (F \ {n}) \cup {0}
  BY <1>6, <1>7
<1> QED
  BY <1>1, <1>5, <1>8, <1>9, <1>10, <1>11 DEF Fresh, Visited

-----------------------------------------------------------------------------
(* How the tree changes under the calls                                      *)

\* The node of the call at level l of s is the same in two trees.
SameNode(s, l, ns, ms) == s[l].node = 0 \/ ms[s[l].node] = ns[s[l].node]
\* What it waits for is the same.
SameWaiting(s, l, r, ns, ms) ==
  /\ Waiting(s, l, r, ms) = Waiting(s, l, r, ns)
  /\ Kind(ms, s[l].node) = Kind(ns, s[l].node)
  /\ \A i \in Waiting(s, l, r, ns) : Child(ms, s[l].node, i) = Child(ns, s[l].node, i)

\* A call whose node does not change waits for the same.
LEMMA WaitingSame ==
  ASSUME NEW s, NEW l, NEW r, NEW ns, NEW ms, SameNode(s, l, ns, ms)
  PROVE  SameWaiting(s, l, r, ns, ms)
<1>1. CASE s[l].node = 0
  BY <1>1 DEF SameWaiting, Waiting, Places, Kind
<1>2. CASE s[l].node # 0 /\ ms[s[l].node] = ns[s[l].node]
  <2>1. Kind(ms, s[l].node) = Kind(ns, s[l].node)
    BY <1>2 DEF Kind
  <2>2. \A i : Waits(s, l, r, ms, i) <=> Waits(s, l, r, ns, i)
    BY <1>2, <2>1 DEF Waits
  <2>3. Places(ms, s[l].node) = Places(ns, s[l].node)
    BY <1>2 DEF Places
  <2>4. \A i : Child(ms, s[l].node, i) = Child(ns, s[l].node, i)
    BY <1>2 DEF Child
  <2> QED
    BY <2>1, <2>2, <2>3, <2>4 DEF SameWaiting, Waiting
<1> QED
  BY <1>1, <1>2 DEF SameNode

\* A node has the number of a node of a tree, and its content is a sequence.
LEMMA TreeFacts ==
  ASSUME NEW ns, Tree(ns)
  PROVE  /\ Numbers(ns) /\ Len(ns) \in Nat /\ DOMAIN ns = 1..Len(ns)
         /\ \A n \in DOMAIN ns : ns[n] \in Nodes(Len(ns))
BY DEF Tree, Numbers

\* The node n gets an origin behind its other entries.
LEMMA OriginNode ==
  ASSUME NEW ns, Tree(ns), NEW n \in DOMAIN ns, ns[n].kind = "mapping",
         NEW ms, ms = AddOrigin(ns, n)
  PROVE  /\ DOMAIN ms = DOMAIN ns /\ ms[n].kind = "mapping"
         /\ \A a \in DOMAIN ns \ {n} : ms[a] = ns[a]
         /\ Len(ns[n].content) \in Nat
         /\ DOMAIN ns[n].content = 1..Len(ns[n].content)
         /\ DOMAIN ms[n].content = 1..Len(ns[n].content) + 1
         /\ \A i \in 1..Len(ns[n].content) : ms[n].content[i] = ns[n].content[i]
         /\ ms[n].content[Len(ns[n].content) + 1] = [key |-> Origin, value |-> 0]
<1>1. ns[n] \in [kind : {"mapping"}, content : Seq(Entries(Len(ns)))]
  BY TreeFacts, NodeFacts
<1>2. PICK c, e : c = ns[n].content /\ e = [key |-> Origin, value |-> 0]
  OBVIOUS
<1>3. IsSequence(c)
  BY <1>1, <1>2 DEF IsSequence
<1>4. PICK a : a = Append(c, e)
  OBVIOUS
<1>5. /\ DOMAIN c = 1..Len(c) /\ Len(c) \in Nat /\ DOMAIN a = 1..Len(c) + 1
      /\ \A i \in 1..Len(c) : a[i] = c[i]
      /\ a[Len(c) + 1] = e
  BY <1>3, <1>4, AppendFacts
<1>6. ms = [ns EXCEPT ![n] = [ns[n] EXCEPT !.content = a]]
  BY <1>2, <1>4 DEF AddOrigin
<1>7. PICK b : b = [ns[n] EXCEPT !.content = a]
  OBVIOUS
<1>8. b.kind = "mapping" /\ b.content = a
  BY <1>1, <1>7
<1>9. DOMAIN ms = DOMAIN ns /\ ms[n] = b /\ \A x \in DOMAIN ns \ {n} : ms[x] = ns[x]
  BY <1>6, <1>7
<1> QED
  BY <1>2, <1>5, <1>8, <1>9

\* The place of the origin holds a scalar, the other places what they held.
LEMMA OriginPlaces ==
  ASSUME NEW ns, Tree(ns), NEW n \in DOMAIN ns, ns[n].kind = "mapping",
         NEW ms, ms = AddOrigin(ns, n)
  PROVE  LET last == Len(ns[n].content) + 1 IN
         /\ \A a \in DOMAIN ns \ {n} : Places(ms, a) = Places(ns, a)
         /\ \A a \in DOMAIN ns \ {n} : \A i : Child(ms, a, i) = Child(ns, a, i)
         /\ Places(ms, n) = Places(ns, n) \cup {last} /\ last \notin Places(ns, n)
         /\ Child(ms, n, last) = 0
         /\ \A i \in Places(ns, n) : Child(ms, n, i) = Child(ns, n, i)
<1> DEFINE k == Len(ns[n].content)
<1>1. /\ DOMAIN ms = DOMAIN ns /\ ms[n].kind = "mapping"
      /\ \A a \in DOMAIN ns \ {n} : ms[a] = ns[a]
      /\ k \in Nat /\ DOMAIN ns[n].content = 1..k /\ DOMAIN ms[n].content = 1..k + 1
      /\ \A i \in 1..k : ms[n].content[i] = ns[n].content[i]
      /\ ms[n].content[k + 1] = [key |-> Origin, value |-> 0]
  BY OriginNode
<1>2. n # 0
  BY TreeFacts DEF Numbers
<1> HIDE DEF k
<1>3. Places(ms, n) = 1..k + 1 /\ Places(ns, n) = 1..k
  BY <1>1, <1>2 DEF Places, PlacesIn
<1>4. \A a \in DOMAIN ns \ {n} : Places(ms, a) = Places(ns, a) /\ \A i : Child(ms, a, i) = Child(ns, a, i)
  BY <1>1 DEF Places, Child
<1>5. Child(ms, n, k + 1) = 0 /\ \A i \in 1..k : Child(ms, n, i) = Child(ns, n, i)
  BY <1>1 DEF Child, ChildIn
<1>6. 1..k + 1 = 1..k \cup {k + 1} /\ k + 1 \notin 1..k
  BY <1>1
<1> QED
  BY <1>3, <1>4, <1>5, <1>6 DEF k

\* It gives no node another place.
LEMMA OriginOnePlace ==
  ASSUME NEW ns, Tree(ns), OnePlace(ns), NEW n \in DOMAIN ns, ns[n].kind = "mapping"
  PROVE  OnePlace(AddOrigin(ns, n))
<1>1. PICK ms : ms = AddOrigin(ns, n)
  OBVIOUS
<1>2. DOMAIN ms = DOMAIN ns
  BY <1>1, OriginNode
<1>3. \A a \in DOMAIN ns : \A i \in Places(ms, a) : Child(ms, a, i) # 0 =>
        i \in Places(ns, a) /\ Child(ms, a, i) = Child(ns, a, i)
  <2> SUFFICES ASSUME NEW a \in DOMAIN ns, NEW i \in Places(ms, a), Child(ms, a, i) # 0
               PROVE  i \in Places(ns, a) /\ Child(ms, a, i) = Child(ns, a, i)
    OBVIOUS
  <2>1. CASE a = n
    <3>1. /\ Places(ms, n) = Places(ns, n) \cup {Len(ns[n].content) + 1}
          /\ Child(ms, n, Len(ns[n].content) + 1) = 0
          /\ \A j \in Places(ns, n) : Child(ms, n, j) = Child(ns, n, j)
      BY <1>1, OriginPlaces
    <3> QED
      BY <2>1, <3>1
  <2>2. CASE a # n
    BY <1>1, <2>2, OriginPlaces
  <2> QED
    BY <2>1, <2>2
<1>4. OnePlace(ms)
  BY <1>2, <1>3 DEF OnePlace
<1> QED
  BY <1>1, <1>4

\* A node that has been called for gets an origin.
LEMMA FreshOrigin ==
  ASSUME NEW F, NEW s, NEW r, NEW ns, Tree(ns), Fresh(F, s, r, ns),
         NEW n \in DOMAIN ns \ F, ns[n].kind = "mapping",
         \A k, l \in Direct(s) : s[k].node = n /\ s[l].node = n => k = l
  PROVE  Fresh(F, s, r, AddOrigin(ns, n))
<1>1. PICK ms : ms = AddOrigin(ns, n)
  OBVIOUS
<1>2. /\ DOMAIN ms = DOMAIN ns /\ ms[n].kind = "mapping"
      /\ \A a \in DOMAIN ns \ {n} : ms[a] = ns[a]
      /\ DOMAIN ns[n].content = 1..Len(ns[n].content)
      /\ \A i \in 1..Len(ns[n].content) : ms[n].content[i] = ns[n].content[i]
  BY <1>1, OriginNode
<1>3. F \subseteq DOMAIN ms
  BY <1>2 DEF Fresh
<1>4. \A a \in F : Untouched(ms[a], F)
  <2> TAKE a \in F
  <2>1. a \in DOMAIN ns \ {n}
    BY DEF Fresh
  <2> QED
    BY <1>2, <2>1 DEF Fresh
<1>5. ASSUME NEW l \in Direct(s), s[l].node # n
      PROVE  /\ Waiting(s, l, r, ms) = Waiting(s, l, r, ns)
             /\ Kind(ms, s[l].node) = Kind(ns, s[l].node)
             /\ \A i \in Waiting(s, l, r, ns) : Child(ms, s[l].node, i) = Child(ns, s[l].node, i)
  <2>1. SameNode(s, l, ns, ms)
    BY <1>2, <1>5 DEF Fresh, SameNode
  <2>2. SameWaiting(s, l, r, ns, ms)
    BY <2>1, WaitingSame
  <2> QED
    BY <2>2 DEF SameWaiting
<1>6. ASSUME NEW l \in Direct(s), s[l].node = n
      PROVE  /\ Kind(ms, n) # "unknown"
             /\ \A i \in Waiting(s, l, r, ms) : Child(ms, n, i) \in F \cup {0}
  <2>1. /\ Places(ms, n) = Places(ns, n) \cup {Len(ns[n].content) + 1}
        /\ Child(ms, n, Len(ns[n].content) + 1) = 0
        /\ \A j \in Places(ns, n) : Child(ms, n, j) = Child(ns, n, j)
    BY <1>1, OriginPlaces
  <2>2. n # 0
    BY TreeFacts DEF Numbers
  <2>3. Kind(ms, n) = "mapping" /\ Kind(ns, n) = "mapping"
    BY <1>2, <2>2 DEF Kind
  <2>4. Places(ns, n) = 1..Len(ns[n].content)
    BY <1>2, <2>2 DEF Places, PlacesIn
  <2>5. \A i \in Places(ns, n) : Waits(s, l, r, ms, i) <=> Waits(s, l, r, ns, i)
    <3> TAKE i \in Places(ns, n)
    <3>1. ms[s[l].node].content[i] = ns[s[l].node].content[i] /\ Kind(ms, s[l].node) = Kind(ns, s[l].node)
      BY <1>2, <1>6, <2>3, <2>4
    <3> QED
      BY <3>1 DEF Waits
  <2>6. \A i \in Waiting(s, l, r, ns) : Child(ns, n, i) \in F \cup {0}
    BY <1>6 DEF Fresh
  <2> QED
    BY <1>6, <2>1, <2>3, <2>5, <2>6 DEF Waiting
<1>7. \A l \in Direct(s) :
        /\ s[l].node \in {0} \cup (DOMAIN ms \ F) /\ Kind(ms, s[l].node) # "unknown"
        /\ \A i \in Waiting(s, l, r, ms) : Child(ms, s[l].node, i) \in F \cup {0}
  <2> TAKE l \in Direct(s)
  <2>1. /\ s[l].node \in {0} \cup (DOMAIN ns \ F) /\ Kind(ns, s[l].node) # "unknown"
        /\ \A i \in Waiting(s, l, r, ns) : Child(ns, s[l].node, i) \in F \cup {0}
    BY DEF Fresh
  <2>2. CASE s[l].node = n
    BY <1>2, <1>6, <2>1, <2>2
  <2>3. CASE s[l].node # n
    BY <1>2, <1>5, <2>1, <2>3
  <2> QED
    BY <2>2, <2>3
<1>8. \A k, l \in Direct(s) :
       k # l /\ s[k].node = s[l].node => Waiting(s, k, r, ms) \cap Waiting(s, l, r, ms) = {}
  <2> SUFFICES ASSUME NEW k \in Direct(s), NEW l \in Direct(s), k # l, s[k].node = s[l].node
               PROVE  Waiting(s, k, r, ms) \cap Waiting(s, l, r, ms) = {}
    OBVIOUS
  <2>1. s[k].node # n
    OBVIOUS
  <2>2. Waiting(s, k, r, ns) \cap Waiting(s, l, r, ns) = {}
    BY DEF Fresh
  <2> QED
    BY <1>5, <2>1, <2>2
<1> QED
  BY <1>1, <1>3, <1>4, <1>7, <1>8 DEF Fresh

\* It is the only one, if the node had none.
LEMMA OriginSingle ==
  ASSUME NEW ns, Tree(ns), Origins(ns), NEW n \in DOMAIN ns, ns[n].kind = "mapping",
         \A i \in DOMAIN ns[n].content : ns[n].content[i].key # Origin
  PROVE  Origins(AddOrigin(ns, n))
<1>1. PICK ms : ms = AddOrigin(ns, n)
  OBVIOUS
<1> DEFINE k == Len(ns[n].content)
<1>2. /\ DOMAIN ms = DOMAIN ns
      /\ \A a \in DOMAIN ns \ {n} : ms[a] = ns[a]
      /\ k \in Nat /\ DOMAIN ns[n].content = 1..k /\ DOMAIN ms[n].content = 1..k + 1
      /\ \A i \in 1..k : ms[n].content[i] = ns[n].content[i]
  BY <1>1, OriginNode
<1> HIDE DEF k
<1>3. \A i \in DOMAIN ms[n].content : ms[n].content[i].key = Origin => i = k + 1
  BY <1>2
<1>4. Single(ms[n])
  BY <1>3 DEF Single, EntryOf
<1>5. Origins(ms)
  BY <1>2, <1>4 DEF Origins
<1> QED
  BY <1>1, <1>5

-----------------------------------------------------------------------------
(* How the tree grows                                                        *)

\* New nodes have numbers of their own.
LEMMA ValueFacts ==
  ASSUME NEW n \in Nat, NEW p, DOMAIN p = 1..n, Len(nodes) \in Nat
  PROVE  /\ News(p) \in Nat
         /\ \A i \in 1..n : Value(p, i) \in {0} \cup (Len(nodes) + 1..Len(nodes) + News(p))
         /\ \A i, j \in 1..n : Value(p, i) # 0 /\ Value(p, i) = Value(p, j) => i = j
<1> DEFINE upto(i) == {j \in 1..i : p[j] = 1}
<1>1. News(p) \in Nat /\ \A i \in 1..n : Value(p, i) \in 0..Len(nodes) + News(p)
  BY NewsOK
<1>2. ASSUME NEW i \in 1..n
      PROVE  IsFiniteSet(upto(i)) /\ Cardinality(upto(i)) \in Nat
  <2>1. IsFiniteSet(1..i)
    BY FS_Interval
  <2> QED
    BY <2>1, FS_Subset, FS_CardinalityType
<1>3. \A i \in 1..n : Value(p, i) = IF p[i] = 1 THEN Len(nodes) + Cardinality(upto(i)) ELSE 0
  BY DEF Value
<1>4. ASSUME NEW i \in 1..n, p[i] = 1
      PROVE  Cardinality(upto(i)) >= 1
  <2>1. i \in upto(i)
    BY <1>4
  <2>2. Cardinality(upto(i)) # 0
    BY <1>2, <2>1, FS_EmptySet
  <2> HIDE DEF upto
  <2> QED
    BY <1>2, <2>2
<1>5. ASSUME NEW i \in 1..n, NEW j \in 1..n, p[i] = 1, p[j] = 1, i < j
      PROVE  Cardinality(upto(i)) # Cardinality(upto(j))
  <2>1. upto(i) \subseteq upto(j) /\ j \in upto(j) /\ j \notin upto(i)
    BY <1>5
  <2>2. upto(i) # upto(j)
    BY <2>1
  <2> QED
    BY <1>2, <2>1, <2>2, FS_Subset
<1> HIDE DEF upto
<1>6. \A i \in 1..n : Value(p, i) \in {0} \cup (Len(nodes) + 1..Len(nodes) + News(p))
  <2> TAKE i \in 1..n
  <2>1. CASE p[i] = 1
    BY <1>1, <1>2, <1>3, <1>4, <2>1
  <2>2. CASE p[i] # 1
    BY <1>3, <2>2
  <2> QED
    BY <2>1, <2>2
<1>7. \A i, j \in 1..n : Value(p, i) # 0 /\ Value(p, i) = Value(p, j) => i = j
  <2> SUFFICES ASSUME NEW i \in 1..n, NEW j \in 1..n, Value(p, i) # 0, Value(p, i) = Value(p, j)
               PROVE  i = j
    OBVIOUS
  <2>1. /\ p[i] = 1 /\ p[j] = 1
        /\ Len(nodes) + Cardinality(upto(i)) = Len(nodes) + Cardinality(upto(j))
    BY <1>3
  <2>2. Cardinality(upto(i)) = Cardinality(upto(j))
    BY <1>2, <2>1
  <2>3. ~ (i < j) /\ ~ (j < i)
    BY <1>5, <2>1, <2>2
  <2> QED
    BY <2>3
<1> QED
  BY <1>1, <1>6, <1>7

\* A node that has just been looked at holds new nodes, each in one place, and no origin.
Leaf(node, new) ==
  /\ node.kind # "unknown"
  /\ Untouched(node, new)
  /\ \A i, j \in PlacesIn(node) : ChildIn(node, i) # 0 /\ ChildIn(node, i) = ChildIn(node, j) => i = j

\* So does a mapping that is learned.
LEMMA MappingLeaf ==
  ASSUME NEW p, DOMAIN p = DOMAIN Slots, Len(nodes) \in Nat
  PROVE  Leaf(MappingOf(p), Len(nodes) + 1..Len(nodes) + News(p))
<1> DEFINE k == Len(nodes) + News(p)
           New == Len(nodes) + 1..k
           e(i) == [key |-> Slots[i], value |-> Value(p, i)]
           From(i, x) ==
             /\ \A a \in DOMAIN x : \E j \in 1..i : x[a] = e(j)
             /\ \A a, b \in DOMAIN x : x[a].value # 0 /\ x[a].value = x[b].value => a = b
           S == Seq(Entries(k))
           T == {q \in (0..Len(Slots)) \X S : From(q[1], q[2])}
<1>1. /\ Len(Slots) \in Nat /\ DOMAIN p = 1..Len(Slots)
      /\ \A i \in 1..Len(Slots) : Slots[i] \in Keys \cup {Merge}
  BY SlotsOK
<1>2. /\ \A i \in 1..Len(Slots) : Value(p, i) \in {0} \cup New
      /\ \A i, j \in 1..Len(Slots) : Value(p, i) # 0 /\ Value(p, i) = Value(p, j) => i = j
  BY <1>1, ValueFacts
<1>3. \A i \in 1..Len(Slots) : e(i) \in Entries(k) /\ e(i).key \in Keys \cup {Merge} /\ e(i).value = Value(p, i)
  <2>1. \A i \in 1..Len(Slots) : Value(p, i) \in 0..k
    BY <1>1, NewsOK
  <2> QED
    BY <1>1, <2>1 DEF Entries
<1> HIDE DEF e
<1>4. <<0, <<>>>> \in T
  <2>1. \A X : <<>> \in Seq(X)
    OBVIOUS
  <2>2. <<>> \in S /\ 0 \in 0..Len(Slots)
    BY <1>1, <2>1
  <2>3. From(0, <<>>)
    OBVIOUS
  <2> HIDE DEF S, From
  <2> QED
    BY <2>2, <2>3
<1>5. ASSUME NEW i \in 1..Len(Slots), NEW x, <<i - 1, x>> \in T
      PROVE  <<i, x>> \in T /\ <<i, Append(x, e(i))>> \in T
  <2>1. x \in S /\ i \in 0..Len(Slots) /\ From(i - 1, x)
    <3> HIDE DEF S, From
    <3> QED
      BY <1>1, <1>5
  <2>2. Append(x, e(i)) \in S
    <3> HIDE DEF k
    <3> QED
      BY <1>3, <2>1, AppendProperties
  <2>3. From(i, x)
    <3>1. \A j \in 1..i - 1 : j \in 1..i
      OBVIOUS
    <3> QED
      BY <2>1, <3>1
  <2>4. From(i, Append(x, e(i)))
    <3>1. PICK y : y = Append(x, e(i))
      OBVIOUS
    <3>2. IsSequence(x)
      BY <2>1 DEF IsSequence
    <3>3. /\ DOMAIN x = 1..Len(x) /\ Len(x) \in Nat /\ DOMAIN y = 1..Len(x) + 1
          /\ \A a \in 1..Len(x) : y[a] = x[a]
          /\ y[Len(x) + 1] = e(i)
      BY <3>1, <3>2, AppendFacts
    <3>4. \A a \in DOMAIN y : \E j \in 1..i : y[a] = e(j)
      <4> TAKE a \in DOMAIN y
      <4>1. CASE a = Len(x) + 1
        <5>1. i \in 1..i
          BY <1>1
        <5> QED
          BY <3>3, <4>1, <5>1
      <4>2. CASE a \in 1..Len(x)
        BY <2>3, <3>3, <4>2
      <4> QED
        BY <3>3, <4>1, <4>2
    <3>5. ASSUME NEW a \in 1..Len(x), y[a].value = e(i).value, e(i).value # 0
          PROVE  FALSE
      <4>1. PICK j \in 1..i - 1 : x[a] = e(j)
        BY <2>1, <3>3
      <4>2. j \in 1..Len(Slots) /\ j # i
        BY <1>1
      <4>3. Value(p, j) = Value(p, i) /\ Value(p, j) # 0
        BY <1>3, <3>3, <3>5, <4>1, <4>2
      <4> QED
        BY <1>2, <4>2, <4>3
    <3>6. \A a, b \in DOMAIN y : y[a].value # 0 /\ y[a].value = y[b].value => a = b
      <4> SUFFICES ASSUME NEW a \in DOMAIN y, NEW b \in DOMAIN y, y[a].value # 0, y[a].value = y[b].value
                   PROVE  a = b
        OBVIOUS
      <4>1. CASE a \in 1..Len(x) /\ b \in 1..Len(x)
        BY <2>1, <3>3, <4>1
      <4>2. CASE a = Len(x) + 1 /\ b \in 1..Len(x)
        BY <3>3, <3>5, <4>2
      <4>3. CASE b = Len(x) + 1 /\ a \in 1..Len(x)
        BY <3>3, <3>5, <4>3
      <4> QED
        BY <3>3, <4>1, <4>2, <4>3
    <3>7. From(i, y)
      BY <3>4, <3>6
    <3> QED
      BY <3>1, <3>7
  <2> HIDE DEF S, From
  <2> QED
    BY <2>1, <2>2, <2>3, <2>4
<1>6. PICK c : c = MappingOf(p).content
  OBVIOUS
<1>7. <<Len(Slots), c>> \in T
  <2> HIDE DEF T
  <2> QED
    BY <1>4, <1>5, <1>6, MappingInduction DEF e
<1>8. From(Len(Slots), c)
  <2> HIDE DEF S, From
  <2> QED
    BY <1>7
<1>9. MappingOf(p) = [kind |-> "mapping", content |-> c]
  BY <1>6, MappingSteps
<1>10. PICK node : node = MappingOf(p)
  OBVIOUS
<1>11. node.kind = "mapping" /\ node.content = c
  BY <1>9, <1>10
<1>12. \A i \in DOMAIN c : c[i].value \in New \cup {0} /\ c[i].key # Origin
  <2> TAKE i \in DOMAIN c
  <2>1. PICK j \in 1..Len(Slots) : c[i] = e(j)
    BY <1>8
  <2>2. Keys \cap {Merge, Origin} = {} /\ Merge # Origin
    BY DecoderConstants DEF Merge, Origin
  <2> QED
    BY <1>2, <1>3, <2>1, <2>2
<1>13. \A i, j \in DOMAIN c : c[i].value # 0 /\ c[i].value = c[j].value => i = j
  BY <1>8
<1> HIDE DEF New, From, T, S, k
<1>14. Leaf(node, New)
  BY <1>11, <1>12, <1>13 DEF Leaf, Untouched, PlacesIn, ChildIn
<1> QED
  BY <1>10, <1>14 DEF New, k

\* In ms the node n of ns is known, and there are new nodes behind those of ns.
Learns(ns, ms, n, new) ==
  /\ DOMAIN ms = 1..Len(ns) + new
  /\ \A a \in DOMAIN ns \ {n} : ms[a] = ns[a]
  /\ \A a \in Len(ns) + 1..Len(ns) + new : ms[a] = Unknown
  /\ Leaf(ms[n], Len(ns) + 1..Len(ns) + new)

\* A node takes its place, and the new nodes theirs.
LEMMA PutLearns ==
  ASSUME Tree(nodes), NEW n \in DOMAIN nodes, NEW new \in Nat, NEW node,
         Leaf(node, Len(nodes) + 1..Len(nodes) + new),
         NEW ns, ns = [nodes EXCEPT ![n] = node] \o [i \in 1..new |-> Unknown]
  PROVE  Learns(nodes, ns, n, new) /\ ns[n] = node
<1> DEFINE put == [nodes EXCEPT ![n] = node]
           rest == [i \in 1..new |-> Unknown]
<1>1. PICK k : k = Len(nodes)
  OBVIOUS
<1>2. nodes \in Seq(Nodes(k)) /\ k \in Nat /\ DOMAIN nodes = 1..k
  BY <1>1 DEF Tree
<1>3. put \in Seq(Nodes(k) \cup {node}) /\ Len(put) = k
  <2>1. nodes \in Seq(Nodes(k) \cup {node})
    BY <1>2, SeqMonotonic
  <2> QED
    BY <1>1, <1>2, <2>1
<1>4. \A a \in 1..k : put[a] = IF a = n THEN node ELSE nodes[a]
  BY <1>2
<1>5. IsSequence(rest) /\ Len(rest) = new /\ rest \in Seq({Unknown})
  <2>1. rest \in [1..new -> {Unknown}]
    OBVIOUS
  <2> HIDE DEF rest
  <2>2. rest \in Seq({Unknown})
    BY <2>1, SeqDef
  <2> QED
    BY <2>1, <2>2, LenProperties DEF IsSequence
<1>6. \A i \in 1..new : rest[i] = Unknown
  OBVIOUS
<1>7. PICK S : S = Nodes(k) \cup {node} \cup {Unknown}
  OBVIOUS
<1> HIDE DEF put, rest
<1>8. put \in Seq(S) /\ rest \in Seq(S)
  BY <1>3, <1>5, <1>7, SeqMonotonic
<1>9. /\ put \o rest \in Seq(S) /\ Len(put \o rest) = k + new
      /\ \A i \in 1..k + new : (put \o rest)[i] = IF i <= k THEN put[i] ELSE rest[i - k]
  BY <1>3, <1>5, <1>8, ConcatProperties
<1>10. PICK ms : ms = put \o rest
  OBVIOUS
<1>11. DOMAIN ms = 1..k + new /\ \A i \in 1..k + new : ms[i] = IF i <= k THEN put[i] ELSE rest[i - k]
  BY <1>2, <1>9, <1>10
<1>12. \A a \in 1..k : ms[a] = put[a]
  BY <1>2, <1>11
<1>13. \A a \in k + 1..k + new : ms[a] = Unknown
  <2> TAKE a \in k + 1..k + new
  <2>1. a \in 1..k + new /\ ~ (a <= k) /\ a - k \in 1..new
    BY <1>2
  <2> QED
    BY <1>6, <1>11, <2>1
<1>14. ms[n] = node /\ \A a \in DOMAIN nodes \ {n} : ms[a] = nodes[a]
  BY <1>2, <1>4, <1>12
<1>15. ns = ms
  BY <1>10 DEF put, rest
<1> QED
  BY <1>1, <1>11, <1>13, <1>14, <1>15 DEF Learns

\* That is how any node is learned.
LEMMA LearnedShape ==
  ASSUME Tree(nodes), NEW n \in DOMAIN nodes, NEW ns \in Learned(n)
  PROVE  \E new \in Nat : Learns(nodes, ns, n, new)
<1>1. Len(nodes) \in Nat /\ DOMAIN nodes = 1..Len(nodes)
  BY TreeFacts
<1>2. CASE \E p \in [DOMAIN Slots -> {-1, 0, 1}] :
             ns = [nodes EXCEPT ![n] = MappingOf(p)] \o [i \in 1..News(p) |-> Unknown]
  <2>1. PICK p \in [DOMAIN Slots -> {-1, 0, 1}] :
             ns = [nodes EXCEPT ![n] = MappingOf(p)] \o [i \in 1..News(p) |-> Unknown]
    BY <1>2
  <2>2. DOMAIN p = DOMAIN Slots /\ DOMAIN p = 1..Len(Slots) /\ Len(Slots) \in Nat
    BY SlotsOK
  <2>3. News(p) \in Nat
    BY <1>1, <2>2, NewsOK
  <2>4. Leaf(MappingOf(p), Len(nodes) + 1..Len(nodes) + News(p))
    BY <1>1, <2>2, MappingLeaf
  <2>5. PICK node, new : node = MappingOf(p) /\ new = News(p)
    OBVIOUS
  <2>6. Learns(nodes, ns, n, new)
    <3>1. /\ new \in Nat /\ Leaf(node, Len(nodes) + 1..Len(nodes) + new)
          /\ ns = [nodes EXCEPT ![n] = node] \o [i \in 1..new |-> Unknown]
      BY <2>1, <2>3, <2>4, <2>5
    <3> QED
      BY <3>1, PutLearns
  <2> QED
    BY <2>3, <2>5, <2>6
<1>3. CASE \E l \in 0..MaxItems : \E p \in [1..l -> {0, 1}] :
             ns = [nodes EXCEPT ![n] = SequenceOf(p)] \o [i \in 1..News(p) |-> Unknown]
  <2>1. PICK l \in 0..MaxItems : \E p \in [1..l -> {0, 1}] :
             ns = [nodes EXCEPT ![n] = SequenceOf(p)] \o [i \in 1..News(p) |-> Unknown]
    BY <1>3
  <2>2. PICK p \in [1..l -> {0, 1}] :
             ns = [nodes EXCEPT ![n] = SequenceOf(p)] \o [i \in 1..News(p) |-> Unknown]
    BY <2>1
  <2>3. l \in Nat /\ DOMAIN p = 1..l
    BY Bounds
  <2>4. /\ News(p) \in Nat
        /\ \A i \in 1..l : Value(p, i) \in {0} \cup (Len(nodes) + 1..Len(nodes) + News(p))
        /\ \A i, j \in 1..l : Value(p, i) # 0 /\ Value(p, i) = Value(p, j) => i = j
    BY <1>1, <2>3, ValueFacts
  <2>5. PICK node, New : node = SequenceOf(p) /\ New = Len(nodes) + 1..Len(nodes) + News(p)
    OBVIOUS
  <2>6. /\ node.kind = "sequence" /\ DOMAIN node.content = 1..l
        /\ \A i \in 1..l : node.content[i] = Value(p, i)
    BY <2>3, <2>5 DEF SequenceOf
  <2>7. \A i \in 1..l : Value(p, i) \in New \cup {0}
    BY <2>4, <2>5
  <2>8. Leaf(node, New)
    BY <2>4, <2>6, <2>7 DEF Leaf, Untouched, PlacesIn, ChildIn
  <2>9. PICK new : new = News(p)
    OBVIOUS
  <2>10. Learns(nodes, ns, n, new)
    <3>1. /\ new \in Nat /\ Leaf(node, Len(nodes) + 1..Len(nodes) + new)
          /\ ns = [nodes EXCEPT ![n] = node] \o [i \in 1..new |-> Unknown]
      BY <2>2, <2>4, <2>5, <2>8, <2>9
    <3> QED
      BY <3>1, PutLearns
  <2> QED
    BY <2>4, <2>9, <2>10
<1>4. CASE \E t \in {0} \cup DOMAIN nodes :
             ns = [nodes EXCEPT ![n] = [kind |-> "alias", target |-> t]] \o [i \in 1..0 |-> Unknown]
  <2>1. PICK t \in {0} \cup DOMAIN nodes :
             ns = [nodes EXCEPT ![n] = [kind |-> "alias", target |-> t]] \o [i \in 1..0 |-> Unknown]
    BY <1>4
  <2>2. PICK node, new : node = [kind |-> "alias", target |-> t] /\ new = 0
    OBVIOUS
  <2>3. Leaf(node, Len(nodes) + 1..Len(nodes) + new)
    BY <2>2 DEF Leaf, Untouched, PlacesIn
  <2>4. Learns(nodes, ns, n, new)
    <3>1. new \in Nat /\ ns = [nodes EXCEPT ![n] = node] \o [i \in 1..new |-> Unknown]
      BY <2>1, <2>2
    <3> QED
      BY <2>3, <3>1, PutLearns
  <2> QED
    BY <2>2, <2>4
<1> QED
  BY <1>2, <1>3, <1>4 DEF Learned

\* What a node holds is in the tree.
LEMMA ChildOK ==
  ASSUME NEW ns, Tree(ns), NEW a \in DOMAIN ns, NEW i \in Places(ns, a)
  PROVE  Child(ns, a, i) \in 0..Len(ns)
<1>1. /\ a # 0 /\ Len(ns) \in Nat /\ ns[a] \in Nodes(Len(ns))
  BY TreeFacts DEF Numbers
<1>2. PICK node : node = ns[a]
  OBVIOUS
<1>3. i \in PlacesIn(node)
  BY <1>1, <1>2 DEF Places
<1>4. CASE node.kind = "sequence"
  <2>1. node \in [kind : {"sequence"}, content : Seq(0..Len(ns))]
    BY <1>1, <1>2, <1>4, NodeFacts
  <2>2. i \in DOMAIN node.content
    BY <1>3, <1>4 DEF PlacesIn
  <2>3. node.content[i] \in 0..Len(ns)
    BY <2>1, <2>2
  <2> QED
    BY <1>2, <1>4, <2>3 DEF Child, ChildIn
<1>5. CASE node.kind = "mapping"
  <2>1. node \in [kind : {"mapping"}, content : Seq(Entries(Len(ns)))]
    BY <1>1, <1>2, <1>5, NodeFacts
  <2>2. i \in DOMAIN node.content
    BY <1>3, <1>5 DEF PlacesIn
  <2>3. node.content[i] \in Entries(Len(ns))
    BY <2>1, <2>2
  <2>4. node.content[i].value \in 0..Len(ns)
    BY <2>3 DEF Entries
  <2> QED
    BY <1>2, <1>5, <2>4 DEF Child, ChildIn
<1> QED
  BY <1>3, <1>4, <1>5 DEF PlacesIn

\* A node that is learned leaves every node one place.
LEMMA LearnsOnePlace ==
  ASSUME NEW ns, Tree(ns), NEW n \in DOMAIN ns, NEW new \in Nat, NEW ms, Learns(ns, ms, n, new),
         OnePlace(ns)
  PROVE  OnePlace(ms)
<1>1. PICK k, New : k = Len(ns) /\ New = k + 1..k + new
  OBVIOUS
<1>2. k \in Nat /\ DOMAIN ns = 1..k /\ n # 0 /\ DOMAIN ms = 1..k + new
  BY <1>1, TreeFacts DEF Numbers, Learns
<1>3. \A a \in New : Places(ms, a) = {}
  BY <1>1 DEF Learns, Places, PlacesIn, Unknown
<1>4. \A a \in DOMAIN ns \ {n} : Places(ms, a) = Places(ns, a) /\ \A i : Child(ms, a, i) = Child(ns, a, i)
  BY DEF Learns, Places, Child
<1>5. /\ \A i \in Places(ms, n) : Child(ms, n, i) \in New \cup {0}
      /\ \A i, j \in Places(ms, n) : Child(ms, n, i) # 0 /\ Child(ms, n, i) = Child(ms, n, j) => i = j
  BY <1>1, <1>2 DEF Learns, Leaf, Untouched, Places, Child
<1>6. \A c \in 0..k : c \notin New
  BY <1>1, <1>2
<1>7. ASSUME NEW a \in DOMAIN ms, NEW b \in DOMAIN ms, NEW i \in Places(ms, a), NEW j \in Places(ms, b),
             Child(ms, a, i) # 0, Child(ms, a, i) = Child(ms, b, j)
      PROVE  a = b /\ i = j
  <2>1. \A x \in DOMAIN ms : x \in DOMAIN ns \/ x \in New
    BY <1>1, <1>2
  <2>2. a \in DOMAIN ns /\ b \in DOMAIN ns
    BY <1>3, <2>1
  <2>3. CASE a = n /\ b = n
    BY <1>5, <1>7, <2>3
  <2>4. CASE a # n /\ b # n
    <3>1. /\ i \in Places(ns, a) /\ Child(ms, a, i) = Child(ns, a, i)
          /\ j \in Places(ns, b) /\ Child(ms, b, j) = Child(ns, b, j)
      BY <1>4, <2>2, <2>4
    <3>2. Child(ns, a, i) # 0 /\ Child(ns, a, i) = Child(ns, b, j)
      BY <1>7, <3>1
    <3>3. i \in Places(ns, a) /\ j \in Places(ns, b)
      BY <3>1
    <3> QED
      BY <2>2, <3>2, <3>3 DEF OnePlace
  <2>5. CASE a = n /\ b # n
    <3>1. j \in Places(ns, b) /\ Child(ms, b, j) = Child(ns, b, j)
      BY <1>4, <2>2, <2>5
    <3>2. Child(ns, b, j) \in 0..k
      BY <1>1, <2>2, <3>1, ChildOK
    <3>3. Child(ms, a, i) \in New
      BY <1>5, <1>7, <2>5
    <3> QED
      BY <1>6, <1>7, <3>1, <3>2, <3>3
  <2>6. CASE a # n /\ b = n
    <3>1. i \in Places(ns, a) /\ Child(ms, a, i) = Child(ns, a, i)
      BY <1>4, <2>2, <2>6
    <3>2. Child(ns, a, i) \in 0..k
      BY <1>1, <2>2, <3>1, ChildOK
    <3>3. Child(ms, b, j) \in New
      BY <1>5, <1>7, <2>6
    <3> QED
      BY <1>6, <1>7, <3>1, <3>2, <3>3
  <2> QED
    BY <2>3, <2>4, <2>5, <2>6
<1> QED
  BY <1>7 DEF OnePlace

\* It has no origin, and nor have the new nodes.
LEMMA LearnsOrigins ==
  ASSUME NEW ns, Tree(ns), NEW n \in DOMAIN ns, NEW new \in Nat, NEW ms, Learns(ns, ms, n, new),
         Origins(ns)
  PROVE  Origins(ms)
<1>1. PICK k, New : k = Len(ns) /\ New = k + 1..k + new
  OBVIOUS
<1>2. k \in Nat /\ DOMAIN ns = 1..k /\ DOMAIN ms = 1..k + new
  BY <1>1, TreeFacts DEF Learns
<1>3. \A a \in New : Single(ms[a])
  BY <1>1 DEF Learns, Single, Unknown
<1>4. \A a \in DOMAIN ns \ {n} : Single(ms[a])
  BY DEF Learns, Origins
<1>5. Single(ms[n])
  BY DEF Learns, Leaf, Untouched, PlacesIn, Single, EntryOf
<1>6. \A a \in DOMAIN ms : a \in New \/ a \in DOMAIN ns
  BY <1>1, <1>2
<1> QED
  BY <1>3, <1>4, <1>5, <1>6 DEF Origins

\* It and the new nodes have not been decoded where they stand.
LEMMA LearnsFresh ==
  ASSUME NEW ns, Tree(ns), NEW n \in DOMAIN ns, ns[n].kind = "unknown",
         NEW new \in Nat, NEW ms, Learns(ns, ms, n, new),
         NEW F, NEW s, NEW r, Fresh(F, s, r, ns)
  PROVE  LET G == F \cup (Len(ns) + 1..Len(ns) + new) IN Fresh(G, s, r, ms) /\ Untouched(ms[n], G)
<1>1. PICK k, New, G : k = Len(ns) /\ New = k + 1..k + new /\ G = F \cup New
  <2>1. PICK k, New : k = Len(ns) /\ New = k + 1..k + new
    OBVIOUS
  <2> QED
    BY <2>1
<1>2. /\ k \in Nat /\ DOMAIN ns = 1..k /\ n # 0 /\ DOMAIN ms = 1..k + new
      /\ F \subseteq DOMAIN ns
  BY <1>1, TreeFacts DEF Numbers, Learns, Fresh
<1>3. DOMAIN ns \subseteq DOMAIN ms /\ New \subseteq DOMAIN ms /\ DOMAIN ns \cap New = {}
  BY <1>1, <1>2
<1>4. G \subseteq DOMAIN ms
  BY <1>1, <1>2, <1>3
<1>5. Untouched(ms[n], G)
  <2>1. Untouched(ms[n], New)
    BY <1>1 DEF Learns, Leaf
  <2> QED
    BY <1>1, <2>1 DEF Untouched
<1>6. \A a \in G : Untouched(ms[a], G)
  <2> TAKE a \in G
  <2>1. CASE a \in New
    BY <1>1, <2>1 DEF Learns, Untouched, PlacesIn, Unknown
  <2>2. CASE a = n
    BY <1>5, <2>2
  <2>3. CASE a \in F \ {n}
    <3>1. ms[a] = ns[a] /\ Untouched(ns[a], F)
      BY <1>2, <2>3 DEF Learns, Fresh
    <3> QED
      BY <1>1, <3>1 DEF Untouched
  <2> QED
    BY <1>1, <2>1, <2>2, <2>3
<1>7. ASSUME NEW l \in Direct(s)
      PROVE  /\ s[l].node \in {0} \cup (DOMAIN ns \ F)
             /\ Kind(ns, s[l].node) # "unknown" /\ Kind(ms, s[l].node) = Kind(ns, s[l].node)
             /\ Waiting(s, l, r, ms) = Waiting(s, l, r, ns)
             /\ \A i \in Waiting(s, l, r, ns) : Child(ms, s[l].node, i) = Child(ns, s[l].node, i)
  <2>1. s[l].node \in {0} \cup (DOMAIN ns \ F) /\ Kind(ns, s[l].node) # "unknown"
    BY DEF Fresh
  <2>2. SameNode(s, l, ns, ms)
    BY <1>2, <2>1 DEF SameNode, Kind, Learns
  <2>3. SameWaiting(s, l, r, ns, ms)
    BY <2>2, WaitingSame
  <2> QED
    BY <2>1, <2>3 DEF SameWaiting
<1>8. \A l \in Direct(s) :
        /\ s[l].node \in {0} \cup (DOMAIN ms \ G) /\ Kind(ms, s[l].node) # "unknown"
        /\ \A i \in Waiting(s, l, r, ms) : Child(ms, s[l].node, i) \in G \cup {0}
  <2> TAKE l \in Direct(s)
  <2>1. \A i \in Waiting(s, l, r, ns) : Child(ns, s[l].node, i) \in F \cup {0}
    BY DEF Fresh
  <2>2. s[l].node \in {0} \cup (DOMAIN ms \ G)
    BY <1>1, <1>3, <1>7
  <2>3. Kind(ms, s[l].node) # "unknown"
    BY <1>7
  <2> QED
    BY <1>1, <1>7, <2>1, <2>2, <2>3
<1>9. \A j, l \in Direct(s) :
        j # l /\ s[j].node = s[l].node => Waiting(s, j, r, ms) \cap Waiting(s, l, r, ms) = {}
  <2> SUFFICES ASSUME NEW j \in Direct(s), NEW l \in Direct(s), j # l, s[j].node = s[l].node
               PROVE  Waiting(s, j, r, ms) \cap Waiting(s, l, r, ms) = {}
    OBVIOUS
  <2>1. Waiting(s, j, r, ns) \cap Waiting(s, l, r, ns) = {}
    BY DEF Fresh
  <2> QED
    BY <1>7, <2>1
<1>10. Fresh(G, s, r, ms)
  BY <1>4, <1>6, <1>8, <1>9 DEF Fresh
<1> QED
  BY <1>1, <1>5, <1>10

-----------------------------------------------------------------------------
(* Steps                                                                     *)

\* The tree has one place for a node and one origin for a mapping, and the nodes of F have
\* not been decoded where they stand.
Good(F, s, r, ns) == OnePlace(ns) /\ Origins(ns) /\ Fresh(F, s, r, ns)

\* A node is looked at, for the first time or not.
LEMMA KnownGood ==
  ASSUME Tree(nodes), NEW n \in 0..Len(nodes), NEW ns \in Known(n),
         NEW F, NEW s, NEW r, Good(F, s, r, nodes)
  PROVE  /\ Kind(ns, n) # "unknown"
         /\ \A a \in DOMAIN nodes : nodes[a].kind # "unknown" => ns[a] = nodes[a]
         /\ \E G : /\ Good(G, s, r, ns)
                   /\ \A a \in DOMAIN nodes : a \in G => a \in F
                   /\ n # 0 /\ nodes[n].kind = "unknown" => Untouched(ns[n], G)
<1>1. CASE n # 0 /\ nodes[n].kind = "unknown"
  <2>1. n \in DOMAIN nodes
    BY <1>1, TreeFacts
  <2>2. PICK new \in Nat : Learns(nodes, ns, n, new)
    BY <1>1, <2>1, LearnedShape DEF Known
  <2>3. PICK G : G = F \cup (Len(nodes) + 1..Len(nodes) + new)
    OBVIOUS
  <2>4. Fresh(G, s, r, ns) /\ Untouched(ns[n], G)
    BY <1>1, <2>1, <2>2, <2>3, LearnsFresh DEF Good
  <2>5. OnePlace(ns) /\ Origins(ns)
    BY <2>1, <2>2, LearnsOnePlace, LearnsOrigins DEF Good
  <2>6. Kind(ns, n) # "unknown"
    BY <1>1, <2>2 DEF Kind, Learns, Leaf
  <2>7. \A a \in DOMAIN nodes : nodes[a].kind # "unknown" => ns[a] = nodes[a]
    BY <1>1, <2>2 DEF Learns
  <2>8. \A a \in DOMAIN nodes : a \in G => a \in F
    BY <2>3, TreeFacts
  <2> QED
    BY <2>4, <2>5, <2>6, <2>7, <2>8 DEF Good
<1>2. CASE ~ (n # 0 /\ nodes[n].kind = "unknown")
  <2>1. ns = nodes /\ Kind(ns, n) # "unknown"
    BY <1>2 DEF Known, Kind
  <2> QED
    BY <1>2, <2>1
<1> QED
  BY <1>1, <1>2

\* The tree stays as it is, or the node n gets an origin where it stands.
MayAdd(ns, n, ms) == ms = ns \/ \E atLeast : ms = AddOriginTo(ns, n, atLeast)

\* The call at level k calls for a node in a place that it waits for, and the node gets
\* its origin.
LEMMA VisitGood ==
  ASSUME NEW F, NEW s, NEW r, NEW t, NEW q, NEW ns, Good(F, s, r, ns), Tree(ns),
         NEW k \in Direct(s), NEW p \in Waiting(s, k, r, ns),
         NEW n, n = Child(ns, s[k].node, p), Kind(ns, n) # "unknown", NEW m,
         Keeps(s, r, t, q, ns, m),
         p \notin Waiting(t, k, q, ns), t[m].node = n,
         NEW ms, MayAdd(ns, n, ms)
  PROVE  \E G : Good(G, t, q, ms)
<1>1. Numbers(ns) /\ OnePlace(ns) /\ Origins(ns) /\ Fresh(F, s, r, ns)
  BY TreeFacts DEF Good
<1>2. Visited(F, t, q, ns, n, m)
  BY <1>1, FreshVisit
<1>22. /\ n \in F \cup {0}
       /\ Fresh(F \ {n}, t, q, ns)
       /\ n # 0 => \A l \in Direct(t) : t[l].node = n => l = m
  BY <1>2 DEF Visited
<1>3. CASE ms = ns
  BY <1>1, <1>22, <1>3 DEF Good
<1>4. CASE ms # ns
  <2>1. Kind(ns, n) = "mapping" /\ ms = AddOrigin(ns, n)
    BY <1>4 DEF AddOriginTo, MayAdd
  <2>2. n # 0 /\ ns[n].kind = "mapping"
    BY <2>1 DEF Kind
  <2>3. n \in F /\ n \in DOMAIN ns /\ n \in DOMAIN ns \ (F \ {n}) /\ Untouched(ns[n], F)
    BY <1>1, <1>22, <2>2 DEF Fresh
  <2>4. \A i, l \in Direct(t) : t[i].node = n /\ t[l].node = n => i = l
    BY <1>22, <2>2
  <2>5. Fresh(F \ {n}, t, q, ms)
    BY <1>22, <2>1, <2>2, <2>3, <2>4, FreshOrigin
  <2>6. Origins(ms)
    <3>1. \A i \in DOMAIN ns[n].content : ns[n].content[i].key # Origin
      BY <2>2, <2>3 DEF Untouched, PlacesIn
    <3> QED
      BY <1>1, <2>1, <2>2, <2>3, <3>1, OriginSingle
  <2>7. OnePlace(ms)
    BY <1>1, <2>1, <2>2, <2>3, OriginOnePlace
  <2> QED
    BY <2>5, <2>6, <2>7 DEF Good
<1> QED
  BY <1>3, <1>4

\* Two calls are at the same place of the same node.
Alike(f, g) ==
  /\ g.op = f.op /\ g.node = f.node
  /\ f.op \in {"sequence", "mapping", "merge"} => g.i = f.i
  /\ f.op = "unmarshaler" => g.calls = f.calls

\* Two stacks have such calls at level l, below the innermost.
AlikeAt(s, t, l) ==
  /\ l # Len(s) /\ l # Len(t) /\ Alike(s[l], t[l])
  /\ t[l + 1].op = "merge" <=> s[l + 1].op = "merge"

\* A call below the innermost waits for what it waited for.
LEMMA BelowWaits ==
  ASSUME NEW s, NEW t, NEW l, AlikeAt(s, t, l), NEW r, NEW q, NEW ns
  PROVE  Waiting(t, l, q, ns) = Waiting(s, l, r, ns)
<1> USE DEF AlikeAt
<1>1. t[l].node = s[l].node /\ t[l].op = s[l].op
  BY DEF Alike
<1>2. \A i : Waits(t, l, q, ns, i) <=> Waits(s, l, r, ns, i)
  BY <1>1 DEF Waits, Alike
<1> QED
  BY <1>1, <1>2 DEF Waiting

\* The innermost call goes on.
LEMMA FreshGoesOn ==
  ASSUME NEW s, NEW n \in Nat \ {0}, DOMAIN s = 1..n, Len(s) = n,
         NEW t, DOMAIN t = 1..n, Len(t) = n,
         \A l \in 1..n - 1 : Alike(s[l], t[l]),
         t[n].op = "merge" <=> s[n].op = "merge",
         NEW r, NEW q, NEW ns, NEW F, Fresh(F, s, r, ns),
         t[n].op # "alias" =>
           s[n].op # "alias" /\ t[n].node = s[n].node /\ Waiting(t, n, q, ns) \subseteq Waiting(s, n, r, ns)
  PROVE  Fresh(F, t, q, ns)
<1>1. ASSUME NEW l \in Direct(t)
      PROVE  l \in Direct(s) /\ t[l].node = s[l].node /\ Waiting(t, l, q, ns) \subseteq Waiting(s, l, r, ns)
  <2>1. l \in 1..n /\ \A k \in 1..l : t[k].op # "alias"
    BY DEF Direct
  <2>2. \A k \in 1..l : k \in 1..n - 1 \/ k = n
    BY <2>1
  <2>3. \A k \in 1..l : s[k].op # "alias"
    BY <2>1, <2>2 DEF Alike
  <2>4. l \in Direct(s)
    BY <2>1, <2>3 DEF Direct
  <2>5. CASE l = n
    <3>1. t[n].op # "alias"
      BY <2>1, <2>5
    <3> QED
      BY <2>4, <2>5, <3>1
  <2>6. CASE l # n
    <3>1. l \in 1..n - 1 /\ (l + 1 \in 1..n - 1 \/ l + 1 = n)
      BY <2>1, <2>6
    <3>2. Alike(s[l], t[l]) /\ (t[l + 1].op = "merge" <=> s[l + 1].op = "merge")
      BY <3>1 DEF Alike
    <3>3. AlikeAt(s, t, l)
      BY <2>6, <3>2 DEF AlikeAt
    <3>4. Waiting(t, l, q, ns) = Waiting(s, l, r, ns)
      BY <3>3, BelowWaits
    <3> QED
      BY <2>4, <3>2, <3>4 DEF Alike
  <2> QED
    BY <2>5, <2>6
<1> QED
  BY <1>1, FreshLess

\* The calls above level j return, or are unwound.
LEMMA FreshUnwinds ==
  ASSUME NEW s, NEW n \in Nat, DOMAIN s = 1..n, Len(s) = n,
         NEW t, NEW j \in 0..n, DOMAIN t = 1..j, Len(t) = j, \A l \in 1..j : t[l] = s[l],
         NEW r, NEW q,
         j # 0 => \/ j < n /\ q # "none" /\ s[j + 1].op # "merge"
                  \/ s[j].op = "unmarshaler",
         NEW ns, NEW F, Fresh(F, s, r, ns)
  PROVE  Fresh(F, t, q, ns)
<1>1. ASSUME NEW l \in Direct(t)
      PROVE  l \in Direct(s) /\ t[l].node = s[l].node /\ Waiting(t, l, q, ns) \subseteq Waiting(s, l, r, ns)
  <2>1. l \in 1..j /\ \A k \in 1..l : t[k].op # "alias"
    BY DEF Direct
  <2>2. \A k \in 1..l : k \in 1..j
    BY <2>1
  <2>3. l \in Direct(s) /\ t[l] = s[l]
    BY <2>1, <2>2 DEF Direct
  <2>4. CASE l # j
    <3>1. l + 1 \in 1..j /\ l # n
      BY <2>1, <2>4
    <3>2. Alike(s[l], t[l]) /\ (t[l + 1].op = "merge" <=> s[l + 1].op = "merge")
      BY <2>3, <3>1 DEF Alike
    <3>3. Waiting(t, l, q, ns) = Waiting(s, l, r, ns)
      BY <2>4, <3>1, <3>2, BelowWaits DEF AlikeAt
    <3> QED
      BY <2>3, <3>3
  <2>5. CASE l = j /\ s[j].op = "unmarshaler"
    <3>1. \A i : Waits(t, l, q, ns, i) => Waits(s, l, r, ns, i)
      BY <2>3, <2>5 DEF Waits
    <3> QED
      BY <2>3, <3>1 DEF Waiting
  <2>6. CASE l = j /\ j < n /\ q # "none" /\ s[j + 1].op # "merge"
    <3>1. \A i : Waits(t, l, q, ns, i) => Waits(s, l, r, ns, i)
      BY <2>3, <2>6 DEF Waits
    <3> QED
      BY <2>3, <3>1 DEF Waiting
  <2> QED
    BY <2>1, <2>4, <2>5, <2>6
<1> QED
  BY <1>1, FreshLess

\* A call below an alias calls.
LEMMA FreshIndirect ==
  ASSUME NEW s, NEW n \in Nat \ {0}, DOMAIN s = 1..n, Len(s) = n,
         NEW t, DOMAIN t = 1..n + 1, Len(t) = n + 1,
         \A l \in 1..n - 1 : Alike(s[l], t[l]),
         t[n].op = "merge" <=> s[n].op = "merge",
         t[n].op = "alias" \/ (n \notin Direct(s) /\ t[n].op = s[n].op),
         NEW r, NEW q, NEW ns, NEW F, Fresh(F, s, r, ns)
  PROVE  Fresh(F, t, q, ns)
<1>1. ASSUME NEW l \in Direct(t)
      PROVE  l \in Direct(s) /\ t[l].node = s[l].node /\ Waiting(t, l, q, ns) \subseteq Waiting(s, l, r, ns)
  <2>1. l \in 1..n + 1 /\ \A k \in 1..l : t[k].op # "alias"
    BY DEF Direct
  <2>2. l \in 1..n - 1
    <3> SUFFICES ASSUME l = n \/ l = n + 1 PROVE FALSE
      BY <2>1
    <3>1. \A k \in 1..n : k \in 1..l
      OBVIOUS
    <3>2. \A k \in 1..n : t[k].op # "alias"
      BY <2>1, <3>1
    <3>3. \A k \in 1..n : k \in 1..n - 1 \/ k = n
      OBVIOUS
    <3>4. n \in 1..n
      OBVIOUS
    <3>5. t[n].op = s[n].op /\ n \notin Direct(s)
      BY <3>2, <3>4
    <3>6. \A k \in 1..n : s[k].op # "alias"
      BY <3>2, <3>3, <3>5 DEF Alike
    <3> QED
      BY <3>4, <3>5, <3>6 DEF Direct
  <2>3. \A k \in 1..l : k \in 1..n - 1
    BY <2>2
  <2>4. \A k \in 1..l : s[k].op # "alias"
    BY <2>1, <2>3 DEF Alike
  <2>5. l \in Direct(s)
    BY <2>2, <2>4 DEF Direct
  <2>6. l # n /\ l # n + 1 /\ (l + 1 \in 1..n - 1 \/ l + 1 = n)
    BY <2>2
  <2>7. Alike(s[l], t[l]) /\ (t[l + 1].op = "merge" <=> s[l + 1].op = "merge")
    BY <2>2, <2>6 DEF Alike
  <2>8. Waiting(t, l, q, ns) = Waiting(s, l, r, ns)
    BY <2>6, <2>7, BelowWaits DEF AlikeAt
  <2> QED
    BY <2>5, <2>7, <2>8 DEF Alike
<1> QED
  BY <1>1, FreshLess

\* A direct call calls: what the calls below it wait for stays.
LEMMA CallBelow ==
  ASSUME NEW s, NEW n \in Nat \ {0}, DOMAIN s = 1..n, Len(s) = n, n \in Direct(s),
         NEW t, DOMAIN t = 1..n + 1, Len(t) = n + 1,
         \A l \in 1..n - 1 : Alike(s[l], t[l]),
         t[n].op = s[n].op, t[n].node = s[n].node,
         NEW r, NEW q, NEW ns, Waiting(t, n, q, ns) \subseteq Waiting(s, n, r, ns)
  PROVE  Keeps(s, r, t, q, ns, n + 1)
<1> SUFFICES ASSUME NEW l \in Direct(t) \ {n + 1}
             PROVE  l \in Direct(s) /\ t[l].node = s[l].node /\ Waiting(t, l, q, ns) \subseteq Waiting(s, l, r, ns)
  BY DEF Keeps
<1>1. l \in 1..n
  BY DEF Direct
<1>2. \A k \in 1..l : k \in 1..n
  BY <1>1
<1>3. l \in Direct(s)
  BY <1>1, <1>2 DEF Direct
<1>4. CASE l = n
  BY <1>3, <1>4
<1>5. CASE l # n
  <2>1. l \in 1..n - 1 /\ l # n + 1 /\ (l + 1 \in 1..n - 1 \/ l + 1 = n)
    BY <1>1, <1>5
  <2>2. Alike(s[l], t[l]) /\ (t[l + 1].op = "merge" <=> s[l + 1].op = "merge")
    BY <2>1 DEF Alike
  <2>3. Waiting(t, l, q, ns) = Waiting(s, l, r, ns)
    BY <1>5, <2>1, <2>2, BelowWaits DEF AlikeAt
  <2> QED
    BY <1>3, <2>2, <2>3 DEF Alike
<1> QED
  BY <1>4, <1>5

-----------------------------------------------------------------------------
(* Stacks from one step to the next                                          *)

\* The innermost of the n calls of s, or the call f in its place, goes on.
GoesOn(s, t, n, f) ==
  /\ n \in Nat \ {0} /\ Len(s) = n /\ DOMAIN s = 1..n
  /\ Len(t) = n /\ DOMAIN t = 1..n /\ t[n] = f
  /\ \A l \in 1..n - 1 : Alike(s[l], t[l])

\* It makes the call g.
MakesCall(s, t, n, f, g) ==
  /\ n \in Nat \ {0} /\ Len(s) = n /\ DOMAIN s = 1..n
  /\ Len(t) = n + 1 /\ DOMAIN t = 1..n + 1 /\ t[n] = f /\ t[n + 1] = g
  /\ \A l \in 1..n - 1 : Alike(s[l], t[l])

\* The first j of its n calls are left.
Leaves(s, t, n, j) ==
  /\ n \in Nat /\ Len(s) = n /\ DOMAIN s = 1..n
  /\ j \in 0..n /\ Len(t) = j /\ DOMAIN t = 1..j
  /\ \A l \in 1..j : t[l] = s[l]

\* A call is put in the place of the innermost.
LEMMA ReplaceFacts ==
  ASSUME NEW s, IsSequence(s), s # <<>>, NEW f
  PROVE  GoesOn(s, Append(Front(s), f), Len(s), f)
<1>1. PICK b, n : b = Front(s) /\ n = Len(s)
  OBVIOUS
<1>2. /\ IsSequence(b) /\ DOMAIN s = 1..n /\ n \in Nat \ {0} /\ Len(b) = n - 1
      /\ \A i \in 1..n - 1 : b[i] = s[i]
  BY <1>1, FrontFacts
<1>3. PICK t : t = Append(b, f)
  OBVIOUS
<1>4. /\ Len(t) = n - 1 + 1 /\ DOMAIN t = 1..n - 1 + 1
      /\ \A i \in 1..n - 1 : t[i] = b[i]
      /\ t[n - 1 + 1] = f
  BY <1>2, <1>3, AppendFacts
<1>5. n - 1 + 1 = n
  BY <1>2
<1>6. \A l \in 1..n - 1 : Alike(s[l], t[l])
  BY <1>2, <1>4 DEF Alike
<1>7. GoesOn(s, t, n, f)
  BY <1>1, <1>2, <1>4, <1>5, <1>6 DEF GoesOn
<1> QED
  BY <1>1, <1>3, <1>7

\* It goes on and makes a call.
LEMMA ReplaceCallFacts ==
  ASSUME NEW s, IsSequence(s), s # <<>>, NEW f, NEW g
  PROVE  MakesCall(s, Append(Append(Front(s), f), g), Len(s), f, g)
<1>1. PICK b, n : b = Append(Front(s), f) /\ n = Len(s)
  OBVIOUS
<1>2. GoesOn(s, b, n, f) /\ IsSequence(b)
  BY <1>1, ReplaceFacts, FrontFacts, AppendFacts
<1>3. PICK t : t = Append(b, g)
  OBVIOUS
<1>4. /\ Len(t) = n + 1 /\ DOMAIN t = 1..n + 1
      /\ \A i \in 1..n : t[i] = b[i]
      /\ t[n + 1] = g
  BY <1>2, <1>3, AppendFacts DEF GoesOn
<1>5. \A l \in 1..n - 1 : Alike(s[l], t[l])
  BY <1>2, <1>4 DEF GoesOn
<1>6. MakesCall(s, t, n, f, g)
  BY <1>2, <1>4, <1>5 DEF GoesOn, MakesCall
<1> QED
  BY <1>1, <1>3, <1>6

\* It makes a call and stays as it is.
LEMMA AppendCallFacts ==
  ASSUME NEW s, IsSequence(s), s # <<>>, NEW g
  PROVE  MakesCall(s, Append(s, g), Len(s), Last(s), g)
<1>1. PICK t, n : t = Append(s, g) /\ n = Len(s)
  OBVIOUS
<1>2. n \in Nat \ {0} /\ DOMAIN s = 1..n
  BY <1>1, FrontFacts
<1>3. /\ Len(t) = n + 1 /\ DOMAIN t = 1..n + 1
      /\ \A i \in 1..n : t[i] = s[i]
      /\ t[n + 1] = g
  BY <1>1, AppendFacts
<1>4. \A l \in 1..n - 1 : Alike(s[l], t[l])
  BY <1>2, <1>3 DEF Alike
<1>5. MakesCall(s, t, n, s[n], g)
  BY <1>1, <1>2, <1>3, <1>4 DEF MakesCall
<1> QED
  BY <1>1, <1>5 DEF Last

\* Storing a value is such a step.
LEMMA StoreFacts ==
  ASSUME TypeInv, AliasInv, stack # <<>>
  PROVE  /\ GoesOn(stack, Store, Len(stack), Store[Len(stack)])
         /\ Store[Len(stack)].op = Top.op /\ Store[Len(stack)].node = Top.node
         /\ Top.op = "mapping" => Store[Len(stack)].i = Top.i + 1
<1> DEFINE put(f) == [f EXCEPT !.out = Put(@, Entry.key, Top.node)]
           count(f) == [f EXCEPT !.i = @ + 1]
           last(l) == IF l = Top.owner THEN count(put(stack[l])) ELSE count(stack[l])
           other(l) == IF l = Top.owner THEN put(stack[l]) ELSE stack[l]
<1>1. PICK n : n = Len(stack)
  OBVIOUS
<1>2. /\ n \in Nat \ {0} /\ DOMAIN stack = 1..n /\ Top = stack[n]
      /\ \A l \in 1..n : FrameOK(stack[l], nodes, Len(merged))
  BY <1>1, TypeFacts, FrontFacts DEF Top, Last, TypeInv, FramesOK
<1>3. ASSUME NEW f
      PROVE  DOMAIN put(f) = DOMAIN f /\ \A x \in DOMAIN f \ {"out"} : put(f)[x] = f[x]
  OBVIOUS
<1>4. ASSUME NEW f
      PROVE  /\ DOMAIN count(f) = DOMAIN f /\ \A x \in DOMAIN f \ {"i"} : count(f)[x] = f[x]
             /\ "i" \in DOMAIN f => count(f).i = f.i + 1
  OBVIOUS
<1>5. PICK t : t = Store
  OBVIOUS
<1>6. DOMAIN t = 1..n /\ Len(t) = n
  <2>1. Store = [l \in 1..n |-> Store[l]]
    BY <1>2 DEF Store
  <2> QED
    BY <1>2, <1>5, <2>1, FunctionFacts
<1>7. \A l \in 1..n : t[l] = IF l = n THEN last(l) ELSE other(l)
  <2>1. DOMAIN stack = 1..n /\ Top = stack[n]
    BY <1>2
  <2> QED
    BY <1>1, <1>5, <2>1 DEF Store
<1> HIDE DEF put, count
<1>8. \A l \in 1..n - 1 : Alike(stack[l], t[l])
  <2> TAKE l \in 1..n - 1
  <2>1. l \in 1..n /\ l # n
    BY <1>2
  <2>2. t[l] = other(l)
    BY <1>7, <2>1
  <2>3. \A x \in DOMAIN stack[l] \ {"out"} : t[l][x] = stack[l][x]
    BY <1>3, <2>2
  <2>4. FrameOK(stack[l], nodes, Len(merged))
    BY <1>2, <2>1
  <2>5. {"op", "node"} \subseteq DOMAIN stack[l]
    BY <2>4 DEF FrameOK
  <2>6. stack[l].op \in {"sequence", "mapping", "merge"} => "i" \in DOMAIN stack[l]
    BY <2>4 DEF FrameOK
  <2>7. stack[l].op = "unmarshaler" => "calls" \in DOMAIN stack[l]
    BY <2>4 DEF FrameOK
  <2> QED
    BY <2>3, <2>5, <2>6, <2>7 DEF Alike
<1>9. /\ t[n].op = Top.op /\ t[n].node = Top.node
      /\ Top.op = "mapping" => t[n].i = Top.i + 1
  <2>1. t[n] = last(n)
    BY <1>2, <1>7
  <2>2. DOMAIN t[n] = DOMAIN stack[n] /\ \A x \in DOMAIN stack[n] \ {"out", "i"} : t[n][x] = stack[n][x]
    BY <1>3, <1>4, <2>1
  <2>3. "i" \in DOMAIN stack[n] => t[n].i = stack[n].i + 1
    BY <1>3, <1>4, <2>1
  <2>4. FrameOK(stack[n], nodes, Len(merged))
    BY <1>2
  <2> QED
    BY <1>2, <2>2, <2>3, <2>4 DEF FrameOK
<1>10. GoesOn(stack, t, n, t[n])
  BY <1>1, <1>2, <1>6, <1>8 DEF GoesOn
<1> QED
  BY <1>1, <1>5, <1>9, <1>10

-----------------------------------------------------------------------------
(* Steps that call and return                                                *)

\* What a step has to show: with the tree ns before and ms after, some nodes have still
\* not been decoded where they stand.
StaysGood(s, r, ns, t, q, ms) == \A F : Good(F, s, r, ns) => \E G : Good(G, t, q, ms)

\* The innermost call goes on: it waits for less.
Narrows(s, r, t, q, ns, n, f) ==
  f.op # "alias" =>
    s[n].op # "alias" /\ f.node = s[n].node /\ Waiting(t, n, q, ns) \subseteq Waiting(s, n, r, ns)

\* A step in which the innermost call goes on, and no node becomes known.
LEMMA GoOnGood ==
  ASSUME NEW s, NEW t, NEW n, NEW f, GoesOn(s, t, n, f), f.op = "merge" <=> s[n].op = "merge",
         NEW r, NEW q, NEW ns, Narrows(s, r, t, q, ns, n, f)
  PROVE  StaysGood(s, r, ns, t, q, ns)
<1> SUFFICES ASSUME NEW F, Good(F, s, r, ns)
             PROVE  \E G : Good(G, t, q, ns)
  BY DEF StaysGood
<1>1. /\ n \in Nat \ {0} /\ Len(s) = n /\ DOMAIN s = 1..n
      /\ Len(t) = n /\ DOMAIN t = 1..n /\ t[n] = f
      /\ \A l \in 1..n - 1 : Alike(s[l], t[l])
  BY DEF GoesOn
<1>2. Fresh(F, s, r, ns)
  BY DEF Good
<1>3. t[n].op # "alias" =>
        s[n].op # "alias" /\ t[n].node = s[n].node /\ Waiting(t, n, q, ns) \subseteq Waiting(s, n, r, ns)
  BY <1>1 DEF Narrows
<1>4. t[n].op = "merge" <=> s[n].op = "merge"
  BY <1>1
<1>5. Fresh(F, t, q, ns)
  BY <1>1, <1>2, <1>3, <1>4, FreshGoesOn
<1> QED
  BY <1>5 DEF Good

\* Calls are left to one that has been given a result.
LEMMA LeaveGood ==
  ASSUME NEW s, NEW t, NEW n, NEW j, Leaves(s, t, n, j), NEW r, NEW q,
         j # 0 => \/ j < n /\ q # "none" /\ s[j + 1].op # "merge"
                  \/ s[j].op = "unmarshaler",
         NEW ns
  PROVE  StaysGood(s, r, ns, t, q, ns)
<1> SUFFICES ASSUME NEW F, Good(F, s, r, ns)
             PROVE  \E G : Good(G, t, q, ns)
  BY DEF StaysGood
<1>1. /\ n \in Nat /\ Len(s) = n /\ DOMAIN s = 1..n
      /\ j \in 0..n /\ Len(t) = j /\ DOMAIN t = 1..j
      /\ \A l \in 1..j : t[l] = s[l]
  BY DEF Leaves
<1>2. Fresh(F, s, r, ns)
  BY DEF Good
<1>3. Fresh(F, t, q, ns)
  BY <1>1, <1>2, FreshUnwinds
<1> QED
  BY <1>3 DEF Good

\* Below an alias no origin is added.
LEMMA IndirectDepth ==
  ASSUME AliasInv, "zeroed" \notin departed, stack # <<>>, Len(stack) \notin Direct(stack)
  PROVE  aliasDepth # 0
<1>1. PICK n : n = Len(stack)
  OBVIOUS
<1>2. Calls(stack) /\ n \in Nat \ {0} /\ DOMAIN stack = 1..n
  BY <1>1, FrontFacts DEF AliasInv, Calls
<1>3. PICK k \in 1..n : stack[k].op = "alias"
  <2>1. n \in 1..n
    BY <1>2
  <2> QED
    BY <1>1, <1>2, <2>1 DEF Direct
<1>4. k \in AliasesOf(stack) /\ IsFiniteSet(AliasesOf(stack))
  BY <1>2, <1>3, AliasesFinite DEF AliasesOf
<1>5. Cardinality(AliasesOf(stack)) \in Nat /\ Cardinality(AliasesOf(stack)) # 0
  BY <1>4, FS_CardinalityType, FS_EmptySet
<1>6. aliasDepth \in Int /\ Cardinality(AliasesOf(stack)) <= aliasDepth
  BY DEF AliasInv, Covered
<1> QED
  BY <1>5, <1>6

\* The innermost of n calls passes on the place p of its node, where it waits.
Visits(s, r, t, q, ns, n, p) ==
  /\ Waiting(t, n, q, ns) \subseteq Waiting(s, n, r, ns)
  /\ p \in Waiting(s, n, r, ns) /\ p \notin Waiting(t, n, q, ns)
  /\ t[n + 1].node = Child(ns, s[n].node, p)

\* A call is made for what stands in a place of its node.
LEMMA CallGood ==
  ASSUME AliasInv, "zeroed" \notin departed, stack # <<>>,
         NEW t, NEW n, NEW f, NEW g, MakesCall(stack, t, n, f, g), f.op = Top.op, f.node = Top.node,
         NEW F, NEW ns, Good(F, stack, ret, ns), Tree(ns), NEW q,
         n \in Direct(stack) => \E p : Visits(stack, ret, t, q, ns, n, p),
         Kind(ns, g.node) # "unknown", NEW ms, MayAdd(ns, g.node, ms)
  PROVE  \E G : Good(G, t, q, ms)
<1>1. PICK s, r : s = stack /\ r = ret
  OBVIOUS
<1>2. /\ n \in Nat \ {0} /\ Len(s) = n /\ DOMAIN s = 1..n
      /\ Len(t) = n + 1 /\ DOMAIN t = 1..n + 1 /\ t[n] = f /\ t[n + 1] = g
      /\ \A l \in 1..n - 1 : Alike(s[l], t[l])
  BY <1>1 DEF MakesCall
<1>3. t[n].op = s[n].op /\ t[n].node = s[n].node /\ Good(F, s, r, ns)
  BY <1>1, <1>2 DEF Top, Last
<1>4. CASE n \in Direct(s)
  <2>1. PICK p : Visits(s, r, t, q, ns, n, p)
    BY <1>1, <1>4
  <2>2. /\ Waiting(t, n, q, ns) \subseteq Waiting(s, n, r, ns)
        /\ p \in Waiting(s, n, r, ns) /\ p \notin Waiting(t, n, q, ns)
        /\ g.node = Child(ns, s[n].node, p) /\ Kind(ns, g.node) # "unknown"
    BY <1>2, <2>1 DEF Visits
  <2>3. Keeps(s, r, t, q, ns, n + 1)
    BY <1>2, <1>3, <1>4, <2>2, CallBelow
  <2>4. PICK v : v = g.node
    OBVIOUS
  <2>5. /\ v = Child(ns, s[n].node, p) /\ Kind(ns, v) # "unknown" /\ t[n + 1].node = v
        /\ MayAdd(ns, v, ms)
    BY <1>2, <2>2, <2>4
  <2> QED
    BY <1>3, <1>4, <2>2, <2>3, <2>5, VisitGood
<1>5. CASE n \notin Direct(s)
  <2>1. aliasDepth # 0
    BY <1>1, <1>2, <1>5, IndirectDepth
  <2>2. ms = ns
    BY <2>1 DEF AddOriginTo, MayAdd
  <2>3. Fresh(F, s, r, ns)
    BY <1>3 DEF Good
  <2>4. t[n].op = "merge" <=> s[n].op = "merge"
    BY <1>3
  <2>5. Fresh(F, t, q, ns)
    BY <1>2, <1>3, <1>5, <2>3, <2>4, FreshIndirect
  <2> QED
    BY <1>3, <2>2, <2>5 DEF Good
<1> QED
  BY <1>4, <1>5

\* A call is made for the node of the one that makes it, which no longer waits.
LEMMA HandGood ==
  ASSUME NEW s, NEW t, NEW n, NEW f, NEW g, MakesCall(s, t, n, f, g), f.op = s[n].op,
         NEW F, NEW r, NEW ns, Good(F, s, r, ns), NEW q,
         n \in Direct(s) =>
           /\ f.node = s[n].node /\ g.node = s[n].node
           /\ Waiting(t, n, q, ns) = {} /\ Waiting(t, n + 1, q, ns) \subseteq Waiting(s, n, r, ns)
  PROVE  \E G : Good(G, t, q, ns)
<1>2. /\ n \in Nat \ {0} /\ Len(s) = n /\ DOMAIN s = 1..n
      /\ Len(t) = n + 1 /\ DOMAIN t = 1..n + 1 /\ t[n] = f /\ t[n + 1] = g
      /\ \A l \in 1..n - 1 : Alike(s[l], t[l])
  BY DEF MakesCall
<1>3. t[n].op = s[n].op /\ Fresh(F, s, r, ns)
  BY <1>2 DEF Good
<1>4. CASE n \in Direct(s)
  <2>1. /\ t[n].node = s[n].node /\ t[n + 1].node = s[n].node
        /\ Waiting(t, n, q, ns) = {} /\ Waiting(t, n + 1, q, ns) \subseteq Waiting(s, n, r, ns)
    BY <1>2, <1>4
  <2>2. Waiting(t, n, q, ns) \subseteq Waiting(s, n, r, ns)
    BY <2>1
  <2>3. Keeps(s, r, t, q, ns, n + 1)
    BY <1>2, <1>3, <1>4, <2>1, <2>2, CallBelow
  <2>4. n # n + 1
    BY <1>2
  <2>5. Fresh(F, t, q, ns)
    BY <1>3, <1>4, <2>1, <2>3, <2>4, FreshMove
  <2> QED
    BY <2>5 DEF Good
<1>5. CASE n \notin Direct(s)
  <2>1. t[n].op = "merge" <=> s[n].op = "merge"
    BY <1>3
  <2>2. Fresh(F, t, q, ns)
    BY <1>2, <1>3, <1>5, <2>1, FreshIndirect
  <2> QED
    BY <2>2 DEF Good
<1> QED
  BY <1>4, <1>5

-----------------------------------------------------------------------------
(* The actions                                                               *)

\* The step keeps nodes that nobody has decoded where they stand, while the depth
\* tells whether there is an alias above.
StepGood == "zeroed" \notin departed => StaysGood(stack, ret, nodes, stack', ret', nodes')

\* The innermost call and its node's places.
LEMMA InnermostFacts ==
  ASSUME TypeInv, AliasInv, stack # <<>>
  PROVE  /\ IsSequence(stack) /\ Len(stack) \in Nat \ {0} /\ DOMAIN stack = 1..Len(stack)
         /\ Top = stack[Len(stack)] /\ FrameOK(Top, nodes, Len(merged))
         /\ Len(stack) \in Direct(stack) => Top.op # "alias"
<1>1. IsSequence(stack) /\ Len(stack) \in Nat \ {0} /\ DOMAIN stack = 1..Len(stack)
  BY TypeFacts, FrontFacts
<1>2. Top = stack[Len(stack)] /\ FrameOK(Top, nodes, Len(merged))
  BY TypeFacts DEF Top, Last
<1>3. Len(stack) \in 1..Len(stack)
  BY <1>1
<1> QED
  BY <1>1, <1>2, <1>3 DEF Direct

\* A collection is decoded, or its unmarshaler called: it waits for all of its node.
LEMMA BeginOrigins ==
  ASSUME TypeInv, AliasInv, DecodeSequence \/ DecodeMapping \/ CallUnmarshaler
  PROVE  StepGood
<1>1. stack # <<>> /\ Top.op = "unmarshal" /\ nodes' = nodes /\ ret' = ret
  BY DEF DecodeSequence, DecodeMapping, CallUnmarshaler, AtKind, AtCall
<1>2. PICK f : /\ stack' = Append(Front(stack), f)
               /\ f.op \in {"sequence", "mapping", "unmarshaler"} /\ f.node = Top.node
  <2>1. CASE DecodeSequence
    <3>1. PICK f : f = [op |-> "sequence", node |-> Top.node, i |-> 1]
      OBVIOUS
    <3> QED
      BY <2>1, <3>1 DEF DecodeSequence, Replace
  <2>2. CASE DecodeMapping
    <3>1. PICK target, owner :
            stack' = Append(Front(stack),
                            [op |-> "mapping", node |-> Top.node, i |-> 1, own |-> mergedFields,
                             owner |-> owner, target |-> target, out |-> <<>>])
      BY <2>2 DEF DecodeMapping, Replace
    <3>2. PICK f : f = [op |-> "mapping", node |-> Top.node, i |-> 1, own |-> mergedFields,
                        owner |-> owner, target |-> target, out |-> <<>>]
      OBVIOUS
    <3> QED
      BY <3>1, <3>2
  <2>3. CASE CallUnmarshaler
    <3>1. PICK f : f = [op |-> "unmarshaler", node |-> Top.node, terrlen |-> terrors,
                        calls |-> 0, result |-> "none", issues |-> 0]
      OBVIOUS
    <3> QED
      BY <2>3, <3>1 DEF CallUnmarshaler, Replace
  <2> QED
    BY <2>1, <2>2, <2>3
<1>3. PICK s, t, n : s = stack /\ t = stack' /\ n = Len(stack)
  OBVIOUS
<1>4. GoesOn(s, t, n, f) /\ s[n] = Top
  BY <1>1, <1>2, <1>3, InnermostFacts, ReplaceFacts
<1>5. \A i : Waits(s, n, ret, nodes, i)
  BY <1>1, <1>4 DEF Waits
<1>6. t[n].node = s[n].node
  BY <1>2, <1>4 DEF GoesOn
<1>7. Narrows(s, ret, t, ret, nodes, n, f)
  BY <1>1, <1>2, <1>4, <1>5, <1>6 DEF Narrows, Waiting
<1>8. f.op = "merge" <=> s[n].op = "merge"
  BY <1>1, <1>2, <1>4
<1>9. StaysGood(s, ret, nodes, t, ret, nodes)
  BY <1>4, <1>7, <1>8, GoOnGood
<1> QED
  BY <1>1, <1>3, <1>9 DEF StepGood

\* A mapping has done with an entry.
LEMMA EntryOrigins ==
  ASSUME TypeInv, AliasInv,
         MappingSkips \/ MappingIgnores \/ MappingOrigin \/ OriginMismatch \/ MappingStores
  PROVE  StepGood
<1>1. stack # <<>> /\ Top.op = "mapping" /\ nodes' = nodes /\ ret' = "none" /\ stack' \in {Advance, Store}
  BY DEF MappingSkips, MappingIgnores, MappingOrigin, OriginMismatch, MappingStores, AtEntry, In
<1>2. PICK s, t, n, r : s = stack /\ t = stack' /\ n = Len(stack) /\ r = ret
  OBVIOUS
<1>3. s[n] = Top /\ FrameOK(Top, nodes, Len(merged)) /\ IsSequence(s)
  BY <1>1, <1>2, InnermostFacts
<1>4. PICK f : GoesOn(s, t, n, f) /\ f.op = "mapping" /\ f.node = Top.node /\ f.i = Top.i + 1
  <2>1. CASE t = Advance
    <3>1. PICK f : f = [Top EXCEPT !.i = @ + 1]
      OBVIOUS
    <3>2. f.op = "mapping" /\ f.node = Top.node /\ f.i = Top.i + 1
      BY <1>1, <1>3, <3>1 DEF FrameOK
    <3>3. GoesOn(s, t, n, f)
      BY <1>1, <1>2, <1>3, <2>1, <3>1, ReplaceFacts DEF Advance, Replace
    <3> QED
      BY <3>2, <3>3
  <2>2. CASE t = Store
    BY <1>1, <1>2, <2>2, StoreFacts
  <2> QED
    BY <1>1, <1>2, <2>1, <2>2
<1>5. Top.node \in DOMAIN nodes /\ nodes[Top.node].kind = "mapping" /\ Top.i \in Nat
  BY <1>1, <1>3 DEF FrameOK
<1>6. Places(nodes, Top.node) \subseteq Nat
  <2>1. nodes[Top.node].content \in Seq(Entries(Len(nodes)))
    BY <1>1, ContentFacts
  <2>2. DOMAIN nodes[Top.node].content \subseteq Nat
    BY <2>1
  <2> QED
    BY <1>5, <2>2 DEF Places, PlacesIn
<1>7. t[n].node = Top.node /\ t[n].op = "mapping" /\ t[n].i = Top.i + 1 /\ Len(s) = n
  BY <1>4 DEF GoesOn
<1>8. ASSUME NEW i \in Nat, Waits(t, n, "none", nodes, i)
      PROVE  Waits(s, n, r, nodes, i)
  <2>1. i > Top.i + 1 \/ i = Top.i + 1 \/ nodes[Top.node].content[i].key = Merge
    BY <1>7, <1>8 DEF Waits
  <2>2. i > Top.i \/ nodes[Top.node].content[i].key = Merge
    BY <1>5, <2>1
  <2> QED
    BY <1>1, <1>3, <1>7, <2>2 DEF Waits
<1>9. Waiting(t, n, "none", nodes) \subseteq Waiting(s, n, r, nodes)
  BY <1>3, <1>6, <1>7, <1>8 DEF Waiting
<1>10. Narrows(s, r, t, "none", nodes, n, f) /\ (f.op = "merge" <=> s[n].op = "merge")
  BY <1>1, <1>3, <1>4, <1>9 DEF Narrows
<1>11. StaysGood(s, r, nodes, t, "none", nodes)
  BY <1>4, <1>10, GoOnGood
<1> QED
  BY <1>1, <1>2, <1>11 DEF StepGood

\* The function of an unmarshaler returns to it.
LEMMA FunctionOrigins ==
  ASSUME TypeInv, AliasInv, FunctionReturns
  PROVE  StepGood
<1>1. stack # <<>> /\ Top.op = "unmarshaler" /\ nodes' = nodes
  BY DEF FunctionReturns, In
<1>2. PICK s, t, n, r, q : s = stack /\ t = stack' /\ n = Len(stack) /\ r = ret /\ q = ret'
  OBVIOUS
<1>3. s[n] = Top /\ FrameOK(Top, nodes, Len(merged)) /\ IsSequence(s)
  BY <1>1, <1>2, InnermostFacts
<1>4. PICK f : /\ stack' = Append(Front(stack), f)
               /\ f.op = "unmarshaler" /\ f.node = Top.node /\ f.calls = Top.calls
  <2>1. {"op", "node", "calls", "result", "issues"} \subseteq DOMAIN Top
    BY <1>1, <1>3 DEF FrameOK
  <2>2. PICK x, y : stack' = Append(Front(stack), [Top EXCEPT !.result = x, !.issues = y])
    BY DEF FunctionReturns, Replace
  <2>3. PICK f : f = [Top EXCEPT !.result = x, !.issues = y]
    OBVIOUS
  <2>4. f.op = Top.op /\ f.node = Top.node /\ f.calls = Top.calls
    BY <2>1, <2>3
  <2> QED
    BY <1>1, <2>2, <2>3, <2>4
<1>5. GoesOn(s, t, n, f)
  BY <1>1, <1>2, <1>3, <1>4, ReplaceFacts
<1>6. t[n] = f
  BY <1>5 DEF GoesOn
<1>7. \A i : Waits(t, n, q, nodes, i) => Waits(s, n, r, nodes, i)
  BY <1>1, <1>3, <1>4, <1>6 DEF Waits
<1>8. Narrows(s, r, t, q, nodes, n, f) /\ (f.op = "merge" <=> s[n].op = "merge")
  BY <1>1, <1>3, <1>4, <1>6, <1>7 DEF Narrows, Waiting
<1>9. StaysGood(s, r, nodes, t, q, nodes)
  BY <1>5, <1>8, GoOnGood
<1> QED
  BY <1>1, <1>2, <1>9 DEF StepGood

\* A call returns, with that of its mapping if it is a merge.
LEMMA ReturnOrigins ==
  ASSUME TypeInv, AliasInv, stack # <<>>, nodes' = nodes, ret' # "none",
         \/ stack' = Front(stack) /\ Top.op # "merge"
         \/ stack' = Front(Front(stack)) /\ Top.op = "merge"
  PROVE  StepGood
<1>1. PICK s, t, n, q : s = stack /\ t = stack' /\ n = Len(stack) /\ q = ret'
  OBVIOUS
<1>2. PICK b : b = Front(s)
  OBVIOUS
<1>3. /\ n \in Nat \ {0} /\ DOMAIN s = 1..n /\ Top = s[n] /\ IsSequence(b)
      /\ Len(b) = n - 1 /\ DOMAIN b = 1..n - 1 /\ \A l \in 1..n - 1 : b[l] = s[l]
  BY <1>1, <1>2, InnermostFacts, FrontFacts
<1>4. CASE t = b /\ Top.op # "merge"
  <2>1. n - 1 \in 0..n /\ n - 1 < n /\ s[n - 1 + 1].op # "merge"
    BY <1>3, <1>4
  <2>2. Leaves(s, t, n, n - 1)
    BY <1>1, <1>3, <1>4, <2>1 DEF Leaves
  <2>3. StaysGood(s, ret, nodes, t, q, nodes)
    BY <1>1, <2>1, <2>2, LeaveGood
  <2> QED
    BY <1>1, <2>3 DEF StepGood
<1>5. CASE t = Front(b) /\ Top.op = "merge"
  <2>1. n > 1 /\ s[n - 1].op = "mapping"
    <3>1. n \in DOMAIN s
      BY <1>3
    <3> QED
      BY <1>1, <1>3, <1>5, <3>1 DEF AliasInv, Calls
  <2>2. b # <<>>
    BY <1>3, <2>1
  <2>3. Len(t) = n - 1 - 1 /\ DOMAIN t = 1..n - 1 - 1 /\ \A l \in 1..n - 1 - 1 : t[l] = b[l]
    BY <1>3, <1>5, <2>2, FrontFacts
  <2>4. n - 2 \in 0..n /\ n - 2 < n /\ n - 2 + 1 = n - 1 /\ n - 1 - 1 = n - 2
    BY <1>3, <2>1
  <2>5. \A l \in 1..n - 2 : t[l] = s[l]
    BY <1>3, <2>3, <2>4
  <2>6. Leaves(s, t, n, n - 2)
    BY <1>1, <1>3, <2>3, <2>4, <2>5 DEF Leaves
  <2>7. s[n - 2 + 1].op # "merge"
    BY <2>1, <2>4
  <2>8. StaysGood(s, ret, nodes, t, q, nodes)
    BY <1>1, <2>4, <2>6, <2>7, LeaveGood
  <2> QED
    BY <1>1, <2>8 DEF StepGood
<1> QED
  BY <1>1, <1>2, <1>4, <1>5

\* A failure leaves the calls that an unmarshaler is among, or none.
LEMMA FailGood ==
  ASSUME TypeInv, AliasInv, stack # <<>>, NEW frames \in {stack, Front(stack)},
         NEW left, Panic(frames, left), NEW ns
  PROVE  StaysGood(stack, ret, ns, stack', ret', ns)
<1>1. PICK s, t, n, q : s = stack /\ t = stack' /\ n = Len(stack) /\ q = ret'
  OBVIOUS
<1>2. n \in Nat \ {0} /\ DOMAIN s = 1..n /\ IsSequence(s)
  BY <1>1, InnermostFacts
<1>3. /\ IsSequence(frames) /\ DOMAIN frames \subseteq 1..n
      /\ \A l \in DOMAIN frames : frames[l] = s[l]
  <2>1. CASE frames = stack
    BY <1>1, <1>2, <2>1
  <2>2. CASE frames = Front(stack)
    <3>1. 1..n - 1 \subseteq 1..n
      BY <1>2
    <3> QED
      BY <1>1, <1>2, <2>2, <3>1, FrontFacts
  <2> QED
    BY <2>1, <2>2
<1>4. CASE t = <<>>
  <2>1. Len(t) = 0 /\ DOMAIN t = {} /\ 1..0 = {} /\ 0 \in 0..n
    BY <1>2, <1>4
  <2>2. Leaves(s, t, n, 0)
    BY <1>1, <1>2, <2>1 DEF Leaves
  <2>3. StaysGood(s, ret, ns, t, q, ns)
    BY <2>2, LeaveGood
  <2> QED
    BY <1>1, <2>3
<1>5. ASSUME NEW l \in DOMAIN frames, frames[l].op = "unmarshaler", t = SubSeq(frames, 1, l)
      PROVE  StaysGood(s, ret, ns, t, q, ns)
  <2>1. /\ IsSequence(t) /\ DOMAIN t = 1..l /\ l \in Nat \ {0}
        /\ DOMAIN frames = 1..Len(frames) /\ \A i \in 1..l : t[i] = frames[i]
    BY <1>3, <1>5, PrefixFacts
  <2>2. Len(t) = l
    <3>1. PICK S : t \in Seq(S)
      BY <2>1 DEF IsSequence
    <3>2. DOMAIN t = 1..Len(t) /\ Len(t) \in Nat
      BY <3>1
    <3> QED
      BY <2>1, <3>2
  <2>3. l \in 0..n /\ \A i \in 1..l : i \in DOMAIN frames
    BY <1>2, <1>3, <2>1
  <2>4. Leaves(s, t, n, l)
    BY <1>1, <1>2, <1>3, <2>1, <2>2, <2>3 DEF Leaves
  <2>5. s[l].op = "unmarshaler"
    BY <1>3, <1>5
  <2> QED
    BY <2>4, <2>5, LeaveGood
<1> QED
  BY <1>1, <1>4, <1>5 DEF Panic

\* An alias is followed: what it leads to stands elsewhere.
LEMMA AliasOrigins ==
  ASSUME TypeInv, AliasInv, DecodeAlias
  PROVE  StepGood
<1>1. stack # <<>> /\ Top.op = "unmarshal" /\ nodes' = nodes
  BY DEF DecodeAlias, AtKind, AtCall
<1>2. PICK s, t, n, q : s = stack /\ t = stack' /\ n = Len(stack) /\ q = ret'
  OBVIOUS
<1>3. PICK f, g : f = [op |-> "alias", node |-> Top.node] /\ g = Unmarshal(nodes[Top.node].target, Top.into)
  OBVIOUS
<1>4. stack' = Append(Append(Front(stack), f), g)
  BY <1>3 DEF DecodeAlias, Replace
<1>5. MakesCall(s, t, n, f, g) /\ s[n] = Top /\ f.op = "alias"
  BY <1>1, <1>2, <1>3, <1>4, InnermostFacts, ReplaceCallFacts
<1>6. /\ n \in Nat \ {0} /\ Len(s) = n /\ DOMAIN s = 1..n
      /\ Len(t) = n + 1 /\ DOMAIN t = 1..n + 1 /\ t[n] = f
      /\ \A l \in 1..n - 1 : Alike(s[l], t[l])
  BY <1>5 DEF MakesCall
<1>7. t[n].op = "alias" \/ (n \notin Direct(s) /\ t[n].op = s[n].op)
  BY <1>5, <1>6
<1>71. t[n].op = "merge" <=> s[n].op = "merge"
  BY <1>1, <1>5, <1>6
<1>8. ASSUME NEW F, Good(F, s, ret, nodes)
      PROVE  \E G : Good(G, t, q, nodes)
  <2>1. Fresh(F, s, ret, nodes)
    BY <1>8 DEF Good
  <2>2. Fresh(F, t, q, nodes)
    BY <1>6, <1>7, <1>71, <2>1, FreshIndirect
  <2> QED
    BY <1>8, <2>2 DEF Good
<1> QED
  BY <1>1, <1>2, <1>8 DEF StepGood, StaysGood

\* A node is looked at, and decoded by the call of which it is a place.
LEMMA VisitStep ==
  ASSUME TypeInv, AliasInv, stack # <<>>,
         NEW n, NEW f, NEW g, MakesCall(stack, stack', n, f, g), f.op = Top.op, f.node = Top.node,
         g.node \in 0..Len(nodes), NEW ns \in Known(g.node), MayAdd(ns, g.node, nodes'),
         n \in Direct(stack) => \E p : Visits(stack, ret, stack', ret', nodes, n, p)
  PROVE  StepGood
<1> SUFFICES ASSUME "zeroed" \notin departed, NEW F, Good(F, stack, ret, nodes)
             PROVE  \E G : Good(G, stack', ret', nodes')
  BY DEF StepGood, StaysGood
<1>1. PICK s, t, r, q, ms : s = stack /\ t = stack' /\ r = ret /\ q = ret' /\ ms = nodes'
  OBVIOUS
<1>2. Tree(nodes) /\ Tree(ns) /\ DOMAIN nodes = 1..Len(nodes)
  BY GrownTree, TypeFacts DEF TypeInv
<1>3. Kind(ns, g.node) # "unknown"
  BY <1>2, KnownGood
<1>4. \A a \in DOMAIN nodes : nodes[a].kind # "unknown" => ns[a] = nodes[a]
  BY <1>2, KnownGood
<1>5. PICK G : Good(G, s, r, ns)
  BY <1>1, <1>2, KnownGood
<1>6. t[n] = f /\ s[n] = Top /\ Len(stack) = n
  BY <1>1, InnermostFacts DEF MakesCall
<1>7. ASSUME n \in Direct(stack)
      PROVE  \E p : Visits(s, r, t, q, ns, n, p)
  <2>1. PICK p : Visits(s, r, t, q, nodes, n, p)
    BY <1>1, <1>7
  <2>2. s[n].node \in {0} \cup DOMAIN nodes /\ Kind(nodes, s[n].node) # "unknown"
    BY <1>1, <1>7 DEF Good, Fresh
  <2>3. SameNode(s, n, nodes, ns)
    BY <1>4, <2>2 DEF SameNode, Kind
  <2>4. SameNode(t, n, nodes, ns)
    BY <1>6, <2>3 DEF SameNode
  <2>5. SameWaiting(s, n, r, nodes, ns) /\ SameWaiting(t, n, q, nodes, ns)
    BY <2>3, <2>4, WaitingSame
  <2>6. Visits(s, r, t, q, ns, n, p)
    BY <2>1, <2>5 DEF Visits, SameWaiting
  <2> QED
    BY <2>6
<1>8. MakesCall(stack, t, n, f, g) /\ Good(G, stack, ret, ns) /\ MayAdd(ns, g.node, ms)
  BY <1>1, <1>5
<1>9. n \in Direct(stack) => \E p : Visits(stack, ret, t, q, ns, n, p)
  BY <1>1, <1>7
<1>10. \E H : Good(H, t, q, ms)
  BY <1>2, <1>3, <1>8, <1>9, CallGood
<1> QED
  BY <1>1, <1>10

\* An item of a sequence is decoded.
LEMMA SequenceItemOrigins ==
  ASSUME TypeInv, AliasInv, SequenceItem
  PROVE  StepGood
<1>1. PICK item : item = nodes[Top.node].content[Top.i]
  OBVIOUS
<1>2. /\ stack # <<>> /\ Top.op = "sequence" /\ Top.i <= Len(nodes[Top.node].content)
      /\ stack' = Append(Advance, Unmarshal(item, 0)) /\ ret' = "none"
  BY <1>1 DEF SequenceItem, In, Advance
<1>3. PICK ns \in Known(item) : nodes' = AddOriginTo(ns, item, 1)
  BY <1>1 DEF SequenceItem
<1>4. item \in 0..Len(nodes) /\ nodes[Top.node].content \in Seq(0..Len(nodes))
  BY <1>1, <1>2, ContentFacts
<1>5. PICK s, t, n, r : s = stack /\ t = stack' /\ n = Len(stack) /\ r = ret
  OBVIOUS
<1>6. s[n] = Top /\ FrameOK(Top, nodes, Len(merged)) /\ IsSequence(s)
  BY <1>2, <1>5, InnermostFacts
<1>7. PICK f, g : f = [Top EXCEPT !.i = @ + 1] /\ g = Unmarshal(item, 0)
  OBVIOUS
<1>8. MakesCall(s, t, n, f, g)
  BY <1>2, <1>5, <1>6, <1>7, ReplaceCallFacts DEF Advance, Replace
<1>9. /\ Top.node \in DOMAIN nodes /\ nodes[Top.node].kind = "sequence" /\ Top.i \in Nat \ {0}
      /\ Top.node # 0
  BY <1>2, <1>6, TypeFacts DEF FrameOK
<1>10. f.op = "sequence" /\ f.node = Top.node /\ f.i = Top.i + 1 /\ g.node = item
  BY <1>2, <1>6, <1>7 DEF FrameOK, Unmarshal
<1>11. t[n] = f /\ t[n + 1] = g
  BY <1>8 DEF MakesCall
<1>12. DOMAIN nodes[Top.node].content \subseteq Nat /\ Top.i \in DOMAIN nodes[Top.node].content
  BY <1>2, <1>4, <1>9
<1>13. /\ Places(nodes, Top.node) \subseteq Nat /\ Top.i \in Places(nodes, Top.node)
       /\ Child(nodes, Top.node, Top.i) = item
  BY <1>1, <1>9, <1>12 DEF Places, PlacesIn, Child, ChildIn
<1>14. \A i \in Nat : /\ Waits(t, n, "none", nodes, i) <=> i >= Top.i + 1
                      /\ Waits(s, n, r, nodes, i) <=> i >= Top.i
  BY <1>2, <1>6, <1>10, <1>11 DEF Waits
<1>15. Waiting(t, n, "none", nodes) \subseteq Waiting(s, n, r, nodes)
  BY <1>6, <1>9, <1>10, <1>11, <1>13, <1>14 DEF Waiting
<1>16. Top.i \in Waiting(s, n, r, nodes) /\ Top.i \notin Waiting(t, n, "none", nodes)
  BY <1>6, <1>9, <1>13, <1>14 DEF Waiting
<1>17. Visits(s, r, t, "none", nodes, n, Top.i)
  BY <1>6, <1>10, <1>11, <1>13, <1>15, <1>16 DEF Visits
<1>18. MayAdd(ns, g.node, nodes')
  BY <1>3, <1>10 DEF MayAdd
<1> QED
  BY <1>2, <1>3, <1>4, <1>5, <1>8, <1>10, <1>17, <1>18, VisitStep

\* The value of a key is decoded; the keys `<<' are passed over.
LEMMA MappingValueOrigins ==
  ASSUME TypeInv, AliasInv, MappingValue
  PROVE  StepGood
<1>1. PICK v : v = Entry.value
  OBVIOUS
<1>2. /\ stack # <<>> /\ Top.op = "mapping" /\ Top.i <= Len(nodes[Top.node].content)
      /\ stack' = Append(stack, Unmarshal(v, 0)) /\ ret = "none" /\ ret' = "none"
      /\ Entry.key # Merge
  BY <1>1 DEF MappingValue, AtEntry, In
<1>3. PICK ns \in Known(v) : nodes' = ns \/ nodes' = AddOriginTo(ns, v, 0)
  BY <1>1 DEF MappingValue
<1>4. v \in 0..Len(nodes) /\ nodes[Top.node].content \in Seq(Entries(Len(nodes)))
  BY <1>1, <1>2, ContentFacts
<1>5. PICK s, t, n : s = stack /\ t = stack' /\ n = Len(stack)
  OBVIOUS
<1>6. s[n] = Top /\ FrameOK(Top, nodes, Len(merged)) /\ IsSequence(s) /\ n \in Nat
  BY <1>2, <1>5, InnermostFacts
<1>7. PICK g : g = Unmarshal(v, 0)
  OBVIOUS
<1>8. MakesCall(s, t, n, Top, g)
  BY <1>2, <1>5, <1>6, <1>7, AppendCallFacts DEF Top
<1>9. /\ Top.node \in DOMAIN nodes /\ nodes[Top.node].kind = "mapping" /\ Top.i \in Nat \ {0}
      /\ Top.node # 0
  BY <1>2, <1>6, TypeFacts DEF FrameOK
<1>10. g.node = v /\ g.op = "unmarshal"
  BY <1>7 DEF Unmarshal
<1>11. t[n] = Top /\ t[n + 1] = g /\ Len(s) = n
  BY <1>8 DEF MakesCall
<1>12. DOMAIN nodes[Top.node].content \subseteq Nat /\ Top.i \in DOMAIN nodes[Top.node].content
  BY <1>2, <1>4, <1>9
<1>13. /\ Places(nodes, Top.node) \subseteq Nat /\ Top.i \in Places(nodes, Top.node)
       /\ Child(nodes, Top.node, Top.i) = v
  BY <1>1, <1>9, <1>12 DEF Places, PlacesIn, Child, ChildIn, Entry
<1>14. \A i \in Nat :
         /\ Waits(t, n, "none", nodes, i) => i > Top.i \/ nodes[Top.node].content[i].key = Merge
         /\ Waits(s, n, "none", nodes, i) <=>
              i > Top.i \/ i = Top.i \/ nodes[Top.node].content[i].key = Merge
  <2>1. Len(t) = n + 1 /\ n # Len(t)
    BY <1>6, <1>8 DEF MakesCall
  <2> QED
    BY <1>2, <1>6, <1>10, <1>11, <2>1 DEF Waits
<1>15. Waiting(t, n, "none", nodes) \subseteq Waiting(s, n, "none", nodes)
  BY <1>6, <1>11, <1>13, <1>14 DEF Waiting
<1>16. Top.i \in Waiting(s, n, "none", nodes) /\ Top.i \notin Waiting(t, n, "none", nodes)
  BY <1>2, <1>6, <1>9, <1>13, <1>14 DEF Waiting, Entry
<1>17. Visits(s, "none", t, "none", nodes, n, Top.i)
  BY <1>6, <1>10, <1>11, <1>13, <1>15, <1>16 DEF Visits
<1>18. MayAdd(ns, g.node, nodes')
  BY <1>3, <1>10 DEF MayAdd
<1>19. Visits(stack, ret, stack', ret', nodes, n, Top.i)
  BY <1>2, <1>5, <1>17
<1> QED
  BY <1>2, <1>3, <1>4, <1>5, <1>8, <1>10, <1>18, <1>19, VisitStep

\* The value of `<<' is merged: it is the only place that the mapping has not done with.
LEMMA DecodeMergeOrigins ==
  ASSUME TypeInv, AliasInv, DecodeMerge
  PROVE  StepGood
<1>1. PICK c, v, p : c = nodes[Top.node].content /\ p = (CHOOSE i \in EntryOf(c, Merge) : TRUE)
                     /\ v = c[p].value
  OBVIOUS
<1>2. v = MergeValue(nodes[Top.node].content)
  BY <1>1 DEF MergeValue
<1>3. /\ stack # <<>> /\ Top.op = "mapping" /\ AtMerge /\ EntryOf(c, Merge) # {} /\ ret' = ret
  BY <1>1 DEF DecodeMerge, AtMerge, In
<1>4. PICK ns, g : /\ ns \in Known(v) /\ nodes' = ns /\ stack' = Append(stack, g)
                   /\ g.op = "merge" /\ g.node = v
  <2>1. PICK ns, g : /\ ns \in Known(v) /\ nodes' = ns /\ stack' = Append(stack, g)
                     /\ g = [op |-> "merge", node |-> v, i |-> 1, owner |-> Top.owner,
                             saved |-> Top.own, fields |-> mergedFields']
    BY <1>2 DEF DecodeMerge
  <2>2. g.op = "merge" /\ g.node = v
    BY <2>1
  <2> QED
    BY <2>1, <2>2
<1>5. v \in 0..Len(nodes)
  BY <1>1, <1>2, <1>3, MergeValueFacts
<1>6. p \in DOMAIN c /\ c[p].key = Merge
  BY <1>1, <1>3 DEF EntryOf
<1>7. PICK s, t, n, r : s = stack /\ t = stack' /\ n = Len(stack) /\ r = ret
  OBVIOUS
<1>8. s[n] = Top /\ FrameOK(Top, nodes, Len(merged)) /\ IsSequence(s) /\ n \in Nat
  BY <1>3, <1>7, InnermostFacts
<1>9. MakesCall(s, t, n, Top, g)
  BY <1>3, <1>4, <1>7, <1>8, AppendCallFacts DEF Top
<1>10. Top.node \in DOMAIN nodes /\ nodes[Top.node].kind = "mapping" /\ Top.node # 0
  BY <1>3, <1>8, TypeFacts DEF FrameOK
<1>11. t[n] = Top /\ t[n + 1] = g /\ Len(s) = n /\ n # Len(t)
  BY <1>8, <1>9 DEF MakesCall
<1>12. p \in Places(nodes, Top.node) /\ Child(nodes, Top.node, p) = v
  BY <1>1, <1>6, <1>10 DEF Places, PlacesIn, Child, ChildIn
<1>13. Waiting(t, n, r, nodes) = {}
  <2>1. \A i : ~ Waits(t, n, r, nodes, i)
    BY <1>3, <1>4, <1>11 DEF Waits
  <2> QED
    BY <2>1 DEF Waiting
<1>14. p \in Waiting(s, n, r, nodes)
  <2>1. Waits(s, n, r, nodes, p)
    BY <1>1, <1>3, <1>6, <1>8, <1>11 DEF Waits
  <2> QED
    BY <1>8, <1>12, <2>1 DEF Waiting
<1>15. Visits(s, r, t, r, nodes, n, p)
  BY <1>4, <1>8, <1>11, <1>12, <1>13, <1>14 DEF Visits
<1>16. MayAdd(ns, g.node, nodes')
  BY <1>4 DEF MayAdd
<1>17. Visits(stack, ret, stack', ret', nodes, n, p)
  BY <1>3, <1>7, <1>15
<1> QED
  BY <1>3, <1>4, <1>5, <1>7, <1>9, <1>16, <1>17, VisitStep

\* The next node to merge from is an item of the node of the merge, or that node.
LEMMA MergeSourceOrigins ==
  ASSUME TypeInv, AliasInv, MergeSource
  PROVE  StepGood
<1>1. PICK source : source = Sources(nodes, Top.node)[Top.i]
  OBVIOUS
<1>2. /\ stack # <<>> /\ Top.op = "merge" /\ Top.i <= Len(Sources(nodes, Top.node))
  BY DEF MergeSource, In
<1>3. PICK ns \in Known(source) :
        /\ nodes' = ns
        /\ \/ stack' = Append(Advance, Unmarshal(source, Top.owner)) /\ ret' = "none"
           \/ Fail(stack)
  BY <1>1 DEF MergeSource
<1>4. PICK s, t, n, r : s = stack /\ t = stack' /\ n = Len(stack) /\ r = ret
  OBVIOUS
<1>5. s[n] = Top /\ FrameOK(Top, nodes, Len(merged)) /\ IsSequence(s)
  BY <1>2, <1>4, InnermostFacts
<1>6. /\ Top.node \in 0..Len(nodes) /\ Top.i \in Nat \ {0} /\ Tree(nodes)
      /\ Sources(nodes, Top.node) \in Seq(0..Len(nodes))
  BY <1>2, <1>5, SourcesOK DEF FrameOK, TypeInv
<1>7. /\ Top.i \in DOMAIN Sources(nodes, Top.node) /\ source \in 0..Len(nodes)
      /\ DOMAIN Sources(nodes, Top.node) \subseteq Nat
  BY <1>1, <1>2, <1>6
<1>8. CASE Fail(stack)
  <2> SUFFICES ASSUME NEW F, Good(F, stack, ret, nodes)
               PROVE  \E G : Good(G, stack', ret', nodes')
    BY DEF StepGood, StaysGood
  <2>1. PICK G : Good(G, stack, ret, ns)
    BY <1>6, <1>7, KnownGood
  <2>2. StaysGood(stack, ret, ns, stack', ret', ns)
    BY <1>2, <1>8, FailGood DEF Fail
  <2> QED
    BY <1>3, <2>1, <2>2 DEF StaysGood
<1>9. CASE stack' = Append(Advance, Unmarshal(source, Top.owner)) /\ ret' = "none"
  <2>1. PICK f, g : f = [Top EXCEPT !.i = @ + 1] /\ g = Unmarshal(source, Top.owner)
    OBVIOUS
  <2>2. MakesCall(s, t, n, f, g)
    BY <1>2, <1>4, <1>5, <1>9, <2>1, ReplaceCallFacts DEF Advance, Replace
  <2>3. f.op = "merge" /\ f.node = Top.node /\ f.i = Top.i + 1 /\ g.node = source /\ g.op = "unmarshal"
    BY <1>2, <1>5, <2>1 DEF FrameOK, Unmarshal
  <2>4. t[n] = f /\ t[n + 1] = g
    BY <2>2 DEF MakesCall
  <2>5. CASE Kind(nodes, Top.node) = "sequence"
    <3>1. Top.node # 0 /\ nodes[Top.node].kind = "sequence" /\ Sources(nodes, Top.node) = nodes[Top.node].content
      BY <2>5 DEF Kind, Sources
    <3>2. /\ Places(nodes, Top.node) \subseteq Nat /\ Top.i \in Places(nodes, Top.node)
          /\ Child(nodes, Top.node, Top.i) = source
      BY <1>1, <1>7, <3>1 DEF Places, PlacesIn, Child, ChildIn
    <3>3. \A i \in Nat : /\ Waits(t, n, "none", nodes, i) <=> i >= Top.i + 1
                         /\ Waits(s, n, r, nodes, i) <=> i >= Top.i
      BY <1>2, <1>5, <2>3, <2>4, <2>5 DEF Waits
    <3>4. Waiting(t, n, "none", nodes) \subseteq Waiting(s, n, r, nodes)
      BY <1>5, <1>6, <2>3, <2>4, <3>2, <3>3 DEF Waiting
    <3>5. Top.i \in Waiting(s, n, r, nodes) /\ Top.i \notin Waiting(t, n, "none", nodes)
      BY <1>5, <1>6, <3>2, <3>3 DEF Waiting
    <3>6. Visits(s, r, t, "none", nodes, n, Top.i)
      BY <1>5, <2>3, <2>4, <3>2, <3>4, <3>5 DEF Visits
    <3>7. MayAdd(ns, g.node, nodes')
      BY <1>3 DEF MayAdd
    <3> QED
      BY <1>2, <1>3, <1>4, <1>7, <1>9, <2>2, <2>3, <3>6, <3>7, VisitStep
  <2>6. CASE Kind(nodes, Top.node) # "sequence" /\ n \notin Direct(stack)
    <3>1. MayAdd(ns, g.node, nodes')
      BY <1>3 DEF MayAdd
    <3> QED
      BY <1>2, <1>3, <1>4, <1>7, <2>2, <2>3, <2>6, <3>1, VisitStep
  <2>7. CASE Kind(nodes, Top.node) # "sequence" /\ n \in Direct(stack)
    <3> SUFFICES ASSUME NEW F, Good(F, stack, ret, nodes)
                 PROVE  \E G : Good(G, stack', ret', nodes')
      BY DEF StepGood, StaysGood
    <3>1. Sources(nodes, Top.node) = <<Top.node>>
      BY <2>7 DEF Sources
    <3>2. Top.i = 1 /\ source = Top.node
      BY <1>1, <1>2, <1>6, <3>1
    <3>3. Kind(nodes, Top.node) # "unknown"
      BY <1>4, <1>5, <2>7 DEF Good, Fresh
    <3>4. nodes' = nodes
      BY <1>3, <3>2, <3>3 DEF Known, Kind
    <3>5. Waiting(t, n, "none", nodes) = {}
      <4>1. \A i : ~ Waits(t, n, "none", nodes, i)
        BY <2>3, <2>4, <2>7, <3>2 DEF Waits
      <4> QED
        BY <4>1 DEF Waiting
    <3>6. Waiting(t, n + 1, "none", nodes) \subseteq Waiting(s, n, r, nodes)
      <4>1. \A i : Waits(s, n, r, nodes, i)
        BY <1>2, <1>5, <2>7, <3>2 DEF Waits
      <4> QED
        BY <1>5, <2>3, <2>4, <3>2, <4>1 DEF Waiting
    <3>7. f.op = s[n].op /\ f.node = s[n].node /\ g.node = s[n].node
      BY <1>2, <1>5, <2>3, <3>2
    <3>8. \E G : Good(G, t, "none", nodes)
      BY <1>4, <2>2, <3>5, <3>6, <3>7, HandGood
    <3> QED
      BY <1>4, <1>9, <3>4, <3>8
  <2> QED
    BY <2>5, <2>6, <2>7
<1> QED
  BY <1>3, <1>8, <1>9

\* An unmarshaler calls its function for the first time.
LEMMA UnmarshalerCallsOrigins ==
  ASSUME TypeInv, AliasInv, UnmarshalerCalls, "repeated" \notin departed'
  PROVE  StepGood
<1>1. /\ stack # <<>> /\ Top.op = "unmarshaler" /\ nodes' = nodes /\ ret' = ret /\ Top.calls = 0
      /\ stack' = Append(Append(Front(stack), [Top EXCEPT !.calls = @ + 1]), Unmarshal(Top.node, 0))
  BY DEF UnmarshalerCalls, In, Replace
<1>2. PICK s, t, n, r : s = stack /\ t = stack' /\ n = Len(stack) /\ r = ret
  OBVIOUS
<1>3. s[n] = Top /\ FrameOK(Top, nodes, Len(merged)) /\ IsSequence(s)
  BY <1>1, <1>2, InnermostFacts
<1>4. PICK f, g : f = [Top EXCEPT !.calls = @ + 1] /\ g = Unmarshal(Top.node, 0)
  OBVIOUS
<1>5. MakesCall(s, t, n, f, g)
  BY <1>1, <1>2, <1>3, <1>4, ReplaceCallFacts
<1>6. f.op = "unmarshaler" /\ f.node = Top.node /\ f.calls = 1 /\ g.node = Top.node /\ g.op = "unmarshal"
  BY <1>1, <1>3, <1>4 DEF FrameOK, Unmarshal
<1>7. t[n] = f /\ t[n + 1] = g
  BY <1>5 DEF MakesCall
<1>8. Waiting(t, n, r, nodes) = {}
  <2>1. \A i : ~ Waits(t, n, r, nodes, i)
    BY <1>6, <1>7 DEF Waits
  <2> QED
    BY <2>1 DEF Waiting
<1>9. Waiting(t, n + 1, r, nodes) \subseteq Waiting(s, n, r, nodes)
  <2>1. \A i : Waits(s, n, r, nodes, i)
    BY <1>1, <1>3 DEF Waits
  <2> QED
    BY <1>3, <1>6, <1>7, <2>1 DEF Waiting
<1>10. f.op = s[n].op /\ f.node = s[n].node /\ g.node = s[n].node
  BY <1>1, <1>3, <1>6
<1>11. ASSUME NEW F, Good(F, s, r, nodes)
       PROVE  \E G : Good(G, t, r, nodes)
  BY <1>5, <1>8, <1>9, <1>10, <1>11, HandGood
<1> QED
  BY <1>1, <1>2, <1>11 DEF StepGood, StaysGood

\* An unmarshaler returns.
LEMMA UnmarshalerReturnsOrigins ==
  ASSUME TypeInv, AliasInv, UnmarshalerReturns
  PROVE  StepGood
<1>1. /\ stack # <<>> /\ Top.op = "unmarshaler" /\ nodes' = nodes
      /\ Return("good") \/ Return("bad") \/ Fail(Front(stack))
  BY DEF UnmarshalerReturns, In
<1>2. CASE Return("good") \/ Return("bad")
  BY <1>1, <1>2, ReturnOrigins DEF Return
<1>3. CASE Fail(Front(stack))
  BY <1>1, <1>3, FailGood DEF StepGood, Fail
<1> QED
  BY <1>1, <1>2, <1>3

\* Before Decode is called the root has not been looked at.
RootUnknown == outcome = "none" => nodes = <<Unknown>>

\* A tree of one unknown node is as it should be.
LEMMA UnknownGood ==
  ASSUME NEW r
  PROVE  Good({}, <<>>, r, <<Unknown>>)
<1>1. PICK ns : ns = <<Unknown>>
  OBVIOUS
<1>2. DOMAIN ns = {1} /\ ns[1] = Unknown
  BY <1>1
<1>3. Places(ns, 1) = {} /\ ~ (ns[1].kind = "mapping")
  BY <1>2 DEF Places, PlacesIn, Unknown
<1>4. OnePlace(ns) /\ Origins(ns)
  BY <1>2, <1>3 DEF OnePlace, Origins, Single
<1>5. Direct(<<>>) = {}
  <2>1. DOMAIN <<>> = {}
    OBVIOUS
  <2> QED
    BY <2>1 DEF Direct
<1>6. Fresh({}, <<>>, r, ns)
  BY <1>5 DEF Fresh
<1> QED
  BY <1>1, <1>4, <1>6 DEF Good

\* Decode begins: the root is the first node that is decoded where it stands.
LEMMA StartOrigins ==
  ASSUME TypeInv, AliasInv, RootUnknown, Start
  PROVE  \E G : Good(G, stack', ret', nodes')
<1>1. PICK ns \in Known(1) : nodes' = AddOriginTo(ns, 1, 1)
  BY DEF Start
<1>2. nodes = <<Unknown>> /\ stack' = <<Unmarshal(1, 0)>>
  BY DEF Start, RootUnknown
<1>3. Tree(nodes) /\ Len(nodes) = 1 /\ 1 \in 0..Len(nodes) /\ 1 \in DOMAIN nodes
  BY <1>2 DEF TypeInv
<1>4. nodes[1].kind = "unknown"
  BY <1>2 DEF Unknown
<1>5. Good({}, <<>>, ret, nodes)
  BY <1>2, UnknownGood
<1>6. PICK G : /\ Good(G, <<>>, ret, ns)
               /\ \A a \in DOMAIN nodes : a \in G => a \in {}
               /\ 1 # 0 /\ nodes[1].kind = "unknown" => Untouched(ns[1], G)
  BY <1>3, <1>5, KnownGood
<1>7. Kind(ns, 1) # "unknown"
  BY <1>3, <1>5, KnownGood
<1>8. 1 \notin G /\ Untouched(ns[1], G)
  BY <1>3, <1>4, <1>6
<1>9. Tree(ns) /\ 1 \in DOMAIN ns
  <2>1. Tree(ns) /\ Len(nodes) <= Len(ns) /\ Len(ns) \in Nat
    BY <1>3, GrownTree
  <2> QED
    BY <1>3, <2>1, TreeFacts
<1>10. PICK t, q, ms : t = stack' /\ q = ret' /\ ms = nodes'
  OBVIOUS
<1>11. DOMAIN t = {1} /\ t[1].node = 1
  BY <1>2, <1>10 DEF Unmarshal
<1>12. Direct(t) \subseteq {1}
  BY <1>11 DEF Direct
<1>13. Fresh(G, t, q, ns)
  <2>1. G \subseteq DOMAIN ns /\ \A n \in G : Untouched(ns[n], G)
    BY <1>6 DEF Good, Fresh
  <2>2. \A i \in Waiting(t, 1, q, ns) : Child(ns, 1, i) \in G \cup {0}
    BY <1>8, <1>11 DEF Waiting, Places, Child, Untouched
  <2>3. \A l \in Direct(t) :
          /\ t[l].node \in {0} \cup (DOMAIN ns \ G) /\ Kind(ns, t[l].node) # "unknown"
          /\ \A i \in Waiting(t, l, q, ns) : Child(ns, t[l].node, i) \in G \cup {0}
    BY <1>7, <1>8, <1>9, <1>11, <1>12, <2>2
  <2> QED
    BY <1>12, <2>1, <2>3 DEF Fresh
<1>14. OnePlace(ns) /\ Origins(ns)
  BY <1>6 DEF Good
<1>15. CASE ms = ns
  BY <1>10, <1>13, <1>14, <1>15 DEF Good
<1>16. CASE ms # ns
  <2>1. Kind(ns, 1) = "mapping" /\ ms = AddOrigin(ns, 1)
    BY <1>1, <1>10, <1>16 DEF AddOriginTo
  <2>2. ns[1].kind = "mapping"
    BY <2>1 DEF Kind
  <2>3. Fresh(G, t, q, ms)
    <3>1. 1 \in DOMAIN ns \ G
      BY <1>8, <1>9
    <3>2. \A k, l \in Direct(t) : t[k].node = 1 /\ t[l].node = 1 => k = l
      BY <1>12
    <3> QED
      BY <1>9, <1>13, <2>1, <2>2, <3>1, <3>2, FreshOrigin
  <2>4. Origins(ms)
    <3>1. \A i \in DOMAIN ns[1].content : ns[1].content[i].key # Origin
      BY <1>8, <2>2 DEF Untouched, PlacesIn
    <3> QED
      BY <1>9, <1>14, <2>1, <2>2, <3>1, OriginSingle
  <2>5. OnePlace(ms)
    BY <1>9, <1>14, <2>1, <2>2, OriginOnePlace
  <2> QED
    BY <1>10, <2>3, <2>4, <2>5 DEF Good
<1> QED
  BY <1>15, <1>16

\* Decode returns.
LEMMA FinishOrigins ==
  ASSUME Finish
  PROVE  StepGood
<1>1. stack = <<>> /\ stack' = <<>> /\ nodes' = nodes
  BY DEF Finish
<1>2. PICK s, r, q, ns : s = stack /\ r = ret /\ q = ret' /\ ns = nodes
  OBVIOUS
<1>3. Leaves(s, s, 0, 0)
  BY <1>1, <1>2 DEF Leaves
<1>4. StaysGood(s, r, ns, s, q, ns)
  BY <1>3, LeaveGood
<1> QED
  BY <1>1, <1>2, <1>4 DEF StepGood

-----------------------------------------------------------------------------
(* The invariant                                                             *)

\* Unless an unmarshaler has called its function twice, or swallowed the failure of an
\* origin entry below an alias, there are such nodes.
OriginInv ==
  /\ RootUnknown
  /\ departed \cap {"repeated", "zeroed"} = {} => \E F : Good(F, stack, ret, nodes)

\* The decoder starts with a root that nobody has looked at.
LEMMA OriginInit ==
  ASSUME Init
  PROVE  OriginInv
BY UnknownGood DEF Init, OriginInv, RootUnknown

\* No step goes back to before Decode was called, or forgets a second call.
LEMMA StepHistory ==
  ASSUME AliasInv, Next
  PROVE  outcome' # "none" /\ departed \subseteq departed'
<1>1. ASSUME NEW frames, NEW left, Running, Panic(frames, left)
      PROVE  outcome' # "none" /\ departed \subseteq departed'
  BY <1>1 DEF Panic, Running
<1>2. CASE Start \/ Finish
  BY <1>2 DEF Start, Finish
<1>3. CASE DecodeWhole \/ Mismatch \/ RefuseDuplicate \/ SequenceReturns \/ AliasReturns \/ MappingReturns
  BY <1>3 DEF DecodeWhole, Mismatch, RefuseDuplicate, SequenceReturns, AliasReturns, MappingReturns,
              AtKind, AtCall, AtMerge, In, Running
<1>4. CASE Refuse \/ RefuseCycle \/ OriginFails
  BY <1>1, <1>4 DEF Refuse, RefuseCycle, OriginFails, Fail, AtKind, AtCall, AtEntry, In
<1>5. CASE DecodeAlias \/ DecodeSequence \/ DecodeMapping \/ CallUnmarshaler
  BY <1>5 DEF DecodeAlias, DecodeSequence, DecodeMapping, CallUnmarshaler, AtKind, AtCall, Running
<1>6. CASE \/ SequenceItem \/ MappingSkips \/ MappingIgnores \/ MappingOrigin \/ OriginMismatch
           \/ MappingStores
  BY <1>6 DEF SequenceItem, MappingSkips, MappingIgnores, MappingOrigin, OriginMismatch, MappingStores,
              AtEntry, In, Running
<1>7. CASE MappingValue \/ DecodeMerge \/ MergeReturns
  BY <1>7 DEF MappingValue, DecodeMerge, MergeReturns, AtEntry, AtMerge, In, Running
<1>8. CASE MergeSource
  <2>1. Running /\ (Fail(stack) \/ UNCHANGED <<outcome, departed>>)
    BY <1>8 DEF MergeSource, In
  <2> QED
    BY <1>1, <2>1 DEF Running, Fail
<1>9. CASE UnmarshalerCalls \/ FunctionReturns
  BY <1>9 DEF UnmarshalerCalls, FunctionReturns, In, Running
<1>10. CASE UnmarshalerReturns
  <2>1. Running /\ (Fail(Front(stack)) \/ UNCHANGED <<outcome, departed>>)
    BY <1>10 DEF UnmarshalerReturns, In
  <2> QED
    BY <1>1, <2>1 DEF Running, Fail
<1> QED
  BY <1>2, <1>3, <1>4, <1>5, <1>6, <1>7, <1>8, <1>9, <1>10 DEF Next

\* Each step keeps nodes that nobody has decoded where they stand.
LEMMA OriginStep ==
  ASSUME TypeInv, AliasInv, OriginInv, [Next]_vars
  PROVE  OriginInv'
<1>1. CASE UNCHANGED vars
  BY <1>1 DEF vars, OriginInv, RootUnknown
<1>2. CASE Next
  <2>1. outcome' # "none" /\ departed \subseteq departed'
    BY <1>2, StepHistory
  <2>2. RootUnknown'
    BY <2>1 DEF RootUnknown
  <2> SUFFICES ASSUME departed' \cap {"repeated", "zeroed"} = {}
               PROVE  \E G : Good(G, stack', ret', nodes')
    BY <2>2 DEF OriginInv
  <2>3. "zeroed" \notin departed /\ \E F : Good(F, stack, ret, nodes)
    BY <2>1 DEF OriginInv
  <2>4. ASSUME StepGood
        PROVE  \E G : Good(G, stack', ret', nodes')
    BY <2>3, <2>4 DEF StepGood, StaysGood
  <2>5. CASE Start
    BY <2>5, StartOrigins DEF OriginInv
  <2>6. CASE Finish
    BY <2>4, <2>6, FinishOrigins
  <2>7. CASE DecodeWhole \/ Mismatch \/ RefuseDuplicate \/ SequenceReturns \/ AliasReturns \/ MappingReturns
    <3>1. /\ stack # <<>> /\ stack' = Front(stack) /\ Top.op # "merge"
          /\ nodes' = nodes /\ ret' # "none"
      BY <2>7 DEF DecodeWhole, Mismatch, RefuseDuplicate, SequenceReturns, AliasReturns,
                  MappingReturns, AtKind, AtCall, AtMerge, In, Return
    <3> QED
      BY <2>4, <3>1, ReturnOrigins
  <2>8. CASE MergeReturns
    BY <2>4, <2>8, ReturnOrigins DEF MergeReturns, In
  <2>9. CASE Refuse \/ RefuseCycle \/ OriginFails
    <3>1. stack # <<>> /\ nodes' = nodes /\ \E left : Panic(stack, left)
      BY <2>9 DEF Refuse, RefuseCycle, OriginFails, Fail, AtKind, AtCall, AtEntry, In
    <3>2. StaysGood(stack, ret, nodes, stack', ret', nodes)
      BY <3>1, FailGood
    <3> QED
      BY <2>4, <3>1, <3>2 DEF StepGood
  <2>10. CASE DecodeAlias
    BY <2>4, <2>10, AliasOrigins
  <2>11. CASE DecodeSequence \/ DecodeMapping \/ CallUnmarshaler
    BY <2>4, <2>11, BeginOrigins
  <2>12. CASE SequenceItem
    BY <2>4, <2>12, SequenceItemOrigins
  <2>13. CASE MappingSkips \/ MappingIgnores \/ MappingOrigin \/ OriginMismatch \/ MappingStores
    BY <2>4, <2>13, EntryOrigins
  <2>14. CASE MappingValue
    BY <2>4, <2>14, MappingValueOrigins
  <2>15. CASE DecodeMerge
    BY <2>4, <2>15, DecodeMergeOrigins
  <2>16. CASE MergeSource
    BY <2>4, <2>16, MergeSourceOrigins
  <2>17. CASE UnmarshalerCalls
    BY <2>4, <2>17, UnmarshalerCallsOrigins
  <2>18. CASE FunctionReturns
    BY <2>4, <2>18, FunctionOrigins
  <2>19. CASE UnmarshalerReturns
    BY <2>4, <2>19, UnmarshalerReturnsOrigins
  <2> QED
    BY <1>2, <2>5, <2>6, <2>7, <2>8, <2>9, <2>10, <2>11, <2>12, <2>13, <2>14, <2>15, <2>16, <2>17,
       <2>18, <2>19 DEF Next
<1> QED
  BY <1>1, <1>2

\* A mapping gets one origin, however often it is decoded: by the calls that find it
\* where it stands, through any number of aliases, and as a source of merges.  Only
\* an unmarshaler that calls its function twice breaks it, or one that swallows the
\* failure of an origin entry below an alias.
THEOREM OneOrigin == Spec => []OriginOnce
<1>1. Init => TypeInv /\ AliasInv /\ OriginInv
  BY TypeInit, AliasInit, OriginInit
<1>2. TypeInv /\ AliasInv /\ OriginInv /\ [Next]_vars => (TypeInv /\ AliasInv /\ OriginInv)'
  BY TypeStep, NextStep, OriginStep
<1>3. OriginInv => OriginOnce
  <2> SUFFICES ASSUME OriginInv, departed \cap {"repeated", "zeroed"} = {},
                      NEW n \in DOMAIN nodes, nodes[n].kind = "mapping"
               PROVE  Cardinality(EntryOf(nodes[n].content, Origin)) <= 1
    BY DEF OriginOnce
  <2>1. PICK F : Good(F, stack, ret, nodes)
    BY DEF OriginInv
  <2>2. PICK S : S = EntryOf(nodes[n].content, Origin)
    OBVIOUS
  <2>3. \A i, j \in S : i = j
    BY <2>1, <2>2 DEF Good, Origins, Single
  <2>4. CASE S = {}
    BY <2>2, <2>4, FS_EmptySet
  <2>5. CASE S # {}
    <3>1. PICK i : S = {i}
      BY <2>3, <2>5
    <3>2. Cardinality(S) = 1
      BY <3>1, FS_Singleton
    <3> QED
      BY <2>2, <3>2
  <2> QED
    BY <2>4, <2>5
<1> QED
  BY <1>1, <1>2, <1>3, PTL DEF Spec
=============================================================================
