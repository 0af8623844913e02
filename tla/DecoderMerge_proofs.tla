------------------------- MODULE DecoderMerge_proofs -------------------------
(***************************************************************************)
(* Proofs about the merges of Decoder, for any keys, struct types and       *)
(* bounds: a map or struct that has been filled holds every key from the    *)
(* first mapping of its lineage that gives it.                              *)
(*                                                                         *)
(* The calls of a merge are read against a book of the mappings that have   *)
(* been merged, with their lineages, and a context for each call: the map   *)
(* that it fills, the mappings filled in before it, and the set that says   *)
(* which keys they gave.  The invariant says that the target and the sets   *)
(* hold what the context says, for every call on the stack.                 *)
(***************************************************************************)
EXTENDS Decoder_proofs

-----------------------------------------------------------------------------
(* Sequences one behind the other                                            *)

\* FlattenSeq adds one sequence after the other.
LEMMA FlattenSteps ==
  ASSUME NEW S, NEW q \in Seq(S), NEW k \in Nat \ {0}, Len(q) = k
  PROVE  \E c : FlattenSeq(q) = c[k] /\ c[1] = q[1] /\ \A i \in 2..k : c[i] = c[i - 1] \o q[i]
<1> DEFINE step(i, x) == IF i = 1 THEN q[i] ELSE x \o q[i]
           Is(g, m) == g = [i \in 1..m |-> step(i, g[i - 1])]
           T == {m \in Nat : m <= k => \E g : Is(g, m)}
<1>1. Len(q) = k
  OBVIOUS
<1>2. FlattenSeq(q) = (CHOOSE g : Is(g, k))[k]
  BY <1>1 DEF FlattenSeq
<1>3. \A i, x : step(i, x) = IF i = 1 THEN q[i] ELSE x \o q[i]
  OBVIOUS
<1> HIDE DEF step
<1>4. 0 \in T
  <2>1. Is([i \in 1..0 |-> 0], 0)
    OBVIOUS
  <2> QED
    BY <2>1
<1>5. ASSUME NEW m \in Nat, m \in T PROVE m + 1 \in T
  <2> SUFFICES ASSUME m + 1 <= k PROVE \E g : Is(g, m + 1)
    OBVIOUS
  <2>1. PICK g : Is(g, m)
    BY <1>5
  <2> DEFINE h == [i \in 1..m + 1 |-> step(i, g[i - 1])]
  <2>2. \A i \in 1..m : h[i] = g[i]
    <3> TAKE i \in 1..m
    <3>1. g[i] = step(i, g[i - 1])
      BY <2>1
    <3>2. i \in 1..m + 1
      OBVIOUS
    <3>3. h[i] = step(i, g[i - 1])
      BY <3>2
    <3> QED
      BY <3>1, <3>3
  <2>3. \A i \in 1..m + 1 : h[i] = step(i, h[i - 1])
    <3> TAKE i \in 1..m + 1
    <3>1. h[i] = step(i, g[i - 1])
      OBVIOUS
    <3>2. CASE i = 1
      BY <1>3, <3>1, <3>2
    <3>3. CASE i # 1
      <4>1. i - 1 \in 1..m
        BY <3>3
      <4>2. h[i - 1] = g[i - 1]
        BY <2>2, <4>1
      <4> HIDE DEF h
      <4> QED
        BY <3>1, <4>2
    <3> QED
      BY <3>2, <3>3
  <2>4. h = [i \in 1..m + 1 |-> h[i]]
    OBVIOUS
  <2>5. Is(h, m + 1)
    <3> HIDE DEF h
    <3> QED
      BY <2>3, <2>4
  <2> QED
    BY <2>5
<1> HIDE DEF Is
<1>6. \E g : Is(g, k)
  <2>1. Nat \subseteq T
    BY <1>4, <1>5, Induction
  <2> QED
    BY <2>1
<1>7. PICK c : c = CHOOSE g : Is(g, k)
  OBVIOUS
<1>8. Is(c, k)
  BY <1>6, <1>7
<1>9. \A i \in 1..k : c[i] = step(i, c[i - 1])
  BY <1>8 DEF Is
<1>10. c[1] = q[1]
  <2>1. 1 \in 1..k
    OBVIOUS
  <2> QED
    BY <1>3, <1>9, <2>1
<1>11. \A i \in 2..k : c[i] = c[i - 1] \o q[i]
  <2> TAKE i \in 2..k
  <2>1. i \in 1..k /\ i # 1
    OBVIOUS
  <2> QED
    BY <1>3, <1>9, <2>1
<1> QED
  BY <1>2, <1>7, <1>10, <1>11

\* Nothing added.
LEMMA FlattenNone ==
  ASSUME NEW S, NEW q \in Seq(S), Len(q) = 0
  PROVE  FlattenSeq(q) = <<>>
<1>1. q = <<>>
  OBVIOUS
<1> QED
  BY <1>1 DEF FlattenSeq

\* One sequence more.
LEMMA FlattenMore ==
  ASSUME NEW S, NEW f \in Seq(Seq(S)), NEW g \in Seq(Seq(S)),
         NEW k \in Nat, Len(f) = k, Len(g) = k + 1, \A i \in 1..k : g[i] = f[i]
  PROVE  FlattenSeq(g) = FlattenSeq(f) \o g[k + 1]
<1>1. PICK c : FlattenSeq(g) = c[k + 1] /\ c[1] = g[1] /\ \A i \in 2..k + 1 : c[i] = c[i - 1] \o g[i]
  <2>1. PICK n : n = k + 1
    OBVIOUS
  <2>2. n \in Nat \ {0} /\ Len(g) = n
    BY <2>1
  <2>3. \E c : FlattenSeq(g) = c[n] /\ c[1] = g[1] /\ \A i \in 2..n : c[i] = c[i - 1] \o g[i]
    BY <2>2, FlattenSteps
  <2> QED
    BY <2>1, <2>3
<1>2. CASE k = 0
  <2>1. FlattenSeq(f) = <<>>
    BY <1>2, FlattenNone
  <2>2. g[1] \in Seq(S)
    BY <1>2
  <2>3. <<>> \o g[1] = g[1]
    BY <2>2, ConcatEmptySeq
  <2>4. FlattenSeq(g) = g[1]
    BY <1>1, <1>2
  <2> QED
    BY <1>2, <2>1, <2>3, <2>4
<1>3. CASE k # 0
  <2>1. PICK d : FlattenSeq(f) = d[k] /\ d[1] = f[1] /\ \A i \in 2..k : d[i] = d[i - 1] \o f[i]
    <3>1. k \in Nat \ {0}
      BY <1>3
    <3> QED
      BY <3>1, FlattenSteps
  <2> DEFINE T == {m \in Nat : m + 1 <= k => c[m + 1] = d[m + 1]}
  <2>2. 0 \in T
    <3>1. 1 \in 1..k
      BY <1>3
    <3>2. c[1] = d[1]
      BY <1>1, <2>1, <3>1
    <3> QED
      BY <3>2
  <2>3. ASSUME NEW m \in Nat, m \in T PROVE m + 1 \in T
    <3>0. PICK p : p = m + 1
      OBVIOUS
    <3> SUFFICES ASSUME p + 1 <= k PROVE c[p + 1] = d[p + 1]
      BY <3>0
    <3>1. c[m + 1] = d[m + 1]
      <4>1. m + 1 <= k
        BY <3>0
      <4> QED
        BY <2>3, <4>1
    <3>2. PICK i : i = p + 1
      OBVIOUS
    <3>3. i \in 2..k /\ i \in 2..k + 1 /\ i \in 1..k /\ i - 1 = m + 1
      BY <3>0, <3>2
    <3>4. c[i] = c[m + 1] \o g[i] /\ d[i] = d[m + 1] \o f[i] /\ g[i] = f[i]
      BY <1>1, <2>1, <3>3
    <3> QED
      BY <3>1, <3>2, <3>4
  <2>4. Nat \subseteq T
    <3> HIDE DEF T
    <3> QED
      BY <2>2, <2>3, Induction
  <2>5. c[k] = d[k]
    <3>1. PICK j : j = k - 1
      OBVIOUS
    <3>2. j \in Nat /\ j + 1 = k
      BY <1>3, <3>1
    <3>3. j \in T
      <4> HIDE DEF T
      <4> QED
        BY <2>4, <3>2
    <3>4. c[j + 1] = d[j + 1]
      BY <3>2, <3>3
    <3> QED
      BY <3>2, <3>4
  <2>6. k + 1 \in 2..k + 1 /\ (k + 1) - 1 = k
    BY <1>3
  <2>7. c[k + 1] = c[k] \o g[k + 1]
    BY <1>1, <2>6
  <2> QED
    BY <1>1, <2>1, <2>5, <2>7
<1> QED
  BY <1>2, <1>3

\* The elements are those of the sequences.
LEMMA FlattenType ==
  ASSUME NEW S, NEW q \in Seq(Seq(S))
  PROVE  FlattenSeq(q) \in Seq(S)
<1>1. PICK k : k = Len(q)
  OBVIOUS
<1>2. k \in Nat
  BY <1>1
<1>3. CASE k = 0
  <2>1. FlattenSeq(q) = <<>>
    BY <1>1, <1>3, FlattenNone
  <2> QED
    BY <2>1, EmptySeq
<1>4. CASE k # 0
  <2>1. k \in Nat \ {0} /\ Len(q) = k
    BY <1>1, <1>2, <1>4
  <2>2. PICK c : FlattenSeq(q) = c[k] /\ c[1] = q[1] /\ \A i \in 2..k : c[i] = c[i - 1] \o q[i]
    BY <2>1, FlattenSteps
  <2>3. \A i \in 1..k : q[i] \in Seq(S)
    BY <2>1
  <2> DEFINE T == {m \in Nat : m + 1 <= k => c[m + 1] \in Seq(S)}
  <2>4. 0 \in T
    <3>1. 1 \in 1..k
      BY <2>1
    <3>2. c[1] \in Seq(S)
      BY <2>2, <2>3, <3>1
    <3> QED
      BY <3>2
  <2>5. ASSUME NEW m \in Nat, m \in T PROVE m + 1 \in T
    <3> SUFFICES ASSUME m + 2 <= k PROVE c[m + 2] \in Seq(S)
      OBVIOUS
    <3>1. c[m + 1] \in Seq(S)
      BY <2>1, <2>5
    <3>2. PICK i : i = m + 2
      OBVIOUS
    <3>3. i \in 2..k /\ i \in 1..k /\ i - 1 = m + 1
      BY <2>1, <3>2
    <3>4. c[i] = c[m + 1] \o q[i] /\ q[i] \in Seq(S)
      BY <2>2, <2>3, <3>3
    <3>5. c[m + 1] \o q[i] \in Seq(S)
      BY <3>1, <3>4, ConcatProperties
    <3> QED
      BY <3>2, <3>4, <3>5
  <2>6. Nat \subseteq T
    <3> HIDE DEF T
    <3> QED
      BY <2>4, <2>5, Induction
  <2>7. c[k] \in Seq(S)
    <3>1. PICK j : j = k - 1
      OBVIOUS
    <3>2. j \in Nat /\ j + 1 = k
      BY <2>1, <3>1
    <3>3. j \in T
      <4> HIDE DEF T
      <4> QED
        BY <2>6, <3>2
    <3>4. c[j + 1] \in Seq(S)
      BY <3>2, <3>3
    <3> QED
      BY <3>2, <3>4
  <2> QED
    BY <2>2, <2>7
<1> QED
  BY <1>3, <1>4

-----------------------------------------------------------------------------
(* What a mapping merges                                                     *)

\* The mappings of the tree, and the keys of one, without Merge and Origin.
Mappings(ns) == {n \in DOMAIN ns : ns[n].kind = "mapping"}
OwnKeys(ns, n) == KeysOf(ns[n].content) \cap Keys

\* The nodes that the mapping n merges, and the mapping that is meant by each.
Froms(ns, n) ==
  IF EntryOf(ns[n].content, Merge) = {} THEN <<>> ELSE Sources(ns, MergeValue(ns[n].content))
Target(ns, v) == IF Kind(ns, v) = "alias" THEN ns[v].target ELSE v
Source(ns, n, i) == Target(ns, Froms(ns, n)[i])

\* The decoder has looked at the first j of them.
Looked(ns, n, j) ==
  /\ EntryOf(ns[n].content, Merge) # {} => Kind(ns, MergeValue(ns[n].content)) # "unknown"
  /\ 1..j \subseteq DOMAIN Froms(ns, n)
  /\ \A i \in 1..j : Mergeable(ns, Froms(ns, n)[i])

\* No key stands in a mapping twice, but perhaps that of the origin.
Unique(ns) ==
  \A n \in Mappings(ns) : \A i, j \in DOMAIN ns[n].content :
    ns[n].content[i].key = ns[n].content[j].key /\ ns[n].content[i].key # Origin => i = j

\* A node that is known keeps its content, but for an origin behind the other entries.
KeepsContent(node, new) ==
  /\ new.kind = node.kind
  /\ node.kind = "alias" => new.target = node.target
  /\ node.kind = "sequence" => new.content = node.content
  /\ node.kind = "mapping" =>
       /\ \A i \in DOMAIN node.content : i \in DOMAIN new.content /\ new.content[i] = node.content[i]
       /\ \A i \in DOMAIN new.content \ DOMAIN node.content : new.content[i].key = Origin
Extends(ns, ms) ==
  /\ Tree(ns) /\ Tree(ms) /\ DOMAIN ns \subseteq DOMAIN ms
  /\ \A a \in DOMAIN ns : ns[a].kind # "unknown" => KeepsContent(ns[a], ms[a])

\* The keys are no others than Merge and Origin.
LEMMA KeyFacts == Merge # Origin /\ Merge \notin Keys /\ Origin \notin Keys
BY DecoderConstants DEF Merge, Origin

\* The content of a mapping is a sequence of entries.
LEMMA MappingContent ==
  ASSUME NEW ns, Tree(ns), NEW n \in Mappings(ns)
  PROVE  /\ ns[n].content \in Seq(Entries(Len(ns))) /\ Len(ns[n].content) \in Nat
         /\ DOMAIN ns[n].content = 1..Len(ns[n].content)
         /\ \A i \in DOMAIN ns[n].content :
              /\ ns[n].content[i].key \in Keys \cup {Merge, Origin}
              /\ ns[n].content[i].value \in 0..Len(ns)
         /\ n # 0 /\ n \in DOMAIN ns /\ DOMAIN ns = 1..Len(ns) /\ Len(ns) \in Nat
<1>0. n \in DOMAIN ns /\ ns[n].kind = "mapping"
  BY DEF Mappings
<1>1. ns[n] \in [kind : {"mapping"}, content : Seq(Entries(Len(ns)))]
  BY <1>0, TreeFacts, NodeFacts
<1>2. PICK c : c = ns[n].content
  OBVIOUS
<1>3. c \in Seq(Entries(Len(ns)))
  BY <1>1, <1>2
<1>4. Len(c) \in Nat /\ DOMAIN c = 1..Len(c)
  BY <1>3
<1>5. \A i \in DOMAIN c : c[i] \in Entries(Len(ns))
  BY <1>3, <1>4
<1>6. \A i \in DOMAIN c : c[i].key \in Keys \cup {Merge, Origin} /\ c[i].value \in 0..Len(ns)
  BY <1>5 DEF Entries
<1>7. n # 0 /\ DOMAIN ns = 1..Len(ns) /\ Len(ns) \in Nat
  BY <1>0, TreeFacts DEF Numbers
<1> QED
  BY <1>0, <1>2, <1>3, <1>4, <1>6, <1>7

\* What is merged are nodes of the tree.
LEMMA FromsOK ==
  ASSUME NEW ns, Tree(ns), NEW n \in Mappings(ns)
  PROVE  /\ Froms(ns, n) \in Seq(0..Len(ns))
         /\ EntryOf(ns[n].content, Merge) # {} => MergeValue(ns[n].content) \in 0..Len(ns)
<1>1. CASE EntryOf(ns[n].content, Merge) = {}
  BY <1>1 DEF Froms
<1>2. CASE EntryOf(ns[n].content, Merge) # {}
  <2>1. PICK i : i = CHOOSE j \in EntryOf(ns[n].content, Merge) : TRUE
    OBVIOUS
  <2>2. i \in DOMAIN ns[n].content
    BY <1>2, <2>1 DEF EntryOf
  <2>3. MergeValue(ns[n].content) = ns[n].content[i].value
    BY <2>1 DEF MergeValue
  <2>4. MergeValue(ns[n].content) \in 0..Len(ns)
    BY <2>2, <2>3, MappingContent
  <2> QED
    BY <1>2, <2>4, SourcesOK DEF Froms
<1> QED
  BY <1>1, <1>2

\* What can be merged means a mapping of the tree.
LEMMA MergeableFacts ==
  ASSUME NEW ns, Tree(ns), NEW v \in 0..Len(ns), Mergeable(ns, v)
  PROVE  /\ v \in DOMAIN ns /\ v # 0 /\ Kind(ns, v) = ns[v].kind /\ ns[v].kind \in {"mapping", "alias"}
         /\ Target(ns, v) \in Mappings(ns)
<1>1. v # 0
  BY DEF Mergeable, Kind
<1>2. v \in DOMAIN ns /\ ns[v] \in Nodes(Len(ns)) /\ Len(ns) \in Nat /\ DOMAIN ns = 1..Len(ns)
  BY <1>1, TreeFacts
<1>3. Kind(ns, v) = ns[v].kind
  BY <1>1 DEF Kind
<1>4. CASE ns[v].kind = "mapping"
  BY <1>1, <1>2, <1>3, <1>4 DEF Target, Mappings
<1>5. CASE ns[v].kind = "alias" /\ Kind(ns, ns[v].target) = "mapping"
  <2>1. ns[v].target \in 0..Len(ns)
    BY <1>2, <1>5, NodeFacts
  <2>2. ns[v].target # 0
    BY <1>5 DEF Kind
  <2>3. ns[v].target \in Mappings(ns)
    BY <1>2, <1>5, <2>1, <2>2 DEF Kind, Mappings
  <2> QED
    BY <1>1, <1>2, <1>3, <1>5, <2>3 DEF Target
<1> QED
  BY <1>3, <1>4, <1>5 DEF Mergeable

\* Sources that have been looked at are mappings.
LEMMA SourceOK ==
  ASSUME NEW ns, Tree(ns), NEW n \in Mappings(ns), NEW j, Looked(ns, n, j), NEW i \in 1..j
  PROVE  /\ i \in DOMAIN Froms(ns, n) /\ Froms(ns, n)[i] \in DOMAIN ns
         /\ Mergeable(ns, Froms(ns, n)[i]) /\ Source(ns, n, i) \in Mappings(ns)
<1>1. i \in DOMAIN Froms(ns, n) /\ Mergeable(ns, Froms(ns, n)[i])
  BY DEF Looked
<1>2. Froms(ns, n) \in Seq(0..Len(ns))
  BY FromsOK
<1>3. Froms(ns, n)[i] \in 0..Len(ns)
  BY <1>1, <1>2
<1> QED
  BY <1>1, <1>3, MergeableFacts DEF Source

-----------------------------------------------------------------------------
(* The tree grows                                                            *)

\* A mapping keeps its keys and what it merges.
LEMMA MappingKept ==
  ASSUME NEW ns, NEW ms, Extends(ns, ms), NEW n \in Mappings(ns)
  PROVE  /\ n \in Mappings(ms) /\ OwnKeys(ms, n) = OwnKeys(ns, n)
         /\ \A i \in DOMAIN ns[n].content : i \in DOMAIN ms[n].content /\ ms[n].content[i] = ns[n].content[i]
         /\ EntryOf(ms[n].content, Merge) = EntryOf(ns[n].content, Merge)
         /\ EntryOf(ns[n].content, Merge) # {} => MergeValue(ms[n].content) = MergeValue(ns[n].content)
<1>1. KeepsContent(ns[n], ms[n]) /\ n \in DOMAIN ms /\ ns[n].kind = "mapping"
  BY DEF Extends, Mappings
<1>2. PICK x, y : x = ns[n].content /\ y = ms[n].content
  OBVIOUS
<1>3. /\ \A i \in DOMAIN x : i \in DOMAIN y /\ y[i] = x[i]
      /\ \A i \in DOMAIN y \ DOMAIN x : y[i].key = Origin
  BY <1>1, <1>2 DEF KeepsContent
<1>4. n \in Mappings(ms)
  BY <1>1 DEF KeepsContent, Mappings
<1>5. KeysOf(y) \cap Keys = KeysOf(x) \cap Keys
  <2>1. \A k \in KeysOf(y) \cap Keys : k \in KeysOf(x)
    <3> TAKE k \in KeysOf(y) \cap Keys
    <3>1. PICK i \in DOMAIN y : k = y[i].key
      BY DEF KeysOf
    <3>2. i \in DOMAIN x
      BY <1>3, <3>1, KeyFacts
    <3> QED
      BY <1>3, <3>1, <3>2 DEF KeysOf
  <2>2. \A k \in KeysOf(x) : k \in KeysOf(y)
    <3> TAKE k \in KeysOf(x)
    <3>1. PICK i \in DOMAIN x : k = x[i].key
      BY DEF KeysOf
    <3> QED
      BY <1>3, <3>1 DEF KeysOf
  <2> QED
    BY <2>1, <2>2
<1>6. EntryOf(y, Merge) = EntryOf(x, Merge)
  <2>1. \A i \in EntryOf(y, Merge) : i \in EntryOf(x, Merge)
    BY <1>3, KeyFacts DEF EntryOf
  <2>2. \A i \in EntryOf(x, Merge) : i \in EntryOf(y, Merge)
    BY <1>3 DEF EntryOf
  <2> QED
    BY <2>1, <2>2
<1>7. ASSUME EntryOf(x, Merge) # {}
      PROVE  MergeValue(y) = MergeValue(x)
  <2>1. PICK i : i = CHOOSE j \in EntryOf(x, Merge) : TRUE
    OBVIOUS
  <2>2. i \in DOMAIN x
    BY <1>7, <2>1 DEF EntryOf
  <2>3. MergeValue(x) = x[i].value /\ MergeValue(y) = y[i].value
    BY <1>6, <2>1 DEF MergeValue
  <2> QED
    BY <1>3, <2>2, <2>3
<1> QED
  BY <1>2, <1>3, <1>4, <1>5, <1>6, <1>7 DEF OwnKeys

\* A node that is known stays of its kind.
LEMMA KindKept ==
  ASSUME NEW ns, NEW ms, Extends(ns, ms), NEW v \in 0..Len(ns), Kind(ns, v) # "unknown"
  PROVE  /\ Kind(ms, v) = Kind(ns, v) /\ Sources(ms, v) = Sources(ns, v)
         /\ Kind(ns, v) = "alias" => ms[v].target = ns[v].target
<1>1. CASE v = 0
  BY <1>1 DEF Kind, Sources
<1>2. CASE v # 0
  <2>1. v \in DOMAIN ns /\ Kind(ns, v) = ns[v].kind /\ Kind(ms, v) = ms[v].kind
    BY <1>2, TreeFacts DEF Kind, Extends
  <2>2. KeepsContent(ns[v], ms[v])
    BY <2>1 DEF Extends
  <2>3. ms[v].kind = ns[v].kind
    BY <2>2 DEF KeepsContent
  <2>4. ns[v].kind = "alias" => ms[v].target = ns[v].target
    BY <2>2 DEF KeepsContent
  <2>5. ns[v].kind = "sequence" => ms[v].content = ns[v].content
    BY <2>2 DEF KeepsContent
  <2> QED
    BY <2>1, <2>3, <2>4, <2>5 DEF Sources
<1> QED
  BY <1>1, <1>2

\* What can be merged can still be, and means the same mapping.
LEMMA MergeableKept ==
  ASSUME NEW ns, NEW ms, Extends(ns, ms), NEW v \in 0..Len(ns), Mergeable(ns, v)
  PROVE  Mergeable(ms, v) /\ Target(ms, v) = Target(ns, v)
<1>0. Tree(ns)
  BY DEF Extends
<1>1. Kind(ns, v) \in {"mapping", "alias"} /\ Target(ns, v) \in Mappings(ns)
  BY <1>0, MergeableFacts
<1>2. Kind(ns, v) # "unknown"
  BY <1>1
<1>3. Kind(ms, v) = Kind(ns, v) /\ (Kind(ns, v) = "alias" => ms[v].target = ns[v].target)
  BY <1>2, KindKept
<1>4. Target(ms, v) = Target(ns, v)
  BY <1>3 DEF Target
<1>5. Target(ns, v) \in Mappings(ms) /\ Target(ns, v) # 0
  BY <1>0, <1>1, MappingKept, MappingContent
<1>6. Kind(ns, v) = "alias" => ms[v].target # 0 /\ ms[ms[v].target].kind = "mapping"
  BY <1>3, <1>5 DEF Target, Mappings
<1> QED
  BY <1>1, <1>3, <1>4, <1>6 DEF Mergeable, Kind

\* What has been looked at stays as it is.
LEMMA LookedKept ==
  ASSUME NEW ns, NEW ms, Extends(ns, ms), NEW n \in Mappings(ns), NEW j, Looked(ns, n, j)
  PROVE  /\ Looked(ms, n, j) /\ Froms(ms, n) = Froms(ns, n)
         /\ \A i \in 1..j : Source(ms, n, i) = Source(ns, n, i)
<1>0. Tree(ns)
  BY DEF Extends
<1>1. /\ EntryOf(ms[n].content, Merge) = EntryOf(ns[n].content, Merge)
      /\ EntryOf(ns[n].content, Merge) # {} => MergeValue(ms[n].content) = MergeValue(ns[n].content)
  BY MappingKept
<1>2. ASSUME EntryOf(ns[n].content, Merge) # {}
      PROVE  /\ Kind(ms, MergeValue(ns[n].content)) = Kind(ns, MergeValue(ns[n].content))
             /\ Sources(ms, MergeValue(ns[n].content)) = Sources(ns, MergeValue(ns[n].content))
  <2>1. MergeValue(ns[n].content) \in 0..Len(ns) /\ Kind(ns, MergeValue(ns[n].content)) # "unknown"
    BY <1>0, <1>2, FromsOK DEF Looked
  <2> QED
    BY <2>1, KindKept
<1>3. Froms(ms, n) = Froms(ns, n)
  BY <1>1, <1>2 DEF Froms
<1>4. \A i \in 1..j : /\ i \in DOMAIN Froms(ns, n) /\ Mergeable(ms, Froms(ns, n)[i])
                      /\ Target(ms, Froms(ns, n)[i]) = Target(ns, Froms(ns, n)[i])
  <2> TAKE i \in 1..j
  <2>1. /\ i \in DOMAIN Froms(ns, n) /\ Froms(ns, n)[i] \in DOMAIN ns
        /\ Mergeable(ns, Froms(ns, n)[i])
    BY <1>0, SourceOK
  <2>2. Froms(ns, n)[i] \in 0..Len(ns)
    BY <1>0, <2>1, TreeFacts
  <2> QED
    BY <2>1, <2>2, MergeableKept
<1>5. EntryOf(ms[n].content, Merge) # {} => Kind(ms, MergeValue(ms[n].content)) # "unknown"
  BY <1>1, <1>2 DEF Looked
<1>6. 1..j \subseteq DOMAIN Froms(ms, n)
  BY <1>3 DEF Looked
<1>7. \A i \in 1..j : Mergeable(ms, Froms(ms, n)[i]) /\ Source(ms, n, i) = Source(ns, n, i)
  BY <1>3, <1>4 DEF Source
<1>8. Looked(ms, n, j)
  BY <1>5, <1>6, <1>7 DEF Looked
<1> QED
  BY <1>3, <1>7, <1>8

\* A node gets its origin, or none.
LEMMA OriginExtends ==
  ASSUME NEW ns, Tree(ns), Unique(ns), NEW n \in 0..Len(ns), NEW ms, MayAdd(ns, n, ms)
  PROVE  ms = ns \/ (Extends(ns, ms) /\ Unique(ms))
<1> SUFFICES ASSUME ms # ns PROVE Extends(ns, ms) /\ Unique(ms)
  OBVIOUS
<1>1. Kind(ns, n) = "mapping" /\ ms = AddOrigin(ns, n)
  BY DEF AddOriginTo, MayAdd
<1>2. n \in DOMAIN ns /\ ns[n].kind = "mapping" /\ n \in Mappings(ns)
  BY <1>1, TreeFacts DEF Kind, Mappings
<1>3. PICK x, y : x = ns[n].content /\ y = ms[n].content
  OBVIOUS
<1>4. /\ DOMAIN ms = DOMAIN ns /\ ms[n].kind = "mapping"
      /\ \A a \in DOMAIN ns \ {n} : ms[a] = ns[a]
      /\ Len(x) \in Nat /\ DOMAIN x = 1..Len(x) /\ DOMAIN y = 1..Len(x) + 1
      /\ \A i \in 1..Len(x) : y[i] = x[i]
      /\ y[Len(x) + 1] = [key |-> Origin, value |-> 0]
  BY <1>1, <1>2, <1>3, OriginNode
<1>5. Tree(ms)
  <2>1. \E atLeast : ms = AddOriginTo(ns, n, atLeast)
    BY DEF MayAdd
  <2> QED
    BY <2>1, AddOriginOK DEF Grows
<1>6. \A i \in DOMAIN y \ DOMAIN x : y[i].key = Origin
  <2> TAKE i \in DOMAIN y \ DOMAIN x
  <2>1. i = Len(x) + 1
    BY <1>4
  <2> QED
    BY <1>4, <2>1
<1>7. KeepsContent(ns[n], ms[n])
  BY <1>2, <1>3, <1>4, <1>6 DEF KeepsContent
<1>8. \A a \in DOMAIN ns \ {n} : KeepsContent(ns[a], ms[a])
  BY <1>4 DEF KeepsContent
<1>9. Unique(ms)
  <2> SUFFICES ASSUME NEW a \in DOMAIN ms, ms[a].kind = "mapping",
                      NEW i \in DOMAIN ms[a].content, NEW j \in DOMAIN ms[a].content,
                      ms[a].content[i].key = ms[a].content[j].key, ms[a].content[i].key # Origin
               PROVE  i = j
    BY DEF Unique, Mappings
  <2>1. CASE a # n
    BY <1>4, <2>1 DEF Unique, Mappings
  <2>2. CASE a = n
    <3>1. i \in DOMAIN x /\ j \in DOMAIN x
      BY <1>3, <1>6, <2>2
    <3>2. x[i].key = x[j].key /\ x[i].key # Origin
      BY <1>3, <1>4, <2>2, <3>1
    <3> QED
      BY <1>2, <1>3, <3>1, <3>2 DEF Unique
  <2> QED
    BY <2>1, <2>2
<1> QED
  BY <1>4, <1>5, <1>7, <1>8, <1>9 DEF Extends

\* The slots are for different keys.
LEMMA SlotsDiffer ==
  \A i, j \in 1..Len(Slots) : Slots[i] = Slots[j] => i = j
<1>1. Cardinality(Keys) \in Nat /\ ExistsBijection(1..Cardinality(Keys), Keys)
  BY Bounds, FS_CardinalityType
<1>2. PICK n, q : n = Cardinality(Keys) /\ q = SetToSeq(Keys)
  OBVIOUS
<1>3. q \in [1..n -> Keys] /\ IsInjective(q)
  <2>1. PICK f \in Bijection(1..Cardinality(Keys), Keys) : TRUE
    BY <1>1 DEF ExistsBijection
  <2>2. f \in [1..Cardinality(Keys) -> Keys] /\ IsInjective(f)
    BY <2>1 DEF Bijection, Injection, IsInjective
  <2> QED
    BY <1>2, <2>2 DEF SetToSeq
<1>4. q \in Seq(Keys) /\ Len(q) = n /\ n \in Nat
  BY <1>1, <1>2, <1>3, SeqDef
<1>5. PICK S : S = Keys \cup {Merge}
  OBVIOUS
<1>6. q \in Seq(S) /\ <<Merge>> \in Seq(S)
  BY <1>4, <1>5, SeqMonotonic
<1>7. /\ Len(Slots) = n + 1
      /\ \A i \in 1..n + 1 : Slots[i] = IF i <= n THEN q[i] ELSE <<Merge>>[i - n]
  <2>1. Len(<<Merge>>) = 1
    OBVIOUS
  <2>2. Slots = q \o <<Merge>>
    BY <1>2 DEF Slots
  <2> QED
    BY <1>4, <1>6, <2>1, <2>2, ConcatProperties
<1>8. \A i \in 1..n : Slots[i] = q[i] /\ q[i] \in Keys
  BY <1>3, <1>4, <1>7
<1>9. Slots[n + 1] = Merge
  BY <1>4, <1>7
<1>10. \A i, j \in 1..n : q[i] = q[j] => i = j
  BY <1>3 DEF IsInjective
<1> SUFFICES ASSUME NEW i \in 1..Len(Slots), NEW j \in 1..Len(Slots), Slots[i] = Slots[j]
             PROVE  i = j
  OBVIOUS
<1>11. (i \in 1..n \/ i = n + 1) /\ (j \in 1..n \/ j = n + 1)
  BY <1>4, <1>7
<1> QED
  BY <1>8, <1>9, <1>10, <1>11, KeyFacts

\* A mapping that is learned has no key twice.
LEMMA MappingUnique ==
  ASSUME NEW p, DOMAIN p = DOMAIN Slots, Len(nodes) \in Nat
  PROVE  \A a, b \in DOMAIN MappingOf(p).content :
           MappingOf(p).content[a].key = MappingOf(p).content[b].key => a = b
<1> DEFINE k == Len(nodes) + News(p)
           e(i) == [key |-> Slots[i], value |-> Value(p, i)]
           From(i, x) ==
             /\ \A a \in DOMAIN x : \E j \in 1..i : x[a] = e(j)
             /\ \A a, b \in DOMAIN x : x[a].key = x[b].key => a = b
           S == Seq(Entries(k))
           T == {q \in (0..Len(Slots)) \X S : From(q[1], q[2])}
<1>1. /\ Len(Slots) \in Nat /\ DOMAIN p = 1..Len(Slots)
      /\ \A i \in 1..Len(Slots) : Slots[i] \in Keys \cup {Merge}
  BY SlotsOK
<1>2. \A i \in 1..Len(Slots) : e(i) \in Entries(k) /\ e(i).key = Slots[i]
  <2>1. \A i \in 1..Len(Slots) : Value(p, i) \in 0..k
    BY <1>1, NewsOK
  <2> QED
    BY <1>1, <2>1 DEF Entries
<1> HIDE DEF e
<1>3. <<0, <<>>>> \in T
  <2>1. \A X : <<>> \in Seq(X)
    OBVIOUS
  <2>2. <<>> \in S /\ 0 \in 0..Len(Slots)
    BY <1>1, <2>1
  <2>3. From(0, <<>>)
    OBVIOUS
  <2> HIDE DEF S, From
  <2> QED
    BY <2>2, <2>3
<1>4. ASSUME NEW i \in 1..Len(Slots), NEW x, <<i - 1, x>> \in T
      PROVE  <<i, x>> \in T /\ <<i, Append(x, e(i))>> \in T
  <2>1. x \in S /\ i \in 0..Len(Slots) /\ From(i - 1, x)
    BY <1>1, <1>4
  <2>2. \A a \in DOMAIN x : \E j \in 1..i - 1 : x[a] = e(j)
    BY <2>1
  <2>3. From(i, x)
    <3>1. \A j \in 1..i - 1 : j \in 1..i
      BY <1>1
    <3> QED
      BY <2>1, <3>1
  <2>4. PICK y : y = Append(x, e(i))
    OBVIOUS
  <2>5. /\ DOMAIN x = 1..Len(x) /\ Len(x) \in Nat /\ DOMAIN y = 1..Len(x) + 1
        /\ \A a \in 1..Len(x) : y[a] = x[a]
        /\ y[Len(x) + 1] = e(i) /\ y \in S
    <3>1. x \in S /\ e(i) \in Entries(k)
      BY <1>2, <2>1
    <3>2. IsSequence(x)
      BY <3>1 DEF IsSequence
    <3> HIDE DEF k
    <3>3. y \in S
      BY <2>4, <3>1, AppendProperties
    <3> QED
      BY <2>4, <3>2, <3>3, AppendFacts
  <2>6. \A a \in 1..Len(x) : y[a].key # y[Len(x) + 1].key
    <3> TAKE a \in 1..Len(x)
    <3>1. PICK j \in 1..i - 1 : x[a] = e(j)
      BY <2>2, <2>5
    <3>2. j \in 1..Len(Slots) /\ j # i
      BY <1>1
    <3>3. Slots[j] # Slots[i]
      BY <3>2, SlotsDiffer
    <3> QED
      BY <1>2, <2>5, <3>1, <3>2, <3>3
  <2>7. From(i, y)
    <3>1. \A a \in DOMAIN y : \E j \in 1..i : y[a] = e(j)
      <4> TAKE a \in DOMAIN y
      <4>1. CASE a \in 1..Len(x)
        BY <2>3, <2>5, <4>1
      <4>2. CASE a = Len(x) + 1
        BY <2>5, <4>2
      <4> QED
        BY <2>5, <4>1, <4>2
    <3>2. \A a, b \in DOMAIN x : x[a].key = x[b].key => a = b
      BY <2>1
    <3>3. \A a, b \in DOMAIN y : y[a].key = y[b].key => a = b
      <4> SUFFICES ASSUME NEW a \in DOMAIN y, NEW b \in DOMAIN y, y[a].key = y[b].key
                   PROVE  a = b
        OBVIOUS
      <4>1. CASE a \in 1..Len(x) /\ b \in 1..Len(x)
        BY <2>5, <3>2, <4>1
      <4>2. CASE a = Len(x) + 1 \/ b = Len(x) + 1
        BY <2>5, <2>6, <4>2
      <4> QED
        BY <2>5, <4>1, <4>2
    <3> QED
      BY <3>1, <3>3
  <2> HIDE DEF From, S
  <2> QED
    BY <2>1, <2>3, <2>4, <2>5, <2>7
<1>5. <<Len(Slots), MappingOf(p).content>> \in T
  <2> HIDE DEF T
  <2>1. ASSUME NEW i \in 1..Len(Slots), NEW x, <<i - 1, x>> \in T
        PROVE  <<i, x>> \in T /\ <<i, Append(x, [key |-> Slots[i], value |-> Value(p, i)])>> \in T
    <3>1. e(i) = [key |-> Slots[i], value |-> Value(p, i)]
      BY DEF e
    <3>2. <<i, x>> \in T /\ <<i, Append(x, e(i))>> \in T
      BY <1>4, <2>1
    <3> QED
      BY <3>1, <3>2
  <2> QED
    BY <1>3, <2>1, MappingInduction
<1> QED
  BY <1>5

\* A node is looked at, for the first time or not.
LEMMA KnownExtends ==
  ASSUME Tree(nodes), Len(nodes) + unmarshalers <= MaxNodes, unmarshalers \in Nat, Unique(nodes),
         NEW n \in 0..Len(nodes), NEW ns \in Known(n)
  PROVE  /\ ns = nodes \/ Extends(nodes, ns)
         /\ Unique(ns) /\ Tree(ns) /\ Kind(ns, n) # "unknown" /\ n \in 0..Len(ns)
<1>1. Tree(ns) /\ Len(nodes) <= Len(ns)
  BY KnownOK DEF Grows
<1>2. Len(nodes) \in Nat /\ Len(ns) \in Nat /\ DOMAIN nodes = 1..Len(nodes) /\ n \in 0..Len(ns)
  BY <1>1, TreeFacts
<1>3. CASE n = 0 \/ nodes[n].kind # "unknown"
  <2>1. ns = nodes
    BY <1>3 DEF Known
  <2> QED
    BY <1>1, <1>2, <1>3, <2>1 DEF Kind
<1>4. CASE n # 0 /\ nodes[n].kind = "unknown"
  <2>1. n \in DOMAIN nodes /\ ns \in Learned(n)
    BY <1>2, <1>4 DEF Known
  <2>2. PICK new \in Nat : Learns(nodes, ns, n, new)
    BY <2>1, LearnedShape
  <2>3. /\ DOMAIN ns = 1..Len(nodes) + new
        /\ \A a \in DOMAIN nodes \ {n} : ns[a] = nodes[a]
        /\ \A a \in Len(nodes) + 1..Len(nodes) + new : ns[a] = Unknown
        /\ ns[n].kind # "unknown"
    BY <2>2 DEF Learns, Leaf
  <2>4. DOMAIN nodes \subseteq DOMAIN ns
    BY <1>2, <2>3
  <2>5. ASSUME NEW a \in DOMAIN nodes, nodes[a].kind # "unknown"
        PROVE  KeepsContent(nodes[a], ns[a])
    <3>1. a # n /\ ns[a] = nodes[a]
      BY <1>4, <2>3, <2>5
    <3> QED
      BY <3>1 DEF KeepsContent
  <2>6. Extends(nodes, ns)
    BY <1>1, <2>4, <2>5 DEF Extends
  <2>7. ASSUME ns[n].kind = "mapping", NEW i \in DOMAIN ns[n].content, NEW j \in DOMAIN ns[n].content,
               ns[n].content[i].key = ns[n].content[j].key
        PROVE  i = j
    <3>1. CASE \E p \in [DOMAIN Slots -> {-1, 0, 1}] :
                 ns = [nodes EXCEPT ![n] = MappingOf(p)] \o [k \in 1..News(p) |-> Unknown]
      <4>1. PICK p \in [DOMAIN Slots -> {-1, 0, 1}] :
                 ns = [nodes EXCEPT ![n] = MappingOf(p)] \o [k \in 1..News(p) |-> Unknown]
        BY <3>1
      <4>2. DOMAIN p = DOMAIN Slots /\ DOMAIN p = 1..Len(Slots) /\ Len(Slots) \in Nat
        BY SlotsOK
      <4>3. News(p) \in Nat
        BY <1>2, <4>2, NewsOK
      <4>4. Leaf(MappingOf(p), Len(nodes) + 1..Len(nodes) + News(p))
        BY <1>2, <4>2, MappingLeaf
      <4>5. ns[n] = MappingOf(p)
        BY <2>1, <4>1, <4>3, <4>4, PutLearns
      <4> QED
        BY <1>2, <2>7, <4>2, <4>5, MappingUnique
    <3>2. CASE \E l \in 0..MaxItems : \E p \in [1..l -> {0, 1}] :
                 ns = [nodes EXCEPT ![n] = SequenceOf(p)] \o [k \in 1..News(p) |-> Unknown]
      <4>1. PICK l \in 0..MaxItems : \E p \in [1..l -> {0, 1}] :
                 ns = [nodes EXCEPT ![n] = SequenceOf(p)] \o [k \in 1..News(p) |-> Unknown]
        BY <3>2
      <4>2. PICK p \in [1..l -> {0, 1}] :
                 ns = [nodes EXCEPT ![n] = SequenceOf(p)] \o [k \in 1..News(p) |-> Unknown]
        BY <4>1
      <4>3. l \in Nat /\ DOMAIN p = 1..l
        BY Bounds
      <4>4. /\ News(p) \in Nat
            /\ \A k \in 1..l : Value(p, k) \in {0} \cup (Len(nodes) + 1..Len(nodes) + News(p))
            /\ \A h, k \in 1..l : Value(p, h) # 0 /\ Value(p, h) = Value(p, k) => h = k
        BY <1>2, <4>3, ValueFacts
      <4>5. PICK node, New : node = SequenceOf(p) /\ New = Len(nodes) + 1..Len(nodes) + News(p)
        OBVIOUS
      <4>6. /\ node.kind = "sequence" /\ DOMAIN node.content = 1..l
            /\ \A k \in 1..l : node.content[k] = Value(p, k)
        BY <4>3, <4>5 DEF SequenceOf
      <4>7. \A k \in 1..l : Value(p, k) \in New \cup {0}
        BY <4>4, <4>5
      <4>8. Leaf(node, New)
        <5>1. /\ PlacesIn(node) = 1..l
              /\ \A k \in 1..l : ChildIn(node, k) = Value(p, k)
          BY <4>6 DEF PlacesIn, ChildIn
        <5> QED
          BY <4>4, <4>6, <4>7, <5>1 DEF Leaf, Untouched
      <4>9. ns[n] = node
        BY <2>1, <4>2, <4>4, <4>5, <4>8, PutLearns
      <4> QED
        BY <2>7, <4>6, <4>9
    <3>3. CASE \E t \in {0} \cup DOMAIN nodes :
                 ns = [nodes EXCEPT ![n] = [kind |-> "alias", target |-> t]] \o [k \in 1..0 |-> Unknown]
      <4>1. PICK t \in {0} \cup DOMAIN nodes :
                 ns = [nodes EXCEPT ![n] = [kind |-> "alias", target |-> t]] \o [k \in 1..0 |-> Unknown]
        BY <3>3
      <4>2. PICK node : node = [kind |-> "alias", target |-> t]
        OBVIOUS
      <4>3. Leaf(node, Len(nodes) + 1..Len(nodes) + 0)
        BY <4>2 DEF Leaf, Untouched, PlacesIn
      <4>4. ns[n] = node
        BY <2>1, <4>1, <4>2, <4>3, PutLearns
      <4> QED
        BY <2>7, <4>2, <4>4
    <3> QED
      BY <2>1, <3>1, <3>2, <3>3 DEF Learned
  <2>8. Unique(ns)
    <3> SUFFICES ASSUME NEW a \in DOMAIN ns, ns[a].kind = "mapping",
                        NEW i \in DOMAIN ns[a].content, NEW j \in DOMAIN ns[a].content,
                        ns[a].content[i].key = ns[a].content[j].key, ns[a].content[i].key # Origin
                 PROVE  i = j
      BY DEF Unique, Mappings
    <3>1. CASE a = n
      BY <2>7, <3>1
    <3>2. CASE a # n /\ a \in DOMAIN nodes
      BY <2>3, <3>2 DEF Unique, Mappings
    <3>3. CASE a \notin DOMAIN nodes
      <4>1. ns[a] = Unknown
        BY <1>2, <2>3, <3>3
      <4> QED
        BY <4>1 DEF Unknown
    <3> QED
      BY <3>1, <3>2, <3>3
  <2>9. Kind(ns, n) # "unknown"
    BY <1>4, <2>3 DEF Kind
  <2> QED
    BY <1>1, <1>2, <2>6, <2>8, <2>9
<1> QED
  BY <1>3, <1>4

-----------------------------------------------------------------------------
(* The lines of merges                                                       *)

\* b: for mappings whose merges have all been looked at, the mappings whose keys they
\* get, in the order in which these are merged, and a rank higher than those of the
\* mappings merged.
LinesOf(b, ns, n, j) == [i \in 1..j |-> b[Source(ns, n, i)].line]
Lines(b, ns, n, j) == FlattenSeq(LinesOf(b, ns, n, j))
Settled(b, ns) ==
  /\ DOMAIN b \subseteq Mappings(ns)
  /\ \A n \in DOMAIN b : LET k == Len(Froms(ns, n)) IN
       /\ Looked(ns, n, k)
       /\ b[n].rank \in Nat /\ b[n].rank < Cardinality(DOMAIN b)
       /\ \A i \in 1..k : Source(ns, n, i) \in DOMAIN b /\ b[Source(ns, n, i)].rank < b[n].rank
       /\ b[n].line = <<n>> \o Lines(b, ns, n, k)
       /\ b[n].line \in Seq(Mappings(ns))

\* Lines of mappings of the book are sequences of mappings.
LEMMA LinesType ==
  ASSUME NEW b, NEW ns, Settled(b, ns), NEW n, NEW j \in Nat, \A i \in 1..j : Source(ns, n, i) \in DOMAIN b
  PROVE  /\ LinesOf(b, ns, n, j) \in Seq(Seq(Mappings(ns))) /\ Len(LinesOf(b, ns, n, j)) = j
         /\ Lines(b, ns, n, j) \in Seq(Mappings(ns))
<1>1. \A i \in 1..j : b[Source(ns, n, i)].line \in Seq(Mappings(ns))
  BY DEF Settled
<1>2. PICK q : q = LinesOf(b, ns, n, j)
  OBVIOUS
<1>3. q \in [1..j -> Seq(Mappings(ns))]
  BY <1>1, <1>2 DEF LinesOf
<1>4. q \in Seq(Seq(Mappings(ns))) /\ Len(q) = j
  BY <1>3, SeqDef
<1> QED
  BY <1>2, <1>4, FlattenType DEF Lines

\* Nothing has been merged.
LEMMA LinesNone ==
  ASSUME NEW b, NEW ns, NEW n
  PROVE  Lines(b, ns, n, 0) = <<>>
<1>1. PICK q : q = LinesOf(b, ns, n, 0)
  OBVIOUS
<1>2. q \in [1..0 -> {}]
  BY <1>1 DEF LinesOf
<1>3. q \in Seq({}) /\ Len(q) = 0
  BY <1>2, SeqDef
<1> QED
  BY <1>1, <1>3, FlattenNone DEF Lines

\* One mapping more has been merged.
LEMMA LinesMore ==
  ASSUME NEW b, NEW ns, Settled(b, ns), NEW n, NEW j \in Nat,
         \A i \in 1..j + 1 : Source(ns, n, i) \in DOMAIN b
  PROVE  Lines(b, ns, n, j + 1) = Lines(b, ns, n, j) \o b[Source(ns, n, j + 1)].line
<1>1. PICK k : k = j + 1
  OBVIOUS
<1>2. PICK f, g : f = LinesOf(b, ns, n, j) /\ g = LinesOf(b, ns, n, k)
  OBVIOUS
<1>3. k \in Nat /\ (\A i \in 1..j : i \in 1..k) /\ k \in 1..k
  BY <1>1
<1>4. f \in Seq(Seq(Mappings(ns))) /\ Len(f) = j
  BY <1>1, <1>2, <1>3, LinesType
<1>5. g \in Seq(Seq(Mappings(ns))) /\ Len(g) = k
  BY <1>1, <1>2, <1>3, LinesType
<1>6. (\A i \in 1..j : g[i] = f[i]) /\ g[k] = b[Source(ns, n, k)].line
  BY <1>2, <1>3 DEF LinesOf
<1>7. FlattenSeq(g) = FlattenSeq(f) \o g[k]
  BY <1>1, <1>4, <1>5, <1>6, FlattenMore
<1> QED
  BY <1>1, <1>2, <1>6, <1>7 DEF Lines

\* A book and its lines stay as the tree grows.
LEMMA LinesKept ==
  ASSUME NEW b, NEW ns, NEW ms, NEW c, NEW n, NEW j,
         \A i \in 1..j : Source(ms, n, i) = Source(ns, n, i),
         \A i \in 1..j : c[Source(ns, n, i)].line = b[Source(ns, n, i)].line
  PROVE  Lines(c, ms, n, j) = Lines(b, ns, n, j)
<1>1. LinesOf(c, ms, n, j) = LinesOf(b, ns, n, j)
  BY DEF LinesOf
<1> QED
  BY <1>1 DEF Lines

\* The book is still one of a tree that has grown.
LEMMA SettledKept ==
  ASSUME NEW b, NEW ns, NEW ms, Extends(ns, ms), Settled(b, ns)
  PROVE  Settled(b, ms)
<1>1. Mappings(ns) \subseteq Mappings(ms)
  BY MappingKept
<1>2. DOMAIN b \subseteq Mappings(ms)
  BY <1>1 DEF Settled
<1>3. ASSUME NEW n \in DOMAIN b, NEW k, k = Len(Froms(ms, n))
      PROVE  /\ Looked(ms, n, k)
             /\ b[n].rank \in Nat /\ b[n].rank < Cardinality(DOMAIN b)
             /\ \A i \in 1..k : Source(ms, n, i) \in DOMAIN b /\ b[Source(ms, n, i)].rank < b[n].rank
             /\ b[n].line = <<n>> \o Lines(b, ms, n, k)
             /\ b[n].line \in Seq(Mappings(ms))
  <2>1. n \in Mappings(ns) /\ Looked(ns, n, Len(Froms(ns, n)))
    BY DEF Settled
  <2>2. /\ Froms(ms, n) = Froms(ns, n) /\ Looked(ms, n, Len(Froms(ns, n)))
        /\ \A i \in 1..Len(Froms(ns, n)) : Source(ms, n, i) = Source(ns, n, i)
    BY <2>1, LookedKept
  <2>3. k = Len(Froms(ns, n))
    BY <1>3, <2>2
  <2>4. /\ b[n].rank \in Nat /\ b[n].rank < Cardinality(DOMAIN b)
        /\ \A i \in 1..k : Source(ns, n, i) \in DOMAIN b /\ b[Source(ns, n, i)].rank < b[n].rank
        /\ b[n].line = <<n>> \o Lines(b, ns, n, k)
        /\ b[n].line \in Seq(Mappings(ns))
    BY <2>3 DEF Settled
  <2>5. Lines(b, ms, n, k) = Lines(b, ns, n, k)
    BY <2>2, <2>3, LinesKept
  <2>6. b[n].line \in Seq(Mappings(ms))
    BY <1>1, <2>4, SeqMonotonic
  <2> QED
    BY <2>2, <2>3, <2>4, <2>5, <2>6
<1> QED
  BY <1>2, <1>3 DEF Settled

\* A book with more mappings.
More(b, c) == DOMAIN b \subseteq DOMAIN c /\ \A n \in DOMAIN b : c[n].line = b[n].line

\* A mapping whose merges are all in the book comes into it.
LEMMA BookMore ==
  ASSUME NEW ns, Tree(ns), NEW b, Settled(b, ns), NEW n \in Mappings(ns),
         NEW k, k = Len(Froms(ns, n)), Looked(ns, n, k), \A i \in 1..k : Source(ns, n, i) \in DOMAIN b
  PROVE  \E c : Settled(c, ns) /\ More(b, c) /\ n \in DOMAIN c /\ c[n].line = <<n>> \o Lines(b, ns, n, k)
<1>1. CASE n \in DOMAIN b
  <2>1. b[n].line = <<n>> \o Lines(b, ns, n, k)
    BY <1>1 DEF Settled
  <2> QED
    BY <1>1, <2>1 DEF More
<1>2. CASE n \notin DOMAIN b
  <2>1. k \in Nat
    <3>1. Froms(ns, n) \in Seq(0..Len(ns))
      BY FromsOK
    <3> QED
      BY <3>1
  <2>2. PICK r, line : r = Cardinality(DOMAIN b) /\ line = <<n>> \o Lines(b, ns, n, k)
    OBVIOUS
  <2>3. IsFiniteSet(DOMAIN b) /\ r \in Nat
    <3>1. DOMAIN b \subseteq 1..Len(ns) /\ Len(ns) \in Nat
      BY TreeFacts DEF Settled, Mappings
    <3>2. IsFiniteSet(1..Len(ns))
      BY <3>1, FS_Interval
    <3>3. IsFiniteSet(DOMAIN b)
      BY <3>1, <3>2, FS_Subset
    <3> QED
      BY <2>2, <3>3, FS_CardinalityType
  <2>4. line \in Seq(Mappings(ns))
    <3>1. Lines(b, ns, n, k) \in Seq(Mappings(ns))
      BY <2>1, LinesType
    <3>2. <<n>> \in Seq(Mappings(ns))
      OBVIOUS
    <3> QED
      BY <2>2, <3>1, <3>2, ConcatProperties
  <2>5. PICK c : c = [m \in DOMAIN b \cup {n} |-> IF m = n THEN [rank |-> r, line |-> line] ELSE b[m]]
    OBVIOUS
  <2>6. /\ DOMAIN c = DOMAIN b \cup {n} /\ c[n].rank = r /\ c[n].line = line
        /\ \A m \in DOMAIN b : c[m] = b[m]
    BY <1>2, <2>5
  <2>7. Cardinality(DOMAIN c) = r + 1
    BY <1>2, <2>2, <2>3, <2>6, FS_AddElement
  <2>8. ASSUME NEW m \in DOMAIN c, NEW h, h = Len(Froms(ns, m))
        PROVE  /\ Looked(ns, m, h)
               /\ c[m].rank \in Nat /\ c[m].rank < Cardinality(DOMAIN c)
               /\ \A i \in 1..h : Source(ns, m, i) \in DOMAIN c /\ c[Source(ns, m, i)].rank < c[m].rank
               /\ c[m].line = <<m>> \o Lines(c, ns, m, h)
               /\ c[m].line \in Seq(Mappings(ns))
    <3>1. CASE m = n
      <4>1. \A i \in 1..h : Source(ns, m, i) \in DOMAIN b
        BY <2>8, <3>1
      <4>2. \A i \in 1..h : /\ Source(ns, m, i) \in DOMAIN c
                            /\ c[Source(ns, m, i)] = b[Source(ns, m, i)]
                            /\ b[Source(ns, m, i)].rank < r
        BY <2>2, <2>6, <4>1 DEF Settled
      <4>3. Lines(c, ns, m, h) = Lines(b, ns, m, h)
        BY <4>2, LinesKept
      <4>4. c[m].rank \in Nat /\ c[m].rank < Cardinality(DOMAIN c)
        BY <2>3, <2>6, <2>7, <3>1
      <4>5. \A i \in 1..h : c[Source(ns, m, i)].rank < c[m].rank
        BY <2>6, <3>1, <4>2
      <4>6. c[m].line = <<m>> \o Lines(c, ns, m, h)
        BY <2>2, <2>6, <2>8, <3>1, <4>3
      <4>7. Looked(ns, m, h) /\ c[m].line \in Seq(Mappings(ns))
        BY <2>4, <2>6, <2>8, <3>1
      <4> QED
        BY <4>2, <4>4, <4>5, <4>6, <4>7
    <3>2. CASE m # n
      <4>1. m \in DOMAIN b /\ c[m] = b[m]
        BY <2>6, <3>2
      <4>2. /\ Looked(ns, m, h)
            /\ b[m].rank \in Nat /\ b[m].rank < r
            /\ \A i \in 1..h : Source(ns, m, i) \in DOMAIN b /\ b[Source(ns, m, i)].rank < b[m].rank
            /\ b[m].line = <<m>> \o Lines(b, ns, m, h)
            /\ b[m].line \in Seq(Mappings(ns))
        BY <2>2, <2>8, <4>1 DEF Settled
      <4>3. \A i \in 1..h : Source(ns, m, i) \in DOMAIN c /\ c[Source(ns, m, i)] = b[Source(ns, m, i)]
        BY <2>6, <4>2
      <4>4. Lines(c, ns, m, h) = Lines(b, ns, m, h)
        BY <4>3, LinesKept
      <4>5. c[m].rank \in Nat /\ c[m].rank < Cardinality(DOMAIN c)
        BY <2>3, <2>7, <4>1, <4>2
      <4>6. \A i \in 1..h : c[Source(ns, m, i)].rank < c[m].rank
        BY <4>1, <4>2, <4>3
      <4> QED
        BY <4>1, <4>2, <4>3, <4>4, <4>5, <4>6
    <3> QED
      BY <3>1, <3>2
  <2>9. DOMAIN c \subseteq Mappings(ns)
    BY <2>6 DEF Settled
  <2>10. Settled(c, ns)
    BY <2>8, <2>9 DEF Settled
  <2>11. More(b, c) /\ n \in DOMAIN c
    BY <2>6 DEF More
  <2> QED
    BY <2>2, <2>6, <2>10, <2>11
<1> QED
  BY <1>1, <1>2

-----------------------------------------------------------------------------
(* Lineages                                                                  *)

\* The lineages of each depth are made from those of the depth before.
LEMMA LineageSteps ==
  ASSUME NEW d \in 0..MaxNodes, NEW n \in DOMAIN nodes
  PROVE  /\ d = 0 => Lineage[d][n] = <<n>>
         /\ d # 0 => Lineage[d][n] =
              <<n>> \o FlattenSeq([i \in DOMAIN SourcesOf(n) |-> Lineage[d - 1][MappingAt(SourcesOf(n)[i])]])
<1> DEFINE step(e, x) ==
             [m \in DOMAIN nodes |->
                IF e = 0 THEN <<m>>
                ELSE <<m>> \o FlattenSeq([i \in DOMAIN SourcesOf(m) |-> x[MappingAt(SourcesOf(m)[i])]])]
           Is(g, m) == g = [e \in 0..m |-> step(e, g[e - 1])]
           T == {m \in Nat : \E g : Is(g, m)}
<1>1. Lineage = CHOOSE g : Is(g, MaxNodes)
  BY DEF Lineage
<1>2. \A e, x : step(e, x)[n] =
         IF e = 0 THEN <<n>>
         ELSE <<n>> \o FlattenSeq([i \in DOMAIN SourcesOf(n) |-> x[MappingAt(SourcesOf(n)[i])]])
  OBVIOUS
<1>3. \A x, y : step(0, x) = step(0, y)
  OBVIOUS
<1> HIDE DEF step
<1>4. 0 \in T
  <2> DEFINE h == [e \in 0..0 |-> step(e, 0)]
  <2>1. h[0] = step(0, 0)
    OBVIOUS
  <2>2. \A e \in 0..0 : step(e, 0) = step(e, h[e - 1])
    BY <1>3
  <2>3. h = [e \in 0..0 |-> step(e, h[e - 1])]
    BY <2>2
  <2> QED
    BY <2>3
<1>5. ASSUME NEW m \in Nat, m \in T PROVE m + 1 \in T
  <2>1. PICK g : Is(g, m)
    BY <1>5
  <2> DEFINE h == [e \in 0..m + 1 |-> step(e, g[e - 1])]
  <2>2. \A e \in 0..m : h[e] = g[e]
    <3> TAKE e \in 0..m
    <3>1. g[e] = step(e, g[e - 1])
      BY <2>1
    <3>2. e \in 0..m + 1
      OBVIOUS
    <3>3. h[e] = step(e, g[e - 1])
      BY <3>2
    <3> QED
      BY <3>1, <3>3
  <2>3. \A e \in 0..m + 1 : h[e] = step(e, h[e - 1])
    <3> TAKE e \in 0..m + 1
    <3>1. h[e] = step(e, g[e - 1])
      OBVIOUS
    <3>2. CASE e = 0
      BY <1>3, <3>1, <3>2
    <3>3. CASE e # 0
      <4>1. e - 1 \in 0..m
        BY <3>3
      <4>2. h[e - 1] = g[e - 1]
        BY <2>2, <4>1
      <4> HIDE DEF h
      <4> QED
        BY <3>1, <4>2
    <3> QED
      BY <3>2, <3>3
  <2>4. h = [e \in 0..m + 1 |-> h[e]]
    OBVIOUS
  <2>5. PICK x : x = h
    OBVIOUS
  <2>6. Is(x, m + 1)
    <3> HIDE DEF h
    <3> QED
      BY <2>3, <2>4, <2>5
  <2>7. m + 1 \in Nat
    OBVIOUS
  <2> HIDE DEF h, Is
  <2> QED
    BY <2>6, <2>7
<1> HIDE DEF Is
<1>6. \E g : Is(g, MaxNodes)
  <2>1. Nat \subseteq T
    BY <1>4, <1>5, Induction
  <2>2. MaxNodes \in T
    BY <2>1, Bounds
  <2> QED
    BY <2>2
<1>7. PICK g : g = Lineage
  OBVIOUS
<1>8. Is(g, MaxNodes)
  BY <1>1, <1>6, <1>7
<1>9. g[d] = step(d, g[d - 1])
  BY <1>8 DEF Is
<1>10. g[d][n] = IF d = 0 THEN <<n>>
         ELSE <<n>> \o FlattenSeq([i \in DOMAIN SourcesOf(n) |-> g[d - 1][MappingAt(SourcesOf(n)[i])]])
  BY <1>2, <1>9
<1> QED
  BY <1>7, <1>10

\* The nodes that a mapping merges, as the lineage has them.
LEMMA SourcesFroms ==
  ASSUME Tree(nodes), NEW b, Settled(b, nodes), NEW n \in Mappings(nodes),
         NEW k, k = Len(Froms(nodes, n)), Looked(nodes, n, k),
         NEW x, \A i \in 1..k : x[Source(nodes, n, i)] = b[Source(nodes, n, i)].line
  PROVE  /\ k \in Nat
         /\ [i \in DOMAIN SourcesOf(n) |-> x[MappingAt(SourcesOf(n)[i])]] = LinesOf(b, nodes, n, k)
<1>1. SourcesOf(n) = Froms(nodes, n)
  BY DEF SourcesOf, Froms
<1>2. k \in Nat /\ DOMAIN Froms(nodes, n) = 1..k
  <2>1. Froms(nodes, n) \in Seq(0..Len(nodes))
    BY FromsOK
  <2> QED
    BY <2>1
<1>3. \A i \in 1..k : MappingAt(Froms(nodes, n)[i]) = Source(nodes, n, i)
  <2> TAKE i \in 1..k
  <2>1. Froms(nodes, n)[i] \in DOMAIN nodes
    BY SourceOK
  <2>2. Froms(nodes, n)[i] # 0
    BY <2>1, TreeFacts
  <2> QED
    BY <2>2 DEF MappingAt, Source, Target, Kind
<1>4. \A i \in 1..k : x[MappingAt(SourcesOf(n)[i])] = b[Source(nodes, n, i)].line
  BY <1>1, <1>3
<1>5. DOMAIN SourcesOf(n) = 1..k
  BY <1>1, <1>2
<1> QED
  BY <1>2, <1>4, <1>5 DEF LinesOf

\* The lineage of a mapping in the book is its line.
LEMMA LineageBook ==
  ASSUME Tree(nodes), NEW b, Settled(b, nodes)
  PROVE  \A d \in 0..MaxNodes : \A n \in DOMAIN b : b[n].rank <= d => Lineage[d][n] = b[n].line
<1> DEFINE At(d) == \A n \in DOMAIN b : b[n].rank <= d => Lineage[d][n] = b[n].line
           T == {d \in Nat : d <= MaxNodes => At(d)}
<1>0. \A n \in DOMAIN b :
        /\ n \in Mappings(nodes) /\ n \in DOMAIN nodes /\ b[n].rank \in Nat
        /\ Looked(nodes, n, Len(Froms(nodes, n)))
        /\ \A i \in 1..Len(Froms(nodes, n)) :
             Source(nodes, n, i) \in DOMAIN b /\ b[Source(nodes, n, i)].rank < b[n].rank
        /\ b[n].line = <<n>> \o Lines(b, nodes, n, Len(Froms(nodes, n)))
  BY DEF Settled, Mappings
<1>1. 0 \in T
  <2> SUFFICES ASSUME NEW n \in DOMAIN b, b[n].rank <= 0 PROVE Lineage[0][n] = b[n].line
    OBVIOUS
  <2>0. n \in DOMAIN nodes
    BY <1>0
  <2>7. 0 \in 0..MaxNodes
    BY Bounds
  <2>1. Lineage[0][n] = <<n>>
    BY <2>0, <2>7, LineageSteps
  <2>2. PICK k : k = Len(Froms(nodes, n))
    OBVIOUS
  <2>3. k \in Nat
    <3>1. Froms(nodes, n) \in Seq(0..Len(nodes))
      BY <1>0, FromsOK
    <3> QED
      BY <2>2, <3>1
  <2>4. k = 0
    <3> SUFFICES ASSUME k # 0 PROVE FALSE
      OBVIOUS
    <3>1. 1 \in 1..k
      BY <2>3
    <3>2. Source(nodes, n, 1) \in DOMAIN b /\ b[Source(nodes, n, 1)].rank < b[n].rank
      BY <1>0, <2>2, <3>1
    <3>3. b[Source(nodes, n, 1)].rank \in Nat /\ b[n].rank \in Nat
      BY <1>0, <3>2
    <3> QED
      BY <3>2, <3>3
  <2>5. b[n].line = <<n>> \o <<>>
    BY <1>0, <2>2, <2>4, LinesNone
  <2>6. <<n>> \o <<>> = <<n>>
    <3>1. <<n>> \in Seq({n})
      OBVIOUS
    <3> QED
      BY <3>1, ConcatEmptySeq
  <2> QED
    BY <2>1, <2>5, <2>6
<1>2. ASSUME NEW d \in Nat, d \in T PROVE d + 1 \in T
  <2> SUFFICES ASSUME d + 1 <= MaxNodes, NEW n \in DOMAIN b, b[n].rank <= d + 1
               PROVE  Lineage[d + 1][n] = b[n].line
    OBVIOUS
  <2>1. d \in 0..MaxNodes /\ d + 1 \in 0..MaxNodes /\ d + 1 # 0 /\ (d + 1) - 1 = d
    BY Bounds
  <2>2. At(d)
    BY <1>2, <2>1
  <2>3. PICK x, k : x = Lineage[d] /\ k = Len(Froms(nodes, n))
    OBVIOUS
  <2>4. \A i \in 1..k : x[Source(nodes, n, i)] = b[Source(nodes, n, i)].line
    <3> TAKE i \in 1..k
    <3>1. Source(nodes, n, i) \in DOMAIN b /\ b[Source(nodes, n, i)].rank < b[n].rank
      BY <1>0, <2>3
    <3>2. b[Source(nodes, n, i)].rank \in Nat /\ b[n].rank \in Nat
      BY <1>0, <3>1
    <3>3. b[Source(nodes, n, i)].rank <= d
      BY <3>1, <3>2
    <3> QED
      BY <2>2, <2>3, <3>1, <3>3
  <2>5. n \in Mappings(nodes) /\ Looked(nodes, n, k)
    BY <1>0, <2>3
  <2>6. [i \in DOMAIN SourcesOf(n) |-> x[MappingAt(SourcesOf(n)[i])]] = LinesOf(b, nodes, n, k)
    BY <2>3, <2>4, <2>5, SourcesFroms
  <2>7. Lineage[d + 1][n] =
          <<n>> \o FlattenSeq([i \in DOMAIN SourcesOf(n) |-> Lineage[(d + 1) - 1][MappingAt(SourcesOf(n)[i])]])
    BY <1>0, <2>1, LineageSteps
  <2>8. Lineage[d + 1][n] = <<n>> \o FlattenSeq([i \in DOMAIN SourcesOf(n) |-> x[MappingAt(SourcesOf(n)[i])]])
    BY <2>1, <2>3, <2>7
  <2>9. Lineage[d + 1][n] = <<n>> \o Lines(b, nodes, n, k)
    BY <2>6, <2>8 DEF Lines
  <2> QED
    BY <1>0, <2>3, <2>9
<1>3. Nat \subseteq T
  <2> HIDE DEF T
  <2> QED
    BY <1>1, <1>2, Induction
<1> QED
  BY <1>3, Bounds

\* So is that of a mapping that merges mappings of the book.
LEMMA LineageFull ==
  ASSUME Tree(nodes), Len(nodes) <= MaxNodes, NEW b, Settled(b, nodes), NEW n \in Mappings(nodes),
         NEW k, k = Len(Froms(nodes, n)), Looked(nodes, n, k),
         \A i \in 1..k : Source(nodes, n, i) \in DOMAIN b
  PROVE  Lineage[MaxNodes][n] = <<n>> \o Lines(b, nodes, n, k)
<1>1. Cardinality(DOMAIN b) \in Nat /\ Cardinality(DOMAIN b) <= Len(nodes)
  <2>1. DOMAIN b \subseteq 1..Len(nodes) /\ Len(nodes) \in Nat
    BY TreeFacts DEF Settled, Mappings
  <2>2. IsFiniteSet(1..Len(nodes)) /\ Cardinality(1..Len(nodes)) = Len(nodes)
    <3>1. Len(nodes) \in Nat
      BY <2>1
    <3>2. PICK z \in Nat : z = Len(nodes)
      BY <3>1
    <3>3. 1 \in Int /\ z \in Int
      OBVIOUS
    <3>4. IsFiniteSet(1..z) /\ Cardinality(1..z) = IF 1 > z THEN 0 ELSE z - 1 + 1
      BY <3>3, FS_Interval
    <3>5. Cardinality(1..z) = z
      BY <3>4
    <3> QED
      BY <3>2, <3>4, <3>5
  <2>3. IsFiniteSet(DOMAIN b) /\ Cardinality(DOMAIN b) <= Cardinality(1..Len(nodes))
    BY <2>1, <2>2, FS_Subset
  <2> QED
    BY <2>2, <2>3, FS_CardinalityType
<1>2. PICK d, x : d = MaxNodes - 1 /\ x = Lineage[d]
  OBVIOUS
<1>3. d \in 0..MaxNodes /\ d = MaxNodes - 1 /\ MaxNodes \in 0..MaxNodes /\ MaxNodes # 0
  BY <1>2, Bounds
<1>4. \A i \in 1..k : x[Source(nodes, n, i)] = b[Source(nodes, n, i)].line
  <2> TAKE i \in 1..k
  <2>1. Source(nodes, n, i) \in DOMAIN b
    OBVIOUS
  <2>2. b[Source(nodes, n, i)].rank \in Nat /\ b[Source(nodes, n, i)].rank < Cardinality(DOMAIN b)
    BY <2>1 DEF Settled
  <2>3. Len(nodes) \in Nat
    BY TreeFacts
  <2>4. b[Source(nodes, n, i)].rank <= d
    BY <1>1, <1>2, <2>2, <2>3, Bounds
  <2> QED
    BY <1>2, <1>3, <2>1, <2>4, LineageBook
<1>5. [i \in DOMAIN SourcesOf(n) |-> x[MappingAt(SourcesOf(n)[i])]] = LinesOf(b, nodes, n, k)
  BY <1>4, SourcesFroms
<1>6. n \in DOMAIN nodes
  BY DEF Mappings
<1>7. Lineage[MaxNodes][n] =
        <<n>> \o FlattenSeq([i \in DOMAIN SourcesOf(n) |-> Lineage[MaxNodes - 1][MappingAt(SourcesOf(n)[i])]])
  BY <1>3, <1>6, LineageSteps
<1> QED
  BY <1>2, <1>5, <1>7 DEF Lines

-----------------------------------------------------------------------------
(* What merges have done so far                                              *)

\* c: what each call is made for.  In a merge, owner: the call whose map is filled; set:
\* the set of merged fields; goal: the mapping that is merged; line: the mappings merged
\* before it; target: the type of the map.
None == [owner |-> 0, set |-> 0, goal |-> 0, line |-> <<>>, target |-> Map]

\* The mappings merged once the merge at level l has done with j sources.
LineAt(s, ns, b, c, l, j) == c[l - 1].line \o (<<s[l - 1].node>> \o Lines(b, ns, s[l - 1].node, j))

\* A merge makes a call for its last source, an alias passes on what it is made for.
Context(s, ns, b, c, l) ==
  IF l > 1 /\ s[l - 1].op = "merge"
    THEN /\ s[l - 1].i >= 2
         /\ c[l] = [owner |-> s[l - 1].owner, set |-> s[l - 1].fields,
                    goal |-> Source(ns, s[l - 2].node, s[l - 1].i - 1),
                    line |-> LineAt(s, ns, b, c, l - 1, s[l - 1].i - 2), target |-> s[l - 2].target]
  ELSE IF l > 1 /\ s[l - 1].op = "alias" THEN c[l] = c[l - 1]
  ELSE c[l] = None

\* It is nothing, or it is a merge into a map that is being filled.
InContext(s, ns, c, l) ==
  LET x == c[l] IN
  /\ x.line \in Seq(Mappings(ns))
  /\ x.owner = 0 => x = None
  /\ x.owner # 0 =>
       /\ x.owner \in 1..l - 1 /\ s[x.owner].op = "mapping"
       /\ s[x.owner].owner = x.owner /\ s[x.owner].target = x.target
       /\ x.set \in Nat \ {0} /\ x.goal \in Mappings(ns)
       /\ s[l].op \in {"unmarshal", "alias", "mapping"}

\* A call in a merge is for the mapping that is merged, or for an alias of it; the merge
\* has looked at the sources before its next.
UnmarshalAt(f, ns, x) ==
  /\ f.node \in 0..Len(ns) /\ f.into = x.owner
  /\ x.owner # 0 => Kind(ns, f.node) \in {"alias", "mapping"} /\ Target(ns, f.node) = x.goal
AliasAt(f, ns, x) ==
  x.owner # 0 => f.node \in DOMAIN ns /\ ns[f.node].kind = "alias" /\ ns[f.node].target = x.goal
MappingFields == {"op", "node", "i", "own", "owner", "target", "out"}
MappingFrame(f, ns, x, l) ==
  /\ MappingFields \subseteq DOMAIN f
  /\ f.node \in Mappings(ns) /\ f.i \in 1..Len(ns[f.node].content) + 1
  /\ f.own = x.set /\ f.owner = IF x.owner = 0 THEN l ELSE x.owner
  /\ x.owner # 0 => f.node = x.goal /\ f.target = x.target
  /\ f.target.fields \subseteq Keys \cup {Origin}
MergeFrame(s, ns, b, l) ==
  LET f == s[l]
      g == s[l - 1]
  IN /\ l > 1 /\ g.op = "mapping" /\ f.owner = g.owner /\ f.saved = g.own
     /\ {"op", "node", "i", "owner", "saved", "fields"} \subseteq DOMAIN f
     /\ f.fields \in Nat \ {0} /\ (f.saved # 0 => f.fields = f.saved)
     /\ EntryOf(ns[g.node].content, Merge) # {} /\ f.node = MergeValue(ns[g.node].content)
     /\ f.i \in Nat \ {0} /\ Looked(ns, g.node, f.i - 1)
     /\ \A j \in 1..f.i - 2 : Source(ns, g.node, j) \in DOMAIN b

\* The call at level l is as it should be.
FrameAt(s, ns, b, c, l) ==
  /\ Context(s, ns, b, c, l)
  /\ InContext(s, ns, c, l)
  /\ s[l].op = "unmarshal" => UnmarshalAt(s[l], ns, c[l])
  /\ s[l].op = "alias" => AliasAt(s[l], ns, c[l])
  /\ s[l].op = "mapping" => MappingFrame(s[l], ns, c[l], l)
  /\ s[l].op = "merge" => MergeFrame(s, ns, b, l)
  /\ s[l].op = "unmarshaler" => (s[l].result = "type_error" => s[l].issues > 0)

\* The map that a call fills, and the set of merged fields it uses.
OwnerOf(s, c, l) ==
  IF s[l].op \in {"mapping", "merge"} THEN s[l].owner
  ELSE IF s[l].op \in {"unmarshal", "alias"} THEN c[l].owner ELSE 0
SetOf(s, c, l) ==
  IF s[l].op = "mapping" THEN s[l].own
  ELSE IF s[l].op = "merge" THEN s[l].fields
  ELSE IF s[l].op \in {"unmarshal", "alias"} THEN c[l].set ELSE 0

\* The call at level l, below the innermost, decodes a value of its mapping.
Calling(s, l) == s[l].op = "mapping" /\ s[l + 1].op # "merge"

\* Between a call and the owner of its map there are merges only.
Inner(s, c, l) ==
  OwnerOf(s, c, l) # 0 =>
    /\ OwnerOf(s, c, l) \in 1..l
    /\ \A q \in OwnerOf(s, c, l)..l - 1 : s[q].op \in {"alias", "merge", "mapping"} /\ ~Calling(s, q)

\* The set of a call is later than those of the calls around it that decode a value.
Nested(s, c, l) ==
  SetOf(s, c, l) # 0 => \A t \in 1..l - 1 : Calling(s, t) => SetOf(s, c, t) < SetOf(s, c, l)

\* A mapping of the line has the key, and the first that has it is n.
Has(ns, line, k) == \E j \in DOMAIN line : k \in OwnKeys(ns, line[j])
Gives(ns, line, k, n) ==
  \E j \in DOMAIN line : line[j] = n /\ k \in OwnKeys(ns, n) /\ \A h \in 1..j - 1 : k \notin OwnKeys(ns, line[h])

\* An error has been noted that no unmarshaler will take back.
Excused(s, te, o) == te > 0 /\ \A p \in o + 1..Len(s) : s[p].op = "unmarshaler" => s[p].terrlen > 0

\* The map of f has been filled from the mappings of past, and then from the keys in now
\* of the mapping n; ex: it may lack some.
Filling(f, ex, ns, past, now, n) ==
  /\ DOMAIN f.out \subseteq f.target.fields
  /\ \A k \in DOMAIN f.out \cap Keys :
       Gives(ns, past, k, f.out[k]) \/ (~Has(ns, past, k) /\ k \in now /\ f.out[k] = n)
  /\ ex \/ \A k \in f.target.fields \cap Keys : Has(ns, past, k) \/ k \in now => k \in DOMAIN f.out
\* The set of merged fields has the keys of these, and those in due, which are new.
Marks(mg, ns, past, now, due, set) ==
  /\ \A k \in due : ~Has(ns, past, k) /\ k \notin now
  /\ set # 0 => \A k \in Keys : k \in mg[set] <=> Has(ns, past, k) \/ k \in now \/ k \in due
Done(s, te, ns, mg, o, past, now, n, due, set) ==
  /\ Filling(s[o], Excused(s, te, o), ns, past, now, n)
  /\ Marks(mg, ns, past, now, due, set)

\* The keys of a mapping that have been decoded; p: the value of the next one is being
\* decoded, or has just been.
Before(ns, f) == {ns[f.node].content[j].key : j \in 1..f.i - 1} \cap Keys
MappingTip(s, ns, c, mg, te, l, p) ==
  LET f == s[l] IN
  /\ p => f.i \in DOMAIN ns[f.node].content /\ ns[f.node].content[f.i].key \in f.target.fields \cap Keys
  /\ Done(s, te, ns, mg, f.owner, c[l].line, Before(ns, f), f.node,
          IF p THEN {ns[f.node].content[f.i].key} ELSE {}, f.own)
MergeTip(s, ns, b, c, mg, te, l) ==
  /\ \A j \in 1..s[l].i - 1 : Source(ns, s[l - 1].node, j) \in DOMAIN b
  /\ Done(s, te, ns, mg, s[l].owner, LineAt(s, ns, b, c, l, s[l].i - 1), {}, 0, {}, s[l].fields)
UnmarshalTip(s, ns, mg, te, x) ==
  x.owner # 0 => Done(s, te, ns, mg, x.owner, x.line, {}, 0, {}, x.set)
AliasTip(s, ns, b, mg, te, x) ==
  x.owner # 0 =>
    /\ x.goal \in DOMAIN b
    /\ Done(s, te, ns, mg, x.owner, x.line \o b[x.goal].line, {}, 0, {}, x.set)
TopTip(s, r, ns, b, c, mg, te, l) ==
  /\ s[l].op = "mapping" => MappingTip(s, ns, c, mg, te, l, r # "none")
  /\ s[l].op = "merge" => MergeTip(s, ns, b, c, mg, te, l)
  /\ s[l].op = "unmarshal" => UnmarshalTip(s, ns, mg, te, c[l])
  /\ s[l].op = "alias" => AliasTip(s, ns, b, mg, te, c[l])

\* d.mergedFields
Current(s, c, l) ==
  IF s[l].op = "merge" THEN s[l].fields
  ELSE IF s[l].op \in {"unmarshal", "alias"} THEN c[l].set ELSE 0

\* The calls up to level j, those of them that wait, and all there is of the stack s.
Frames(s, ns, b, c, j) == \A l \in 1..j : FrameAt(s, ns, b, c, l) /\ Inner(s, c, l) /\ Nested(s, c, l)
Callers(s, ns, c, mg, te, j) ==
  \A l \in 1..j : s[l].op # "unmarshal" /\ (Calling(s, l) => MappingTip(s, ns, c, mg, te, l, TRUE))
MergeOf(s, r, ns, b, c, mg, te, mf) ==
  /\ Settled(b, ns)
  /\ DOMAIN c = DOMAIN s
  /\ Frames(s, ns, b, c, Len(s))
  /\ Callers(s, ns, c, mg, te, Len(s) - 1)
  /\ s # <<>> => TopTip(s, r, ns, b, c, mg, te, Len(s)) /\ mf = Current(s, c, Len(s))
  /\ r # "error" /\ (r = "bad" => te > 0)

-----------------------------------------------------------------------------
(* What has been merged stays as the tree grows                              *)

\* Who gives a key does not change.
LEMMA GivesKept ==
  ASSUME NEW ns, NEW ms, Extends(ns, ms), NEW line \in Seq(Mappings(ns)), NEW k
  PROVE  /\ Has(ms, line, k) <=> Has(ns, line, k)
         /\ \A n : Gives(ms, line, k, n) <=> Gives(ns, line, k, n)
<1>1. \A j \in DOMAIN line : line[j] \in Mappings(ns)
  OBVIOUS
<1>2. \A j \in DOMAIN line : OwnKeys(ms, line[j]) = OwnKeys(ns, line[j])
  BY <1>1, MappingKept
<1>3. Has(ms, line, k) <=> Has(ns, line, k)
  BY <1>2 DEF Has
<1>4. ASSUME NEW n
      PROVE  Gives(ms, line, k, n) <=> Gives(ns, line, k, n)
  <2>1. ASSUME NEW j \in DOMAIN line, NEW h \in 1..j - 1
        PROVE  OwnKeys(ms, line[h]) = OwnKeys(ns, line[h])
    <3>1. h \in DOMAIN line
      OBVIOUS
    <3> QED
      BY <1>2, <3>1
  <2>2. ASSUME NEW j \in DOMAIN line
        PROVE  (/\ line[j] = n /\ k \in OwnKeys(ms, n)
                /\ \A h \in 1..j - 1 : k \notin OwnKeys(ms, line[h]))
               <=>
               (/\ line[j] = n /\ k \in OwnKeys(ns, n)
                /\ \A h \in 1..j - 1 : k \notin OwnKeys(ns, line[h]))
    BY <1>2, <2>1
  <2> QED
    BY <2>2 DEF Gives
<1> QED
  BY <1>3, <1>4

\* What a map has been filled from stays the same.
LEMMA DoneKept ==
  ASSUME NEW ns, NEW ms, Extends(ns, ms), NEW past \in Seq(Mappings(ns)), NEW s, NEW te, NEW mg, NEW o,
         NEW now, NEW n, NEW due, NEW set, Done(s, te, ns, mg, o, past, now, n, due, set)
  PROVE  Done(s, te, ms, mg, o, past, now, n, due, set)
<1>1. \A k : /\ Has(ms, past, k) <=> Has(ns, past, k)
             /\ \A x : Gives(ms, past, k, x) <=> Gives(ns, past, k, x)
  BY GivesKept
<1>2. Filling(s[o], Excused(s, te, o), ns, past, now, n) /\ Marks(mg, ns, past, now, due, set)
  BY DEF Done
<1>3. Filling(s[o], Excused(s, te, o), ms, past, now, n)
  BY <1>1, <1>2 DEF Filling
<1>4. Marks(mg, ms, past, now, due, set)
  BY <1>1, <1>2 DEF Marks
<1> QED
  BY <1>3, <1>4 DEF Done

\* A line of merges consists of mappings.
LEMMA LineType ==
  ASSUME NEW s, NEW ns, NEW b, Settled(b, ns), NEW c, NEW l, c[l - 1].line \in Seq(Mappings(ns)),
         s[l - 1].node \in Mappings(ns), NEW j \in Nat,
         \A i \in 1..j : Source(ns, s[l - 1].node, i) \in DOMAIN b
  PROVE  LineAt(s, ns, b, c, l, j) \in Seq(Mappings(ns))
<1>1. PICK n : n = s[l - 1].node
  OBVIOUS
<1>2. Lines(b, ns, n, j) \in Seq(Mappings(ns))
  BY <1>1, LinesType
<1>3. <<n>> \in Seq(Mappings(ns))
  BY <1>1
<1>4. <<n>> \o Lines(b, ns, n, j) \in Seq(Mappings(ns))
  BY <1>2, <1>3, ConcatProperties
<1>5. c[l - 1].line \o (<<n>> \o Lines(b, ns, n, j)) \in Seq(Mappings(ns))
  BY <1>4, ConcatProperties
<1> QED
  BY <1>1, <1>5 DEF LineAt

\* It stays the same.
SameLine(s, ns, ms, b, c, l, j) == LineAt(s, ms, b, c, l, j) = LineAt(s, ns, b, c, l, j)
LEMMA LineKept ==
  ASSUME NEW s, NEW ns, NEW ms, Extends(ns, ms), NEW b, NEW c, NEW l, NEW n \in Mappings(ns),
         n = s[l - 1].node, NEW j, NEW i, Looked(ns, n, i), 1..j \subseteq 1..i
  PROVE  SameLine(s, ns, ms, b, c, l, j)
<1>1. n = s[l - 1].node
  OBVIOUS
<1>2. \A h \in 1..j : Source(ms, n, h) = Source(ns, n, h)
  BY <1>1, LookedKept
<1>3. Lines(b, ms, n, j) = Lines(b, ns, n, j)
  BY <1>2, LinesKept
<1> QED
  BY <1>1, <1>3 DEF SameLine, LineAt

\* The frames of the calls around a merge.
LEMMA MergeBelow ==
  ASSUME NEW s, NEW ns, NEW b, NEW c, NEW m \in Nat, Frames(s, ns, b, c, m),
         NEW l \in 1..m, s[l].op = "merge"
  PROVE  /\ l > 1 /\ l - 1 \in 1..m /\ MergeFrame(s, ns, b, l)
         /\ s[l - 1].op = "mapping" /\ MappingFrame(s[l - 1], ns, c[l - 1], l - 1)
         /\ s[l - 1].node \in Mappings(ns) /\ c[l - 1].line \in Seq(Mappings(ns))
         /\ s[l].i \in Nat \ {0}
<1>1. MergeFrame(s, ns, b, l)
  BY DEF Frames, FrameAt
<1>2. l > 1 /\ s[l - 1].op = "mapping" /\ s[l].i \in Nat \ {0}
  BY <1>1 DEF MergeFrame
<1>3. l - 1 \in 1..m
  BY <1>2
<1>4. FrameAt(s, ns, b, c, l - 1)
  BY <1>3 DEF Frames
<1>5. MappingFrame(s[l - 1], ns, c[l - 1], l - 1) /\ InContext(s, ns, c, l - 1)
  BY <1>2, <1>4 DEF FrameAt
<1> QED
  BY <1>1, <1>2, <1>3, <1>5 DEF MappingFrame, InContext

\* What a call is made for stays as the tree grows.
LEMMA ContextKept ==
  ASSUME NEW ns, NEW ms, Extends(ns, ms), NEW s, NEW b, Settled(b, ns), NEW c, NEW m \in Nat,
         Frames(s, ns, b, c, m), NEW l \in 1..m
  PROVE  Context(s, ms, b, c, l)
<1>1. Context(s, ns, b, c, l)
  BY DEF Frames, FrameAt
<1>2. CASE l > 1 /\ s[l - 1].op = "merge"
  <2>1. PICK k : k = l - 1
    OBVIOUS
  <2>2. k \in 1..m /\ s[k].op = "merge"
    BY <1>2, <2>1
  <2>3. /\ MergeFrame(s, ns, b, k) /\ s[k - 1].node \in Mappings(ns) /\ s[k].i \in Nat \ {0}
    BY <2>2, MergeBelow
  <2>4. Looked(ns, s[k - 1].node, s[k].i - 1)
    BY <2>3 DEF MergeFrame
  <2>5. s[k].i >= 2 /\ s[k].i - 1 \in 1..s[k].i - 1 /\ 1..s[k].i - 2 \subseteq 1..s[k].i - 1
    BY <1>1, <1>2, <2>1, <2>3 DEF Context
  <2>6. Source(ms, s[k - 1].node, s[k].i - 1) = Source(ns, s[k - 1].node, s[k].i - 1)
    BY <2>3, <2>4, <2>5, LookedKept
  <2>7. LineAt(s, ms, b, c, k, s[k].i - 2) = LineAt(s, ns, b, c, k, s[k].i - 2)
    <3>1. PICK j, i, n : j = s[k].i - 2 /\ i = s[k].i - 1 /\ n = s[k - 1].node
      OBVIOUS
    <3>2. Looked(ns, n, i) /\ 1..j \subseteq 1..i /\ n \in Mappings(ns) /\ n = s[k - 1].node
      BY <2>3, <2>4, <2>5, <3>1
    <3>3. SameLine(s, ns, ms, b, c, k, j)
      BY <3>2, LineKept
    <3> QED
      BY <3>1, <3>3 DEF SameLine
  <2>8. l - 2 = k - 1
    BY <2>1
  <2> QED
    BY <1>1, <1>2, <2>1, <2>6, <2>7, <2>8 DEF Context
<1>3. CASE ~(l > 1 /\ s[l - 1].op = "merge")
  BY <1>1, <1>3 DEF Context
<1> QED
  BY <1>2, <1>3

\* So does a call.
LEMMA FrameKept ==
  ASSUME NEW ns, NEW ms, Extends(ns, ms), NEW s, NEW b, Settled(b, ns), NEW c, NEW m \in Nat,
         Frames(s, ns, b, c, m), NEW l \in 1..m
  PROVE  FrameAt(s, ms, b, c, l)
<1>0. FrameAt(s, ns, b, c, l)
  BY DEF Frames
<1>1. Mappings(ns) \subseteq Mappings(ms)
  BY MappingKept
<1>2. /\ Len(ns) \in Nat /\ Len(ms) \in Nat /\ DOMAIN ns = 1..Len(ns) /\ DOMAIN ms = 1..Len(ms)
      /\ DOMAIN ns \subseteq DOMAIN ms
  BY TreeFacts DEF Extends
<1>3. 0..Len(ns) \subseteq 0..Len(ms)
  BY <1>2
<1>4. Context(s, ms, b, c, l)
  BY ContextKept
<1>5. InContext(s, ms, c, l)
  <2>1. InContext(s, ns, c, l)
    BY <1>0 DEF FrameAt
  <2>2. c[l].line \in Seq(Mappings(ms))
    BY <1>1, <2>1, SeqMonotonic DEF InContext
  <2> QED
    BY <1>1, <2>1, <2>2 DEF InContext
<1>6. s[l].op = "unmarshal" => UnmarshalAt(s[l], ms, c[l])
  <2> SUFFICES ASSUME s[l].op = "unmarshal" PROVE UnmarshalAt(s[l], ms, c[l])
    OBVIOUS
  <2>1. UnmarshalAt(s[l], ns, c[l])
    BY <1>0 DEF FrameAt
  <2>2. PICK v : v = s[l].node
    OBVIOUS
  <2>3. ASSUME c[l].owner # 0
        PROVE  Kind(ms, v) = Kind(ns, v) /\ Target(ms, v) = Target(ns, v)
    <3>1. v \in 0..Len(ns) /\ Kind(ns, v) \in {"alias", "mapping"}
      BY <2>1, <2>2, <2>3 DEF UnmarshalAt
    <3>2. /\ Kind(ms, v) = Kind(ns, v)
          /\ Kind(ns, v) = "alias" => ms[v].target = ns[v].target
      BY <3>1, KindKept
    <3> QED
      BY <3>2 DEF Target
  <2> QED
    BY <1>3, <2>1, <2>2, <2>3 DEF UnmarshalAt
<1>7. s[l].op = "alias" => AliasAt(s[l], ms, c[l])
  <2> SUFFICES ASSUME s[l].op = "alias", c[l].owner # 0 PROVE AliasAt(s[l], ms, c[l])
    BY DEF AliasAt
  <2>1. s[l].node \in DOMAIN ns /\ ns[s[l].node].kind = "alias" /\ ns[s[l].node].target = c[l].goal
    BY <1>0 DEF FrameAt, AliasAt
  <2>2. KeepsContent(ns[s[l].node], ms[s[l].node])
    BY <2>1 DEF Extends
  <2> QED
    BY <1>2, <2>1, <2>2 DEF KeepsContent, AliasAt
<1>8. s[l].op = "mapping" => MappingFrame(s[l], ms, c[l], l)
  <2> SUFFICES ASSUME s[l].op = "mapping" PROVE MappingFrame(s[l], ms, c[l], l)
    OBVIOUS
  <2>1. MappingFrame(s[l], ns, c[l], l)
    BY <1>0 DEF FrameAt
  <2>2. PICK n : n = s[l].node
    OBVIOUS
  <2>3. n \in Mappings(ns) /\ n \in Mappings(ms)
    BY <1>1, <2>1, <2>2 DEF MappingFrame
  <2>4. 1..Len(ns[n].content) + 1 \subseteq 1..Len(ms[n].content) + 1
    <3>1. Len(ns[n].content) \in Nat /\ DOMAIN ns[n].content = 1..Len(ns[n].content)
      BY <2>3, MappingContent DEF Extends
    <3>2. Len(ms[n].content) \in Nat /\ DOMAIN ms[n].content = 1..Len(ms[n].content)
      BY <2>3, MappingContent DEF Extends
    <3>3. DOMAIN ns[n].content \subseteq DOMAIN ms[n].content
      BY <2>3, MappingKept
    <3>4. Len(ns[n].content) <= Len(ms[n].content)
      <4>1. CASE Len(ns[n].content) = 0
        BY <3>2, <4>1
      <4>2. CASE Len(ns[n].content) # 0
        <5>1. Len(ns[n].content) \in 1..Len(ns[n].content)
          BY <3>1, <4>2
        <5>2. Len(ns[n].content) \in 1..Len(ms[n].content)
          BY <3>1, <3>2, <3>3, <5>1
        <5> QED
          BY <3>1, <3>2, <5>2
      <4> QED
        BY <4>1, <4>2
    <3> QED
      BY <3>1, <3>2, <3>4
  <2> QED
    BY <2>1, <2>2, <2>3, <2>4 DEF MappingFrame
<1>9. s[l].op = "merge" => MergeFrame(s, ms, b, l)
  <2> SUFFICES ASSUME s[l].op = "merge" PROVE MergeFrame(s, ms, b, l)
    OBVIOUS
  <2>1. MergeFrame(s, ns, b, l) /\ s[l - 1].node \in Mappings(ns)
    BY MergeBelow
  <2>2. PICK n, i : n = s[l - 1].node /\ i = s[l].i
    OBVIOUS
  <2>3. Looked(ns, n, i - 1) /\ n \in Mappings(ns) /\ i \in Nat \ {0} /\ EntryOf(ns[n].content, Merge) # {}
    BY <2>1, <2>2 DEF MergeFrame
  <2>4. Looked(ms, n, i - 1) /\ \A j \in 1..i - 1 : Source(ms, n, j) = Source(ns, n, j)
    BY <2>3, LookedKept
  <2>5. \A j \in 1..i - 2 : Source(ms, n, j) = Source(ns, n, j)
    <3> TAKE j \in 1..i - 2
    <3>1. j \in 1..i - 1
      BY <2>3
    <3> QED
      BY <2>4, <3>1
  <2>6. /\ EntryOf(ms[n].content, Merge) = EntryOf(ns[n].content, Merge)
        /\ MergeValue(ms[n].content) = MergeValue(ns[n].content)
    BY <2>3, MappingKept
  <2> QED
    BY <2>1, <2>2, <2>3, <2>4, <2>5, <2>6 DEF MergeFrame
<1>10. s[l].op = "unmarshaler" => (s[l].result = "type_error" => s[l].issues > 0)
  BY Zenon, <1>0 DEF FrameAt
<1> QED
  BY <1>4, <1>5, <1>6, <1>7, <1>8, <1>9, <1>10 DEF FrameAt

\* What a mapping has merged and decoded stays.
LEMMA MappingTipKept ==
  ASSUME NEW ns, NEW ms, Extends(ns, ms), NEW s, NEW c, NEW mg, NEW te, NEW l, NEW p,
         MappingFrame(s[l], ns, c[l], l), c[l].line \in Seq(Mappings(ns)), MappingTip(s, ns, c, mg, te, l, p)
  PROVE  MappingTip(s, ms, c, mg, te, l, p)
<1>1. PICK f, n : f = s[l] /\ n = f.node
  OBVIOUS
<1>2. n \in Mappings(ns) /\ f.i \in 1..Len(ns[n].content) + 1
  BY <1>1 DEF MappingFrame
<1>3. /\ Len(ns[n].content) \in Nat /\ DOMAIN ns[n].content = 1..Len(ns[n].content)
  BY <1>2, MappingContent DEF Extends
<1>4. \A i \in DOMAIN ns[n].content : i \in DOMAIN ms[n].content /\ ms[n].content[i] = ns[n].content[i]
  BY <1>2, MappingKept
<1>5. Before(ms, f) = Before(ns, f)
  <2>1. \A j \in 1..f.i - 1 : ms[n].content[j] = ns[n].content[j]
    BY <1>2, <1>3, <1>4
  <2> QED
    BY <1>1, <2>1 DEF Before
<1>6. PICK due : due = IF p THEN {ns[n].content[f.i].key} ELSE {}
  BY Zenon
<1>7. /\ p => f.i \in DOMAIN ns[n].content /\ ns[n].content[f.i].key \in f.target.fields \cap Keys
      /\ Done(s, te, ns, mg, f.owner, c[l].line, Before(ns, f), n, due, f.own)
  BY Zenon, <1>1, <1>6 DEF MappingTip
<1>8. Done(s, te, ms, mg, f.owner, c[l].line, Before(ns, f), n, due, f.own)
  BY <1>7, DoneKept
<1>9. p => f.i \in DOMAIN ms[n].content /\ ms[n].content[f.i] = ns[n].content[f.i]
  BY <1>4, <1>7
<1>10. due = IF p THEN {ms[n].content[f.i].key} ELSE {}
  BY <1>6, <1>9
<1> QED
  BY Zenon, <1>1, <1>5, <1>7, <1>8, <1>9, <1>10 DEF MappingTip

\* So does what the innermost call has.
LEMMA TopTipKept ==
  ASSUME NEW ns, NEW ms, Extends(ns, ms), NEW s, NEW b, Settled(b, ns), NEW c, NEW m \in Nat,
         Frames(s, ns, b, c, m), NEW l \in 1..m, NEW mg, NEW te, NEW r, TopTip(s, r, ns, b, c, mg, te, l)
  PROVE  TopTip(s, r, ms, b, c, mg, te, l)
<1>1. FrameAt(s, ns, b, c, l) /\ InContext(s, ns, c, l) /\ c[l].line \in Seq(Mappings(ns))
  BY DEF Frames, FrameAt, InContext
<1>2. s[l].op = "mapping" => MappingTip(s, ms, c, mg, te, l, r # "none")
  BY <1>1, MappingTipKept DEF TopTip, FrameAt
<1>3. s[l].op = "merge" => MergeTip(s, ms, b, c, mg, te, l)
  <2> SUFFICES ASSUME s[l].op = "merge" PROVE MergeTip(s, ms, b, c, mg, te, l)
    OBVIOUS
  <2>1. MergeTip(s, ns, b, c, mg, te, l)
    BY DEF TopTip
  <2>2. PICK n, i : n = s[l - 1].node /\ i = s[l].i
    OBVIOUS
  <2>3. /\ MergeFrame(s, ns, b, l) /\ n \in Mappings(ns) /\ c[l - 1].line \in Seq(Mappings(ns))
        /\ i - 1 \in Nat
    BY <2>2, MergeBelow
  <2>4. Looked(ns, n, i - 1)
    BY <2>2, <2>3 DEF MergeFrame
  <2>5. \A j \in 1..i - 1 : Source(ns, n, j) \in DOMAIN b /\ Source(ms, n, j) = Source(ns, n, j)
    BY <2>1, <2>2, <2>3, <2>4, LookedKept DEF MergeTip
  <2>6. LineAt(s, ms, b, c, l, i - 1) = LineAt(s, ns, b, c, l, i - 1)
    <3>1. PICK j : j = i - 1
      OBVIOUS
    <3>2. Looked(ns, s[l - 1].node, j) /\ 1..j \subseteq 1..j /\ s[l - 1].node \in Mappings(ns)
      BY <2>2, <2>3, <2>4, <3>1
    <3>3. SameLine(s, ns, ms, b, c, l, j)
      BY <3>2, LineKept
    <3> QED
      BY <3>1, <3>3 DEF SameLine
  <2>7. LineAt(s, ns, b, c, l, i - 1) \in Seq(Mappings(ns))
    BY <2>2, <2>3, <2>5, LineType
  <2>8. Done(s, te, ns, mg, s[l].owner, LineAt(s, ns, b, c, l, i - 1), {}, 0, {}, s[l].fields)
    BY <2>1, <2>2 DEF MergeTip
  <2>9. Done(s, te, ms, mg, s[l].owner, LineAt(s, ns, b, c, l, i - 1), {}, 0, {}, s[l].fields)
    BY <2>7, <2>8, DoneKept
  <2> QED
    BY <2>2, <2>5, <2>6, <2>9 DEF MergeTip
<1>4. s[l].op = "unmarshal" => UnmarshalTip(s, ms, mg, te, c[l])
  BY <1>1, DoneKept DEF TopTip, UnmarshalTip
<1>5. s[l].op = "alias" => AliasTip(s, ms, b, mg, te, c[l])
  <2> SUFFICES ASSUME s[l].op = "alias", c[l].owner # 0 PROVE AliasTip(s, ms, b, mg, te, c[l])
    BY DEF AliasTip
  <2>1. PICK x : x = c[l]
    OBVIOUS
  <2>2. /\ x.goal \in DOMAIN b
        /\ Done(s, te, ns, mg, x.owner, x.line \o b[x.goal].line, {}, 0, {}, x.set)
    BY <2>1 DEF TopTip, AliasTip
  <2>3. b[x.goal].line \in Seq(Mappings(ns))
    BY <2>2 DEF Settled
  <2>4. x.line \o b[x.goal].line \in Seq(Mappings(ns))
    BY <1>1, <2>1, <2>3, ConcatProperties
  <2>5. Done(s, te, ms, mg, x.owner, x.line \o b[x.goal].line, {}, 0, {}, x.set)
    BY <2>2, <2>4, DoneKept
  <2> QED
    BY <2>1, <2>2, <2>5 DEF AliasTip
<1> QED
  BY <1>2, <1>3, <1>4, <1>5 DEF TopTip

\* All that merges have done stays as the tree grows.
LEMMA MergeGrown ==
  ASSUME NEW ns, NEW ms, ms = ns \/ Extends(ns, ms), NEW s, NEW m \in Nat, IsSequence(s), Len(s) = m,
         NEW r, NEW b, NEW c, NEW mg, NEW te, NEW mf, MergeOf(s, r, ns, b, c, mg, te, mf)
  PROVE  MergeOf(s, r, ms, b, c, mg, te, mf)
<1>1. CASE ms = ns
  BY <1>1
<1>2. CASE Extends(ns, ms)
  <2>1. /\ Settled(b, ns) /\ Frames(s, ns, b, c, m) /\ Callers(s, ns, c, mg, te, m - 1)
        /\ s # <<>> => TopTip(s, r, ns, b, c, mg, te, m) /\ mf = Current(s, c, m)
        /\ DOMAIN c = DOMAIN s /\ r # "error" /\ (r = "bad" => te > 0)
    BY DEF MergeOf
  <2>2. Settled(b, ms)
    BY <1>2, <2>1, SettledKept
  <2>3. Frames(s, ms, b, c, m)
    <3>1. \A l \in 1..m : FrameAt(s, ms, b, c, l)
      BY <1>2, <2>1, FrameKept
    <3> QED
      BY <2>1, <3>1 DEF Frames
  <2>4. Callers(s, ms, c, mg, te, m - 1)
    <3> SUFFICES ASSUME NEW l \in 1..m - 1, Calling(s, l) PROVE MappingTip(s, ms, c, mg, te, l, TRUE)
      BY <2>1 DEF Callers
    <3>1. l \in 1..m /\ s[l].op = "mapping"
      BY DEF Calling
    <3>2. MappingFrame(s[l], ns, c[l], l) /\ c[l].line \in Seq(Mappings(ns))
      BY <2>1, <3>1 DEF Frames, FrameAt, InContext
    <3>3. MappingTip(s, ns, c, mg, te, l, TRUE)
      BY <2>1 DEF Callers
    <3> QED
      BY <1>2, <3>2, <3>3, MappingTipKept
  <2>5. s # <<>> => TopTip(s, r, ms, b, c, mg, te, m)
    <3> SUFFICES ASSUME s # <<>> PROVE TopTip(s, r, ms, b, c, mg, te, m)
      OBVIOUS
    <3>1. CASE m = 0
      <4>1. s = <<>>
        BY <3>1 DEF IsSequence
      <4> QED
        BY <4>1
    <3>2. CASE m # 0
      <4>1. m \in 1..m
        BY <3>2
      <4> QED
        BY <1>2, <2>1, <4>1, TopTipKept
    <3> QED
      BY <3>1, <3>2
  <2> QED
    BY <2>1, <2>2, <2>3, <2>4, <2>5 DEF MergeOf
<1> QED
  BY <1>1, <1>2

-----------------------------------------------------------------------------
(* A mapping comes into the book                                             *)

\* Lines of mappings of the book are the same in a larger book.
LEMMA LinesMoreBook ==
  ASSUME NEW b, NEW d, More(b, d), NEW ns, NEW n, NEW j, \A i \in 1..j : Source(ns, n, i) \in DOMAIN b
  PROVE  Lines(d, ns, n, j) = Lines(b, ns, n, j)
<1>1. \A i \in 1..j : d[Source(ns, n, i)].line = b[Source(ns, n, i)].line
  BY DEF More
<1> QED
  BY <1>1, LinesKept

\* All that merges have done is as it was.
LEMMA MergeBooked ==
  ASSUME NEW ns, NEW b, NEW d, More(b, d), Settled(d, ns), NEW s, NEW m \in Nat, IsSequence(s), Len(s) = m,
         NEW r, NEW c, NEW mg, NEW te, NEW mf, MergeOf(s, r, ns, b, c, mg, te, mf)
  PROVE  MergeOf(s, r, ns, d, c, mg, te, mf)
<1>1. /\ Settled(b, ns) /\ Frames(s, ns, b, c, m) /\ Callers(s, ns, c, mg, te, m - 1)
      /\ s # <<>> => TopTip(s, r, ns, b, c, mg, te, m) /\ mf = Current(s, c, m)
      /\ DOMAIN c = DOMAIN s /\ r # "error" /\ (r = "bad" => te > 0)
  BY DEF MergeOf
<1>2. ASSUME NEW l \in 1..m, s[l].op = "merge"
      PROVE  MergeFrame(s, ns, d, l)
  <2>1. MergeFrame(s, ns, b, l)
    BY <1>1, <1>2, MergeBelow
  <2> QED
    BY <2>1 DEF MergeFrame, More
<1>3. ASSUME NEW l \in 1..m
      PROVE  Context(s, ns, d, c, l)
  <2>1. Context(s, ns, b, c, l)
    BY <1>1 DEF Frames, FrameAt
  <2>2. CASE l > 1 /\ s[l - 1].op = "merge"
    <3>1. PICK k : k = l - 1
      OBVIOUS
    <3>2. k \in 1..m /\ s[k].op = "merge"
      BY <2>2, <3>1
    <3>3. MergeFrame(s, ns, b, k)
      BY <1>1, <3>2, MergeBelow
    <3>4. PICK j : j = s[k].i - 2
      OBVIOUS
    <3>5. \A i \in 1..j : Source(ns, s[k - 1].node, i) \in DOMAIN b
      BY <3>3, <3>4 DEF MergeFrame
    <3>6. Lines(d, ns, s[k - 1].node, j) = Lines(b, ns, s[k - 1].node, j)
      BY <3>5, LinesMoreBook
    <3>7. LineAt(s, ns, d, c, k, j) = LineAt(s, ns, b, c, k, j)
      BY <3>6 DEF LineAt
    <3> QED
      BY <2>1, <2>2, <3>1, <3>4, <3>7 DEF Context
  <2>3. CASE ~(l > 1 /\ s[l - 1].op = "merge")
    BY <2>1, <2>3 DEF Context
  <2> QED
    BY <2>2, <2>3
<1>4. Frames(s, ns, d, c, m)
  <2>1. \A l \in 1..m : FrameAt(s, ns, d, c, l)
    BY <1>1, <1>2, <1>3 DEF Frames, FrameAt
  <2> QED
    BY <1>1, <2>1 DEF Frames
<1>5. s # <<>> => TopTip(s, r, ns, d, c, mg, te, m)
  <2> SUFFICES ASSUME s # <<>> PROVE TopTip(s, r, ns, d, c, mg, te, m)
    OBVIOUS
  <2>0. m # 0
    BY DEF IsSequence
  <2>1. m \in 1..m /\ TopTip(s, r, ns, b, c, mg, te, m)
    BY <1>1, <2>0
  <2>2. s[m].op = "merge" => MergeTip(s, ns, d, c, mg, te, m)
    <3> SUFFICES ASSUME s[m].op = "merge" PROVE MergeTip(s, ns, d, c, mg, te, m)
      OBVIOUS
    <3>1. MergeTip(s, ns, b, c, mg, te, m)
      BY <2>1 DEF TopTip
    <3>2. PICK j : j = s[m].i - 1
      OBVIOUS
    <3>3. Lines(d, ns, s[m - 1].node, j) = Lines(b, ns, s[m - 1].node, j)
      BY <3>1, <3>2, LinesMoreBook DEF MergeTip
    <3>4. LineAt(s, ns, d, c, m, j) = LineAt(s, ns, b, c, m, j)
      BY <3>3 DEF LineAt
    <3> QED
      BY <3>1, <3>2, <3>4 DEF MergeTip, More
  <2>3. s[m].op = "alias" => AliasTip(s, ns, d, mg, te, c[m])
    <3> SUFFICES ASSUME s[m].op = "alias" PROVE AliasTip(s, ns, d, mg, te, c[m])
      OBVIOUS
    <3>1. AliasTip(s, ns, b, mg, te, c[m])
      BY <2>1 DEF TopTip
    <3> QED
      BY <3>1 DEF AliasTip, More
  <2> QED
    BY <2>1, <2>2, <2>3 DEF TopTip
<1> QED
  BY <1>1, <1>4, <1>5 DEF MergeOf

-----------------------------------------------------------------------------
(* The calls below                                                           *)

\* A call that is as it was, but for what its map has been filled with.
Refills(f, g) ==
  \/ g = f
  \/ /\ f.op = "mapping" /\ g.op = "mapping" /\ MappingFields \subseteq DOMAIN g
     /\ g.node = f.node /\ g.i = f.i /\ g.own = f.own /\ g.owner = f.owner /\ g.target = f.target
SameCalls(s, c, t, d, k) == \A l \in 1..k : Refills(s[l], t[l]) /\ d[l] = c[l]

\* Such calls have the same owners and sets.
LEMMA CallsAlike ==
  ASSUME NEW s, NEW c, NEW t, NEW d, NEW k \in Nat, SameCalls(s, c, t, d, k), NEW l \in 1..k
  PROVE  /\ t[l].op = s[l].op /\ t[l].node = s[l].node /\ d[l] = c[l]
         /\ t[l].op # "mapping" => t[l] = s[l]
         /\ t[l].op = "mapping" =>
              t[l].i = s[l].i /\ t[l].own = s[l].own /\ t[l].owner = s[l].owner /\ t[l].target = s[l].target
         /\ OwnerOf(t, d, l) = OwnerOf(s, c, l) /\ SetOf(t, d, l) = SetOf(s, c, l)
         /\ \A q \in 1..l - 1 : Calling(t, q) <=> Calling(s, q)
<1>1. Refills(s[l], t[l]) /\ d[l] = c[l]
  BY DEF SameCalls
<1>2. \A q \in 1..k : t[q].op = s[q].op
  BY DEF SameCalls, Refills
<1>3. \A q \in 1..l - 1 : q \in 1..k /\ q + 1 \in 1..k
  OBVIOUS
<1>4. \A q \in 1..l - 1 : Calling(t, q) <=> Calling(s, q)
  BY <1>2, <1>3 DEF Calling
<1>5. /\ t[l].op = s[l].op /\ t[l].node = s[l].node
      /\ t[l].op # "mapping" => t[l] = s[l]
      /\ t[l].op = "mapping" =>
           t[l].i = s[l].i /\ t[l].own = s[l].own /\ t[l].owner = s[l].owner /\ t[l].target = s[l].target
  BY <1>1 DEF Refills
<1>6. OwnerOf(t, d, l) = OwnerOf(s, c, l)
  BY <1>1, <1>5 DEF OwnerOf
<1>7. SetOf(t, d, l) = SetOf(s, c, l)
  BY <1>1, <1>5 DEF SetOf
<1> QED
  BY <1>1, <1>4, <1>5, <1>6, <1>7

\* What a call above them is made for is the same.
LEMMA ContextSame ==
  ASSUME NEW s, NEW c, NEW t, NEW d, NEW l \in Nat \ {0}, SameCalls(s, c, t, d, l - 1), d[l] = c[l],
         NEW ns, NEW b, Frames(s, ns, b, c, l - 1), Context(s, ns, b, c, l)
  PROVE  Context(t, ns, b, d, l)
<1>1. CASE l > 1
  <2>1. PICK k : k = l - 1
    OBVIOUS
  <2>2. k \in Nat /\ k \in 1..k /\ l - 2 = k - 1 /\ SameCalls(s, c, t, d, k) /\ Frames(s, ns, b, c, k)
    BY <1>1, <2>1
  <2>3. /\ t[k].op = s[k].op /\ d[k] = c[k]
        /\ t[k].op = "merge" => t[k] = s[k]
    BY <2>2, CallsAlike
  <2>4. ASSUME s[k].op = "merge"
        PROVE  /\ \A j : LineAt(t, ns, b, d, k, j) = LineAt(s, ns, b, c, k, j)
               /\ t[k - 1].target = s[k - 1].target /\ t[k - 1].node = s[k - 1].node
    <3>1. k - 1 \in 1..k /\ s[k - 1].op = "mapping"
      BY <2>2, <2>4, MergeBelow
    <3>2. t[k - 1].node = s[k - 1].node /\ t[k - 1].target = s[k - 1].target /\ d[k - 1] = c[k - 1]
      BY <2>2, <3>1, CallsAlike
    <3>3. \A j : LineAt(t, ns, b, d, k, j) = LineAt(s, ns, b, c, k, j)
      BY <3>2 DEF LineAt
    <3> QED
      BY <3>2, <3>3
  <2> QED
    BY <1>1, <2>1, <2>2, <2>3, <2>4 DEF Context
<1>2. CASE ~(l > 1)
  BY <1>2 DEF Context
<1> QED
  BY <1>1, <1>2

\* It is in the same merge.
LEMMA InContextSame ==
  ASSUME NEW s, NEW c, NEW t, NEW d, NEW l \in Nat \ {0}, SameCalls(s, c, t, d, l - 1), d[l] = c[l],
         NEW ns, InContext(s, ns, c, l), c[l].owner = 0 \/ t[l].op \in {"unmarshal", "alias", "mapping"}
  PROVE  InContext(t, ns, d, l)
<1>1. PICK x, k : x = c[l] /\ k = l - 1
  OBVIOUS
<1>2. k \in Nat /\ SameCalls(s, c, t, d, k)
  BY <1>1
<1>3. ASSUME x.owner # 0
      PROVE  t[x.owner].op = "mapping" /\ t[x.owner].owner = x.owner /\ t[x.owner].target = x.target
  <2>1. /\ x.owner \in 1..k
        /\ s[x.owner].op = "mapping" /\ s[x.owner].owner = x.owner /\ s[x.owner].target = x.target
    BY <1>1, <1>3 DEF InContext
  <2>2. /\ t[x.owner].op = s[x.owner].op
        /\ t[x.owner].op = "mapping" =>
             t[x.owner].owner = s[x.owner].owner /\ t[x.owner].target = s[x.owner].target
    BY <1>2, <2>1, CallsAlike
  <2> QED
    BY <2>1, <2>2
<1> QED
  BY <1>1, <1>3 DEF InContext

\* It has the same owner and set, or another or none.
LEMMA NestingSame ==
  ASSUME NEW s, NEW c, NEW t, NEW d, NEW l \in Nat \ {0}, SameCalls(s, c, t, d, l - 1),
         Inner(s, c, l), Nested(s, c, l), t[l].op = "merge" <=> s[l].op = "merge",
         OwnerOf(t, d, l) \in {0, l, OwnerOf(s, c, l)}, SetOf(t, d, l) \in {0, SetOf(s, c, l)}
  PROVE  Inner(t, d, l) /\ Nested(t, d, l)
<1>1. PICK k : k = l - 1
  OBVIOUS
<1>2. k \in Nat /\ SameCalls(s, c, t, d, k)
  BY <1>1
<1>3. \A q \in 1..k : t[q].op = s[q].op /\ SetOf(t, d, q) = SetOf(s, c, q)
  BY <1>2, CallsAlike
<1>4. \A q \in 1..k : Calling(t, q) <=> Calling(s, q)
  <2> TAKE q \in 1..k
  <2>1. q + 1 \in 1..k \/ q + 1 = l
    BY <1>1
  <2> QED
    BY <1>3, <2>1 DEF Calling
<1>5. Inner(t, d, l)
  <2> SUFFICES ASSUME OwnerOf(t, d, l) # 0
               PROVE  /\ OwnerOf(t, d, l) \in 1..l
                      /\ \A q \in OwnerOf(t, d, l)..k :
                           t[q].op \in {"alias", "merge", "mapping"} /\ ~Calling(t, q)
    BY <1>1 DEF Inner
  <2>1. PICK o : o = OwnerOf(t, d, l)
    OBVIOUS
  <2>2. CASE o = l
    <3>1. o \in 1..l /\ o..k = {}
      BY <1>1, <2>2
    <3> QED
      BY <2>1, <3>1
  <2>3. CASE o # l
    <3>1. o = OwnerOf(s, c, l) /\ o # 0
      BY <2>1, <2>3
    <3>2. o \in 1..l /\ \A q \in o..k : s[q].op \in {"alias", "merge", "mapping"} /\ ~Calling(s, q)
      BY <1>1, <3>1 DEF Inner
    <3>3. \A q \in o..k : q \in 1..k
      BY <1>2, <3>2
    <3> QED
      BY <1>3, <1>4, <2>1, <3>2, <3>3
  <2> QED
    BY <2>2, <2>3
<1>6. Nested(t, d, l)
  <2> SUFFICES ASSUME SetOf(t, d, l) # 0, NEW q \in 1..k, Calling(t, q)
               PROVE  SetOf(t, d, q) < SetOf(t, d, l)
    BY <1>1 DEF Nested
  <2>1. SetOf(s, c, l) = SetOf(t, d, l) /\ Calling(s, q) /\ SetOf(t, d, q) = SetOf(s, c, q)
    BY <1>3, <1>4
  <2>2. SetOf(s, c, q) < SetOf(s, c, l)
    BY <1>1, <2>1 DEF Nested
  <2> QED
    BY <2>1, <2>2
<1> QED
  BY <1>5, <1>6

\* They are as they should be.
LEMMA FramesSame ==
  ASSUME NEW s, NEW c, NEW t, NEW d, NEW k \in Nat, SameCalls(s, c, t, d, k),
         NEW ns, NEW b, Frames(s, ns, b, c, k)
  PROVE  Frames(t, ns, b, d, k)
<1> SUFFICES ASSUME NEW l \in 1..k
             PROVE  FrameAt(t, ns, b, d, l) /\ Inner(t, d, l) /\ Nested(t, d, l)
  BY DEF Frames
<1>0. FrameAt(s, ns, b, c, l) /\ Inner(s, c, l) /\ Nested(s, c, l)
  BY DEF Frames
<1>1. l \in Nat \ {0} /\ SameCalls(s, c, t, d, l - 1) /\ Frames(s, ns, b, c, l - 1)
  <2>1. 1..l - 1 \subseteq 1..k
    OBVIOUS
  <2> QED
    BY <2>1 DEF SameCalls, Frames
<1>2. /\ t[l].op = s[l].op /\ t[l].node = s[l].node /\ d[l] = c[l]
      /\ t[l].op # "mapping" => t[l] = s[l]
      /\ OwnerOf(t, d, l) = OwnerOf(s, c, l) /\ SetOf(t, d, l) = SetOf(s, c, l)
  BY CallsAlike
<1>3. Refills(s[l], t[l])
  BY DEF SameCalls
<1>4. Context(s, ns, b, c, l) /\ InContext(s, ns, c, l)
  BY <1>0 DEF FrameAt
<1>5. Context(t, ns, b, d, l)
  BY <1>1, <1>2, <1>4, ContextSame
<1>6. c[l].owner = 0 \/ t[l].op \in {"unmarshal", "alias", "mapping"}
  BY <1>2, <1>4 DEF InContext
<1>7. InContext(t, ns, d, l)
  BY <1>1, <1>2, <1>4, <1>6, InContextSame
<1>8. t[l].op = "mapping" => MappingFrame(t[l], ns, d[l], l)
  BY <1>0, <1>2, <1>3 DEF FrameAt, MappingFrame, Refills
<1>9. t[l].op = "merge" => MergeFrame(t, ns, b, l)
  <2> SUFFICES ASSUME t[l].op = "merge" PROVE MergeFrame(t, ns, b, l)
    OBVIOUS
  <2>1. s[l].op = "merge" /\ t[l] = s[l]
    BY <1>2
  <2>2. MergeFrame(s, ns, b, l) /\ l - 1 \in 1..k /\ s[l - 1].op = "mapping"
    BY <2>1, MergeBelow
  <2>3. /\ t[l - 1].op = s[l - 1].op /\ t[l - 1].node = s[l - 1].node
        /\ t[l - 1].own = s[l - 1].own /\ t[l - 1].owner = s[l - 1].owner
    BY <2>2, CallsAlike
  <2> QED
    BY <2>1, <2>2, <2>3 DEF MergeFrame
<1>10. /\ t[l].op = "unmarshal" => UnmarshalAt(t[l], ns, d[l])
       /\ t[l].op = "alias" => AliasAt(t[l], ns, d[l])
       /\ t[l].op = "unmarshaler" => (t[l].result = "type_error" => t[l].issues > 0)
  BY <1>0, <1>2 DEF FrameAt
<1>11. Inner(t, d, l) /\ Nested(t, d, l)
  BY <1>0, <1>1, <1>2, NestingSame
<1> QED
  BY <1>5, <1>7, <1>8, <1>9, <1>10, <1>11 DEF FrameAt

\* A map is filled as it was.
LEMMA DoneSame ==
  ASSUME NEW s, NEW te, NEW ns, NEW mg, NEW o, NEW past, NEW now, NEW n, NEW due, NEW set,
         Done(s, te, ns, mg, o, past, now, n, due, set),
         NEW t, t[o].out = s[o].out, t[o].target = s[o].target,
         NEW ue, Excused(s, te, o) => Excused(t, ue, o),
         NEW ng, set # 0 => ng[set] = mg[set]
  PROVE  Done(t, ue, ns, ng, o, past, now, n, due, set)
<1>1. Filling(s[o], Excused(s, te, o), ns, past, now, n) /\ Marks(mg, ns, past, now, due, set)
  BY DEF Done
<1>2. Filling(t[o], Excused(t, ue, o), ns, past, now, n)
  BY <1>1 DEF Filling
<1>3. Marks(ng, ns, past, now, due, set)
  BY Zenon, <1>1 DEF Marks
<1> QED
  BY <1>2, <1>3 DEF Done

\* What a mapping has merged and decoded is the same.
LEMMA TipSame ==
  ASSUME NEW s, NEW ns, NEW c, NEW mg, NEW te, NEW l, NEW p, MappingTip(s, ns, c, mg, te, l, p),
         s[l].op = "mapping", NEW t, Refills(s[l], t[l]), NEW d, d[l] = c[l],
         t[s[l].owner].out = s[s[l].owner].out, t[s[l].owner].target = s[s[l].owner].target,
         NEW ue, Excused(s, te, s[l].owner) => Excused(t, ue, s[l].owner),
         NEW ng, s[l].own # 0 => ng[s[l].own] = mg[s[l].own]
  PROVE  MappingTip(t, ns, d, ng, ue, l, p)
<1>1. PICK f, g : f = s[l] /\ g = t[l]
  OBVIOUS
<1>2. g.node = f.node /\ g.i = f.i /\ g.own = f.own /\ g.owner = f.owner /\ g.target = f.target
  BY <1>1 DEF Refills
<1>3. PICK due : due = IF p THEN {ns[f.node].content[f.i].key} ELSE {}
  BY Zenon
<1>4. /\ p => f.i \in DOMAIN ns[f.node].content /\ ns[f.node].content[f.i].key \in f.target.fields \cap Keys
      /\ Done(s, te, ns, mg, f.owner, c[l].line, Before(ns, f), f.node, due, f.own)
  BY Zenon, <1>1, <1>3 DEF MappingTip
<1>5. Done(t, ue, ns, ng, f.owner, c[l].line, Before(ns, f), f.node, due, f.own)
  <2>1. PICK o, past, now, n, set :
          o = f.owner /\ past = c[l].line /\ now = Before(ns, f) /\ n = f.node /\ set = f.own
    OBVIOUS
  <2>2. /\ Done(s, te, ns, mg, o, past, now, n, due, set)
        /\ t[o].out = s[o].out /\ t[o].target = s[o].target
        /\ Excused(s, te, o) => Excused(t, ue, o)
        /\ set # 0 => ng[set] = mg[set]
    BY <1>1, <1>4, <2>1
  <2>3. Done(t, ue, ns, ng, o, past, now, n, due, set)
    BY <2>2, DoneSame
  <2> QED
    BY <2>1, <2>3
<1>6. Before(ns, g) = Before(ns, f)
  BY <1>2 DEF Before
<1> QED
  BY Zenon, <1>1, <1>2, <1>3, <1>4, <1>5, <1>6 DEF MappingTip

\* So are the mappings below that decode values.
LEMMA CallersSame ==
  ASSUME NEW s, NEW c, NEW t, NEW d, NEW k \in Nat, SameCalls(s, c, t, d, k),
         NEW ns, NEW mg, NEW te, Callers(s, ns, c, mg, te, k - 1), NEW ng, NEW ue,
         \A l \in 1..k - 1 : Calling(s, l) =>
           /\ t[s[l].owner].out = s[s[l].owner].out /\ t[s[l].owner].target = s[s[l].owner].target
           /\ Excused(s, te, s[l].owner) => Excused(t, ue, s[l].owner)
           /\ s[l].own # 0 => ng[s[l].own] = mg[s[l].own]
  PROVE  Callers(t, ns, d, ng, ue, k - 1)
<1> SUFFICES ASSUME NEW l \in 1..k - 1
             PROVE  t[l].op # "unmarshal" /\ (Calling(t, l) => MappingTip(t, ns, d, ng, ue, l, TRUE))
  BY DEF Callers
<1>1. l \in 1..k /\ l + 1 \in 1..k /\ l \in 1..(l + 1) - 1
  OBVIOUS
<1>2. Refills(s[l], t[l]) /\ d[l] = c[l]
  BY <1>1 DEF SameCalls
<1>3. t[l].op = s[l].op /\ s[l].op # "unmarshal"
  <2>1. t[l].op = s[l].op
    BY <1>1, CallsAlike
  <2> QED
    BY <2>1 DEF Callers
<1>4. ASSUME Calling(t, l)
      PROVE  MappingTip(t, ns, d, ng, ue, l, TRUE)
  <2>1. Calling(s, l)
    BY <1>1, <1>4, CallsAlike
  <2>2. MappingTip(s, ns, c, mg, te, l, TRUE) /\ s[l].op = "mapping"
    BY <2>1 DEF Callers, Calling
  <2> QED
    BY <1>2, <2>1, <2>2, TipSame
<1> QED
  BY <1>3, <1>4

-----------------------------------------------------------------------------
(* Calls and their owners                                                    *)

\* The owner of a mapping is a mapping that owns itself.
LEMMA OwnerFacts ==
  ASSUME NEW s, NEW ns, NEW b, NEW c, NEW m \in Nat, Frames(s, ns, b, c, m),
         NEW l \in 1..m, s[l].op = "mapping"
  PROVE  /\ s[l].owner \in 1..l /\ s[s[l].owner].op = "mapping" /\ s[s[l].owner].owner = s[l].owner
         /\ s[s[l].owner].target = s[l].target /\ MappingFields \subseteq DOMAIN s[s[l].owner]
         /\ s[l].own \in Nat /\ s[l].own = c[l].set /\ c[l].line \in Seq(Mappings(ns))
         /\ s[l].own = 0 => s[l].owner = l /\ c[l] = None
         /\ MappingFrame(s[l], ns, c[l], l)
<1>1. InContext(s, ns, c, l) /\ MappingFrame(s[l], ns, c[l], l)
  BY DEF Frames, FrameAt
<1>2. CASE c[l].owner = 0
  <2>1. c[l] = None /\ s[l].owner = l /\ s[l].own = 0
    BY <1>1, <1>2 DEF InContext, MappingFrame, None
  <2> QED
    BY <1>1, <2>1 DEF InContext, MappingFrame
<1>3. CASE c[l].owner # 0
  <2>1. PICK o : o = c[l].owner
    OBVIOUS
  <2>2. /\ o \in 1..l - 1 /\ s[o].op = "mapping" /\ s[o].owner = o /\ s[o].target = c[l].target
        /\ c[l].set \in Nat \ {0}
    BY <1>1, <1>3, <2>1 DEF InContext
  <2>3. s[l].owner = o /\ s[l].own = c[l].set /\ s[l].target = c[l].target
    BY <1>1, <1>3, <2>1 DEF MappingFrame
  <2>4. o \in 1..m /\ o \in 1..l
    BY <2>2
  <2>5. MappingFields \subseteq DOMAIN s[o]
    BY <2>2, <2>4 DEF Frames, FrameAt, MappingFrame
  <2> QED
    BY <1>1, <2>2, <2>3, <2>4, <2>5 DEF InContext
<1> QED
  BY <1>2, <1>3

\* A mapping that decodes a value is below the owner of the innermost call, and its set
\* is an earlier one.
LEMMA CallerBelow ==
  ASSUME NEW s, NEW ns, NEW b, NEW c, NEW m \in Nat \ {0}, Frames(s, ns, b, c, m),
         NEW l \in 1..m - 1, Calling(s, l)
  PROVE  /\ OwnerOf(s, c, m) # 0 => l < OwnerOf(s, c, m) /\ s[l].owner < OwnerOf(s, c, m)
         /\ SetOf(s, c, m) # 0 => s[l].own < SetOf(s, c, m)
         /\ s[l].owner \in 1..l /\ s[l].own \in Nat
<1>1. Inner(s, c, m) /\ Nested(s, c, m) /\ l \in 1..m /\ s[l].op = "mapping"
  BY DEF Frames, Calling
<1>2. s[l].owner \in 1..l /\ s[l].own \in Nat
  BY <1>1, OwnerFacts
<1>3. ASSUME OwnerOf(s, c, m) # 0
      PROVE  l < OwnerOf(s, c, m)
  <2>1. PICK o : o = OwnerOf(s, c, m)
    OBVIOUS
  <2>2. o \in 1..m /\ \A q \in o..m - 1 : ~Calling(s, q)
    BY <1>1, <1>3, <2>1 DEF Inner
  <2>3. l \notin o..m - 1
    BY <2>2
  <2> QED
    BY <2>1, <2>2, <2>3
<1>4. ASSUME OwnerOf(s, c, m) # 0
      PROVE  s[l].owner < OwnerOf(s, c, m)
  <2>1. OwnerOf(s, c, m) \in 1..m
    BY <1>1, <1>4 DEF Inner
  <2> QED
    BY <1>2, <1>3, <1>4, <2>1
<1>5. SetOf(s, c, l) = s[l].own
  BY <1>1 DEF SetOf
<1>6. SetOf(s, c, m) # 0 => s[l].own < SetOf(s, c, m)
  BY <1>1, <1>5 DEF Nested
<1> QED
  BY <1>2, <1>3, <1>4, <1>6

\* All levels below the innermost, and the innermost.
LEMMA Assemble ==
  ASSUME NEW ns, NEW b, Settled(b, ns), NEW t, NEW k \in Nat \ {0}, Len(t) = k, DOMAIN t = 1..k,
         NEW d, DOMAIN d = 1..k, NEW mg, NEW te, NEW q, NEW mf,
         Frames(t, ns, b, d, k - 1), FrameAt(t, ns, b, d, k), Inner(t, d, k), Nested(t, d, k),
         Callers(t, ns, d, mg, te, k - 1), TopTip(t, q, ns, b, d, mg, te, k), mf = Current(t, d, k),
         q # "error", q = "bad" => te > 0
  PROVE  MergeOf(t, q, ns, b, d, mg, te, mf)
<1>1. \A l \in 1..k : l \in 1..k - 1 \/ l = k
  OBVIOUS
<1>2. Frames(t, ns, b, d, k)
  BY <1>1 DEF Frames
<1> QED
  BY <1>2 DEF MergeOf

\* A call is made that is in no merge.
LEMMA PushPlain ==
  ASSUME NEW ns, NEW b, Settled(b, ns), NEW t, NEW k \in Nat \ {0}, Len(t) = k + 1, DOMAIN t = 1..k + 1,
         NEW d, DOMAIN d = 1..k + 1, d[k + 1] = None, NEW v \in 0..Len(ns), t[k + 1] = Unmarshal(v, 0),
         t[k].op \in {"sequence", "mapping", "unmarshaler"}, NEW mg, NEW te,
         Frames(t, ns, b, d, k), Callers(t, ns, d, mg, te, k)
  PROVE  MergeOf(t, "none", ns, b, d, mg, te, 0)
<1>1. PICK l : l = k + 1
  OBVIOUS
<1>2. l \in Nat \ {0} /\ l - 1 = k /\ Len(t) = l /\ DOMAIN t = 1..l /\ DOMAIN d = 1..l /\ d[l] = None
  BY <1>1
<1>3. t[l].op = "unmarshal" /\ t[l].node = v /\ t[l].into = 0
  BY <1>1 DEF Unmarshal
<1>4. None.owner = 0 /\ None.set = 0 /\ None.line = <<>>
  BY DEF None
<1>5. Context(t, ns, b, d, l)
  BY <1>2 DEF Context
<1>6. InContext(t, ns, d, l)
  BY <1>2, <1>4 DEF InContext
<1>7. FrameAt(t, ns, b, d, l)
  BY <1>2, <1>3, <1>4, <1>5, <1>6 DEF FrameAt, UnmarshalAt
<1>8. OwnerOf(t, d, l) = 0 /\ SetOf(t, d, l) = 0 /\ Current(t, d, l) = 0
  BY <1>2, <1>3, <1>4 DEF OwnerOf, SetOf, Current
<1>9. Inner(t, d, l) /\ Nested(t, d, l)
  BY <1>8 DEF Inner, Nested
<1>10. TopTip(t, "none", ns, b, d, mg, te, l)
  BY <1>2, <1>3, <1>4 DEF TopTip, UnmarshalTip
<1> QED
  BY <1>2, <1>7, <1>8, <1>9, <1>10, Assemble

-----------------------------------------------------------------------------
(* Calls return                                                              *)

\* An error that has been noted is not taken back as calls return.
LEMMA ExcusedLess ==
  ASSUME NEW s, NEW t, NEW m \in Nat, Len(s) = m, NEW j \in 0..m, Len(t) = j, \A l \in 1..j : t[l] = s[l],
         NEW te \in Nat, NEW ue \in Nat, te <= ue, NEW o \in Nat, Excused(s, te, o)
  PROVE  Excused(t, ue, o)
<1>1. ue > 0
  BY DEF Excused
<1>2. ASSUME NEW p \in o + 1..j, t[p].op = "unmarshaler"
      PROVE  t[p].terrlen > 0
  <2>1. p \in o + 1..m /\ t[p] = s[p]
    OBVIOUS
  <2> QED
    BY <1>2, <2>1 DEF Excused
<1> QED
  BY <1>1, <1>2 DEF Excused

\* The first j calls of s remain, in t.
Remain(s, m, c, mg, te, j, t, d, ng, ue) ==
  /\ m \in Nat /\ j \in 0..m - 1 /\ s[j + 1].op # "merge"
  /\ IsSequence(t) /\ Len(t) = j /\ DOMAIN t = 1..j /\ DOMAIN d = 1..j
  /\ \A l \in 1..j : t[l] = s[l] /\ d[l] = c[l]
  /\ \A l \in 1..j : Calling(s, l) /\ s[l].own # 0 => ng[s[l].own] = mg[s[l].own]
  /\ \A o \in 1..j : Excused(s, te, o) => Excused(t, ue, o)

\* The calls that are left.
LEMMA LeaveCalls ==
  ASSUME NEW s, NEW m, NEW ns, NEW b, NEW c, Frames(s, ns, b, c, m), NEW mg, NEW te,
         Callers(s, ns, c, mg, te, m - 1), NEW j, NEW t, NEW d, NEW ng, NEW ue,
         Remain(s, m, c, mg, te, j, t, d, ng, ue)
  PROVE  /\ SameCalls(s, c, t, d, j) /\ Frames(t, ns, b, d, j) /\ Callers(t, ns, d, ng, ue, j - 1)
         /\ \A l \in 1..j : t[l].op # "unmarshal"
         /\ j # 0 /\ t[j].op = "mapping" => MappingTip(t, ns, d, ng, ue, j, TRUE)
<1>0. /\ m \in Nat /\ j \in 0..m - 1
      /\ \A l \in 1..j : t[l] = s[l] /\ d[l] = c[l]
      /\ \A l \in 1..j : Calling(s, l) /\ s[l].own # 0 => ng[s[l].own] = mg[s[l].own]
      /\ \A o \in 1..j : Excused(s, te, o) => Excused(t, ue, o)
      /\ s[j + 1].op # "merge"
  BY DEF Remain
<1>1. SameCalls(s, c, t, d, j)
  BY <1>0 DEF SameCalls, Refills
<1>2. Frames(s, ns, b, c, j)
  BY <1>0 DEF Frames
<1>3. Frames(t, ns, b, d, j)
  BY <1>0, <1>1, <1>2, FramesSame
<1>4. ASSUME NEW l \in 1..j, Calling(s, l)
      PROVE  /\ t[s[l].owner] = s[s[l].owner]
             /\ Excused(s, te, s[l].owner) => Excused(t, ue, s[l].owner)
             /\ s[l].own # 0 => ng[s[l].own] = mg[s[l].own]
  <2>1. l \in 1..m /\ s[l].op = "mapping"
    BY <1>0, <1>4 DEF Calling
  <2>2. s[l].owner \in 1..l
    BY <1>0, <2>1, OwnerFacts
  <2>3. s[l].owner \in 1..j
    BY <1>0, <2>2
  <2> QED
    BY <1>0, <1>4, <2>3
<1>5. Callers(s, ns, c, mg, te, j - 1)
  <2>1. 1..j - 1 \subseteq 1..m - 1
    BY <1>0
  <2> QED
    BY <2>1 DEF Callers
<1>6. \A l \in 1..j - 1 : l \in 1..j
  BY <1>0
<1>7. Callers(t, ns, d, ng, ue, j - 1)
  BY <1>0, <1>1, <1>4, <1>5, <1>6, CallersSame
<1>8. ASSUME NEW l \in 1..j
      PROVE  t[l].op # "unmarshal"
  <2>1. l \in 1..m - 1 /\ t[l] = s[l]
    BY <1>0
  <2> QED
    BY <2>1 DEF Callers
<1>9. ASSUME j # 0, t[j].op = "mapping"
      PROVE  MappingTip(t, ns, d, ng, ue, j, TRUE)
  <2>1. j \in 1..j /\ j \in 1..m - 1 /\ t[j] = s[j] /\ d[j] = c[j]
    BY <1>0, <1>9
  <2>2. Calling(s, j)
    BY <1>0, <1>9, <2>1 DEF Calling
  <2>3. MappingTip(s, ns, c, mg, te, j, TRUE)
    BY <2>1, <2>2 DEF Callers
  <2>4. Refills(s[j], t[j])
    BY <2>1 DEF Refills
  <2>5. /\ t[s[j].owner] = s[s[j].owner] /\ s[j].op = "mapping"
        /\ Excused(s, te, s[j].owner) => Excused(t, ue, s[j].owner)
        /\ s[j].own # 0 => ng[s[j].own] = mg[s[j].own]
    BY <1>4, <1>9, <2>1, <2>2
  <2>6. t[s[j].owner].out = s[s[j].owner].out /\ t[s[j].owner].target = s[s[j].owner].target
    BY <2>5
  <2> QED
    BY <2>1, <2>3, <2>4, <2>5, <2>6, TipSame
<1> QED
  BY <1>1, <1>3, <1>7, <1>8, <1>9

\* A call that was in no merge returns.
LEMMA LeavePlain ==
  ASSUME NEW s, NEW m, NEW ns, NEW b, Settled(b, ns), NEW c, Frames(s, ns, b, c, m), NEW mg, NEW te,
         Callers(s, ns, c, mg, te, m - 1), NEW j, NEW t, NEW d, NEW ng, NEW ue,
         Remain(s, m, c, mg, te, j, t, d, ng, ue),
         c[j + 1].owner = 0, NEW q \in {"good", "bad"}, q = "bad" => ue > 0
  PROVE  MergeOf(t, q, ns, b, d, ng, ue, 0)
<1>0. /\ m \in Nat /\ j \in 0..m - 1 /\ s[j + 1].op # "merge"
      /\ IsSequence(t) /\ Len(t) = j /\ DOMAIN t = 1..j /\ DOMAIN d = 1..j
      /\ \A l \in 1..j : t[l] = s[l] /\ d[l] = c[l]
  BY DEF Remain
<1>1. /\ SameCalls(s, c, t, d, j) /\ Frames(t, ns, b, d, j) /\ Callers(t, ns, d, ng, ue, j - 1)
      /\ \A l \in 1..j : t[l].op # "unmarshal"
      /\ j # 0 /\ t[j].op = "mapping" => MappingTip(t, ns, d, ng, ue, j, TRUE)
  BY LeaveCalls
<1>2. CASE j = 0
  <2>1. t = <<>>
    BY <1>0, <1>2 DEF IsSequence
  <2> QED
    BY <1>0, <1>1, <1>2, <2>1 DEF MergeOf
<1>3. CASE j # 0
  <2>1. /\ j \in Nat \ {0} /\ j \in 1..j /\ j + 1 \in 1..m /\ j + 1 > 1 /\ (j + 1) - 1 = j
        /\ t[j] = s[j] /\ d[j] = c[j]
    BY <1>0, <1>3
  <2>2. Context(s, ns, b, c, j + 1)
    BY <2>1 DEF Frames, FrameAt
  <2>3. s[j].op # "merge"
    <3> SUFFICES ASSUME s[j].op = "merge" PROVE FALSE
      OBVIOUS
    <3>1. j \in 1..m /\ m \in Nat
      BY <1>0, <2>1
    <3>2. c[j + 1].owner = s[j].owner
      BY <2>1, <2>2 DEF Context
    <3>3. s[j].owner = s[j - 1].owner /\ j - 1 \in 1..m /\ s[j - 1].op = "mapping"
      BY <3>1, MergeBelow DEF MergeFrame
    <3>4. s[j - 1].owner \in 1..j - 1
      BY <3>1, <3>3, OwnerFacts
    <3> QED
      BY <3>2, <3>3, <3>4
  <2>4. s[j].op = "alias" => d[j].owner = 0 /\ d[j].set = 0
    <3> SUFFICES ASSUME s[j].op = "alias" PROVE d[j].owner = 0 /\ d[j].set = 0
      OBVIOUS
    <3>1. c[j + 1] = c[j]
      BY <2>1, <2>2 DEF Context
    <3>2. InContext(s, ns, c, j + 1)
      BY <2>1 DEF Frames, FrameAt
    <3>3. c[j + 1] = None
      BY <3>2 DEF InContext
    <3> QED
      BY <2>1, <3>1, <3>3 DEF None
  <2>5. TopTip(t, q, ns, b, d, ng, ue, j)
    <3>1. q # "none"
      OBVIOUS
    <3>2. t[j].op = "mapping" => MappingTip(t, ns, d, ng, ue, j, q # "none")
      BY <1>1, <1>3, <3>1
    <3>3. t[j].op = "alias" => AliasTip(t, ns, b, ng, ue, d[j])
      BY <2>1, <2>4 DEF AliasTip
    <3> QED
      BY <1>1, <2>1, <2>3, <3>2, <3>3 DEF TopTip
  <2>6. Current(t, d, j) = 0
    BY <1>1, <2>1, <2>3, <2>4 DEF Current
  <2>7. Frames(t, ns, b, d, j - 1) /\ FrameAt(t, ns, b, d, j) /\ Inner(t, d, j) /\ Nested(t, d, j)
    BY <1>1, <2>1 DEF Frames
  <2>8. q # "error"
    BY Zenon
  <2> QED
    BY <1>0, <1>1, <2>1, <2>5, <2>6, <2>7, <2>8, Assemble
<1> QED
  BY <1>2, <1>3

-----------------------------------------------------------------------------
(* A mapping has been merged                                                 *)

\* Sequences behind one another can be grouped in any way.
Associative(S) == \A x, y, z \in Seq(S) : (x \o y) \o z = x \o (y \o z)
LEMMA SequencesAssociate ==
  ASSUME NEW S
  PROVE  Associative(S)
<1>1. ASSUME NEW x \in Seq(S), NEW y \in Seq(S), NEW z \in Seq(S)
      PROVE  (x \o y) \o z = x \o (y \o z)
  BY ConcatAssociative
<1> QED
  BY Zenon, <1>1 DEF Associative

\* A sequence behind the empty one.
AfterNothing(S) == \A x \in Seq(S) : <<>> \o x = x
LEMMA SequencesAfterNothing ==
  ASSUME NEW S
  PROVE  AfterNothing(S)
<1>1. \A x \in Seq(S) : <<>> \o x = x
  BY ConcatEmptySeq
<1> QED
  BY Zenon, <1>1 DEF AfterNothing

\* Four sequences behind one another, grouped differently.
Regroups(S) == \A x, w, y, z \in Seq(S) : x \o (w \o (y \o z)) = (x \o (w \o y)) \o z
LEMMA SequencesRegroup ==
  ASSUME NEW S
  PROVE  Regroups(S)
<1> DEFINE Cat(u, v) == u \o v
<1>1. Associative(S)
  BY SequencesAssociate
<1>2. \A u, v, r \in Seq(S) : Cat(Cat(u, v), r) = Cat(u, Cat(v, r))
  BY Zenon, <1>1 DEF Associative
<1>3. \A u, v \in Seq(S) : Cat(u, v) \in Seq(S)
  BY ConcatProperties
<1> HIDE DEF Cat
<1>4. \A x, w, y, z \in Seq(S) : Cat(x, Cat(w, Cat(y, z))) = Cat(Cat(x, Cat(w, y)), z)
  BY <1>2, <1>3
<1> QED
  BY Zenon, <1>4 DEF Cat, Regroups

\* The line of a merge with one source more.
LEMMA LineMore ==
  ASSUME NEW s, NEW ns, NEW b, Settled(b, ns), NEW c, NEW l, c[l - 1].line \in Seq(Mappings(ns)),
         s[l - 1].node \in Mappings(ns), NEW j \in Nat,
         \A i \in 1..j + 1 : Source(ns, s[l - 1].node, i) \in DOMAIN b
  PROVE  LineAt(s, ns, b, c, l, j + 1) =
           LineAt(s, ns, b, c, l, j) \o b[Source(ns, s[l - 1].node, j + 1)].line
<1>1. PICK S, x, n, y, z :
        /\ S = Mappings(ns) /\ x = c[l - 1].line /\ n = s[l - 1].node /\ y = Lines(b, ns, n, j)
        /\ z = b[Source(ns, n, j + 1)].line
  OBVIOUS
<1>2. x \in Seq(S) /\ <<n>> \in Seq(S)
  BY <1>1
<1>3. y \in Seq(S)
  <2>1. \A i \in 1..j : Source(ns, n, i) \in DOMAIN b
    BY <1>1
  <2> QED
    BY <1>1, <2>1, LinesType
<1>4. z \in Seq(S)
  <2>1. j + 1 \in 1..j + 1
    OBVIOUS
  <2>2. Source(ns, n, j + 1) \in DOMAIN b
    BY <1>1, <2>1
  <2> QED
    BY <1>1, <2>2 DEF Settled
<1>5. Lines(b, ns, n, j + 1) = y \o z
  BY <1>1, LinesMore
<1>6. x \o (<<n>> \o (y \o z)) = (x \o (<<n>> \o y)) \o z
  <2>1. PICK w : w = <<n>>
    OBVIOUS
  <2>2. x \in Seq(S) /\ w \in Seq(S) /\ y \in Seq(S) /\ z \in Seq(S)
    BY Zenon, <1>2, <1>3, <1>4, <2>1
  <2>3. Regroups(S)
    BY SequencesRegroup
  <2> DEFINE Cat(u, v) == u \o v
  <2>4. \A p, q, u, v \in Seq(S) : Cat(p, Cat(q, Cat(u, v))) = Cat(Cat(p, Cat(q, u)), v)
    BY Zenon, <2>3 DEF Regroups
  <2> HIDE DEF Cat
  <2>5. Cat(x, Cat(w, Cat(y, z))) = Cat(Cat(x, Cat(w, y)), z)
    BY <2>2, <2>4
  <2> QED
    BY Zenon, <2>1, <2>5 DEF Cat
<1>7. /\ LineAt(s, ns, b, c, l, j + 1) = x \o (<<n>> \o (y \o z))
      /\ LineAt(s, ns, b, c, l, j) = x \o (<<n>> \o y)
  BY Zenon, <1>1, <1>5 DEF LineAt
<1> QED
  BY Zenon, <1>1, <1>6, <1>7

\* Who gives a key when one mapping more has been merged.
LEMMA GivesNext ==
  ASSUME NEW S, NEW line \in Seq(S), NEW n \in S, NEW next, next = line \o <<n>>, NEW ns, NEW k
  PROVE  /\ Has(ns, next, k) <=> Has(ns, line, k) \/ k \in OwnKeys(ns, n)
         /\ \A x : Gives(ns, line, k, x) => Gives(ns, next, k, x)
         /\ ~Has(ns, line, k) /\ k \in OwnKeys(ns, n) => Gives(ns, next, k, n)
<1>1. PICK m : m = Len(line)
  OBVIOUS
<1>2. m \in Nat /\ DOMAIN line = 1..m
  BY <1>1
<1>3. <<n>> \in Seq(S) /\ Len(<<n>>) = 1 /\ <<n>>[1] = n
  OBVIOUS
<1>4. /\ next \in Seq(S) /\ Len(next) = m + 1
      /\ \A i \in 1..m + 1 : next[i] = IF i <= m THEN line[i] ELSE <<n>>[i - m]
  BY <1>1, <1>3, ConcatProperties
<1>5. DOMAIN next = 1..m + 1
  BY <1>2, <1>4
<1>6. \A i \in 1..m : next[i] = line[i]
  BY <1>2, <1>4
<1>7. next[m + 1] = n
  <2>1. m + 1 \in 1..m + 1 /\ ~(m + 1 <= m) /\ (m + 1) - m = 1
    BY <1>2
  <2> QED
    BY <1>3, <1>4, <2>1
<1>8. \A i \in 1..m + 1 : i \in 1..m \/ i = m + 1
  BY <1>2
<1>9. Has(ns, next, k) <=> Has(ns, line, k) \/ k \in OwnKeys(ns, n)
  <2>1. m + 1 \in 1..m + 1 /\ 1..m \subseteq 1..m + 1
    BY <1>2
  <2>2. ASSUME Has(ns, next, k)
        PROVE  Has(ns, line, k) \/ k \in OwnKeys(ns, n)
    <3>1. PICK j \in 1..m + 1 : k \in OwnKeys(ns, next[j])
      BY <1>5, <2>2 DEF Has
    <3> QED
      BY <1>2, <1>6, <1>7, <1>8, <3>1 DEF Has
  <2>3. ASSUME Has(ns, line, k)
        PROVE  Has(ns, next, k)
    <3>1. PICK j \in 1..m : k \in OwnKeys(ns, line[j])
      BY <1>2, <2>3 DEF Has
    <3> QED
      BY <1>5, <1>6, <2>1, <3>1 DEF Has
  <2>4. ASSUME k \in OwnKeys(ns, n)
        PROVE  Has(ns, next, k)
    BY <1>5, <1>7, <2>1, <2>4 DEF Has
  <2> QED
    BY <2>2, <2>3, <2>4
<1>10. ASSUME NEW x, Gives(ns, line, k, x)
       PROVE  Gives(ns, next, k, x)
  <2>1. PICK j \in 1..m : /\ line[j] = x /\ k \in OwnKeys(ns, x)
                          /\ \A h \in 1..j - 1 : k \notin OwnKeys(ns, line[h])
    BY <1>2, <1>10 DEF Gives
  <2>2. j \in 1..m + 1 /\ next[j] = x
    BY <1>2, <1>6, <2>1
  <2>3. \A h \in 1..j - 1 : next[h] = line[h]
    BY <1>2, <1>6
  <2> QED
    BY <1>5, <2>1, <2>2, <2>3 DEF Gives
<1>11. ASSUME ~Has(ns, line, k), k \in OwnKeys(ns, n)
       PROVE  Gives(ns, next, k, n)
  <2>1. m + 1 \in 1..m + 1 /\ (m + 1) - 1 = m
    BY <1>2
  <2>2. \A h \in 1..m : k \notin OwnKeys(ns, next[h])
    BY <1>2, <1>6, <1>11 DEF Has
  <2> QED
    BY <1>5, <1>7, <1>11, <2>1, <2>2 DEF Gives
<1> QED
  BY <1>9, <1>10, <1>11

\* All keys of a mapping have been decoded: it is one of those merged.
LEMMA DoneNext ==
  ASSUME NEW s, NEW te, NEW ns, NEW mg, NEW o, NEW past \in Seq(Mappings(ns)), NEW n \in Mappings(ns),
         NEW set, Done(s, te, ns, mg, o, past, OwnKeys(ns, n), n, {}, set), NEW next, next = past \o <<n>>
  PROVE  Done(s, te, ns, mg, o, next, {}, 0, {}, set)
<1>1. \A k : /\ Has(ns, next, k) <=> Has(ns, past, k) \/ k \in OwnKeys(ns, n)
             /\ \A x : Gives(ns, past, k, x) => Gives(ns, next, k, x)
             /\ ~Has(ns, past, k) /\ k \in OwnKeys(ns, n) => Gives(ns, next, k, n)
  BY GivesNext
<1>2. Filling(s[o], Excused(s, te, o), ns, past, OwnKeys(ns, n), n) /\ Marks(mg, ns, past, OwnKeys(ns, n), {}, set)
  BY DEF Done
<1>3. Filling(s[o], Excused(s, te, o), ns, next, {}, 0)
  BY <1>1, <1>2 DEF Filling
<1>4. Marks(mg, ns, next, {}, {}, set)
  BY <1>1, <1>2 DEF Marks
<1> QED
  BY <1>3, <1>4 DEF Done

\* A call that was in a merge returns: its mapping has been merged.
LEMMA LeaveMerge ==
  ASSUME NEW s, NEW m, NEW ns, NEW b, Settled(b, ns), NEW c, Frames(s, ns, b, c, m), NEW mg, NEW te,
         Callers(s, ns, c, mg, te, m - 1), NEW j, NEW t, NEW d,
         Remain(s, m, c, mg, te, j, t, d, mg, te),
         NEW x, x = c[j + 1], x.owner # 0, x.goal \in DOMAIN b,
         Done(s, te, ns, mg, x.owner, x.line \o b[x.goal].line, {}, 0, {}, x.set),
         NEW q \in {"good", "bad"}, q = "bad" => te > 0
  PROVE  MergeOf(t, q, ns, b, d, mg, te, x.set)
<1>0. /\ m \in Nat /\ j \in 0..m - 1 /\ s[j + 1].op # "merge"
      /\ IsSequence(t) /\ Len(t) = j /\ DOMAIN t = 1..j /\ DOMAIN d = 1..j
      /\ \A l \in 1..j : t[l] = s[l] /\ d[l] = c[l]
      /\ \A o \in 1..j : Excused(s, te, o) => Excused(t, te, o)
  BY DEF Remain
<1>1. /\ SameCalls(s, c, t, d, j) /\ Frames(t, ns, b, d, j) /\ Callers(t, ns, d, mg, te, j - 1)
      /\ \A l \in 1..j : t[l].op # "unmarshal"
  BY LeaveCalls
<1>2. j + 1 \in 1..m
  BY <1>0
<1>3. Context(s, ns, b, c, j + 1) /\ InContext(s, ns, c, j + 1)
  BY <1>2 DEF Frames, FrameAt
<1>4. x.owner \in 1..(j + 1) - 1 /\ x.set \in Nat \ {0} /\ x.line \in Seq(Mappings(ns))
  BY <1>3 DEF InContext
<1>5. /\ j \in Nat \ {0} /\ j \in 1..j /\ (j + 1) - 1 = j /\ j + 1 > 1 /\ x.owner \in 1..j
      /\ t[j] = s[j] /\ d[j] = c[j] /\ j \in 1..m
  BY <1>0, <1>4
<1>6. s[j].op \in {"merge", "alias"}
  <2> SUFFICES ASSUME s[j].op \notin {"merge", "alias"} PROVE FALSE
    OBVIOUS
  <2>1. c[j + 1] = None
    BY <1>3, <1>5 DEF Context
  <2> QED
    BY <2>1 DEF None
<1>7. PICK y : y = x.line \o b[x.goal].line
  OBVIOUS
<1>8. Done(t, te, ns, mg, x.owner, y, {}, 0, {}, x.set)
  <2>1. t[x.owner] = s[x.owner]
    BY <1>0, <1>5
  <2>2. Excused(s, te, x.owner) => Excused(t, te, x.owner)
    BY <1>0, <1>5
  <2>3. Done(s, te, ns, mg, x.owner, y, {}, 0, {}, x.set)
    BY <1>7
  <2> QED
    BY <2>1, <2>2, <2>3, DoneSame
<1>9. CASE s[j].op = "alias"
  <2>1. d[j] = x
    BY <1>3, <1>5, <1>9 DEF Context
  <2>2. AliasTip(t, ns, b, mg, te, d[j])
    BY <1>7, <1>8, <2>1 DEF AliasTip
  <2>3. TopTip(t, q, ns, b, d, mg, te, j) /\ Current(t, d, j) = x.set
    BY <1>5, <1>9, <2>1, <2>2 DEF TopTip, Current
  <2>4. Frames(t, ns, b, d, j - 1) /\ FrameAt(t, ns, b, d, j) /\ Inner(t, d, j) /\ Nested(t, d, j)
    BY <1>1, <1>5 DEF Frames
  <2>5. q # "error"
    OBVIOUS
  <2> QED
    BY <1>0, <1>1, <1>5, <2>3, <2>4, <2>5, Assemble
<1>10. CASE s[j].op = "merge"
  <2>1. PICK n, i : n = s[j - 1].node /\ i = s[j].i
    OBVIOUS
  <2>2. /\ MergeFrame(s, ns, b, j) /\ n \in Mappings(ns) /\ c[j - 1].line \in Seq(Mappings(ns))
        /\ j - 1 \in 1..m /\ j > 1
    BY <1>0, <1>5, <1>10, <2>1, MergeBelow
  <2>3. /\ i >= 2 /\ x.owner = s[j].owner /\ x.set = s[j].fields /\ x.goal = Source(ns, n, i - 1)
        /\ x.line = LineAt(s, ns, b, c, j, i - 2)
    <3>1. (j + 1) - 2 = j - 1
      BY <1>5
    <3> QED
      BY <1>3, <1>5, <1>10, <2>1, <3>1 DEF Context
  <2>4. i \in Nat \ {0} /\ \A h \in 1..i - 2 : Source(ns, n, h) \in DOMAIN b
    BY <2>1, <2>2 DEF MergeFrame
  <2>5. PICK k : k = i - 2
    OBVIOUS
  <2>6. k \in Nat /\ i - 1 = k + 1
    BY <2>3, <2>4, <2>5
  <2>7. \A h \in 1..k + 1 : Source(ns, n, h) \in DOMAIN b
    <3>1. \A h \in 1..k + 1 : h \in 1..k \/ h = k + 1
      BY <2>6
    <3> QED
      BY <2>3, <2>4, <2>5, <2>6, <3>1
  <2>8. LineAt(s, ns, b, c, j, k + 1) = LineAt(s, ns, b, c, j, k) \o b[Source(ns, n, k + 1)].line
    BY <2>1, <2>2, <2>6, <2>7, LineMore
  <2>9. LineAt(t, ns, b, d, j, k + 1) = LineAt(s, ns, b, c, j, k + 1)
    <3>1. j - 1 \in 1..j
      BY <1>5, <2>2
    <3>2. t[j - 1] = s[j - 1] /\ d[j - 1] = c[j - 1]
      BY <1>0, <3>1
    <3> QED
      BY <3>2 DEF LineAt
  <2>10. LineAt(t, ns, b, d, j, i - 1) = y
    BY <1>7, <2>3, <2>5, <2>6, <2>8, <2>9
  <2>11. t[j].i = i /\ t[j - 1].node = n /\ t[j].owner = x.owner /\ t[j].fields = x.set /\ t[j].op = "merge"
    <3>1. j - 1 \in 1..j
      BY <1>5, <2>2
    <3>2. t[j - 1] = s[j - 1]
      BY <1>0, <3>1
    <3> QED
      BY <1>5, <1>10, <2>1, <2>3, <3>2
  <2>12. MergeTip(t, ns, b, d, mg, te, j)
    BY <1>8, <2>6, <2>7, <2>10, <2>11 DEF MergeTip
  <2>13. TopTip(t, q, ns, b, d, mg, te, j) /\ Current(t, d, j) = x.set
    BY <2>11, <2>12 DEF TopTip, Current
  <2>14. Frames(t, ns, b, d, j - 1) /\ FrameAt(t, ns, b, d, j) /\ Inner(t, d, j) /\ Nested(t, d, j)
    BY <1>1, <1>5 DEF Frames
  <2>15. q # "error"
    OBVIOUS
  <2> QED
    BY <1>0, <1>1, <1>5, <2>13, <2>14, <2>15, Assemble
<1> QED
  BY <1>6, <1>9, <1>10

-----------------------------------------------------------------------------
(* Actions that return                                                       *)

\* What merges have done, in a state, and in the next.
Merging(b, c) == MergeOf(stack, ret, nodes, b, c, merged, terrors, mergedFields)
StepMerges == \E b, c : MergeOf(stack', ret', nodes', b, c, merged', terrors', mergedFields')

\* The innermost call and those below.
LEMMA MergingFacts ==
  ASSUME TypeInv, AliasInv, stack # <<>>, NEW b, NEW c, Merging(b, c), NEW n, n = Len(stack)
  PROVE  /\ n \in Nat \ {0} /\ n - 1 \in Nat /\ n \in 1..n
         /\ IsSequence(stack) /\ DOMAIN stack = 1..n /\ Top = stack[n]
         /\ DOMAIN c = 1..n /\ FrameOK(Top, nodes, Len(merged))
         /\ Tree(nodes) /\ Settled(b, nodes) /\ terrors \in Nat
         /\ Frames(stack, nodes, b, c, n) /\ Frames(stack, nodes, b, c, n - 1)
         /\ FrameAt(stack, nodes, b, c, n) /\ Inner(stack, c, n) /\ Nested(stack, c, n)
         /\ Callers(stack, nodes, c, merged, terrors, n - 1)
         /\ TopTip(stack, ret, nodes, b, c, merged, terrors, n)
         /\ mergedFields = Current(stack, c, n)
         /\ ret # "error" /\ (ret = "bad" => terrors > 0)
<1>1. /\ n \in Nat \ {0} /\ IsSequence(stack) /\ DOMAIN stack = 1..n /\ Top = stack[n]
      /\ FrameOK(Top, nodes, Len(merged))
  BY InnermostFacts
<1>2. Tree(nodes) /\ terrors \in Nat
  BY DEF TypeInv
<1>3. n - 1 \in Nat /\ n \in 1..n /\ 1..n - 1 \subseteq 1..n
  BY <1>1
<1>4. /\ Settled(b, nodes) /\ DOMAIN c = 1..n /\ Frames(stack, nodes, b, c, n)
      /\ Callers(stack, nodes, c, merged, terrors, n - 1)
      /\ TopTip(stack, ret, nodes, b, c, merged, terrors, n) /\ mergedFields = Current(stack, c, n)
      /\ ret # "error" /\ (ret = "bad" => terrors > 0)
  BY <1>1 DEF Merging, MergeOf
<1>5. /\ Frames(stack, nodes, b, c, n - 1)
      /\ FrameAt(stack, nodes, b, c, n) /\ Inner(stack, c, n) /\ Nested(stack, c, n)
  BY <1>3, <1>4 DEF Frames
<1> QED
  BY <1>1, <1>2, <1>3, <1>4, <1>5

\* What is left of the stack when a call returns.
LEMMA RemainFront ==
  ASSUME TypeInv, AliasInv, stack # <<>>, NEW b, NEW c, Merging(b, c), NEW n, n = Len(stack),
         Top.op # "merge", NEW t, t = Front(stack), NEW d, d = [l \in 1..n - 1 |-> c[l]],
         NEW te \in Nat, terrors <= te
  PROVE  Remain(stack, n, c, merged, terrors, n - 1, t, d, merged, te)
<1>1. /\ n \in Nat \ {0} /\ n - 1 \in Nat /\ IsSequence(stack) /\ Top = stack[n] /\ terrors \in Nat
  BY MergingFacts
<1>2. /\ IsSequence(t) /\ Len(t) = n - 1 /\ DOMAIN t = 1..n - 1
      /\ \A l \in 1..n - 1 : t[l] = stack[l]
  BY <1>1, FrontFacts
<1>3. PICK j : j = n - 1
  OBVIOUS
<1>4. j \in 0..n - 1 /\ j + 1 = n /\ j \in 0..n
  BY <1>1, <1>3
<1>5. \A o \in 1..j : Excused(stack, terrors, o) => Excused(t, te, o)
  <2> TAKE o \in 1..j
  <2>1. o \in Nat /\ Len(t) = j /\ \A l \in 1..j : t[l] = stack[l]
    BY <1>2, <1>3, <1>4
  <2> QED
    BY <1>1, <1>4, <2>1, ExcusedLess
<1>6. DOMAIN d = 1..j /\ \A l \in 1..j : d[l] = c[l]
  BY <1>3
<1>7. Remain(stack, n, c, merged, terrors, j, t, d, merged, te)
  BY <1>1, <1>2, <1>3, <1>4, <1>5, <1>6 DEF Remain
<1> QED
  BY <1>3, <1>7

\* A call that was in no merge returns.
LEMMA ReturnsPlain ==
  ASSUME TypeInv, AliasInv, stack # <<>>, NEW b, NEW c, Merging(b, c), c[Len(stack)].owner = 0,
         Top.op # "merge", stack' = Front(stack), nodes' = nodes, merged' = merged, mergedFields' = 0,
         terrors' \in Nat, terrors <= terrors', ret' \in {"good", "bad"}, ret' = "bad" => terrors' > 0
  PROVE  StepMerges
<1>1. PICK n, t, te, q : n = Len(stack) /\ t = Front(stack) /\ te = terrors' /\ q = ret'
  OBVIOUS
<1>2. PICK d : d = [l \in 1..n - 1 |-> c[l]]
  OBVIOUS
<1>3. Remain(stack, n, c, merged, terrors, n - 1, t, d, merged, te)
  BY <1>1, <1>2, RemainFront
<1>4. /\ n \in Nat \ {0} /\ Settled(b, nodes) /\ Frames(stack, nodes, b, c, n)
      /\ Callers(stack, nodes, c, merged, terrors, n - 1)
  BY <1>1, MergingFacts
<1>5. PICK j : j = n - 1
  OBVIOUS
<1>6. j + 1 = n /\ q \in {"good", "bad"} /\ (q = "bad" => te > 0) /\ c[j + 1].owner = 0
  BY <1>1, <1>4, <1>5
<1>7. MergeOf(t, q, nodes, b, d, merged, te, 0)
  BY <1>3, <1>4, <1>5, <1>6, LeavePlain
<1>8. MergeOf(stack', ret', nodes', b, d, merged', terrors', mergedFields')
  BY <1>1, <1>7
<1> QED
  BY <1>8 DEF StepMerges

\* A call in a merge has a node that is decoded as a mapping, or an alias of it.
LEMMA UnmarshalPlain ==
  ASSUME TypeInv, AliasInv, NEW b, NEW c, Merging(b, c), AtCall,
         Top.into = 0 \/ Kind(nodes, Top.node) \notin {"alias", "mapping"}
  PROVE  c[Len(stack)].owner = 0 /\ c[Len(stack)] = None /\ mergedFields = 0
<1>1. stack # <<>> /\ Top.op = "unmarshal"
  BY DEF AtCall
<1>2. PICK n : n = Len(stack)
  OBVIOUS
<1>3. FrameAt(stack, nodes, b, c, n) /\ Top = stack[n] /\ mergedFields = Current(stack, c, n)
  BY <1>1, <1>2, MergingFacts
<1>4. UnmarshalAt(Top, nodes, c[n]) /\ InContext(stack, nodes, c, n)
  BY <1>1, <1>3 DEF FrameAt
<1>5. c[n].owner = 0
  BY <1>4 DEF UnmarshalAt
<1>6. c[n] = None
  BY <1>4, <1>5 DEF InContext
<1>7. mergedFields = 0
  BY <1>1, <1>3, <1>6 DEF Current, None
<1> QED
  BY <1>2, <1>5, <1>6, <1>7

\* A value has been decoded, or does not fit.
LEMMA WholeMerges ==
  ASSUME TypeInv, AliasInv, NEW b, NEW c, Merging(b, c), DecodeWhole \/ Mismatch
  PROVE  StepMerges
<1>1. /\ AtCall /\ stack # <<>> /\ Top.op # "merge" /\ stack' = Front(stack) /\ nodes' = nodes
      /\ merged' = merged /\ mergedFields' = mergedFields
  BY DEF DecodeWhole, Mismatch, AtCall, Return, decoder
<1>2. Top.into = 0 \/ Kind(nodes, Top.node) \notin {"alias", "mapping"}
  BY DEF DecodeWhole, Mismatch
<1>3. terrors \in Nat
  BY DEF TypeInv
<1>4. /\ terrors' \in Nat /\ terrors <= terrors' /\ ret' \in {"good", "bad"}
      /\ ret' = "bad" => terrors' > 0
  BY <1>3 DEF DecodeWhole, Mismatch, Return
<1>5. c[Len(stack)].owner = 0 /\ mergedFields = 0
  BY <1>1, <1>2, UnmarshalPlain
<1> QED
  BY <1>1, <1>4, <1>5, ReturnsPlain

\* A call of another kind is in no merge.
LEMMA OtherPlain ==
  ASSUME TypeInv, AliasInv, stack # <<>>, NEW b, NEW c, Merging(b, c),
         Top.op \notin {"unmarshal", "alias", "mapping"}
  PROVE  c[Len(stack)].owner = 0 /\ c[Len(stack)] = None
<1>1. PICK n : n = Len(stack)
  OBVIOUS
<1>2. FrameAt(stack, nodes, b, c, n) /\ Top = stack[n]
  BY <1>1, MergingFacts
<1> QED
  BY <1>1, <1>2 DEF FrameAt, InContext

\* A sequence has been decoded.
LEMMA SequenceReturnsMerges ==
  ASSUME TypeInv, AliasInv, NEW b, NEW c, Merging(b, c), SequenceReturns
  PROVE  StepMerges
<1>1. /\ stack # <<>> /\ Top.op = "sequence" /\ stack' = Front(stack) /\ nodes' = nodes
      /\ merged' = merged /\ mergedFields' = mergedFields /\ terrors' = terrors /\ ret' = "good"
  BY DEF SequenceReturns, In, Return, decoder
<1>2. c[Len(stack)].owner = 0
  BY <1>1, OtherPlain
<1>3. mergedFields = 0 /\ terrors \in Nat
  <2>1. PICK n : n = Len(stack)
    OBVIOUS
  <2>2. Top = stack[n] /\ mergedFields = Current(stack, c, n) /\ terrors \in Nat
    BY <1>1, <2>1, MergingFacts
  <2> QED
    BY <1>1, <2>2 DEF Current
<1> QED
  BY <1>1, <1>2, <1>3, ReturnsPlain

\* A failure leaves nothing, unless an unmarshaler is told of it.
LEMMA FailMerges ==
  ASSUME NEW b, Settled(b, nodes'), NEW frames, NEW left, Panic(frames, left), departed' = {}, TypeInv
  PROVE  StepMerges
<1>1. stack' = <<>> /\ ret' = "none"
  BY DEF Panic
<1>2. MergeOf(<<>>, "none", nodes', b, <<>>, merged', terrors', mergedFields')
  BY DEF MergeOf, Frames, Callers
<1>3. MergeOf(stack', ret', nodes', b, <<>>, merged', terrors', mergedFields')
  BY <1>1, <1>2
<1> QED
  BY <1>3 DEF StepMerges

\* An unmarshaler returns.
LEMMA UnmarshalerReturnsMerges ==
  ASSUME TypeInv, AliasInv, NEW b, NEW c, Merging(b, c), UnmarshalerReturns, departed' = {}
  PROVE  StepMerges
<1>1. /\ stack # <<>> /\ Top.op = "unmarshaler" /\ nodes' = nodes
      /\ merged' = merged /\ mergedFields' = mergedFields
  BY DEF UnmarshalerReturns, In, decoder
<1>2. PICK n : n = Len(stack)
  OBVIOUS
<1>3. /\ Top = stack[n] /\ mergedFields = Current(stack, c, n) /\ terrors \in Nat
      /\ FrameAt(stack, nodes, b, c, n) /\ FrameOK(Top, nodes, Len(merged)) /\ Settled(b, nodes)
  BY <1>1, <1>2, MergingFacts
<1>4. mergedFields = 0
  BY <1>1, <1>3 DEF Current
<1>5. c[Len(stack)].owner = 0
  BY <1>1, OtherPlain
<1>6. CASE Fail(Front(stack))
  <2>1. PICK frames : frames = Front(stack)
    OBVIOUS
  <2>2. Fail(frames) /\ Settled(b, nodes')
    BY <1>1, <1>3, <1>6, <2>1
  <2> QED
    BY <2>2, FailMerges DEF Fail
<1>7. CASE Return("good") /\ terrors' = terrors
  BY <1>1, <1>3, <1>4, <1>5, <1>7, ReturnsPlain DEF Return
<1>8. CASE Top.result = "type_error" /\ terrors' = terrors + Top.issues /\ Return("bad")
  <2>1. Top.issues \in Nat /\ Top.issues > 0
    BY <1>1, <1>3, <1>8 DEF FrameAt, FrameOK
  <2>2. terrors' \in Nat /\ terrors <= terrors' /\ terrors' > 0
    BY <1>3, <1>8, <2>1
  <2> QED
    BY <1>1, <1>4, <1>5, <1>8, <2>2, ReturnsPlain DEF Return
<1> QED
  BY <1>6, <1>7, <1>8 DEF UnmarshalerReturns

\* Results that calls return.
LEMMA ResultFacts ==
  ASSUME TypeInv, ret # "none", ret # "error"
  PROVE  ret \in {"good", "bad"}
BY DEF TypeInv, Results

\* A merge has done with its mapping, as the book has it, and a call returns to it.
LEMMA ReturnsMerge ==
  ASSUME TypeInv, AliasInv, stack # <<>>, NEW b, NEW c, Merging(b, c), NEW x, x = c[Len(stack)],
         x.owner # 0, x.goal \in DOMAIN b,
         Done(stack, terrors, nodes, merged, x.owner, x.line \o b[x.goal].line, {}, 0, {}, x.set),
         Top.op # "merge", stack' = Front(stack), nodes' = nodes, merged' = merged, mergedFields' = x.set,
         terrors' = terrors, ret' \in {"good", "bad"}, ret' = "bad" => terrors > 0
  PROVE  StepMerges
<1>1. PICK n, t, q : n = Len(stack) /\ t = Front(stack) /\ q = ret'
  OBVIOUS
<1>2. PICK d : d = [l \in 1..n - 1 |-> c[l]]
  OBVIOUS
<1>3. /\ n \in Nat \ {0} /\ Settled(b, nodes) /\ Frames(stack, nodes, b, c, n)
      /\ Callers(stack, nodes, c, merged, terrors, n - 1) /\ terrors \in Nat
  BY <1>1, MergingFacts
<1>4. terrors <= terrors
  BY <1>3
<1>5. Remain(stack, n, c, merged, terrors, n - 1, t, d, merged, terrors)
  BY <1>1, <1>2, <1>3, <1>4, RemainFront
<1>6. PICK j : j = n - 1
  OBVIOUS
<1>7. j + 1 = n /\ q \in {"good", "bad"} /\ (q = "bad" => terrors > 0) /\ x = c[j + 1]
  BY <1>1, <1>3, <1>6
<1>8. MergeOf(t, q, nodes, b, d, merged, terrors, x.set)
  BY <1>3, <1>5, <1>6, <1>7, LeaveMerge
<1>9. MergeOf(stack', ret', nodes', b, d, merged', terrors', mergedFields')
  BY <1>1, <1>8
<1> QED
  BY <1>9 DEF StepMerges

\* An alias has been decoded.
LEMMA AliasReturnsMerges ==
  ASSUME TypeInv, AliasInv, NEW b, NEW c, Merging(b, c), AliasReturns
  PROVE  StepMerges
<1>1. /\ stack # <<>> /\ Top.op = "alias" /\ stack' = Front(stack) /\ nodes' = nodes /\ ret' = ret
      /\ merged' = merged /\ mergedFields' = mergedFields /\ terrors' = terrors /\ ret # "none"
  BY DEF AliasReturns, In, Return
<1>2. PICK n, x : n = Len(stack) /\ x = c[n]
  OBVIOUS
<1>3. /\ Top = stack[n] /\ mergedFields = Current(stack, c, n) /\ terrors \in Nat
      /\ FrameAt(stack, nodes, b, c, n) /\ TopTip(stack, ret, nodes, b, c, merged, terrors, n)
      /\ ret # "error" /\ (ret = "bad" => terrors > 0)
  BY <1>1, <1>2, MergingFacts
<1>4. mergedFields = x.set
  BY <1>1, <1>2, <1>3 DEF Current
<1>5. ret \in {"good", "bad"}
  BY <1>1, <1>3, ResultFacts
<1>6. CASE x.owner = 0
  <2>1. x = None
    BY <1>2, <1>3, <1>6 DEF FrameAt, InContext
  <2>2. mergedFields = 0 /\ terrors <= terrors
    BY <1>3, <1>4, <2>1 DEF None
  <2> QED
    BY <1>1, <1>2, <1>3, <1>5, <1>6, <2>2, ReturnsPlain
<1>7. CASE x.owner # 0
  <2>1. AliasTip(stack, nodes, b, merged, terrors, x)
    BY <1>1, <1>2, <1>3 DEF TopTip
  <2>2. /\ x.goal \in DOMAIN b
        /\ Done(stack, terrors, nodes, merged, x.owner, x.line \o b[x.goal].line, {}, 0, {}, x.set)
    BY <1>7, <2>1 DEF AliasTip
  <2> QED
    BY <1>1, <1>2, <1>3, <1>4, <1>5, <1>7, <2>2, ReturnsMerge
<1> QED
  BY <1>6, <1>7

\* A mapping all of whose entries have been decoded.
LEMMA MappingEnd ==
  ASSUME TypeInv, AliasInv, NEW b, NEW c, Merging(b, c), AtMerge, NEW n, n = Len(stack)
  PROVE  /\ Top.op = "mapping" /\ Top.node \in Mappings(nodes) /\ MappingFrame(Top, nodes, c[n], n)
         /\ c[n].line \in Seq(Mappings(nodes)) /\ ret = "none"
         /\ Done(stack, terrors, nodes, merged, Top.owner, c[n].line, OwnKeys(nodes, Top.node), Top.node, {},
                 Top.own)
<1>1. stack # <<>> /\ Top.op = "mapping" /\ Top.i = Len(nodes[Top.node].content) + 1
  BY DEF AtMerge, In
<1>2. /\ Top = stack[n] /\ FrameAt(stack, nodes, b, c, n) /\ Tree(nodes)
      /\ TopTip(stack, ret, nodes, b, c, merged, terrors, n)
  BY <1>1, MergingFacts
<1>3. /\ MappingFrame(Top, nodes, c[n], n) /\ InContext(stack, nodes, c, n)
      /\ MappingTip(stack, nodes, c, merged, terrors, n, ret # "none")
  BY <1>1, <1>2 DEF FrameAt, TopTip
<1>4. Top.node \in Mappings(nodes) /\ c[n].line \in Seq(Mappings(nodes))
  BY <1>3 DEF MappingFrame, InContext
<1>5. PICK x, k : x = nodes[Top.node].content /\ k = Len(x)
  OBVIOUS
<1>6. k \in Nat /\ DOMAIN x = 1..k /\ Top.i = k + 1
  BY <1>1, <1>2, <1>4, <1>5, MappingContent
<1>7. Top.i \notin DOMAIN x /\ Top.i - 1 = k
  <2>1. PICK i : i = Top.i
    OBVIOUS
  <2>2. i = k + 1
    BY <1>6, <2>1
  <2>3. i \notin 1..k /\ i - 1 = k
    BY <1>6, <2>2
  <2> QED
    BY <1>6, <2>1, <2>3
<1>8. ret = "none"
  BY Zenon, <1>2, <1>3, <1>5, <1>7 DEF MappingTip
<1>9. Before(nodes, Top) = OwnKeys(nodes, Top.node)
  BY <1>5, <1>6, <1>7 DEF Before, OwnKeys, KeysOf
<1>10. Done(stack, terrors, nodes, merged, Top.owner, c[n].line, Before(nodes, Top), Top.node, {}, Top.own)
  BY <1>2, <1>3, <1>8 DEF MappingTip
<1> QED
  BY <1>1, <1>3, <1>4, <1>8, <1>9, <1>10

\* A mapping that merges nothing has been decoded.
LEMMA MappingReturnsMerges ==
  ASSUME TypeInv, AliasInv, NEW b, NEW c, Merging(b, c), MappingReturns
  PROVE  StepMerges
<1>1. /\ stack # <<>> /\ Top.op = "mapping" /\ AtMerge /\ EntryOf(nodes[Top.node].content, Merge) = {}
      /\ stack' = Front(stack) /\ nodes' = nodes /\ ret' = "good"
      /\ merged' = merged /\ mergedFields' = Top.own /\ terrors' = terrors
  BY DEF MappingReturns, AtMerge, In, Return
<1>2. PICK n, x, g : n = Len(stack) /\ x = c[n] /\ g = Top.node
  OBVIOUS
<1>3. /\ Top = stack[n] /\ terrors \in Nat /\ FrameAt(stack, nodes, b, c, n)
      /\ Tree(nodes) /\ Settled(b, nodes) /\ IsSequence(stack) /\ n \in Nat
  BY <1>1, <1>2, MergingFacts
<1>4. MappingFrame(Top, nodes, x, n) /\ InContext(stack, nodes, c, n)
  BY <1>1, <1>2, <1>3 DEF FrameAt
<1>5. CASE x.owner = 0
  <2>1. x = None /\ Top.own = 0 /\ terrors <= terrors
    BY <1>2, <1>3, <1>4, <1>5 DEF InContext, MappingFrame, None
  <2> QED
    BY <1>1, <1>2, <1>3, <1>5, <2>1, ReturnsPlain
<1>6. CASE x.owner # 0
  <2>1. g \in Mappings(nodes) /\ g = x.goal /\ Top.own = x.set /\ Top.owner = x.owner
    BY <1>2, <1>4, <1>6 DEF MappingFrame
  <2>2. PICK k : k = Len(Froms(nodes, g))
    OBVIOUS
  <2>3. k = 0 /\ Looked(nodes, g, k)
    <3>1. Froms(nodes, g) = <<>>
      BY <1>1, <1>2 DEF Froms
    <3>2. k = 0
      BY <2>2, <3>1
    <3> QED
      BY <1>1, <1>2, <3>2 DEF Looked
  <2>4. \A i \in 1..k : Source(nodes, g, i) \in DOMAIN b
    BY <2>3
  <2>12. /\ Tree(nodes) /\ Settled(b, nodes) /\ g \in Mappings(nodes) /\ k = Len(Froms(nodes, g))
         /\ Looked(nodes, g, k)
    BY <1>3, <2>1, <2>2, <2>3
  <2>13. \E d : /\ Settled(d, nodes) /\ More(b, d) /\ g \in DOMAIN d
                /\ d[g].line = <<g>> \o Lines(b, nodes, g, k)
    BY <2>4, <2>12, BookMore
  <2>5. PICK d : /\ Settled(d, nodes) /\ More(b, d) /\ g \in DOMAIN d
                 /\ d[g].line = <<g>> \o Lines(b, nodes, g, k)
    BY <2>13
  <2>6. d[g].line = <<g>>
    <3>1. Lines(b, nodes, g, k) = <<>>
      BY <2>3, LinesNone
    <3>2. <<g>> \in Seq({g})
      OBVIOUS
    <3>3. <<g>> \o <<>> = <<g>>
      BY <3>2, ConcatEmptySeq
    <3> QED
      BY <2>5, <3>1, <3>3
  <2>7. Merging(d, c)
    BY <1>2, <1>3, <2>5, MergeBooked DEF Merging
  <2>8. /\ x.line \in Seq(Mappings(nodes))
        /\ Done(stack, terrors, nodes, merged, x.owner, x.line, OwnKeys(nodes, g), g, {}, x.set)
    BY <1>1, <1>2, <2>1, MappingEnd
  <2>9. PICK y : y = x.line \o d[g].line
    OBVIOUS
  <2>10. Done(stack, terrors, nodes, merged, x.owner, y, {}, 0, {}, x.set)
    BY <2>1, <2>6, <2>8, <2>9, DoneNext
  <2>11. /\ x.goal \in DOMAIN d
         /\ Done(stack, terrors, nodes, merged, x.owner, x.line \o d[x.goal].line, {}, 0, {}, x.set)
    BY <2>1, <2>5, <2>9, <2>10
  <2> QED
    BY <1>1, <1>2, <1>6, <2>1, <2>7, <2>11, ReturnsMerge
<1> QED
  BY <1>5, <1>6

\* A merge that has done with all its sources.
LEMMA MergeEnd ==
  ASSUME TypeInv, AliasInv, NEW b, NEW c, Merging(b, c), In("merge"), Top.i > Len(Sources(nodes, Top.node)),
         NEW n, n = Len(stack), NEW g, g = stack[n - 1].node, NEW k, k = Len(Froms(nodes, g))
  PROVE  /\ MergeFrame(stack, nodes, b, n) /\ g \in Mappings(nodes) /\ n - 1 \in 1..n
         /\ c[n - 1].line \in Seq(Mappings(nodes)) /\ k \in Nat /\ Looked(nodes, g, k)
         /\ \A i \in 1..k : Source(nodes, g, i) \in DOMAIN b
         /\ Done(stack, terrors, nodes, merged, Top.owner, c[n - 1].line \o (<<g>> \o Lines(b, nodes, g, k)),
                 {}, 0, {}, Top.fields)
<1>1. stack # <<>> /\ Top.op = "merge"
  BY DEF In
<1>2. /\ Top = stack[n] /\ n \in Nat \ {0} /\ n \in 1..n /\ Frames(stack, nodes, b, c, n) /\ Tree(nodes)
      /\ TopTip(stack, ret, nodes, b, c, merged, terrors, n)
  BY <1>1, MergingFacts
<1>3. /\ MergeFrame(stack, nodes, b, n) /\ g \in Mappings(nodes) /\ n - 1 \in 1..n
      /\ c[n - 1].line \in Seq(Mappings(nodes)) /\ Top.i \in Nat \ {0}
  BY <1>1, <1>2, MergeBelow
<1>4. /\ Looked(nodes, g, Top.i - 1) /\ EntryOf(nodes[g].content, Merge) # {}
      /\ Top.node = MergeValue(nodes[g].content)
  BY <1>2, <1>3 DEF MergeFrame
<1>5. Froms(nodes, g) = Sources(nodes, Top.node)
  BY <1>4 DEF Froms
<1>6. k \in Nat /\ DOMAIN Froms(nodes, g) = 1..k
  <2>1. Froms(nodes, g) \in Seq(0..Len(nodes))
    BY <1>2, <1>3, FromsOK
  <2> QED
    BY <2>1
<1>7. Top.i - 1 = k
  <2>1. Top.i > k
    BY <1>5
  <2>2. 1..Top.i - 1 \subseteq 1..k
    BY <1>4, <1>6 DEF Looked
  <2>3. Top.i - 1 \in Nat /\ (Top.i - 1 = 0 \/ Top.i - 1 \in 1..Top.i - 1)
    BY <1>3
  <2>4. Top.i - 1 <= k
    BY <1>6, <2>2, <2>3
  <2> QED
    BY <1>3, <1>6, <2>1, <2>4
<1>8. MergeTip(stack, nodes, b, c, merged, terrors, n)
  BY <1>1, <1>2 DEF TopTip
<1>9. \A i \in 1..k : Source(nodes, g, i) \in DOMAIN b
  BY <1>2, <1>7, <1>8 DEF MergeTip
<1>10. Done(stack, terrors, nodes, merged, Top.owner, c[n - 1].line \o (<<g>> \o Lines(b, nodes, g, k)),
            {}, 0, {}, Top.fields)
  BY <1>2, <1>7, <1>8 DEF MergeTip, LineAt
<1> QED
  BY <1>3, <1>4, <1>6, <1>7, <1>9, <1>10

\* What a merge and the mapping that called it leave.
LEMMA RemainFronts ==
  ASSUME TypeInv, AliasInv, NEW b, NEW c, Merging(b, c), MergeReturns, NEW n, n = Len(stack),
         NEW j, j = n - 2, NEW t, t = Front(Front(stack)), NEW d, d = [l \in 1..j |-> c[l]],
         NEW ng, ng = merged'
  PROVE  Remain(stack, n, c, merged, terrors, j, t, d, ng, terrors)
<1>1. /\ stack # <<>> /\ Top.op = "merge"
      /\ merged' = IF Top.saved = 0 THEN SubSeq(merged, 1, Top.fields - 1) ELSE merged
  BY DEF MergeReturns, In
<1>2. /\ n \in Nat \ {0} /\ IsSequence(stack) /\ Top = stack[n] /\ terrors \in Nat
      /\ Frames(stack, nodes, b, c, n) /\ FrameOK(Top, nodes, Len(merged))
  BY <1>1, MergingFacts
<1>3. n > 1 /\ stack[n - 1].op = "mapping"
  <2>1. n \in Nat /\ n \in 1..n /\ stack[n].op = "merge"
    BY <1>1, <1>2
  <2> QED
    BY <1>2, <2>1, MergeBelow
<1>4. j \in 0..n - 1 /\ j + 1 = n - 1 /\ stack[j + 1].op # "merge" /\ j \in 0..n
  BY <1>2, <1>3
<1>5. IsSequence(t) /\ Len(t) = j /\ DOMAIN t = 1..j /\ \A l \in 1..j : t[l] = stack[l]
  <2>1. PICK u : u = Front(stack)
    OBVIOUS
  <2>2. IsSequence(u) /\ Len(u) = n - 1 /\ \A l \in 1..n - 1 : u[l] = stack[l]
    BY <1>1, <1>2, <2>1, FrontFacts
  <2>3. u # <<>>
    BY <1>2, <1>3, <2>2
  <2>4. IsSequence(Front(u)) /\ Len(Front(u)) = Len(u) - 1 /\ DOMAIN Front(u) = 1..Len(u) - 1
        /\ \A l \in 1..Len(u) - 1 : Front(u)[l] = u[l]
    BY <2>2, <2>3, FrontFacts
  <2>5. Len(u) - 1 = j /\ t = Front(u) /\ \A l \in 1..j : l \in 1..n - 1
    BY <1>2, <2>1, <2>2
  <2> QED
    BY <2>2, <2>4, <2>5
<1>6. DOMAIN d = 1..j /\ \A l \in 1..j : d[l] = c[l]
  OBVIOUS
<1>7. ASSUME NEW l \in 1..j, Calling(stack, l), stack[l].own # 0
      PROVE  ng[stack[l].own] = merged[stack[l].own]
  <2>1. stack[l].op = "mapping"
    BY <1>7 DEF Calling
  <2>2. CASE Top.saved = 0
    <3>1. n \in DOMAIN stack /\ DOMAIN stack = 1..n
      BY <1>1, MergingFacts
    <3>2. l \in 1..n - 1
      BY <1>2, <1>4
    <3>3. FramesOK(stack, nodes, Len(merged)) /\ IsSequence(merged)
      BY DEF TypeInv
    <3>4. FrameOK(stack[l], nodes, stack[n].fields - 1)
      BY <1>1, <1>2, <2>2, <3>1, <3>2, <3>3 DEF FramesOK
    <3>5. Top.fields \in 1..Len(merged)
      BY <1>1, <1>2 DEF FrameOK
    <3>6. stack[l].own \in 0..Top.fields - 1
      BY <1>2, <2>1, <3>4 DEF FrameOK
    <3>7. PICK h : h = Top.fields - 1
      OBVIOUS
    <3>8. Len(merged) \in Nat /\ DOMAIN merged = 1..Len(merged)
      BY <3>3 DEF IsSequence
    <3>9. h \in DOMAIN merged /\ stack[l].own \in 1..h
      BY <1>7, <3>5, <3>6, <3>7, <3>8
    <3>10. SubSeq(merged, 1, h)[stack[l].own] = merged[stack[l].own]
      <4>1. PICK i : i = stack[l].own
        OBVIOUS
      <4>2. i \in 1..h
        BY <3>9, <4>1
      <4>3. SubSeq(merged, 1, h)[i] = merged[i]
        BY <3>3, <3>9, <4>2, PrefixFacts
      <4> QED
        BY <4>1, <4>3
    <3> QED
      BY <1>1, <2>2, <3>7, <3>10
  <2>3. CASE Top.saved # 0
    BY <1>1, <2>3
  <2> QED
    BY <2>2, <2>3
<1>8. \A o \in 1..j : Excused(stack, terrors, o) => Excused(t, terrors, o)
  <2> TAKE o \in 1..j
  <2>1. o \in Nat /\ terrors <= terrors
    BY <1>2, <1>4
  <2> QED
    BY <1>2, <1>4, <1>5, <2>1, ExcusedLess
<1> QED
  BY <1>2, <1>4, <1>5, <1>6, <1>7, <1>8 DEF Remain

\* A merge and its mapping return.
LEMMA MergeReturnsMerges ==
  ASSUME TypeInv, AliasInv, NEW b, NEW c, Merging(b, c), MergeReturns
  PROVE  StepMerges
<1>1. /\ stack # <<>> /\ Top.op = "merge" /\ In("merge") /\ Top.i > Len(Sources(nodes, Top.node))
      /\ stack' = Front(Front(stack)) /\ nodes' = nodes /\ ret' = "good" /\ terrors' = terrors
      /\ mergedFields' = Top.saved
      /\ Top.saved # 0 => merged' = merged
  BY DEF MergeReturns, In
<1>2. PICK n, j, t, ng : n = Len(stack) /\ j = n - 2 /\ t = Front(Front(stack)) /\ ng = merged'
  OBVIOUS
<1>3. PICK e : e = [l \in 1..j |-> c[l]]
  OBVIOUS
<1>4. /\ n \in Nat \ {0} /\ IsSequence(stack) /\ Top = stack[n] /\ terrors \in Nat
      /\ Frames(stack, nodes, b, c, n) /\ Settled(b, nodes) /\ Tree(nodes)
      /\ Callers(stack, nodes, c, merged, terrors, n - 1)
  BY <1>1, <1>2, MergingFacts
<1>5. PICK x, g, k : x = c[n - 1] /\ g = stack[n - 1].node /\ k = Len(Froms(nodes, g))
  OBVIOUS
<1>6. /\ MergeFrame(stack, nodes, b, n) /\ g \in Mappings(nodes) /\ n - 1 \in 1..n
      /\ k \in Nat /\ Looked(nodes, g, k)
      /\ \A i \in 1..k : Source(nodes, g, i) \in DOMAIN b
      /\ Done(stack, terrors, nodes, merged, Top.owner, x.line \o (<<g>> \o Lines(b, nodes, g, k)),
              {}, 0, {}, Top.fields)
  BY <1>1, <1>2, <1>5, MergeEnd
<1>7. /\ stack[n - 1].op = "mapping" /\ Top.owner = stack[n - 1].owner /\ Top.saved = stack[n - 1].own
      /\ Top.saved # 0 => Top.fields = Top.saved
  BY <1>4, <1>6 DEF MergeFrame
<1>8. MappingFrame(stack[n - 1], nodes, x, n - 1) /\ InContext(stack, nodes, c, n - 1)
  BY <1>4, <1>5, <1>6, <1>7 DEF Frames, FrameAt
<1>9. Remain(stack, n, c, merged, terrors, j, t, e, ng, terrors)
  BY <1>2, <1>3, RemainFronts
<1>10. j + 1 = n - 1 /\ x = c[j + 1]
  BY <1>2, <1>4, <1>5
<1>11. PICK q : q = "good"
  OBVIOUS
<1>12. q \in {"good", "bad"} /\ (q = "bad" => terrors > 0) /\ q = ret'
  BY <1>1, <1>11
<1>13. CASE x.owner = 0
  <2>1. x = None /\ Top.saved = 0
    BY <1>5, <1>7, <1>8, <1>13 DEF InContext, MappingFrame, None
  <2>2. c[j + 1].owner = 0
    BY <1>10, <1>13
  <2>3. MergeOf(t, q, nodes, b, e, ng, terrors, 0)
    BY <1>4, <1>9, <1>12, <2>2, LeavePlain
  <2>4. MergeOf(stack', ret', nodes', b, e, merged', terrors', mergedFields')
    BY <1>1, <1>2, <1>12, <2>1, <2>3
  <2> QED
    BY <2>4 DEF StepMerges
<1>14. CASE x.owner # 0
  <2>1. /\ x.set \in Nat \ {0} /\ Top.saved = x.set /\ Top.fields = x.set /\ Top.owner = x.owner
        /\ x.goal = g
    BY <1>5, <1>7, <1>8, <1>14 DEF InContext, MappingFrame
  <2>2. ng = merged
    BY Zenon, <1>1, <1>2, <2>1
  <2>3. \E d : /\ Settled(d, nodes) /\ More(b, d) /\ g \in DOMAIN d
               /\ d[g].line = <<g>> \o Lines(b, nodes, g, k)
    <3>1. /\ Tree(nodes) /\ Settled(b, nodes) /\ g \in Mappings(nodes) /\ Looked(nodes, g, k)
          /\ \A i \in 1..k : Source(nodes, g, i) \in DOMAIN b
      BY <1>4, <1>6
    <3>2. k = Len(Froms(nodes, g))
      BY <1>5
    <3> QED
      BY <3>1, <3>2, BookMore
  <2>4. PICK d : /\ Settled(d, nodes) /\ More(b, d) /\ g \in DOMAIN d
                 /\ d[g].line = <<g>> \o Lines(b, nodes, g, k)
    BY <2>3
  <2>5. Merging(d, c)
    BY <1>2, <1>4, <2>4, MergeBooked DEF Merging
  <2>6. /\ Frames(stack, nodes, d, c, n)
    BY <1>1, <1>2, <2>5, MergingFacts
  <2>7. /\ x.goal \in DOMAIN d
        /\ Done(stack, terrors, nodes, merged, x.owner, x.line \o d[x.goal].line, {}, 0, {}, x.set)
    BY <1>6, <2>1, <2>4
  <2>8. Remain(stack, n, c, merged, terrors, j, t, e, merged, terrors)
    BY <1>9, <2>2
  <2>9. MergeOf(t, q, nodes, d, e, merged, terrors, x.set)
    BY <1>4, <1>10, <1>12, <1>14, <2>4, <2>6, <2>7, <2>8, LeaveMerge
  <2>10. MergeOf(stack', ret', nodes', d, e, merged', terrors', mergedFields')
    BY <1>1, <1>2, <1>12, <2>1, <2>2, <2>9
  <2> QED
    BY <2>10 DEF StepMerges
<1> QED
  BY <1>13, <1>14

-----------------------------------------------------------------------------
(* Actions that begin and go on                                              *)

\* What is known of the calls once the step has added to the tree.
LEMMA GrownFacts ==
  ASSUME TypeInv, AliasInv, stack # <<>>, NEW ns, NEW b, NEW c,
         MergeOf(stack, ret, ns, b, c, merged, terrors, mergedFields), NEW n, n = Len(stack)
  PROVE  /\ n \in Nat \ {0} /\ n - 1 \in Nat /\ n \in 1..n
         /\ IsSequence(stack) /\ DOMAIN stack = 1..n /\ Top = stack[n]
         /\ DOMAIN c = 1..n /\ FrameOK(Top, nodes, Len(merged)) /\ Settled(b, ns) /\ terrors \in Nat
         /\ Frames(stack, ns, b, c, n) /\ Frames(stack, ns, b, c, n - 1)
         /\ FrameAt(stack, ns, b, c, n) /\ Inner(stack, c, n) /\ Nested(stack, c, n)
         /\ Callers(stack, ns, c, merged, terrors, n - 1)
         /\ TopTip(stack, ret, ns, b, c, merged, terrors, n)
         /\ mergedFields = Current(stack, c, n)
         /\ ret # "error" /\ (ret = "bad" => terrors > 0)
<1>1. /\ n \in Nat \ {0} /\ IsSequence(stack) /\ DOMAIN stack = 1..n /\ Top = stack[n]
      /\ FrameOK(Top, nodes, Len(merged))
  BY InnermostFacts
<1>2. terrors \in Nat
  BY DEF TypeInv
<1>3. n - 1 \in Nat /\ n \in 1..n /\ 1..n - 1 \subseteq 1..n
  BY <1>1
<1>4. /\ Settled(b, ns) /\ DOMAIN c = 1..n /\ Frames(stack, ns, b, c, n)
      /\ Callers(stack, ns, c, merged, terrors, n - 1)
      /\ TopTip(stack, ret, ns, b, c, merged, terrors, n) /\ mergedFields = Current(stack, c, n)
      /\ ret # "error" /\ (ret = "bad" => terrors > 0)
  BY <1>1 DEF MergeOf
<1>5. /\ Frames(stack, ns, b, c, n - 1)
      /\ FrameAt(stack, ns, b, c, n) /\ Inner(stack, c, n) /\ Nested(stack, c, n)
  BY <1>3, <1>4 DEF Frames
<1> QED
  BY <1>1, <1>2, <1>3, <1>4, <1>5

\* Nothing that matters to the calls below the innermost has changed.
Undisturbed(s, c, mg, te, t, d, ng, ue, n) ==
  /\ n \in Nat \ {0} /\ SameCalls(s, c, t, d, n - 1) /\ (t[n].op = "merge" <=> s[n].op = "merge")
  /\ \A l \in 1..n - 1 : Calling(s, l) =>
       /\ t[s[l].owner].out = s[s[l].owner].out /\ t[s[l].owner].target = s[s[l].owner].target
       /\ Excused(s, te, s[l].owner) => Excused(t, ue, s[l].owner)
       /\ s[l].own # 0 => ng[s[l].own] = mg[s[l].own]

\* They stay as they are.
LEMMA BelowSame ==
  ASSUME NEW s, NEW c, NEW t, NEW d, NEW n, NEW mg, NEW te, NEW ng, NEW ue,
         Undisturbed(s, c, mg, te, t, d, ng, ue, n),
         NEW ns, NEW b, Frames(s, ns, b, c, n - 1), Callers(s, ns, c, mg, te, n - 1)
  PROVE  Frames(t, ns, b, d, n - 1) /\ Callers(t, ns, d, ng, ue, n - 1)
<1>1. PICK k : k = n - 1
  OBVIOUS
<1>2. /\ k \in Nat /\ k + 1 = n /\ SameCalls(s, c, t, d, k) /\ (t[k + 1].op = "merge" <=> s[k + 1].op = "merge")
      /\ \A l \in 1..k : Calling(s, l) =>
           /\ t[s[l].owner].out = s[s[l].owner].out /\ t[s[l].owner].target = s[s[l].owner].target
           /\ Excused(s, te, s[l].owner) => Excused(t, ue, s[l].owner)
           /\ s[l].own # 0 => ng[s[l].own] = mg[s[l].own]
  BY <1>1 DEF Undisturbed
<1>3. Frames(s, ns, b, c, k) /\ Callers(s, ns, c, mg, te, k)
  BY <1>1
<1>4. Frames(t, ns, b, d, k)
  BY <1>2, <1>3, FramesSame
<1>5. Callers(s, ns, c, mg, te, k - 1)
  <2>1. 1..k - 1 \subseteq 1..k
    BY <1>2
  <2> QED
    BY <1>3, <2>1 DEF Callers
<1>6. \A l \in 1..k - 1 : l \in 1..k
  BY <1>2
<1>7. Callers(t, ns, d, ng, ue, k - 1)
  BY <1>2, <1>5, <1>6, CallersSame
<1>8. ASSUME k # 0
      PROVE  t[k].op # "unmarshal" /\ (Calling(t, k) => MappingTip(t, ns, d, ng, ue, k, TRUE))
  <2>1. k \in 1..k
    BY <1>2, <1>8
  <2>2. t[k].op = s[k].op /\ Refills(s[k], t[k]) /\ d[k] = c[k]
    <3>1. t[k].op = s[k].op
      BY <1>2, <2>1, CallsAlike
    <3> QED
      BY <1>2, <2>1, <3>1 DEF SameCalls
  <2>3. s[k].op # "unmarshal" /\ (Calling(s, k) => MappingTip(s, ns, c, mg, te, k, TRUE))
    BY <1>3, <2>1 DEF Callers
  <2>4. ASSUME Calling(t, k)
        PROVE  MappingTip(t, ns, d, ng, ue, k, TRUE)
    <3>1. Calling(s, k) /\ s[k].op = "mapping"
      BY <1>2, <2>2, <2>4 DEF Calling
    <3>2. MappingTip(s, ns, c, mg, te, k, TRUE)
      BY <2>3, <3>1
    <3>3. /\ t[s[k].owner].out = s[s[k].owner].out /\ t[s[k].owner].target = s[s[k].owner].target
          /\ Excused(s, te, s[k].owner) => Excused(t, ue, s[k].owner)
          /\ s[k].own # 0 => ng[s[k].own] = mg[s[k].own]
      BY <1>2, <2>1, <3>1
    <3> QED
      BY <2>2, <3>1, <3>2, <3>3, TipSame
  <2> QED
    BY <2>2, <2>3, <2>4
<1>9. \A l \in 1..k : l \in 1..k - 1 \/ (k # 0 /\ l = k)
  BY <1>2
<1>10. Callers(t, ns, d, ng, ue, k)
  BY <1>7, <1>8, <1>9 DEF Callers
<1> QED
  BY <1>1, <1>4, <1>10

\* A call that is in no merge and merges nothing.
LEMMA PlainFrame ==
  ASSUME NEW s, NEW c, NEW t, NEW d, NEW n \in Nat \ {0}, SameCalls(s, c, t, d, n - 1), d[n] = c[n],
         NEW ns, NEW b, Frames(s, ns, b, c, n), c[n].owner = 0,
         t[n].op \in {"sequence", "unmarshaler"},
         t[n].op = "unmarshaler" => (t[n].result = "type_error" => t[n].issues > 0)
  PROVE  FrameAt(t, ns, b, d, n) /\ Inner(t, d, n) /\ Nested(t, d, n)
<1>1. n \in 1..n /\ 1..n - 1 \subseteq 1..n
  OBVIOUS
<1>2. /\ Frames(s, ns, b, c, n - 1) /\ Context(s, ns, b, c, n) /\ InContext(s, ns, c, n)
  BY <1>1 DEF Frames, FrameAt
<1>3. Context(t, ns, b, d, n)
  BY <1>2, ContextSame
<1>4. InContext(t, ns, d, n)
  BY <1>2, InContextSame
<1>5. OwnerOf(t, d, n) = 0 /\ SetOf(t, d, n) = 0
  BY DEF OwnerOf, SetOf
<1>6. Inner(t, d, n) /\ Nested(t, d, n)
  BY <1>5 DEF Inner, Nested
<1> QED
  BY <1>3, <1>4, <1>6 DEF FrameAt

\* t is s with the call f in the place of the innermost of its n.
Swapped(s, t, n, f) ==
  /\ IsSequence(t) /\ n \in Nat \ {0} /\ Len(t) = n /\ DOMAIN t = 1..n /\ t # <<>>
  /\ t[n] = f /\ \A l \in 1..n - 1 : t[l] = s[l]

\* A call is put in its place.
LEMMA Replaced ==
  ASSUME NEW s, IsSequence(s), s # <<>>, NEW f
  PROVE  Swapped(s, Append(Front(s), f), Len(s), f)
<1>1. PICK n, t, u : n = Len(s) /\ t = Append(Front(s), f) /\ u = Front(s)
  OBVIOUS
<1>2. IsSequence(u) /\ n \in Nat \ {0} /\ Len(u) = n - 1 /\ \A i \in 1..n - 1 : u[i] = s[i]
  BY <1>1, FrontFacts
<1>3. /\ IsSequence(t) /\ Len(t) = n - 1 + 1 /\ DOMAIN t = 1..n - 1 + 1 /\ t # <<>>
      /\ \A i \in 1..n - 1 : t[i] = u[i]
      /\ t[n - 1 + 1] = f
  BY <1>1, <1>2, AppendFacts
<1>4. n - 1 + 1 = n
  BY <1>2
<1>5. Swapped(s, t, n, f)
  BY <1>2, <1>3, <1>4 DEF Swapped
<1> QED
  BY <1>1, <1>5

\* An error that has been noted stays noted as the innermost call changes.
LEMMA ExcusedSame ==
  ASSUME NEW s, NEW t, NEW n \in Nat \ {0}, Len(s) = n, Len(t) \in {n, n + 1},
         \A l \in 1..n - 1 : t[l].op = s[l].op /\ (s[l].op = "unmarshaler" => t[l] = s[l]),
         NEW te \in Nat, NEW ue \in Nat, NEW o \in Nat, Excused(s, te, o),
         Len(t) = n + 1 => t[n + 1].op # "unmarshaler",
         t[n].op = "unmarshaler" => t[n].terrlen > 0 \/ o >= n, ue > 0
  PROVE  Excused(t, ue, o)
<1>1. ASSUME NEW p \in o + 1..Len(t), t[p].op = "unmarshaler"
      PROVE  t[p].terrlen > 0
  <2>1. p \in 1..n - 1 \/ p = n \/ (p = n + 1 /\ Len(t) = n + 1)
    OBVIOUS
  <2>2. CASE p \in 1..n - 1
    <3>1. s[p].op = "unmarshaler" /\ t[p] = s[p] /\ p \in o + 1..Len(s)
      BY <1>1, <2>2
    <3> QED
      BY <3>1 DEF Excused
  <2>3. CASE p = n
    BY <1>1, <2>3
  <2> QED
    BY <1>1, <2>1, <2>2, <2>3
<1> QED
  BY <1>1 DEF Excused

\* The calls below the innermost are the same.
LEMMA SameBelow ==
  ASSUME NEW s, NEW c, NEW t, NEW d, NEW n \in Nat \ {0}, NEW ns, NEW b, Frames(s, ns, b, c, n - 1),
         \A l \in 1..n - 1 : t[l] = s[l] /\ d[l] = c[l],
         t[n].op = "merge" <=> s[n].op = "merge",
         NEW te, NEW ue, \A o \in 1..n - 1 : Excused(s, te, o) => Excused(t, ue, o), NEW mg
  PROVE  Undisturbed(s, c, mg, te, t, d, mg, ue, n)
<1>1. SameCalls(s, c, t, d, n - 1)
  BY DEF SameCalls, Refills
<1>2. PICK k : k = n - 1
  OBVIOUS
<1>3. k \in Nat /\ Frames(s, ns, b, c, k)
  BY <1>2
<1>4. ASSUME NEW l \in 1..k, Calling(s, l)
      PROVE  s[l].owner \in 1..k
  <2>1. s[l].op = "mapping"
    BY <1>4 DEF Calling
  <2>2. s[l].owner \in 1..l
    BY <1>3, <2>1, OwnerFacts
  <2> QED
    BY <1>3, <2>2
<1>5. ASSUME NEW l \in 1..n - 1, Calling(s, l)
      PROVE  /\ t[s[l].owner].out = s[s[l].owner].out /\ t[s[l].owner].target = s[s[l].owner].target
             /\ Excused(s, te, s[l].owner) => Excused(t, ue, s[l].owner)
  <2>1. s[l].owner \in 1..n - 1
    BY <1>2, <1>4, <1>5
  <2> QED
    BY <2>1
<1> QED
  BY <1>1, <1>5 DEF Undisturbed

\* A call in no merge is replaced by the decoding of a sequence or by an unmarshaler.
LEMMA ReplacePlain ==
  ASSUME TypeInv, AliasInv, stack # <<>>, NEW b, NEW c, Merging(b, c), NEW n, n = Len(stack),
         c[n].owner = 0, Top.op # "merge", NEW f, stack' = Append(Front(stack), f),
         f.op \in {"sequence", "unmarshaler"},
         f.op = "unmarshaler" => (f.result = "type_error" => f.issues > 0),
         nodes' = nodes, merged' = merged, mergedFields' = 0, ret' = "none", terrors' \in Nat,
         terrors > 0 /\ (f.op = "unmarshaler" => f.terrlen > 0) => terrors' > 0,
         f.op = "unmarshaler" => (f.terrlen > 0 <=> terrors > 0) \/ (Top.op = "unmarshaler" /\ Top.terrlen = f.terrlen)
  PROVE  StepMerges
<1>1. PICK t, te : t = stack' /\ te = terrors'
  OBVIOUS
<1>2. /\ n \in Nat \ {0} /\ n \in 1..n /\ IsSequence(stack) /\ DOMAIN stack = 1..n /\ Top = stack[n]
      /\ DOMAIN c = 1..n /\ Settled(b, nodes) /\ terrors \in Nat /\ n - 1 \in Nat
      /\ Frames(stack, nodes, b, c, n) /\ Frames(stack, nodes, b, c, n - 1)
      /\ Callers(stack, nodes, c, merged, terrors, n - 1)
  BY MergingFacts
<1>3. /\ IsSequence(t) /\ Len(t) = n /\ DOMAIN t = 1..n /\ t # <<>> /\ t[n] = f
      /\ \A l \in 1..n - 1 : t[l] = stack[l]
  <2>1. Swapped(stack, t, n, f)
    BY <1>1, <1>2, Replaced
  <2> QED
    BY <2>1 DEF Swapped
<1>4. \A o \in 1..n - 1 : Excused(stack, terrors, o) => Excused(t, te, o)
  <2> SUFFICES ASSUME NEW o \in 1..n - 1, Excused(stack, terrors, o)
               PROVE  Excused(t, te, o)
    OBVIOUS
  <2>1. terrors > 0 /\ (Top.op = "unmarshaler" => Top.terrlen > 0)
    <3>1. n \in o + 1..n
      BY <1>2
    <3> QED
      BY <1>2, <3>1 DEF Excused
  <2>2. f.op = "unmarshaler" => f.terrlen > 0
    BY <2>1
  <2>3. te > 0 /\ te \in Nat
    BY <1>1, <2>1, <2>2
  <2>4. t[n].op = "unmarshaler" => t[n].terrlen > 0 \/ o >= n
    BY <1>3, <2>2
  <2>5. \A l \in 1..n - 1 : t[l].op = stack[l].op /\ (stack[l].op = "unmarshaler" => t[l] = stack[l])
    BY <1>3
  <2>6. Len(t) \in {n, n + 1} /\ Len(t) # n + 1 /\ o \in Nat
    BY <1>2, <1>3
  <2> QED
    BY <1>2, <2>3, <2>4, <2>5, <2>6, ExcusedSame
<1>5. t[n].op = "merge" <=> stack[n].op = "merge"
  BY <1>2, <1>3
<1>6. \A l \in 1..n - 1 : t[l] = stack[l] /\ c[l] = c[l]
  BY <1>3
<1>7. Undisturbed(stack, c, merged, terrors, t, c, merged, te, n)
  BY <1>2, <1>4, <1>5, <1>6, SameBelow
<1>8. Frames(t, nodes, b, c, n - 1) /\ Callers(t, nodes, c, merged, te, n - 1)
  BY <1>2, <1>7, BelowSame
<1>9. FrameAt(t, nodes, b, c, n) /\ Inner(t, c, n) /\ Nested(t, c, n)
  <2>1. SameCalls(stack, c, t, c, n - 1)
    BY <1>7 DEF Undisturbed
  <2>2. t[n].op \in {"sequence", "unmarshaler"}
    BY <1>3
  <2>3. t[n].op = "unmarshaler" => (t[n].result = "type_error" => t[n].issues > 0)
    BY <1>3
  <2> QED
    BY <1>2, <2>1, <2>2, <2>3, PlainFrame
<1>10. TopTip(t, "none", nodes, b, c, merged, te, n)
  BY <1>3 DEF TopTip
<1>11. 0 = Current(t, c, n)
  BY <1>3 DEF Current
<1>12. MergeOf(t, "none", nodes, b, c, merged, te, 0)
  BY <1>2, <1>3, <1>8, <1>9, <1>10, <1>11, Assemble
<1>13. MergeOf(stack', ret', nodes', b, c, merged', terrors', mergedFields')
  BY <1>1, <1>12
<1> QED
  BY <1>13 DEF StepMerges

\* The decoding of a sequence begins, an unmarshaler is called.
LEMMA BeginMerges ==
  ASSUME TypeInv, AliasInv, NEW b, NEW c, Merging(b, c), DecodeSequence \/ CallUnmarshaler
  PROVE  StepMerges
<1>1. /\ AtCall /\ stack # <<>> /\ Top.op = "unmarshal" /\ Top.into = 0 /\ ret' = "none" /\ nodes' = nodes
      /\ merged' = merged /\ mergedFields' = mergedFields /\ terrors' = terrors
  BY DEF DecodeSequence, CallUnmarshaler, AtKind, AtCall, decoder
<1>2. c[Len(stack)].owner = 0 /\ mergedFields = 0
  BY <1>1, UnmarshalPlain
<1>3. terrors \in Nat
  BY DEF TypeInv
<1>4. CASE DecodeSequence
  <2>1. PICK f : f = [op |-> "sequence", node |-> Top.node, i |-> 1]
    OBVIOUS
  <2>2. stack' = Append(Front(stack), f) /\ f.op = "sequence"
    BY <1>4, <2>1 DEF DecodeSequence, Replace
  <2> QED
    BY <1>1, <1>2, <1>3, <2>2, ReplacePlain
<1>5. CASE CallUnmarshaler
  <2>1. PICK f : f = [op |-> "unmarshaler", node |-> Top.node, terrlen |-> terrors,
                      calls |-> 0, result |-> "none", issues |-> 0]
    OBVIOUS
  <2>2. /\ stack' = Append(Front(stack), f) /\ f.op = "unmarshaler" /\ f.terrlen = terrors
        /\ f.result # "type_error"
    BY <1>5, <2>1 DEF CallUnmarshaler, Replace
  <2> QED
    BY <1>1, <1>2, <1>3, <2>2, ReplacePlain
<1> QED
  BY <1>4, <1>5

\* The function of an unmarshaler returns to it.
LEMMA FunctionReturnsMerges ==
  ASSUME TypeInv, AliasInv, NEW b, NEW c, Merging(b, c), FunctionReturns
  PROVE  StepMerges
<1>1. /\ stack # <<>> /\ Top.op = "unmarshaler" /\ ret' = "none" /\ nodes' = nodes
      /\ merged' = merged /\ mergedFields' = mergedFields
  BY DEF FunctionReturns, In, decoder
<1>2. PICK n : n = Len(stack)
  OBVIOUS
<1>3. /\ ret # "error" /\ Top = stack[n] /\ mergedFields = Current(stack, c, n) /\ terrors \in Nat
      /\ FrameOK(Top, nodes, Len(merged))
  BY <1>1, <1>2, MergingFacts
<1>4. mergedFields = 0
  BY <1>1, <1>3 DEF Current
<1>5. c[n].owner = 0
  BY <1>1, <1>2, OtherPlain
<1>6. Top.terrlen \in Nat /\ {"terrlen", "calls", "result", "issues", "op"} \subseteq DOMAIN Top
  BY <1>1, <1>3 DEF FrameOK
<1>7. PICK f : f = [Top EXCEPT !.result = IF terrors > Top.terrlen THEN "type_error" ELSE "nil",
                               !.issues = terrors - Top.terrlen]
  OBVIOUS
<1>8. stack' = Append(Front(stack), f) /\ terrors' = Top.terrlen
  BY <1>3, <1>7 DEF FunctionReturns, Replace
<1>9. /\ f.op = "unmarshaler" /\ f.terrlen = Top.terrlen
      /\ f.result = (IF terrors > Top.terrlen THEN "type_error" ELSE "nil")
      /\ f.issues = terrors - Top.terrlen
  BY <1>1, <1>6, <1>7
<1>10. f.result = "type_error" => f.issues > 0
  <2>1. f.result = "type_error" => terrors > Top.terrlen
    BY <1>9
  <2> QED
    BY <1>3, <1>6, <1>9, <2>1
<1>11. terrors' \in Nat /\ (f.terrlen > 0 => terrors' > 0)
  BY <1>6, <1>8, <1>9
<1> QED
  BY <1>1, <1>2, <1>4, <1>5, <1>8, <1>9, <1>10, <1>11, ReplacePlain

-----------------------------------------------------------------------------
(* Actions that call                                                         *)

\* The mapping n is in the tree ms with the entries and the merge that it has in ns.
KeepsMapping(ns, ms, n) ==
  /\ n \in Mappings(ms)
  /\ \A i \in DOMAIN ns[n].content : i \in DOMAIN ms[n].content /\ ms[n].content[i] = ns[n].content[i]
  /\ EntryOf(ms[n].content, Merge) = EntryOf(ns[n].content, Merge)
  /\ EntryOf(ns[n].content, Merge) # {} => MergeValue(ms[n].content) = MergeValue(ns[n].content)

\* It is, in a tree in which more is known.
LEMMA MappingKeeps ==
  ASSUME NEW ns, NEW ms, ns = ms \/ Extends(ns, ms), NEW n \in Mappings(ns)
  PROVE  KeepsMapping(ns, ms, n)
<1>1. CASE ns = ms
  BY <1>1 DEF KeepsMapping
<1>2. CASE Extends(ns, ms)
  <2>1. n \in Mappings(ms) /\ EntryOf(ms[n].content, Merge) = EntryOf(ns[n].content, Merge)
    BY <1>2, MappingKept
  <2>2. \A i \in DOMAIN ns[n].content : i \in DOMAIN ms[n].content /\ ms[n].content[i] = ns[n].content[i]
    BY <1>2, MappingKept
  <2>3. EntryOf(ns[n].content, Merge) # {} => MergeValue(ms[n].content) = MergeValue(ns[n].content)
    BY <1>2, MappingKept
  <2> QED
    BY <2>1, <2>2, <2>3 DEF KeepsMapping
<1> QED
  BY <1>1, <1>2

\* The merges are in the tree ms, which has the node v, as they are in the one now.
Grown(ms, b, c, v) ==
  /\ MergeOf(stack, ret, ms, b, c, merged, terrors, mergedFields)
  /\ Unique(ms) /\ Tree(ms) /\ v \in 0..Len(ms) /\ Settled(b, ms)
  /\ \A n \in Mappings(nodes) : KeepsMapping(nodes, ms, n)

\* They are, in a tree in which more is known.
LEMMA GrownMerging ==
  ASSUME TypeInv, AliasInv, Unique(nodes), NEW b, NEW c, Merging(b, c), NEW v \in 0..Len(nodes),
         NEW ns \in Known(v), NEW ms, MayAdd(ns, v, ms)
  PROVE  Grown(ms, b, c, v)
<1>1. Tree(nodes) /\ Len(nodes) + unmarshalers <= MaxNodes /\ unmarshalers \in Nat /\ IsSequence(stack)
  BY TypeFacts DEF TypeInv
<1>2. /\ ns = nodes \/ Extends(nodes, ns)
      /\ Unique(ns) /\ Tree(ns) /\ v \in 0..Len(ns)
  BY <1>1, KnownExtends
<1>3. ms = ns \/ (Extends(ns, ms) /\ Unique(ms))
  BY <1>2, OriginExtends
<1>4. PICK m : m = Len(stack)
  OBVIOUS
<1>5. m \in Nat
  BY <1>1, <1>4 DEF IsSequence
<1>6. MergeOf(stack, ret, ns, b, c, merged, terrors, mergedFields)
  BY <1>1, <1>2, <1>4, <1>5, MergeGrown DEF Merging
<1>7. MergeOf(stack, ret, ms, b, c, merged, terrors, mergedFields)
  BY <1>1, <1>3, <1>4, <1>5, <1>6, MergeGrown
<1>8. Tree(ms) /\ v \in 0..Len(ms)
  <2>1. CASE ms = ns
    BY <1>2, <2>1
  <2>2. CASE Extends(ns, ms)
    <3>1. Tree(ms) /\ DOMAIN ns \subseteq DOMAIN ms
      BY <2>2 DEF Extends
    <3>2. /\ DOMAIN ns = 1..Len(ns) /\ Len(ns) \in Nat /\ DOMAIN ms = 1..Len(ms) /\ Len(ms) \in Nat
      BY <1>2, <3>1, TreeFacts
    <3>3. v = 0 \/ v \in DOMAIN ns
      BY <1>2, <3>2
    <3> QED
      BY <3>1, <3>2, <3>3
  <2> QED
    BY <1>3, <2>1, <2>2
<1>9. Unique(ms) /\ Settled(b, ms)
  BY <1>2, <1>3, <1>7 DEF MergeOf
<1>10. ASSUME NEW n \in Mappings(nodes)
       PROVE  KeepsMapping(nodes, ms, n)
  <2>1. KeepsMapping(nodes, ns, n)
    BY <1>2, MappingKeeps
  <2>2. KeepsMapping(ns, ms, n)
    <3>1. n \in Mappings(ns)
      BY <2>1 DEF KeepsMapping
    <3>2. ns = ms \/ Extends(ns, ms)
      BY <1>3
    <3> QED
      BY <3>1, <3>2, MappingKeeps
  <2> QED
    BY <2>1, <2>2 DEF KeepsMapping
<1> QED
  BY <1>7, <1>8, <1>9, <1>10 DEF Grown

\* t is s with the call f in the place of the innermost of its n, and behind it the call g.
Called(s, t, n, f, g) ==
  /\ IsSequence(t) /\ n \in Nat \ {0} /\ Len(t) = n + 1 /\ DOMAIN t = 1..n + 1
  /\ t[n] = f /\ t[n + 1] = g /\ \A l \in 1..n - 1 : t[l] = s[l]

\* A call goes on and makes a call.
LEMMA ReplacedCalled ==
  ASSUME NEW s, IsSequence(s), s # <<>>, NEW f, NEW g
  PROVE  Called(s, Append(Append(Front(s), f), g), Len(s), f, g)
<1>1. PICK n, u, t : n = Len(s) /\ u = Append(Front(s), f) /\ t = Append(u, g)
  OBVIOUS
<1>2. Swapped(s, u, n, f)
  BY <1>1, Replaced
<1>3. IsSequence(u) /\ Len(u) = n /\ n \in Nat \ {0} /\ u[n] = f /\ \A l \in 1..n - 1 : u[l] = s[l]
  BY <1>2 DEF Swapped
<1>4. /\ IsSequence(t) /\ Len(t) = n + 1 /\ DOMAIN t = 1..n + 1
      /\ \A l \in 1..n : t[l] = u[l]
      /\ t[n + 1] = g
  BY <1>1, <1>3, AppendFacts
<1>5. Called(s, t, n, f, g)
  BY <1>3, <1>4 DEF Called
<1> QED
  BY <1>1, <1>5

\* A call makes a call.
LEMMA AppendedCalled ==
  ASSUME NEW s, IsSequence(s), s # <<>>, NEW g
  PROVE  Called(s, Append(s, g), Len(s), s[Len(s)], g)
<1>1. PICK n, t : n = Len(s) /\ t = Append(s, g)
  OBVIOUS
<1>2. n \in Nat \ {0}
  BY <1>1, FrontFacts
<1>3. /\ IsSequence(t) /\ Len(t) = n + 1 /\ DOMAIN t = 1..n + 1
      /\ \A l \in 1..n : t[l] = s[l]
      /\ t[n + 1] = g
  BY <1>1, AppendFacts
<1>4. Called(s, t, n, s[n], g)
  BY <1>2, <1>3 DEF Called
<1> QED
  BY <1>1, <1>4

\* The decoding of a sequence, or an unmarshaler, has a node decoded.
LEMMA PlainCall ==
  ASSUME TypeInv, AliasInv, stack # <<>>, NEW ns, NEW b, NEW c,
         MergeOf(stack, ret, ns, b, c, merged, terrors, mergedFields), NEW n, n = Len(stack),
         c[n].owner = 0, Top.op # "merge", NEW f, NEW v \in 0..Len(ns),
         stack' = Append(Append(Front(stack), f), Unmarshal(v, 0)),
         f.op \in {"sequence", "unmarshaler"},
         f.op = "unmarshaler" => (f.result = "type_error" => f.issues > 0),
         f.op = "unmarshaler" => Top.op = "unmarshaler" /\ f.terrlen = Top.terrlen,
         nodes' = ns, merged' = merged, mergedFields' = 0, ret' = "none", terrors' = terrors
  PROVE  StepMerges
<1>1. PICK t, g : t = stack' /\ g = Unmarshal(v, 0)
  OBVIOUS
<1>2. PICK d : d = [l \in 1..n + 1 |-> IF l = n + 1 THEN None ELSE c[l]]
  OBVIOUS
<1>3. /\ n \in Nat \ {0} /\ n \in 1..n /\ IsSequence(stack) /\ DOMAIN stack = 1..n /\ Top = stack[n]
      /\ DOMAIN c = 1..n /\ Settled(b, ns) /\ terrors \in Nat /\ n - 1 \in Nat
      /\ Frames(stack, ns, b, c, n) /\ Frames(stack, ns, b, c, n - 1)
      /\ Callers(stack, ns, c, merged, terrors, n - 1)
  BY GrownFacts
<1>4. Called(stack, t, n, f, g)
  BY <1>1, <1>3, ReplacedCalled
<1>5. /\ IsSequence(t) /\ Len(t) = n + 1 /\ DOMAIN t = 1..n + 1 /\ t[n] = f /\ t[n + 1] = g
      /\ \A l \in 1..n - 1 : t[l] = stack[l]
  BY <1>4 DEF Called
<1>6. /\ DOMAIN d = 1..n + 1 /\ d[n + 1] = None /\ \A l \in 1..n : d[l] = c[l]
  BY <1>2, <1>3
<1>7. \A l \in 1..n - 1 : t[l] = stack[l] /\ d[l] = c[l]
  BY <1>3, <1>5, <1>6
<1>8. \A o \in 1..n - 1 : Excused(stack, terrors, o) => Excused(t, terrors, o)
  <2> SUFFICES ASSUME NEW o \in 1..n - 1, Excused(stack, terrors, o)
               PROVE  Excused(t, terrors, o)
    OBVIOUS
  <2>1. n \in o + 1..n
    BY <1>3
  <2>2. terrors > 0 /\ (Top.op = "unmarshaler" => Top.terrlen > 0)
    BY <1>3, <2>1 DEF Excused
  <2>3. t[n].op = "unmarshaler" => t[n].terrlen > 0 \/ o >= n
    BY <1>5, <2>2
  <2>4. \A l \in 1..n - 1 : t[l].op = stack[l].op /\ (stack[l].op = "unmarshaler" => t[l] = stack[l])
    BY <1>5
  <2>5. Len(t) \in {n, n + 1} /\ o \in Nat /\ t[n + 1].op # "unmarshaler"
    BY <1>1, <1>3, <1>5 DEF Unmarshal
  <2> QED
    BY <1>3, <2>2, <2>3, <2>4, <2>5, ExcusedSame
<1>9. t[n].op = "merge" <=> stack[n].op = "merge"
  BY <1>3, <1>5
<1>10. Undisturbed(stack, c, merged, terrors, t, d, merged, terrors, n)
  BY <1>3, <1>7, <1>8, <1>9, SameBelow
<1>11. Frames(t, ns, b, d, n - 1) /\ Callers(t, ns, d, merged, terrors, n - 1)
  BY <1>3, <1>10, BelowSame
<1>12. FrameAt(t, ns, b, d, n) /\ Inner(t, d, n) /\ Nested(t, d, n)
  <2>1. SameCalls(stack, c, t, d, n - 1)
    BY <1>10 DEF Undisturbed
  <2>2. t[n].op \in {"sequence", "unmarshaler"}
    BY <1>5
  <2>3. t[n].op = "unmarshaler" => (t[n].result = "type_error" => t[n].issues > 0)
    BY <1>5
  <2>4. d[n] = c[n]
    BY <1>3, <1>6
  <2> QED
    BY <1>3, <2>1, <2>2, <2>3, <2>4, PlainFrame
<1>13. \A l \in 1..n : l \in 1..n - 1 \/ l = n
  BY <1>3
<1>14. Frames(t, ns, b, d, n)
  BY <1>11, <1>12, <1>13 DEF Frames
<1>15. Callers(t, ns, d, merged, terrors, n)
  <2>1. t[n].op # "unmarshal" /\ ~Calling(t, n)
    BY <1>5 DEF Calling
  <2> QED
    BY <1>11, <1>13, <2>1 DEF Callers
<1>16. t[n].op \in {"sequence", "mapping", "unmarshaler"} /\ t[n + 1] = Unmarshal(v, 0)
  BY <1>1, <1>5
<1>17. MergeOf(t, "none", ns, b, d, merged, terrors, 0)
  BY <1>3, <1>5, <1>6, <1>14, <1>15, <1>16, PushPlain
<1>18. MergeOf(stack', ret', nodes', b, d, merged', terrors', mergedFields')
  BY <1>1, <1>17
<1> QED
  BY <1>18 DEF StepMerges

\* An item of a sequence is decoded.
LEMMA SequenceItemMerges ==
  ASSUME TypeInv, AliasInv, Unique(nodes), NEW b, NEW c, Merging(b, c), SequenceItem
  PROVE  StepMerges
<1>1. PICK v, f : v = nodes[Top.node].content[Top.i] /\ f = [Top EXCEPT !.i = @ + 1]
  OBVIOUS
<1>2. /\ stack # <<>> /\ Top.op = "sequence" /\ Top.i <= Len(nodes[Top.node].content)
      /\ stack' = Append(Append(Front(stack), f), Unmarshal(v, 0)) /\ ret' = "none"
      /\ merged' = merged /\ mergedFields' = mergedFields /\ terrors' = terrors
  BY <1>1 DEF SequenceItem, In, Replace, decoder
<1>3. PICK ns \in Known(v) : nodes' = AddOriginTo(ns, v, 1)
  BY <1>1 DEF SequenceItem
<1>4. v \in 0..Len(nodes)
  BY <1>1, <1>2, ContentFacts
<1>5. PICK ms : ms = nodes'
  OBVIOUS
<1>6. MayAdd(ns, v, ms)
  BY <1>3, <1>5 DEF MayAdd
<1>7. MergeOf(stack, ret, ms, b, c, merged, terrors, mergedFields) /\ v \in 0..Len(ms)
  <2>1. Grown(ms, b, c, v)
    BY <1>4, <1>6, GrownMerging
  <2> QED
    BY <2>1 DEF Grown
<1>8. PICK n : n = Len(stack)
  OBVIOUS
<1>9. c[n].owner = 0
  BY <1>2, <1>8, OtherPlain
<1>10. Top = stack[n] /\ mergedFields = Current(stack, c, n) /\ FrameOK(Top, nodes, Len(merged))
  BY <1>2, <1>8, MergingFacts
<1>11. mergedFields = 0
  BY <1>2, <1>10 DEF Current
<1>12. f.op = "sequence"
  BY <1>1, <1>2, <1>10 DEF FrameOK
<1> QED
  BY <1>2, <1>5, <1>7, <1>8, <1>9, <1>11, <1>12, PlainCall

\* An unmarshaler calls its function.
LEMMA UnmarshalerCallsMerges ==
  ASSUME TypeInv, AliasInv, NEW b, NEW c, Merging(b, c), UnmarshalerCalls
  PROVE  StepMerges
<1>1. PICK v, f : v = Top.node /\ f = [Top EXCEPT !.calls = @ + 1]
  OBVIOUS
<1>2. /\ stack # <<>> /\ Top.op = "unmarshaler"
      /\ stack' = Append(Append(Front(stack), f), Unmarshal(v, 0)) /\ ret' = "none" /\ nodes' = nodes
      /\ merged' = merged /\ mergedFields' = mergedFields /\ terrors' = terrors
  BY <1>1 DEF UnmarshalerCalls, In, Replace, decoder
<1>3. PICK n : n = Len(stack)
  OBVIOUS
<1>4. c[n].owner = 0
  BY <1>2, <1>3, OtherPlain
<1>5. /\ Top = stack[n] /\ mergedFields = Current(stack, c, n) /\ FrameOK(Top, nodes, Len(merged))
      /\ FrameAt(stack, nodes, b, c, n)
  BY <1>2, <1>3, MergingFacts
<1>6. mergedFields = 0
  BY <1>2, <1>5 DEF Current
<1>7. /\ v \in 0..Len(nodes) /\ f.op = "unmarshaler" /\ f.terrlen = Top.terrlen
      /\ f.result = Top.result /\ f.issues = Top.issues
  BY <1>1, <1>2, <1>5 DEF FrameOK
<1>8. f.result = "type_error" => f.issues > 0
  BY <1>2, <1>5, <1>7 DEF FrameAt
<1>9. MergeOf(stack, ret, nodes, b, c, merged, terrors, mergedFields)
  BY DEF Merging
<1> QED
  BY <1>2, <1>3, <1>4, <1>6, <1>7, <1>8, <1>9, PlainCall

-----------------------------------------------------------------------------
(* Entries of mappings                                                       *)

\* The call g is that of the mapping f with the next entry.
Moved(f, g) ==
  /\ g.op = "mapping" /\ MappingFields \subseteq DOMAIN g
  /\ g.node = f.node /\ g.i = f.i + 1 /\ g.own = f.own /\ g.owner = f.owner /\ g.target = f.target

\* t: the stack s with the innermost mapping at its next entry; only the map of the owner o
\* may have been added to.
Advanced(s, t, n, o) ==
  /\ n \in Nat \ {0} /\ Len(t) = n /\ DOMAIN t = 1..n
  /\ \A l \in 1..n - 1 : Refills(s[l], t[l]) /\ (l # o => t[l] = s[l])
  /\ Moved(s[n], t[n]) /\ t[o].target = s[o].target

\* The map of the call o of s has been filled, but for what an error excuses.
Fills(s, te, ns, o, past, now, n) == Filling(s[o], Excused(s, te, o), ns, past, now, n)

\* The n calls have a mapping with the owner o innermost that is at an entry: the mappings
\* of past and the keys in now have been dealt with.
EntryHolds(n, o, past, now) ==
  /\ n \in Nat \ {0} /\ Top = stack[n] /\ n \in 1..n /\ Top.op = "mapping"
  /\ Top.node \in Mappings(nodes) /\ Top.i \in DOMAIN nodes[Top.node].content
  /\ Entry = nodes[Top.node].content[Top.i] /\ Top.i \in Nat \ {0}
  /\ Entry.key \in Keys \cup {Merge, Origin} /\ Entry.key \notin now
  /\ past \in Seq(Mappings(nodes)) /\ (Top.own = 0 => past = <<>>)
  /\ Top.target.fields \subseteq Keys \cup {Origin}
  /\ Fills(stack, terrors, nodes, o, past, now, Top.node)
  /\ ret = "none" => Marks(merged, nodes, past, now, {}, Top.own)
  /\ ret # "none" => Marks(merged, nodes, past, now, {Entry.key}, Top.own)
  /\ ret # "none" => Entry.key \in Top.target.fields \cap Keys
  /\ o \in 1..n /\ stack[o].target = Top.target /\ stack[o].op = "mapping"
  /\ MappingFields \subseteq DOMAIN stack[o] /\ MappingFields \subseteq DOMAIN Top
  /\ Top.own \in 0..Len(merged) /\ mergedFields = 0 /\ ret # "error" /\ (ret = "bad" => terrors > 0)

\* What holds of the entry that a mapping is at.
LEMMA EntryFacts ==
  ASSUME TypeInv, AliasInv, Unique(nodes), NEW b, NEW c, Merging(b, c), In("mapping"),
         Top.i <= Len(nodes[Top.node].content)
  PROVE  EntryHolds(Len(stack), Top.owner, c[Len(stack)].line, Before(nodes, Top))
<1>0. PICK n, o, past, now : n = Len(stack) /\ o = Top.owner /\ past = c[n].line /\ now = Before(nodes, Top)
  OBVIOUS
<1>1. stack # <<>> /\ Top.op = "mapping"
  BY DEF In
<1>2. /\ n \in Nat \ {0} /\ Top = stack[n] /\ n \in 1..n /\ FrameOK(Top, nodes, Len(merged)) /\ Tree(nodes)
      /\ Frames(stack, nodes, b, c, n) /\ TopTip(stack, ret, nodes, b, c, merged, terrors, n)
      /\ mergedFields = Current(stack, c, n) /\ ret # "error" /\ (ret = "bad" => terrors > 0)
  BY <1>0, <1>1, MergingFacts
<1>3. n \in Nat /\ stack[n].op = "mapping"
  BY <1>1, <1>2
<1>4. /\ Top.owner \in 1..n /\ stack[Top.owner].op = "mapping" /\ stack[Top.owner].target = Top.target
      /\ MappingFields \subseteq DOMAIN stack[Top.owner] /\ past \in Seq(Mappings(nodes))
      /\ Top.own = 0 => c[n] = None
      /\ MappingFrame(Top, nodes, c[n], n)
  BY <1>0, <1>2, <1>3, OwnerFacts
<1>5. /\ Top.node \in Mappings(nodes) /\ Top.i \in 1..Len(nodes[Top.node].content) + 1
      /\ MappingFields \subseteq DOMAIN Top /\ Top.target.fields \subseteq Keys \cup {Origin}
  BY <1>4 DEF MappingFrame
<1>6. PICK x, i : x = nodes[Top.node].content /\ i = Top.i
  BY Zenon
<1>7. /\ DOMAIN x = 1..Len(x) /\ Len(x) \in Nat /\ \A j \in DOMAIN x : x[j].key \in Keys \cup {Merge, Origin}
  BY <1>2, <1>5, <1>6, MappingContent
<1>8. i \in DOMAIN x /\ i \in Nat \ {0} /\ Entry = x[i]
  BY <1>5, <1>6, <1>7 DEF Entry
<1>9. Entry.key \notin now
  <2> SUFFICES ASSUME Entry.key \in now PROVE FALSE
    OBVIOUS
  <2>1. PICK j \in 1..i - 1 : x[j].key = Entry.key /\ Entry.key \in Keys
    BY <1>0, <1>6 DEF Before
  <2>2. j \in DOMAIN x /\ j # i
    BY <1>7, <1>8
  <2>3. x[j].key = x[i].key /\ x[j].key # Origin
    BY <1>8, <2>1, KeyFacts
  <2> QED
    BY <1>5, <1>6, <1>8, <2>2, <2>3 DEF Unique
<1>10. MappingTip(stack, nodes, c, merged, terrors, n, ret # "none")
  BY Zenon, <1>2, <1>3 DEF TopTip
<1>11. /\ Done(stack, terrors, nodes, merged, o, past, now, Top.node,
               IF ret # "none" THEN {Entry.key} ELSE {}, Top.own)
       /\ ret # "none" => Entry.key \in Top.target.fields \cap Keys
  BY Zenon, <1>0, <1>2, <1>6, <1>8, <1>10 DEF MappingTip
<1>12. /\ Fills(stack, terrors, nodes, o, past, now, Top.node)
       /\ ret = "none" => Marks(merged, nodes, past, now, {}, Top.own)
       /\ ret # "none" => Marks(merged, nodes, past, now, {Entry.key}, Top.own)
  <2>1. CASE ret = "none"
    BY <1>11, <2>1 DEF Done, Fills
  <2>2. CASE ret # "none"
    BY <1>11, <2>2 DEF Done, Fills
  <2> QED
    BY <2>1, <2>2
<1>13. Top.own \in 0..Len(merged) /\ mergedFields = 0
  BY <1>1, <1>2 DEF FrameOK, Current
<1>14. Top.own = 0 => past = <<>>
  BY <1>0, <1>4 DEF None
<1>15. i \in DOMAIN x /\ Entry.key \in Keys \cup {Merge, Origin}
  BY <1>7, <1>8
<1>16. Top.i \in DOMAIN nodes[Top.node].content /\ Entry = nodes[Top.node].content[Top.i] /\ Top.i \in Nat \ {0}
  BY <1>6, <1>8
<1>17. o \in 1..n /\ stack[o].target = Top.target /\ stack[o].op = "mapping" /\ MappingFields \subseteq DOMAIN stack[o]
  BY <1>0, <1>4
<1>18. EntryHolds(n, o, past, now)
  BY Zenon, <1>1, <1>2, <1>4, <1>5, <1>9, <1>11, <1>12, <1>13, <1>14, <1>15, <1>16, <1>17 DEF EntryHolds
<1> QED
  BY <1>0, <1>18

\* The keys before the next entry.
LEMMA BeforeNext ==
  ASSUME NEW f, NEW g, Moved(f, g), NEW ns, f.i \in Nat \ {0}
  PROVE  Before(ns, g) = Before(ns, f) \cup ({ns[f.node].content[f.i].key} \cap Keys)
<1>1. PICK i, x : i = f.i /\ x = ns[f.node].content
  OBVIOUS
<1>2. g.i - 1 = i /\ g.node = f.node
  BY <1>1 DEF Moved
<1>3. 1..i = (1..i - 1) \cup {i}
  BY <1>1
<1>4. Before(ns, g) = {x[j].key : j \in 1..i} \cap Keys
  BY <1>1, <1>2 DEF Before
<1>5. Before(ns, f) = {x[j].key : j \in 1..i - 1} \cap Keys
  BY <1>1 DEF Before
<1> QED
  BY <1>1, <1>3, <1>4, <1>5

\* The entry is passed over, or its value is stored in the map of the owner o.
Passed(t, n, o) == Advanced(stack, t, n, o) /\ t[o].out = stack[o].out
Stored(t, n, o) == Advanced(stack, t, n, o) /\ t[o].out = Put(stack[o].out, Entry.key, Top.node)

\* The stack when a mapping passes over an entry.
LEMMA AdvanceIs ==
  ASSUME TypeInv, AliasInv, stack # <<>>, Top.op = "mapping",
         NEW o \in 1..Len(stack), MappingFields \subseteq DOMAIN Top
  PROVE  Passed(Advance, Len(stack), o)
<1>0. PICK n, t : n = Len(stack) /\ t = Advance
  OBVIOUS
<1>1. PICK f : f = [Top EXCEPT !.i = @ + 1]
  OBVIOUS
<1>2. IsSequence(stack) /\ Top = stack[n] /\ n \in Nat \ {0}
  BY <1>0, InnermostFacts
<1>3. Swapped(stack, Append(Front(stack), f), n, f)
  BY <1>0, <1>2, Replaced
<1>4. Swapped(stack, t, n, f)
  BY <1>0, <1>1, <1>3 DEF Advance, Replace
<1>5. {"op", "node", "i", "own", "owner", "target", "out"} \subseteq DOMAIN Top
  BY DEF MappingFields
<1>6. Moved(Top, f) /\ f.out = Top.out
  BY <1>1, <1>5 DEF Moved, MappingFields
<1>7. /\ Len(t) = n /\ DOMAIN t = 1..n /\ t[n] = f /\ \A l \in 1..n - 1 : t[l] = stack[l]
  BY <1>4 DEF Swapped
<1>8. o = n \/ o \in 1..n - 1
  BY <1>0, <1>2
<1>9. t[o].out = stack[o].out /\ t[o].target = stack[o].target
  BY <1>2, <1>6, <1>7, <1>8 DEF Moved
<1>10. Passed(t, n, o)
  BY <1>2, <1>6, <1>7, <1>9 DEF Passed, Advanced, Refills
<1> QED
  BY <1>0, <1>10

\* The stack when it stores the value of the entry.
LEMMA StoreIs ==
  ASSUME TypeInv, AliasInv, stack # <<>>, Top.op = "mapping", Top.owner \in 1..Len(stack),
         stack[Top.owner].op = "mapping", MappingFields \subseteq DOMAIN stack[Top.owner],
         MappingFields \subseteq DOMAIN Top
  PROVE  Stored(Store, Len(stack), Top.owner)
<1> DEFINE put(f) == [f EXCEPT !.out = Put(@, Entry.key, Top.node)]
           count(f) == [f EXCEPT !.i = @ + 1]
<1>0. PICK n, o, t : n = Len(stack) /\ o = Top.owner /\ t = Store
  OBVIOUS
<1>1. /\ IsSequence(stack) /\ Top = stack[n] /\ n \in Nat \ {0} /\ DOMAIN stack = 1..n
      /\ o \in 1..n /\ stack[o].op = "mapping" /\ MappingFields \subseteq DOMAIN stack[o]
  BY <1>0, InnermostFacts
<1>2. /\ \A l \in 1..n - 1 : t[l] = IF l = o THEN put(stack[l]) ELSE stack[l]
      /\ t[n] = IF n = o THEN count(put(Top)) ELSE count(Top)
  <2>1. DOMAIN stack = 1..n
    BY <1>1
  <2>2. \A l \in 1..n : t[l] = IF l = n THEN IF l = o THEN count(put(Top)) ELSE count(Top)
                              ELSE IF l = o THEN put(stack[l]) ELSE stack[l]
    BY <1>0, <2>1 DEF Store
  <2> HIDE DEF put, count
  <2> QED
    BY <1>1, <2>2
<1>3. DOMAIN t = 1..n /\ Len(t) = n
  <2>1. t = [l \in 1..n |-> t[l]]
    BY <1>0, <1>1 DEF Store
  <2> QED
    BY <1>1, <2>1, FunctionFacts
<1>4. ASSUME NEW f, MappingFields \subseteq DOMAIN f
      PROVE  /\ DOMAIN put(f) = DOMAIN f /\ put(f).out = Put(f.out, Entry.key, Top.node)
             /\ \A x \in DOMAIN f \ {"out"} : put(f)[x] = f[x]
  BY <1>4 DEF MappingFields
<1>5. ASSUME NEW f, MappingFields \subseteq DOMAIN f
      PROVE  /\ DOMAIN count(f) = DOMAIN f /\ count(f).i = f.i + 1
             /\ \A x \in DOMAIN f \ {"i"} : count(f)[x] = f[x]
  BY <1>5 DEF MappingFields
<1> HIDE DEF put, count
<1>6. \A l \in 1..n - 1 : Refills(stack[l], t[l]) /\ (l # o => t[l] = stack[l])
  <2> TAKE l \in 1..n - 1
  <2>1. CASE l # o
    BY <1>2, <2>1 DEF Refills
  <2>2. CASE l = o
    <3>1. t[l] = put(stack[l])
      BY <1>2, <2>2
    <3>2. DOMAIN t[l] = DOMAIN stack[l] /\ \A x \in DOMAIN stack[l] \ {"out"} : t[l][x] = stack[l][x]
      BY <1>1, <1>4, <2>2, <3>1
    <3> QED
      BY <1>1, <2>2, <3>2 DEF Refills, MappingFields
  <2> QED
    BY <2>1, <2>2
<1>7. ASSUME o = n
      PROVE  Stored(t, n, o)
  <2>1. PICK f : f = put(Top)
    OBVIOUS
  <2>2. /\ DOMAIN f = DOMAIN Top /\ f.out = Put(Top.out, Entry.key, Top.node)
        /\ \A x \in DOMAIN Top \ {"out"} : f[x] = Top[x]
    BY <1>4, <2>1
  <2>3. t[n] = count(f)
    BY <1>2, <1>7, <2>1
  <2>4. /\ DOMAIN t[n] = DOMAIN f /\ t[n].i = f.i + 1
        /\ \A x \in DOMAIN f \ {"i"} : t[n][x] = f[x]
    BY <1>5, <2>2, <2>3
  <2>5. Moved(stack[n], t[n]) /\ t[n].out = Put(Top.out, Entry.key, Top.node)
    BY <1>1, <2>2, <2>4 DEF Moved, MappingFields
  <2>6. t[o].target = stack[o].target
    BY <1>7, <2>5 DEF Moved
  <2> QED
    BY <1>1, <1>3, <1>6, <1>7, <2>5, <2>6 DEF Advanced, Stored
<1>8. ASSUME o # n
      PROVE  Stored(t, n, o)
  <2>1. t[n] = count(Top) /\ t[o] = put(stack[o])
    BY <1>1, <1>2, <1>8
  <2>2. Moved(stack[n], t[n])
    <3>1. /\ DOMAIN t[n] = DOMAIN Top /\ t[n].i = Top.i + 1
          /\ \A x \in DOMAIN Top \ {"i"} : t[n][x] = Top[x]
      BY <1>5, <2>1
    <3> QED
      BY <1>1, <3>1 DEF Moved, MappingFields
  <2>3. t[o].target = stack[o].target /\ t[o].out = Put(stack[o].out, Entry.key, Top.node)
    BY <1>1, <1>4, <2>1 DEF MappingFields
  <2> QED
    BY <1>1, <1>3, <1>6, <2>2, <2>3 DEF Advanced, Stored
<1> QED
  BY <1>0, <1>7, <1>8

\* A map stays filled when keys are passed over that it need not have.
LEMMA FillingStays ==
  ASSUME NEW s, NEW te, NEW ns, NEW o, NEW past, NEW now, NEW n, Fills(s, te, ns, o, past, now, n),
         NEW t, NEW ue, t[o].out = s[o].out, t[o].target = s[o].target,
         Excused(s, te, o) => Excused(t, ue, o), NEW new,
         \A k \in new : Excused(t, ue, o) \/ k \notin s[o].target.fields \/ Has(ns, past, k)
  PROVE  Fills(t, ue, ns, o, past, now \cup new, n)
<1>1. PICK f, g, next : f = s[o] /\ g = t[o] /\ next = now \cup new
  OBVIOUS
<1>2. g.out = f.out /\ g.target = f.target
  BY <1>1
<1>3. Filling(f, Excused(s, te, o), ns, past, now, n)
  BY <1>1 DEF Fills
<1>4. Excused(t, ue, o) \/
        \A k \in g.target.fields \cap Keys : Has(ns, past, k) \/ k \in next => k \in DOMAIN g.out
  BY <1>1, <1>2, <1>3 DEF Filling
<1>5. \A k \in DOMAIN g.out \cap Keys :
        Gives(ns, past, k, g.out[k]) \/ (~Has(ns, past, k) /\ k \in next /\ g.out[k] = n)
  BY <1>1, <1>2, <1>3 DEF Filling
<1>6. DOMAIN g.out \subseteq g.target.fields
  BY <1>2, <1>3 DEF Filling
<1>7. Filling(g, Excused(t, ue, o), ns, past, next, n)
  BY <1>4, <1>5, <1>6 DEF Filling
<1> QED
  BY <1>1, <1>7 DEF Fills

\* It stays filled when it is given a key that it does not have.
LEMMA FillingPuts ==
  ASSUME NEW s, NEW te, NEW ns, NEW o, NEW past, NEW now, NEW n, Fills(s, te, ns, o, past, now, n),
         NEW t, NEW ue, NEW k, t[o].out = Put(s[o].out, k, n), t[o].target = s[o].target,
         Excused(s, te, o) => Excused(t, ue, o), k \in s[o].target.fields, k \in Keys => ~Has(ns, past, k)
  PROVE  Fills(t, ue, ns, o, past, now \cup ({k} \cap Keys), n)
<1>1. PICK f, g, next : f = s[o] /\ g = t[o] /\ next = now \cup ({k} \cap Keys)
  OBVIOUS
<1>2. /\ DOMAIN g.out = DOMAIN f.out \cup {k} /\ g.out[k] = n
      /\ \A x \in DOMAIN f.out \ {k} : g.out[x] = f.out[x]
      /\ g.target = f.target
  BY <1>1 DEF Put
<1>3. Filling(f, Excused(s, te, o), ns, past, now, n)
  BY <1>1 DEF Fills
<1>4. DOMAIN g.out \subseteq g.target.fields
  BY <1>1, <1>2, <1>3 DEF Filling
<1>5. ASSUME NEW x \in DOMAIN g.out \cap Keys
      PROVE  Gives(ns, past, x, g.out[x]) \/ (~Has(ns, past, x) /\ x \in next /\ g.out[x] = n)
  <2>1. CASE x = k
    BY <1>1, <1>2, <2>1
  <2>2. CASE x # k
    <3>1. x \in DOMAIN f.out \cap Keys /\ g.out[x] = f.out[x]
      BY <1>2, <2>2
    <3> QED
      BY <1>1, <1>3, <3>1 DEF Filling
  <2> QED
    BY <2>1, <2>2
<1>6. Excused(t, ue, o) \/
        \A x \in g.target.fields \cap Keys : Has(ns, past, x) \/ x \in next => x \in DOMAIN g.out
  BY <1>1, <1>2, <1>3 DEF Filling
<1>7. Filling(g, Excused(t, ue, o), ns, past, next, n)
  BY <1>4, <1>5, <1>6 DEF Filling
<1> QED
  BY <1>1, <1>7 DEF Fills

\* The stack t with what it has been filled with, in the step that ends the entry.
EntryEnds(c, n, o, t, ng, ue) ==
  /\ Advanced(stack, t, n, o)
  /\ \A h \in 1..n : Excused(stack, terrors, h) => Excused(t, ue, h)
  /\ \A l \in 1..n - 1 : Calling(stack, l) /\ stack[l].own # 0 => ng[stack[l].own] = merged[stack[l].own]
  /\ Fills(t, ue, nodes, o, c[n].line, Before(nodes, t[n]), Top.node)
  /\ Marks(ng, nodes, c[n].line, Before(nodes, t[n]), {}, Top.own)

\* A mapping has done with an entry.
LEMMA EntryDone ==
  ASSUME TypeInv, AliasInv, NEW b, NEW c, Merging(b, c), stack # <<>>, Top.op = "mapping",
         Top.i \in DOMAIN nodes[Top.node].content, NEW t, NEW ng, NEW ue,
         EntryEnds(c, Len(stack), Top.owner, t, ng, ue),
         t = stack', nodes' = nodes, mergedFields' = 0, ret' = "none", ng = merged', ue = terrors'
  PROVE  StepMerges
<1>0. PICK n, o : n = Len(stack) /\ o = Top.owner
  OBVIOUS
<1>15. /\ Advanced(stack, t, n, o)
       /\ \A h \in 1..n : Excused(stack, terrors, h) => Excused(t, ue, h)
       /\ \A l \in 1..n - 1 : Calling(stack, l) /\ stack[l].own # 0 => ng[stack[l].own] = merged[stack[l].own]
       /\ Fills(t, ue, nodes, o, c[n].line, Before(nodes, t[n]), Top.node)
       /\ Marks(ng, nodes, c[n].line, Before(nodes, t[n]), {}, Top.own)
  BY <1>0 DEF EntryEnds
<1>1. /\ n \in Nat \ {0} /\ n \in 1..n /\ IsSequence(stack) /\ DOMAIN stack = 1..n /\ Top = stack[n]
      /\ DOMAIN c = 1..n /\ Settled(b, nodes) /\ terrors \in Nat /\ n - 1 \in Nat /\ Tree(nodes)
      /\ Frames(stack, nodes, b, c, n) /\ Frames(stack, nodes, b, c, n - 1)
      /\ FrameAt(stack, nodes, b, c, n) /\ Inner(stack, c, n) /\ Nested(stack, c, n)
      /\ Callers(stack, nodes, c, merged, terrors, n - 1)
  BY <1>0, MergingFacts
<1>2. /\ Len(t) = n /\ DOMAIN t = 1..n /\ Moved(Top, t[n])
      /\ \A l \in 1..n - 1 : Refills(stack[l], t[l]) /\ (l # o => t[l] = stack[l])
  BY <1>1, <1>15 DEF Advanced
<1>3. /\ t[n].op = "mapping" /\ MappingFields \subseteq DOMAIN t[n]
      /\ t[n].node = Top.node /\ t[n].i = Top.i + 1 /\ t[n].own = Top.own /\ t[n].owner = Top.owner
      /\ t[n].target = Top.target
  BY <1>2 DEF Moved
<1>4. SameCalls(stack, c, t, c, n - 1)
  BY <1>2 DEF SameCalls
<1>5. OwnerOf(stack, c, n) = o /\ SetOf(stack, c, n) = Top.own /\ o \in 1..n
  <2>1. n \in Nat /\ stack[n].op = "mapping"
    BY <1>1
  <2>2. stack[n].owner \in 1..n
    BY <1>1, <2>1, OwnerFacts
  <2> QED
    BY <1>0, <1>1, <2>2 DEF OwnerOf, SetOf
<1>6. ASSUME NEW l \in 1..n - 1, Calling(stack, l)
      PROVE  /\ t[stack[l].owner] = stack[stack[l].owner]
             /\ Excused(stack, terrors, stack[l].owner) => Excused(t, ue, stack[l].owner)
  <2>1. stack[l].owner < o /\ stack[l].owner \in 1..l
    BY <1>1, <1>5, <1>6, CallerBelow
  <2>2. stack[l].owner \in 1..n - 1 /\ stack[l].owner # o /\ stack[l].owner \in 1..n
    BY <1>1, <1>5, <2>1
  <2> QED
    BY <1>2, <1>15, <2>2
<1>7. Undisturbed(stack, c, merged, terrors, t, c, ng, ue, n)
  <2>1. t[n].op = "merge" <=> stack[n].op = "merge"
    BY <1>1, <1>3
  <2>2. \A l \in 1..n - 1 : Calling(stack, l) =>
          /\ t[stack[l].owner].out = stack[stack[l].owner].out
          /\ t[stack[l].owner].target = stack[stack[l].owner].target
          /\ Excused(stack, terrors, stack[l].owner) => Excused(t, ue, stack[l].owner)
          /\ stack[l].own # 0 => ng[stack[l].own] = merged[stack[l].own]
    BY <1>6, <1>15
  <2> QED
    BY <1>1, <1>4, <2>1, <2>2 DEF Undisturbed
<1>8. Frames(t, nodes, b, c, n - 1) /\ Callers(t, nodes, c, ng, ue, n - 1)
  BY <1>1, <1>7, BelowSame
<1>9. FrameAt(t, nodes, b, c, n)
  <2>1. Context(stack, nodes, b, c, n) /\ InContext(stack, nodes, c, n) /\ MappingFrame(Top, nodes, c[n], n)
    BY <1>1 DEF FrameAt
  <2>2. Context(t, nodes, b, c, n)
    BY <1>1, <1>4, <2>1, ContextSame
  <2>3. c[n].owner = 0 \/ t[n].op \in {"unmarshal", "alias", "mapping"}
    BY <1>3
  <2>4. InContext(t, nodes, c, n)
    BY <1>1, <1>4, <2>1, <2>3, InContextSame
  <2>5. MappingFrame(t[n], nodes, c[n], n)
    <3>1. PICK x : x = nodes[Top.node].content
      OBVIOUS
    <3>2. Top.node \in Mappings(nodes)
      BY <2>1 DEF MappingFrame
    <3>3. DOMAIN x = 1..Len(x) /\ Len(x) \in Nat
      BY <1>1, <3>1, <3>2, MappingContent
    <3>4. Top.i + 1 \in 1..Len(x) + 1
      BY <3>1, <3>3
    <3>5. t[n].i \in 1..Len(nodes[t[n].node].content) + 1
      BY <1>3, <3>1, <3>4
    <3> QED
      BY <1>3, <2>1, <3>5 DEF MappingFrame
  <2> QED
    BY <1>3, <2>2, <2>4, <2>5 DEF FrameAt
<1>10. Inner(t, c, n) /\ Nested(t, c, n)
  <2>1. OwnerOf(t, c, n) = OwnerOf(stack, c, n) /\ SetOf(t, c, n) = SetOf(stack, c, n)
    BY <1>1, <1>3, <1>5 DEF OwnerOf, SetOf
  <2>2. t[n].op = "merge" <=> stack[n].op = "merge"
    BY <1>1, <1>3
  <2> QED
    BY <1>1, <1>4, <2>1, <2>2, NestingSame
<1>11. TopTip(t, "none", nodes, b, c, ng, ue, n)
  <2>1. Done(t, ue, nodes, ng, o, c[n].line, Before(nodes, t[n]), Top.node, {}, Top.own)
    BY <1>15 DEF Done, Fills
  <2>2. MappingTip(t, nodes, c, ng, ue, n, FALSE)
    BY <1>0, <1>3, <2>1 DEF MappingTip
  <2> QED
    BY <1>3, <2>2 DEF TopTip
<1>12. 0 = Current(t, c, n)
  BY <1>3 DEF Current
<1>13. MergeOf(t, "none", nodes, b, c, ng, ue, 0)
  BY <1>1, <1>2, <1>8, <1>9, <1>10, <1>11, <1>12, Assemble
<1>14. MergeOf(stack', ret', nodes', b, c, merged', terrors', mergedFields')
  BY <1>13
<1> QED
  BY <1>14 DEF StepMerges

\* Errors stay noted.
LEMMA AdvancedExcused ==
  ASSUME NEW s, NEW t, NEW n, Len(s) = n, NEW o, Advanced(s, t, n, o), NEW te \in Nat, NEW ue \in Nat, te <= ue
  PROVE  \A h \in 1..n : Excused(s, te, h) => Excused(t, ue, h)
<1> SUFFICES ASSUME NEW h \in 1..n, Excused(s, te, h)
             PROVE  Excused(t, ue, h)
  OBVIOUS
<1>1. /\ n \in Nat \ {0} /\ Len(t) = n /\ t[n].op = "mapping"
      /\ \A l \in 1..n - 1 : Refills(s[l], t[l])
  BY DEF Advanced, Moved
<1>2. \A l \in 1..n - 1 : t[l].op = s[l].op /\ (s[l].op = "unmarshaler" => t[l] = s[l])
  BY <1>1 DEF Refills
<1>3. te > 0 /\ ue > 0
  <2>1. te > 0
    BY DEF Excused
  <2> QED
    BY <2>1
<1>4. Len(t) \in {n, n + 1} /\ Len(t) # n + 1 /\ h \in Nat /\ t[n].op # "unmarshaler"
  BY <1>1
<1> QED
  BY <1>1, <1>2, <1>3, <1>4, ExcusedSame

\* The sets of merged fields with the key of the entry in that of the innermost of n calls.
Remembers(n, ng) ==
  /\ \A l \in 1..n - 1 : Calling(stack, l) /\ stack[l].own # 0 => ng[stack[l].own] = merged[stack[l].own]
  /\ Top.own # 0 => ng[Top.own] = merged[Top.own] \cup {Entry.key}

\* What is remembered of the entry does not matter to the calls around.
LEMMA RememberFacts ==
  ASSUME TypeInv, AliasInv, NEW b, NEW c, Merging(b, c), stack # <<>>, Top.op = "mapping"
  PROVE  Remembers(Len(stack), Remember)
<1>0. PICK n, ng : n = Len(stack) /\ ng = Remember
  OBVIOUS
<1>1. /\ n \in Nat \ {0} /\ Top = stack[n] /\ Frames(stack, nodes, b, c, n)
      /\ FrameOK(Top, nodes, Len(merged))
  BY <1>0, MergingFacts
<1>2. Top.own \in 0..Len(merged) /\ IsSequence(merged)
  BY <1>1 DEF FrameOK, TypeInv
<1>3. CASE Top.own = 0
  <2>1. ng = merged
    BY <1>0, <1>3 DEF Remember
  <2>2. Remembers(n, ng)
    BY <1>3, <2>1 DEF Remembers
  <2> QED
    BY <1>0, <2>2
<1>4. CASE Top.own # 0
  <2>1. ng = [merged EXCEPT ![Top.own] = @ \cup {Entry.key}]
    BY <1>0, <1>4 DEF Remember
  <2>2. Top.own \in DOMAIN merged
    BY <1>2, <1>4 DEF IsSequence
  <2>3. SetOf(stack, c, n) = Top.own
    BY <1>1 DEF SetOf
  <2>4. ASSUME NEW l \in 1..n - 1, Calling(stack, l)
        PROVE  stack[l].own # Top.own
    <3>1. stack[l].own < Top.own /\ stack[l].own \in Nat
      BY <1>1, <1>4, <2>3, <2>4, CallerBelow
    <3> QED
      BY <1>2, <3>1
  <2>5. Remembers(n, ng)
    <3>1. ng[Top.own] = merged[Top.own] \cup {Entry.key}
      BY <2>1, <2>2
    <3>2. ASSUME NEW l \in 1..n - 1, Calling(stack, l), stack[l].own # 0
          PROVE  ng[stack[l].own] = merged[stack[l].own]
      <4>1. stack[l].own # Top.own
        BY <2>4, <3>2
      <4> QED
        BY <2>1, <4>1
    <3> QED
      BY <3>1, <3>2 DEF Remembers
  <2> QED
    BY <1>0, <2>5
<1> QED
  BY <1>3, <1>4

\* An entry is passed over.
LEMMA MappingSkipsMerges ==
  ASSUME TypeInv, AliasInv, Unique(nodes), NEW b, NEW c, Merging(b, c), MappingSkips
  PROVE  StepMerges
<1>1. /\ In("mapping") /\ stack # <<>> /\ Top.op = "mapping" /\ Top.i <= Len(nodes[Top.node].content)
      /\ ret = "none" /\ stack' = Advance /\ nodes' = nodes /\ merged' = merged
      /\ mergedFields' = mergedFields /\ terrors' = terrors /\ ret' = "none"
      /\ (Entry.key = Merge \/ Hidden)
  BY DEF MappingSkips, AtEntry, In, decoder
<1>2. PICK n, o, past, now, t, k :
        n = Len(stack) /\ o = Top.owner /\ past = c[n].line /\ now = Before(nodes, Top) /\ t = stack' /\ k = Entry.key
  OBVIOUS
<1>3. EntryHolds(Len(stack), Top.owner, c[Len(stack)].line, Before(nodes, Top))
  BY <1>1, EntryFacts
<1>4. EntryHolds(n, o, past, now)
  BY <1>2, <1>3
<1>5. /\ n \in Nat \ {0} /\ Top = stack[n] /\ Top.i \in DOMAIN nodes[Top.node].content /\ Top.i \in Nat \ {0}
      /\ Entry = nodes[Top.node].content[Top.i] /\ k \in Keys \cup {Merge, Origin} /\ k \notin now
      /\ Fills(stack, terrors, nodes, o, past, now, Top.node) /\ Marks(merged, nodes, past, now, {}, Top.own)
      /\ o \in 1..n /\ MappingFields \subseteq DOMAIN Top /\ mergedFields = 0
  <2>1. /\ n \in Nat \ {0} /\ Top = stack[n] /\ Top.i \in DOMAIN nodes[Top.node].content /\ Top.i \in Nat \ {0}
        /\ Entry = nodes[Top.node].content[Top.i] /\ Entry.key \in Keys \cup {Merge, Origin} /\ Entry.key \notin now
        /\ Fills(stack, terrors, nodes, o, past, now, Top.node)
    BY Zenon, <1>4 DEF EntryHolds
  <2>2. /\ ret = "none" => Marks(merged, nodes, past, now, {}, Top.own)
        /\ o \in 1..n /\ MappingFields \subseteq DOMAIN Top /\ mergedFields = 0
    BY Zenon, <1>4 DEF EntryHolds
  <2> QED
    BY Zenon, <1>1, <1>2, <2>1, <2>2
<1>6. Passed(Advance, Len(stack), o)
  BY <1>1, <1>2, <1>5, AdvanceIs
<1>7. Advanced(stack, t, n, o) /\ t[o].out = stack[o].out
  BY <1>1, <1>2, <1>6 DEF Passed
<1>8. t[o].target = stack[o].target /\ Moved(Top, t[n])
  BY <1>5, <1>7 DEF Advanced
<1>9. PICK new : new = {k} \cap Keys
  BY Zenon
<1>10. Before(nodes, t[n]) = now \cup new
  <2>1. Before(nodes, t[n]) = Before(nodes, Top) \cup ({nodes[Top.node].content[Top.i].key} \cap Keys)
    BY <1>5, <1>8, BeforeNext
  <2> QED
    BY Zenon, <1>2, <1>5, <1>9, <2>1
<1>11. terrors \in Nat /\ terrors <= terrors
  BY DEF TypeInv
<1>12. \A h \in 1..n : Excused(stack, terrors, h) => Excused(t, terrors, h)
  BY <1>2, <1>7, <1>11, AdvancedExcused
<1>13. \A x \in new : Top.own # 0 /\ Has(nodes, past, x)
  <2>1. k \in Keys => Top.own # 0 /\ k \in merged[Top.own]
    BY <1>1, <1>2, KeyFacts DEF Hidden
  <2> QED
    BY <1>5, <1>9, <2>1 DEF Marks
<1>14. Fills(t, terrors, nodes, o, past, now \cup new, Top.node)
  <2>1. Excused(stack, terrors, o) => Excused(t, terrors, o)
    BY <1>5, <1>12
  <2>2. \A x \in new : Excused(t, terrors, o) \/ x \notin stack[o].target.fields \/ Has(nodes, past, x)
    BY <1>13
  <2> QED
    BY <1>5, <1>7, <1>8, <2>1, <2>2, FillingStays
<1>15. Marks(merged, nodes, past, now \cup new, {}, Top.own)
  <2>1. ASSUME Top.own # 0, NEW x \in Keys
        PROVE  x \in merged[Top.own] <=> Has(nodes, past, x) \/ x \in now \cup new
    BY <1>5, <1>13, <2>1 DEF Marks
  <2> QED
    BY <2>1 DEF Marks
<1>16. EntryEnds(c, n, o, t, merged, terrors)
  BY <1>2, <1>7, <1>10, <1>12, <1>14, <1>15 DEF EntryEnds
<1>17. EntryEnds(c, Len(stack), Top.owner, t, merged, terrors)
  BY <1>2, <1>16
<1>18. mergedFields' = 0
  BY <1>1, <1>5
<1> QED
  BY Zenon, <1>1, <1>2, <1>5, <1>17, <1>18, EntryDone

\* What is remembered of an entry marks it.
LEMMA MarksMore ==
  ASSUME NEW mg, NEW ns, NEW past, NEW now, NEW set, Marks(mg, ns, past, now, {}, set), NEW k,
         NEW ng, set # 0 => ng[set] = mg[set] \cup {k}
  PROVE  Marks(ng, ns, past, now \cup ({k} \cap Keys), {}, set)
<1>1. ASSUME set # 0, NEW x \in Keys
      PROVE  x \in ng[set] <=> Has(ns, past, x) \/ x \in now \cup ({k} \cap Keys)
  <2>1. x \in mg[set] <=> Has(ns, past, x) \/ x \in now
    BY <1>1 DEF Marks
  <2>2. ng[set] = mg[set] \cup {k}
    BY Zenon, <1>1
  <2> QED
    BY <2>1, <2>2
<1> QED
  BY <1>1 DEF Marks

\* A key is no field of the struct.
LEMMA MappingIgnoresMerges ==
  ASSUME TypeInv, AliasInv, Unique(nodes), NEW b, NEW c, Merging(b, c), MappingIgnores
  PROVE  StepMerges
<1>1. /\ In("mapping") /\ stack # <<>> /\ Top.op = "mapping" /\ Top.i <= Len(nodes[Top.node].content)
      /\ ret = "none" /\ stack' = Advance /\ nodes' = nodes /\ merged' = Remember
      /\ mergedFields' = mergedFields /\ ret' = "none" /\ Entry.key \notin Top.target.fields
      /\ terrors' = (IF KnownFields THEN terrors + 1 ELSE terrors)
  BY DEF MappingIgnores, AtEntry, In
<1>2. PICK n, o, past, now, t, k :
        n = Len(stack) /\ o = Top.owner /\ past = c[n].line /\ now = Before(nodes, Top) /\ t = stack' /\ k = Entry.key
  OBVIOUS
<1>3. EntryHolds(Len(stack), Top.owner, c[Len(stack)].line, Before(nodes, Top))
  BY Zenon, <1>1, EntryFacts
<1>4. EntryHolds(n, o, past, now)
  BY <1>2, <1>3
<1>5. /\ n \in Nat \ {0} /\ Top = stack[n] /\ Top.i \in DOMAIN nodes[Top.node].content /\ Top.i \in Nat \ {0}
      /\ Entry = nodes[Top.node].content[Top.i] /\ stack[o].target = Top.target
      /\ Fills(stack, terrors, nodes, o, past, now, Top.node) /\ Marks(merged, nodes, past, now, {}, Top.own)
      /\ o \in 1..n /\ MappingFields \subseteq DOMAIN Top /\ mergedFields = 0
  BY Zenon, <1>1, <1>2, <1>4 DEF EntryHolds
<1>6. Passed(Advance, Len(stack), o)
  BY <1>1, <1>2, <1>5, AdvanceIs
<1>7. Advanced(stack, t, n, o) /\ t[o].out = stack[o].out
  BY <1>1, <1>2, <1>6 DEF Passed
<1>8. t[o].target = stack[o].target /\ Moved(Top, t[n])
  BY <1>5, <1>7 DEF Advanced
<1>9. PICK new : new = {k} \cap Keys
  OBVIOUS
<1>10. Before(nodes, t[n]) = now \cup new
  <2>1. Before(nodes, t[n]) = Before(nodes, Top) \cup ({nodes[Top.node].content[Top.i].key} \cap Keys)
    BY <1>5, <1>8, BeforeNext
  <2> QED
    BY Zenon, <1>2, <1>5, <1>9, <2>1
<1>11. PICK ng, ue : ng = merged' /\ ue = terrors'
  OBVIOUS
<1>12. terrors \in Nat /\ ue \in Nat /\ terrors <= ue
  <2>1. terrors \in Nat
    BY DEF TypeInv
  <2> QED
    BY <1>1, <1>11, <2>1
<1>13. \A h \in 1..n : Excused(stack, terrors, h) => Excused(t, ue, h)
  BY <1>2, <1>7, <1>12, AdvancedExcused
<1>14. Remembers(Len(stack), Remember)
  BY <1>1, RememberFacts
<1>15. /\ \A l \in 1..n - 1 : Calling(stack, l) /\ stack[l].own # 0 => ng[stack[l].own] = merged[stack[l].own]
       /\ Top.own # 0 => ng[Top.own] = merged[Top.own] \cup {k}
  BY <1>1, <1>2, <1>11, <1>14 DEF Remembers
<1>16. Fills(t, ue, nodes, o, past, now \cup new, Top.node)
  <2>1. Excused(stack, terrors, o) => Excused(t, ue, o)
    BY <1>5, <1>13
  <2>2. \A x \in new : Excused(t, ue, o) \/ x \notin stack[o].target.fields \/ Has(nodes, past, x)
    BY Zenon, <1>1, <1>2, <1>5, <1>9
  <2> QED
    BY <1>5, <1>7, <1>8, <2>1, <2>2, FillingStays
<1>17. Marks(ng, nodes, past, now \cup new, {}, Top.own)
  BY <1>5, <1>9, <1>15, MarksMore
<1>18. EntryEnds(c, n, o, t, ng, ue)
  BY <1>2, <1>7, <1>10, <1>13, <1>15, <1>16, <1>17 DEF EntryEnds
<1>19. EntryEnds(c, Len(stack), Top.owner, t, ng, ue)
  BY <1>2, <1>18
<1>20. mergedFields' = 0
  BY Zenon, <1>1, <1>5
<1> QED
  BY <1>1, <1>2, <1>5, <1>11, <1>19, <1>20, EntryDone

\* The origin is stored, or left out with an error.
LEMMA MappingOriginMerges ==
  ASSUME TypeInv, AliasInv, Unique(nodes), NEW b, NEW c, Merging(b, c),
         MappingOrigin \/ OriginMismatch
  PROVE  StepMerges
<1>1. /\ In("mapping") /\ stack # <<>> /\ Top.op = "mapping" /\ Top.i <= Len(nodes[Top.node].content)
      /\ ret = "none" /\ stack' \in {Store, Advance} /\ nodes' = nodes /\ merged' \in {merged, Remember}
      /\ mergedFields' = mergedFields /\ terrors' \in {terrors, terrors + 1} /\ ret' = "none"
      /\ Entry.key = Origin /\ Entry.key \in Top.target.fields
  BY DEF MappingOrigin, OriginMismatch, OriginReached, AtOrigin, AtEntry, In, TypeInv
<1>2. PICK n, o, past, now, t, k :
        n = Len(stack) /\ o = Top.owner /\ past = c[n].line /\ now = Before(nodes, Top) /\ t = stack' /\ k = Entry.key
  OBVIOUS
<1>3. EntryHolds(Len(stack), Top.owner, c[Len(stack)].line, Before(nodes, Top))
  BY Zenon, <1>1, EntryFacts
<1>4. EntryHolds(n, o, past, now)
  BY <1>2, <1>3
<1>5. /\ n \in Nat \ {0} /\ Top = stack[n] /\ Top.i \in DOMAIN nodes[Top.node].content /\ Top.i \in Nat \ {0}
      /\ Entry = nodes[Top.node].content[Top.i] /\ stack[o].target = Top.target /\ stack[o].op = "mapping"
      /\ Fills(stack, terrors, nodes, o, past, now, Top.node) /\ Marks(merged, nodes, past, now, {}, Top.own)
      /\ o \in 1..n /\ MappingFields \subseteq DOMAIN Top /\ MappingFields \subseteq DOMAIN stack[o]
      /\ mergedFields = 0
  BY Zenon, <1>1, <1>2, <1>4 DEF EntryHolds
<1>6. Stored(Store, Len(stack), Top.owner) /\ Passed(Advance, Len(stack), Top.owner)
  BY <1>1, <1>2, <1>5, StoreIs, AdvanceIs
<1>7. Advanced(stack, t, n, o) /\ (t[o].out = Put(stack[o].out, k, Top.node) \/ t[o].out = stack[o].out)
  BY <1>1, <1>2, <1>6 DEF Stored, Passed
<1>8. t[o].target = stack[o].target /\ Moved(Top, t[n])
  BY <1>5, <1>7 DEF Advanced
<1>9. k \notin Keys
  BY Zenon, <1>1, <1>2, KeyFacts
<1>10. Before(nodes, t[n]) = now \cup ({k} \cap Keys)
  <2>1. Before(nodes, t[n]) = Before(nodes, Top) \cup ({nodes[Top.node].content[Top.i].key} \cap Keys)
    BY <1>5, <1>8, BeforeNext
  <2> QED
    BY <1>2, <1>5, <2>1
<1>11. PICK ng, ue : ng = merged' /\ ue = terrors'
  OBVIOUS
<1>12. terrors \in Nat /\ ue \in Nat /\ terrors <= ue
  <2>1. terrors \in Nat
    BY DEF TypeInv
  <2> QED
    BY <1>1, <1>11, <2>1
<1>13. \A h \in 1..n : Excused(stack, terrors, h) => Excused(t, ue, h)
  BY <1>2, <1>7, <1>12, AdvancedExcused
<1>14. /\ \A l \in 1..n - 1 : Calling(stack, l) /\ stack[l].own # 0 => ng[stack[l].own] = merged[stack[l].own]
       /\ Top.own # 0 => ng[Top.own] \in {merged[Top.own], merged[Top.own] \cup {k}}
  <2>1. Remembers(Len(stack), Remember)
    BY <1>1, RememberFacts
  <2>2. PICK mg : mg = Remember
    OBVIOUS
  <2>3. /\ \A l \in 1..n - 1 : Calling(stack, l) /\ stack[l].own # 0 => mg[stack[l].own] = merged[stack[l].own]
        /\ Top.own # 0 => mg[Top.own] = merged[Top.own] \cup {k}
    BY <1>2, <2>1, <2>2 DEF Remembers
  <2>4. ng = merged \/ ng = mg
    BY <1>1, <1>11, <2>2
  <2> QED
    BY <2>3, <2>4
<1>15. Fills(t, ue, nodes, o, past, now \cup ({k} \cap Keys), Top.node)
  <2>1. Excused(stack, terrors, o) => Excused(t, ue, o)
    BY <1>5, <1>13
  <2>2. k \in stack[o].target.fields /\ (k \in Keys => ~Has(nodes, past, k))
    BY <1>1, <1>2, <1>5, <1>9
  <2>3. CASE t[o].out = stack[o].out
    BY <1>5, <1>8, <1>9, <2>1, <2>3, FillingStays
  <2> QED
    BY <1>5, <1>7, <1>8, <2>1, <2>2, <2>3, FillingPuts
<1>16. Marks(ng, nodes, past, now \cup ({k} \cap Keys), {}, Top.own)
  <2>1. now \cup ({k} \cap Keys) = now
    BY <1>9
  <2>2. Top.own # 0 => \A x \in Keys : x \in ng[Top.own] <=> x \in merged[Top.own]
    BY <1>9, <1>14
  <2> QED
    BY <1>5, <2>1, <2>2 DEF Marks
<1>17. EntryEnds(c, n, o, t, ng, ue)
  BY <1>2, <1>7, <1>10, <1>13, <1>14, <1>15, <1>16 DEF EntryEnds
<1>18. EntryEnds(c, Len(stack), Top.owner, t, ng, ue)
  BY <1>2, <1>17
<1>19. mergedFields' = 0
  BY <1>1, <1>5
<1> QED
  BY <1>1, <1>2, <1>5, <1>11, <1>18, <1>19, EntryDone

\* A value that did not decode has left an error that the map is excused by.
LEMMA BadExcuses ==
  ASSUME TypeInv, AliasInv, NEW b, NEW c, Merging(b, c), stack # <<>>, Top.op = "mapping", terrors > 0,
         NEW n, n = Len(stack), NEW o, o = Top.owner
  PROVE  Excused(stack, terrors, o)
<1>1. /\ n \in Nat \ {0} /\ Top = stack[n] /\ Inner(stack, c, n) /\ Frames(stack, nodes, b, c, n)
  BY MergingFacts
<1>2. n \in Nat /\ n \in 1..n /\ stack[n].op = "mapping"
  BY <1>1
<1>3. o \in 1..n
  BY <1>1, <1>2, OwnerFacts
<1>4. OwnerOf(stack, c, n) = o /\ o # 0
  BY <1>1, <1>2, <1>3 DEF OwnerOf
<1>5. \A q \in o..n - 1 : stack[q].op \in {"alias", "merge", "mapping"}
  BY <1>1, <1>4 DEF Inner
<1>6. ASSUME NEW p \in o + 1..n
      PROVE  stack[p].op # "unmarshaler"
  <2>1. p \in o..n - 1 \/ p = n
    BY <1>2, <1>3
  <2> QED
    BY <1>2, <1>5, <2>1
<1> QED
  BY <1>6 DEF Excused

\* The value of an entry has been decoded.
LEMMA MappingStoresMerges ==
  ASSUME TypeInv, AliasInv, Unique(nodes), NEW b, NEW c, Merging(b, c), MappingStores
  PROVE  StepMerges
<1>1. /\ In("mapping") /\ stack # <<>> /\ Top.op = "mapping" /\ Top.i <= Len(nodes[Top.node].content)
      /\ ret # "none" /\ stack' = (IF ret = "good" THEN Store ELSE Advance) /\ nodes' = nodes
      /\ merged' = merged /\ mergedFields' = mergedFields /\ terrors' = terrors /\ ret' = "none"
  BY DEF MappingStores, In, decoder
<1>2. PICK n, o, past, now, t, k :
        n = Len(stack) /\ o = Top.owner /\ past = c[n].line /\ now = Before(nodes, Top) /\ t = stack' /\ k = Entry.key
  OBVIOUS
<1>3. EntryHolds(Len(stack), Top.owner, c[Len(stack)].line, Before(nodes, Top))
  BY Zenon, <1>1, EntryFacts
<1>4. EntryHolds(n, o, past, now)
  BY <1>2, <1>3
<1>5. /\ n \in Nat \ {0} /\ Top = stack[n] /\ Top.i \in DOMAIN nodes[Top.node].content /\ Top.i \in Nat \ {0}
      /\ Entry = nodes[Top.node].content[Top.i] /\ stack[o].target = Top.target /\ stack[o].op = "mapping"
      /\ Fills(stack, terrors, nodes, o, past, now, Top.node) /\ Marks(merged, nodes, past, now, {k}, Top.own)
      /\ k \in Top.target.fields \cap Keys
      /\ o \in 1..n /\ MappingFields \subseteq DOMAIN Top /\ MappingFields \subseteq DOMAIN stack[o]
      /\ mergedFields = 0 /\ ret # "error" /\ (ret = "bad" => terrors > 0)
  BY Zenon, <1>1, <1>2, <1>4 DEF EntryHolds
<1>6. /\ Advanced(stack, t, n, o)
      /\ \/ t[o].out = Put(stack[o].out, k, Top.node)
         \/ ret = "bad" /\ t[o].out = stack[o].out
  <2>1. CASE ret = "good"
    <3>1. Stored(Store, Len(stack), Top.owner)
      BY Zenon, <1>1, <1>2, <1>5, StoreIs
    <3> QED
      BY Zenon, <1>1, <1>2, <2>1, <3>1 DEF Stored
  <2>2. CASE ret # "good"
    <3>1. ret = "bad"
      BY Zenon, <1>1, <1>5, <2>2, ResultFacts
    <3>2. Passed(Advance, Len(stack), o)
      BY Zenon, <1>1, <1>2, <1>5, AdvanceIs
    <3> QED
      BY <1>1, <1>2, <2>2, <3>1, <3>2 DEF Passed
  <2> QED
    BY <2>1, <2>2
<1>7. t[o].target = stack[o].target /\ Moved(Top, t[n])
  BY <1>5, <1>6 DEF Advanced
<1>8. Before(nodes, t[n]) = now \cup ({k} \cap Keys)
  <2>1. Before(nodes, t[n]) = Before(nodes, Top) \cup ({nodes[Top.node].content[Top.i].key} \cap Keys)
    BY <1>5, <1>7, BeforeNext
  <2> QED
    BY Zenon, <1>2, <1>5, <2>1
<1>9. terrors \in Nat /\ terrors <= terrors
  BY DEF TypeInv
<1>10. \A h \in 1..n : Excused(stack, terrors, h) => Excused(t, terrors, h)
  BY <1>2, <1>6, <1>9, AdvancedExcused
<1>11. Excused(stack, terrors, o) => Excused(t, terrors, o)
  BY <1>5, <1>10
<1>12. Fills(t, terrors, nodes, o, past, now \cup ({k} \cap Keys), Top.node)
  <2>1. CASE t[o].out = Put(stack[o].out, k, Top.node)
    <3>1. k \in stack[o].target.fields /\ (k \in Keys => ~Has(nodes, past, k))
      BY <1>5 DEF Marks
    <3> QED
      BY <1>5, <1>7, <1>11, <2>1, <3>1, FillingPuts
  <2>2. CASE ret = "bad" /\ t[o].out = stack[o].out
    <3>1. Excused(stack, terrors, o)
      BY Zenon, <1>1, <1>2, <1>5, <2>2, BadExcuses
    <3>2. \A x \in {k} \cap Keys : Excused(t, terrors, o) \/ x \notin stack[o].target.fields \/ Has(nodes, past, x)
      BY <1>11, <3>1
    <3> QED
      BY Zenon, <1>5, <1>7, <1>11, <2>2, <3>2, FillingStays
  <2> QED
    BY <1>6, <2>1, <2>2
<1>13. Marks(merged, nodes, past, now \cup ({k} \cap Keys), {}, Top.own)
  BY <1>5 DEF Marks
<1>14. EntryEnds(c, n, o, t, merged, terrors)
  BY Zenon, <1>2, <1>5, <1>6, <1>8, <1>10, <1>12, <1>13 DEF EntryEnds
<1>15. EntryEnds(c, Len(stack), Top.owner, t, merged, terrors)
  BY <1>2, <1>14
<1>16. mergedFields' = 0
  BY <1>1, <1>5
<1> QED
  BY Zenon, <1>1, <1>2, <1>5, <1>15, <1>16, EntryDone

\* The set of merged fields gets the key of the entry whose value is decoded next.
LEMMA MarksDue ==
  ASSUME NEW mg, NEW ns, NEW past, NEW now, NEW set, Marks(mg, ns, past, now, {}, set), NEW k \in Keys,
         k \notin now, set = 0 => past = <<>>, set # 0 => k \notin mg[set],
         NEW ng, set # 0 => ng[set] = mg[set] \cup {k}
  PROVE  Marks(ng, ns, past, now, {k}, set)
<1>1. ~Has(ns, past, k)
  <2>1. CASE set = 0
    BY <2>1 DEF Has
  <2>2. CASE set # 0
    BY <2>2 DEF Marks
  <2> QED
    BY <2>1, <2>2
<1>2. ASSUME set # 0, NEW x \in Keys
      PROVE  x \in ng[set] <=> Has(ns, past, x) \/ x \in now \/ x \in {k}
  <2>1. x \in mg[set] <=> Has(ns, past, x) \/ x \in now
    BY <1>2 DEF Marks
  <2> QED
    BY <1>2, <2>1
<1> QED
  BY <1>1, <1>2 DEF Marks

\* The calls of the stack, whose innermost is a mapping, are the same in t, which has a call
\* more, but for what is remembered in ng.
Beneath(b, c, ns, t, d, ng) ==
  LET n == Len(stack) IN
  /\ Frames(t, ns, b, d, n) /\ Callers(t, ns, d, ng, terrors, n - 1)
  /\ \A o \in 1..n : Excused(stack, terrors, o) => Excused(t, terrors, o)

\* They are as they should be.
LEMMA BeneathCall ==
  ASSUME TypeInv, AliasInv, stack # <<>>, Top.op = "mapping", NEW ns, NEW b, NEW c,
         MergeOf(stack, ret, ns, b, c, merged, terrors, mergedFields), NEW g, g.op # "unmarshaler",
         NEW d, NEW x, d = [l \in 1..Len(stack) + 1 |-> IF l = Len(stack) + 1 THEN x ELSE c[l]],
         NEW ng, \A l \in 1..Len(stack) - 1 : Calling(stack, l) /\ stack[l].own # 0 =>
                   ng[stack[l].own] = merged[stack[l].own]
  PROVE  Beneath(b, c, ns, Append(stack, g), d, ng)
<1>1. PICK n, t : n = Len(stack) /\ t = Append(stack, g)
  OBVIOUS
<1>2. /\ n \in Nat \ {0} /\ n \in 1..n /\ IsSequence(stack) /\ DOMAIN stack = 1..n /\ Top = stack[n]
      /\ DOMAIN c = 1..n /\ Settled(b, ns) /\ terrors \in Nat /\ n - 1 \in Nat
      /\ Frames(stack, ns, b, c, n) /\ Frames(stack, ns, b, c, n - 1)
      /\ FrameAt(stack, ns, b, c, n) /\ Inner(stack, c, n) /\ Nested(stack, c, n)
      /\ Callers(stack, ns, c, merged, terrors, n - 1)
  BY <1>1, GrownFacts
<1>3. Called(stack, t, n, stack[n], g)
  BY <1>1, <1>2, AppendedCalled
<1>4. /\ Len(t) = n + 1 /\ t[n] = stack[n] /\ t[n + 1] = g /\ \A l \in 1..n - 1 : t[l] = stack[l]
  BY <1>3 DEF Called
<1>5. \A l \in 1..n : d[l] = c[l]
  BY <1>1, <1>2
<1>6. \A l \in 1..n : t[l] = stack[l]
  BY <1>2, <1>4
<1>7. \A o \in 1..n : Excused(stack, terrors, o) => Excused(t, terrors, o)
  <2> SUFFICES ASSUME NEW o \in 1..n, Excused(stack, terrors, o)
               PROVE  Excused(t, terrors, o)
    OBVIOUS
  <2>1. t[n].op # "unmarshaler"
    BY <1>2, <1>4
  <2>2. \A l \in 1..n - 1 : t[l].op = stack[l].op /\ (stack[l].op = "unmarshaler" => t[l] = stack[l])
    BY <1>4
  <2>3. Len(t) \in {n, n + 1} /\ o \in Nat /\ t[n + 1].op # "unmarshaler" /\ terrors > 0
    BY <1>2, <1>4 DEF Excused
  <2> QED
    BY <1>1, <1>2, <2>1, <2>2, <2>3, ExcusedSame
<1>8. SameCalls(stack, c, t, d, n - 1) /\ SameCalls(stack, c, t, d, n)
  BY <1>2, <1>5, <1>6 DEF SameCalls, Refills
<1>9. ASSUME NEW l \in 1..n - 1, Calling(stack, l)
      PROVE  /\ t[stack[l].owner].out = stack[stack[l].owner].out
             /\ t[stack[l].owner].target = stack[stack[l].owner].target
             /\ Excused(stack, terrors, stack[l].owner) => Excused(t, terrors, stack[l].owner)
             /\ stack[l].own # 0 => ng[stack[l].own] = merged[stack[l].own]
  <2>1. stack[l].owner \in 1..l
    BY <1>2, <1>9, CallerBelow
  <2>2. stack[l].owner \in 1..n
    BY <1>2, <2>1
  <2> QED
    BY <1>1, <1>6, <1>7, <1>9, <2>2
<1>10. Undisturbed(stack, c, merged, terrors, t, d, ng, terrors, n)
  BY <1>2, <1>4, <1>8, <1>9 DEF Undisturbed
<1>11. Callers(t, ns, d, ng, terrors, n - 1)
  BY <1>2, <1>10, BelowSame
<1>12. Frames(t, ns, b, d, n)
  BY <1>2, <1>8, FramesSame
<1>13. Beneath(b, c, ns, t, d, ng)
  BY <1>1, <1>7, <1>11, <1>12 DEF Beneath
<1> QED
  BY <1>1, <1>13

\* The value of an entry is decoded next.
LEMMA MappingValueMerges ==
  ASSUME TypeInv, AliasInv, Unique(nodes), NEW b, NEW c, Merging(b, c), MappingValue
  PROVE  StepMerges
<1>1. /\ In("mapping") /\ stack # <<>> /\ Top.op = "mapping" /\ Top.i <= Len(nodes[Top.node].content)
      /\ ret = "none" /\ stack' = Append(stack, Unmarshal(Entry.value, 0)) /\ merged' = Remember
      /\ mergedFields' = mergedFields /\ terrors' = terrors /\ ret' = "none"
      /\ Entry.key \in Top.target.fields \ {Merge, Origin} /\ ~Hidden
  BY DEF MappingValue, AtEntry, In
<1>2. PICK n, o, past, now, t, k, v, ng, ms, te :
        /\ n = Len(stack) /\ o = Top.owner /\ past = c[n].line /\ now = Before(nodes, Top) /\ t = stack'
        /\ k = Entry.key /\ v = Entry.value /\ ng = merged' /\ ms = nodes' /\ te = terrors'
  OBVIOUS
<1>3. PICK ns \in Known(v) : MayAdd(ns, v, ms)
  <2>1. PICK ns \in Known(v) : ms = IF Top.target.struct THEN ns ELSE AddOriginTo(ns, v, 0)
    BY <1>2 DEF MappingValue
  <2>2. MayAdd(ns, v, ms)
    BY <2>1 DEF MayAdd
  <2> QED
    BY <2>1, <2>2
<1>4. EntryHolds(Len(stack), Top.owner, c[Len(stack)].line, Before(nodes, Top))
  BY <1>1, EntryFacts
<1>5. EntryHolds(n, o, past, now)
  BY Zenon, <1>2, <1>4
<1>6. /\ n \in Nat \ {0} /\ Top = stack[n] /\ Top.i \in DOMAIN nodes[Top.node].content /\ Top.i \in Nat \ {0}
      /\ Top.node \in Mappings(nodes) /\ Entry = nodes[Top.node].content[Top.i] /\ k \notin now
      /\ k \in Keys \cup {Merge, Origin} /\ (Top.own = 0 => past = <<>>)
      /\ o \in 1..n /\ MappingFields \subseteq DOMAIN Top /\ mergedFields = 0
  <2>1. /\ n \in Nat \ {0} /\ Top = stack[n] /\ Top.i \in DOMAIN nodes[Top.node].content /\ Top.i \in Nat \ {0}
        /\ Top.node \in Mappings(nodes) /\ Entry = nodes[Top.node].content[Top.i] /\ Entry.key \notin now
    BY Zenon, <1>5 DEF EntryHolds
  <2>2. /\ Entry.key \in Keys \cup {Merge, Origin} /\ (Top.own = 0 => past = <<>>)
        /\ o \in 1..n /\ MappingFields \subseteq DOMAIN Top /\ mergedFields = 0
    BY Zenon, <1>5 DEF EntryHolds
  <2> QED
    BY Zenon, <1>2, <2>1, <2>2
<1>7. k \in Keys /\ k \in Top.target.fields
  BY Zenon, <1>1, <1>2, <1>6
<1>8. v \in 0..Len(nodes)
  BY <1>1, <1>2, ContentFacts
<1>9. /\ MergeOf(stack, ret, ms, b, c, merged, terrors, mergedFields)
      /\ v \in 0..Len(ms)
      /\ \A i \in DOMAIN nodes[Top.node].content :
           i \in DOMAIN ms[Top.node].content /\ ms[Top.node].content[i] = nodes[Top.node].content[i]
  <2>1. Grown(ms, b, c, v)
    BY <1>3, <1>8, GrownMerging
  <2>2. KeepsMapping(nodes, ms, Top.node)
    BY <1>6, <2>1 DEF Grown
  <2> QED
    BY <2>1, <2>2 DEF Grown, KeepsMapping
<1>10. Tree(nodes) /\ terrors \in Nat
  BY DEF TypeInv
<1>11. ms[Top.node].content[Top.i].key = k /\ Top.i \in DOMAIN ms[Top.node].content
  BY Zenon, <1>2, <1>6, <1>9
<1>12. Before(ms, Top) = now
  <2>1. PICK x, y, i : x = nodes[Top.node].content /\ y = ms[Top.node].content /\ i = Top.i
    OBVIOUS
  <2>2. DOMAIN x = 1..Len(x) /\ Len(x) \in Nat
    BY <1>6, <1>10, <2>1, MappingContent
  <2>3. \A j \in 1..i - 1 : y[j] = x[j]
    <3>1. i \in Nat
      BY <1>6, <2>1
    <3>2. i \in 1..Len(x)
      BY <1>6, <2>1, <2>2
    <3>3. 1..i - 1 \subseteq DOMAIN x
      BY <2>2, <3>1, <3>2
    <3> QED
      BY Zenon, <1>9, <2>1, <3>3
  <2>4. {y[j].key : j \in 1..i - 1} = {x[j].key : j \in 1..i - 1}
    BY <2>3
  <2>5. Before(ms, Top) = {y[j].key : j \in 1..i - 1} \cap Keys
    BY <2>1 DEF Before
  <2>6. now = {x[j].key : j \in 1..i - 1} \cap Keys
    BY <1>2, <2>1 DEF Before
  <2> QED
    BY <2>4, <2>5, <2>6
<1>13. /\ IsSequence(stack) /\ DOMAIN stack = 1..n /\ DOMAIN c = 1..n /\ Settled(b, ms)
       /\ TopTip(stack, ret, ms, b, c, merged, terrors, n)
  BY Zenon, <1>1, <1>2, <1>9, GrownFacts
<1>14. Done(stack, terrors, ms, merged, o, past, now, Top.node, {}, Top.own)
  <2>1. MappingTip(stack, ms, c, merged, terrors, n, FALSE)
    BY <1>1, <1>6, <1>13 DEF TopTip
  <2> QED
    BY Zenon, <1>2, <1>6, <1>12, <2>1 DEF MappingTip
<1>15. Remembers(Len(stack), Remember)
  BY <1>1, RememberFacts
<1>16. /\ \A l \in 1..n - 1 : Calling(stack, l) /\ stack[l].own # 0 => ng[stack[l].own] = merged[stack[l].own]
       /\ Top.own # 0 => ng[Top.own] = merged[Top.own] \cup {k}
  BY <1>1, <1>2, <1>15 DEF Remembers
<1>17. Marks(ng, ms, past, now, {k}, Top.own)
  <2>1. Top.own # 0 => k \notin merged[Top.own]
    BY <1>1, <1>2 DEF Hidden
  <2>2. Marks(merged, ms, past, now, {}, Top.own)
    BY <1>14 DEF Done
  <2>3. Top.own # 0 => ng[Top.own] = merged[Top.own] \cup {k}
    BY <1>16
  <2>4. Top.own = 0 => past = <<>>
    BY <1>6
  <2> QED
    BY <1>6, <1>7, <2>1, <2>2, <2>3, <2>4, MarksDue
<1>18. PICK g, d : g = Unmarshal(v, 0) /\ d = [l \in 1..n + 1 |-> IF l = n + 1 THEN None ELSE c[l]]
  OBVIOUS
<1>19. t = Append(stack, g) /\ g.op # "unmarshaler"
  BY <1>1, <1>2, <1>18 DEF Unmarshal
<1>20. Beneath(b, c, ms, t, d, ng)
  <2>1. d = [l \in 1..Len(stack) + 1 |-> IF l = Len(stack) + 1 THEN None ELSE c[l]]
    BY <1>2, <1>18
  <2>2. \A l \in 1..Len(stack) - 1 : Calling(stack, l) /\ stack[l].own # 0 =>
          ng[stack[l].own] = merged[stack[l].own]
    BY <1>2, <1>16
  <2>3. Beneath(b, c, ms, Append(stack, g), d, ng)
    BY <1>1, <1>9, <1>19, <2>1, <2>2, BeneathCall
  <2> QED
    BY <1>19, <2>3
<1>21. /\ Frames(t, ms, b, d, n) /\ Callers(t, ms, d, ng, te, n - 1)
       /\ \A h \in 1..n : Excused(stack, terrors, h) => Excused(t, te, h)
  BY <1>1, <1>2, <1>20 DEF Beneath
<1>22. /\ Len(t) = n + 1 /\ DOMAIN t = 1..n + 1 /\ t[n + 1] = g /\ \A l \in 1..n : t[l] = stack[l]
  BY <1>2, <1>13, <1>19, AppendFacts
<1>23. /\ DOMAIN d = 1..n + 1 /\ d[n + 1] = None /\ \A l \in 1..n : d[l] = c[l]
  BY <1>6, <1>18
<1>24. t[n] = Top /\ t[o] = stack[o] /\ d[n] = c[n]
  BY <1>6, <1>22, <1>23
<1>25. Done(t, te, ms, ng, o, past, now, Top.node, {k}, Top.own)
  <2>1. Filling(stack[o], Excused(stack, terrors, o), ms, past, now, Top.node)
    BY <1>14 DEF Done
  <2>2. Done(stack, terrors, ms, ng, o, past, now, Top.node, {k}, Top.own)
    BY <1>17, <2>1 DEF Done
  <2>3. Excused(stack, terrors, o) => Excused(t, te, o)
    BY Zenon, <1>6, <1>21
  <2> QED
    BY <1>24, <2>2, <2>3, DoneSame
<1>26. MappingTip(t, ms, d, ng, te, n, TRUE)
  <2>1. d[n].line = past /\ Top.owner = o
    BY <1>2, <1>24
  <2>2. Done(t, te, ms, ng, Top.owner, d[n].line, Before(ms, Top), Top.node, {ms[Top.node].content[Top.i].key}, Top.own)
    BY <1>11, <1>12, <1>25, <2>1
  <2>3. Top.i \in DOMAIN ms[Top.node].content /\ ms[Top.node].content[Top.i].key \in Top.target.fields \cap Keys
    BY <1>7, <1>11
  <2> QED
    BY <1>24, <2>2, <2>3 DEF MappingTip
<1>27. Callers(t, ms, d, ng, te, n)
  <2>1. \A l \in 1..n : l \in 1..n - 1 \/ l = n
    BY <1>6
  <2>2. t[n].op # "unmarshal"
    BY <1>1, <1>24
  <2> QED
    BY <1>21, <1>26, <2>1, <2>2 DEF Callers
<1>28. t[n].op \in {"sequence", "mapping", "unmarshaler"} /\ t[n + 1] = Unmarshal(v, 0)
  BY Zenon, <1>1, <1>18, <1>22, <1>24
<1>29. MergeOf(t, "none", ms, b, d, ng, te, 0)
  BY <1>6, <1>9, <1>13, <1>21, <1>22, <1>23, <1>27, <1>28, PushPlain
<1>30. MergeOf(stack', ret', nodes', b, d, merged', terrors', mergedFields')
  BY Zenon, <1>1, <1>2, <1>6, <1>29
<1> QED
  BY <1>30 DEF StepMerges

\* t is the stack with the innermost of its calls changed, and perhaps a call behind it.
Redone(t) ==
  LET n == Len(stack) IN
  /\ Len(t) \in {n, n + 1} /\ \A l \in 1..n - 1 : t[l] = stack[l]
  /\ \A l \in n..Len(t) : t[l].op # "unmarshaler"
  /\ t[n].op = "merge" <=> stack[n].op = "merge"

\* The calls below it are as they were.
Around(b, c, ns, t, d) ==
  LET n == Len(stack) IN
  /\ SameCalls(stack, c, t, d, n - 1)
  /\ Frames(t, ns, b, d, n - 1) /\ Callers(t, ns, d, merged, terrors, n - 1)
  /\ \A o \in 1..n - 1 : Excused(stack, terrors, o) => Excused(t, terrors, o)

\* So they are if t is such a stack.
LEMMA RedoneAround ==
  ASSUME TypeInv, AliasInv, stack # <<>>, NEW ns, NEW b, NEW c,
         MergeOf(stack, ret, ns, b, c, merged, terrors, mergedFields), NEW t, Redone(t),
         NEW d, \A l \in 1..Len(stack) - 1 : d[l] = c[l]
  PROVE  Around(b, c, ns, t, d)
<1>1. PICK n : n = Len(stack)
  OBVIOUS
<1>2. /\ n \in Nat \ {0} /\ n \in 1..n /\ IsSequence(stack) /\ DOMAIN stack = 1..n /\ Top = stack[n]
      /\ DOMAIN c = 1..n /\ Settled(b, ns) /\ terrors \in Nat /\ n - 1 \in Nat
      /\ Frames(stack, ns, b, c, n - 1) /\ Callers(stack, ns, c, merged, terrors, n - 1)
  BY <1>1, GrownFacts
<1>3. /\ Len(t) \in {n, n + 1} /\ \A l \in 1..n - 1 : t[l] = stack[l]
      /\ \A l \in n..Len(t) : t[l].op # "unmarshaler"
      /\ t[n].op = "merge" <=> stack[n].op = "merge"
  BY <1>1 DEF Redone
<1>4. t[n].op # "unmarshaler" /\ (Len(t) = n + 1 => t[n + 1].op # "unmarshaler")
  <2>1. n \in n..Len(t)
    BY <1>2, <1>3
  <2>2. Len(t) = n + 1 => n + 1 \in n..Len(t)
    BY <1>2
  <2> QED
    BY <1>3, <2>1, <2>2
<1>5. \A o \in 1..n - 1 : Excused(stack, terrors, o) => Excused(t, terrors, o)
  <2> SUFFICES ASSUME NEW o \in 1..n - 1, Excused(stack, terrors, o)
               PROVE  Excused(t, terrors, o)
    OBVIOUS
  <2>1. \A l \in 1..n - 1 : t[l].op = stack[l].op /\ (stack[l].op = "unmarshaler" => t[l] = stack[l])
    BY <1>3
  <2>2. o \in Nat /\ terrors > 0
    BY <1>2 DEF Excused
  <2> QED
    BY <1>1, <1>2, <1>3, <1>4, <2>1, <2>2, ExcusedSame
<1>6. \A l \in 1..n - 1 : t[l] = stack[l] /\ d[l] = c[l]
  BY <1>1, <1>3
<1>7. Undisturbed(stack, c, merged, terrors, t, d, merged, terrors, n)
  BY <1>2, <1>3, <1>5, <1>6, SameBelow
<1>8. Frames(t, ns, b, d, n - 1) /\ Callers(t, ns, d, merged, terrors, n - 1)
  BY <1>2, <1>7, BelowSame
<1>9. SameCalls(stack, c, t, d, n - 1)
  BY <1>7 DEF Undisturbed
<1>10. Around(b, c, ns, t, d)
  BY <1>1, <1>5, <1>8, <1>9 DEF Around
<1> QED
  BY <1>10

\* A call by an alias or a merge, or by a mapping for its merge, has their owner and set.
LEMMA NestingNext ==
  ASSUME NEW t, NEW d, NEW n \in Nat \ {0}, Inner(t, d, n), Nested(t, d, n),
         t[n].op \in {"alias", "merge", "mapping"}, ~Calling(t, n),
         OwnerOf(t, d, n + 1) \in {0, OwnerOf(t, d, n)}
  PROVE  /\ Inner(t, d, n + 1)
         /\ SetOf(t, d, n + 1) \in {0, SetOf(t, d, n)} => Nested(t, d, n + 1)
<1>1. PICK k : k = n + 1
  OBVIOUS
<1>2. k - 1 = n /\ k \in Nat
  BY <1>1
<1>3. \A q \in 1..k - 1 : q \in 1..n - 1 \/ q = n
  BY <1>2
<1>4. Inner(t, d, k)
  <2>1. ASSUME OwnerOf(t, d, k) # 0
        PROVE  /\ OwnerOf(t, d, k) \in 1..k
               /\ \A q \in OwnerOf(t, d, k)..k - 1 : t[q].op \in {"alias", "merge", "mapping"} /\ ~Calling(t, q)
    <3>1. PICK o : o = OwnerOf(t, d, k)
      OBVIOUS
    <3>2. o # 0 /\ o = OwnerOf(t, d, n)
      BY <1>1, <2>1, <3>1
    <3>3. o \in 1..n /\ \A q \in o..n - 1 : t[q].op \in {"alias", "merge", "mapping"} /\ ~Calling(t, q)
      BY <3>2 DEF Inner
    <3>4. \A q \in o..k - 1 : q \in o..n - 1 \/ q = n
      BY <1>2, <3>3
    <3>5. o \in 1..k
      BY <1>1, <3>3
    <3> QED
      BY <3>1, <3>3, <3>4, <3>5
  <2> QED
    BY <2>1 DEF Inner
<1>5. ASSUME SetOf(t, d, k) \in {0, SetOf(t, d, n)}
      PROVE  Nested(t, d, k)
  <2>1. ASSUME SetOf(t, d, k) # 0, NEW l \in 1..k - 1, Calling(t, l)
        PROVE  SetOf(t, d, l) < SetOf(t, d, k)
    <3>1. SetOf(t, d, k) = SetOf(t, d, n)
      BY <1>5, <2>1
    <3>2. l \in 1..n - 1
      BY <1>3, <2>1
    <3>3. SetOf(t, d, l) < SetOf(t, d, n)
      BY <2>1, <3>1, <3>2 DEF Nested
    <3> QED
      BY <3>1, <3>3
  <2> QED
    BY <2>1 DEF Nested
<1> QED
  BY <1>1, <1>4, <1>5

\* All levels but the two innermost, and these.
LEMMA AssembleCall ==
  ASSUME NEW ns, NEW b, Settled(b, ns), NEW t, NEW n \in Nat \ {0}, Len(t) = n + 1, DOMAIN t = 1..n + 1,
         NEW d, DOMAIN d = 1..n + 1, NEW mg, NEW te, NEW mf,
         Frames(t, ns, b, d, n - 1), FrameAt(t, ns, b, d, n), Inner(t, d, n), Nested(t, d, n),
         FrameAt(t, ns, b, d, n + 1), Inner(t, d, n + 1), Nested(t, d, n + 1),
         Callers(t, ns, d, mg, te, n - 1), t[n].op # "unmarshal", ~Calling(t, n),
         TopTip(t, "none", ns, b, d, mg, te, n + 1), mf = Current(t, d, n + 1)
  PROVE  MergeOf(t, "none", ns, b, d, mg, te, mf)
<1>1. PICK k : k = n + 1
  OBVIOUS
<1>2. k \in Nat \ {0} /\ k - 1 = n /\ Len(t) = k /\ DOMAIN t = 1..k /\ DOMAIN d = 1..k
  BY <1>1
<1>3. \A l \in 1..n : l \in 1..n - 1 \/ l = n
  OBVIOUS
<1>4. Frames(t, ns, b, d, n)
  BY <1>3 DEF Frames
<1>5. Callers(t, ns, d, mg, te, n)
  BY <1>3 DEF Callers
<1>6. Frames(t, ns, b, d, k - 1) /\ Callers(t, ns, d, mg, te, k - 1)
  BY <1>2, <1>4, <1>5
<1>7. /\ FrameAt(t, ns, b, d, k) /\ Inner(t, d, k) /\ Nested(t, d, k)
      /\ TopTip(t, "none", ns, b, d, mg, te, k) /\ mf = Current(t, d, k)
  BY <1>1
<1> QED
  BY <1>2, <1>6, <1>7, Assemble

\* An alias is followed.
LEMMA DecodeAliasMerges ==
  ASSUME TypeInv, AliasInv, NEW b, NEW c, Merging(b, c), DecodeAlias
  PROVE  StepMerges
<1>1. PICK n, t, x, f, g, a :
        /\ n = Len(stack) /\ t = stack' /\ x = c[n] /\ a = Top.node
        /\ f = [op |-> "alias", node |-> a] /\ g = Unmarshal(nodes[a].target, Top.into)
  OBVIOUS
<1>2. PICK d : d = [l \in 1..n + 1 |-> IF l = n + 1 THEN x ELSE c[l]]
  OBVIOUS
<1>3. /\ stack # <<>> /\ Top.op = "unmarshal" /\ ret = "none" /\ Kind(nodes, a) = "alias"
      /\ t = Append(Append(Front(stack), f), g)
      /\ ret' = "none" /\ nodes' = nodes /\ merged' = merged /\ mergedFields' = mergedFields /\ terrors' = terrors
  BY <1>1 DEF DecodeAlias, AtKind, AtCall, Replace
<1>4. /\ n \in Nat \ {0} /\ n \in 1..n /\ IsSequence(stack) /\ DOMAIN stack = 1..n /\ Top = stack[n]
      /\ DOMAIN c = 1..n /\ FrameOK(Top, nodes, Len(merged)) /\ Settled(b, nodes) /\ n - 1 \in Nat
      /\ Tree(nodes)
      /\ Frames(stack, nodes, b, c, n) /\ Frames(stack, nodes, b, c, n - 1)
      /\ FrameAt(stack, nodes, b, c, n) /\ Inner(stack, c, n) /\ Nested(stack, c, n)
      /\ TopTip(stack, ret, nodes, b, c, merged, terrors, n)
      /\ mergedFields = Current(stack, c, n)
  BY <1>1, <1>3, MergingFacts
<1>5. Called(stack, t, n, f, g)
  BY <1>1, <1>3, <1>4, ReplacedCalled
<1>6. /\ Len(t) = n + 1 /\ DOMAIN t = 1..n + 1 /\ t[n] = f /\ t[n + 1] = g
      /\ \A l \in 1..n - 1 : t[l] = stack[l]
  BY <1>5 DEF Called
<1>7. f.op = "alias" /\ f.node = a /\ g.op = "unmarshal" /\ g.node = nodes[a].target /\ g.into = Top.into
  BY <1>1 DEF Unmarshal
<1>8. /\ DOMAIN d = 1..n + 1 /\ d[n + 1] = x /\ d[n] = x /\ \A l \in 1..n - 1 : d[l] = c[l]
  BY <1>1, <1>2, <1>4
<1>9. Around(b, c, nodes, t, d)
  <2>1. \A l \in n..Len(t) : l = n \/ l = n + 1
    BY <1>4, <1>6
  <2>2. Redone(t)
    BY Zenon, <1>1, <1>3, <1>4, <1>6, <1>7, <2>1 DEF Redone
  <2>3. MergeOf(stack, ret, nodes, b, c, merged, terrors, mergedFields)
    BY DEF Merging
  <2>4. \A l \in 1..Len(stack) - 1 : d[l] = c[l]
    BY <1>1, <1>8
  <2> QED
    BY <1>3, <2>2, <2>3, <2>4, RedoneAround
<1>10. /\ SameCalls(stack, c, t, d, n - 1)
       /\ Frames(t, nodes, b, d, n - 1) /\ Callers(t, nodes, d, merged, terrors, n - 1)
       /\ \A o \in 1..n - 1 : Excused(stack, terrors, o) => Excused(t, terrors, o)
  BY <1>1, <1>9 DEF Around
<1>11. /\ Context(stack, nodes, b, c, n) /\ InContext(stack, nodes, c, n) /\ UnmarshalAt(Top, nodes, x)
  BY <1>1, <1>3, <1>4 DEF FrameAt
<1>12. UnmarshalTip(stack, nodes, merged, terrors, x) /\ mergedFields = x.set
  BY <1>1, <1>3, <1>4 DEF TopTip, Current
<1>13. a \in DOMAIN nodes /\ nodes[a].kind = "alias" /\ nodes[a].target \in 0..Len(nodes)
  <2>1. a \in 0..Len(nodes)
    BY <1>1, <1>11 DEF UnmarshalAt
  <2>2. a # 0 /\ nodes[a].kind = "alias"
    BY <1>3 DEF Kind
  <2>3. DOMAIN nodes = 1..Len(nodes) /\ Len(nodes) \in Nat
    BY <1>4, TreeFacts
  <2>4. a \in DOMAIN nodes
    BY <2>1, <2>2, <2>3
  <2>5. nodes[a] \in Nodes(Len(nodes))
    BY <1>4, <2>4, TreeFacts
  <2> QED
    BY <2>2, <2>3, <2>4, <2>5, NodeFacts
<1>14. FrameAt(t, nodes, b, d, n)
  <2>1. Context(t, nodes, b, d, n)
    BY Zenon, <1>1, <1>4, <1>8, <1>10, <1>11, ContextSame
  <2>2. InContext(t, nodes, d, n)
    BY <1>1, <1>4, <1>6, <1>7, <1>8, <1>10, <1>11, InContextSame
  <2>3. AliasAt(t[n], nodes, d[n])
    BY <1>1, <1>3, <1>6, <1>7, <1>8, <1>11, <1>13 DEF AliasAt, UnmarshalAt, Target
  <2> QED
    BY <1>6, <1>7, <2>1, <2>2, <2>3 DEF FrameAt
<1>15. Inner(t, d, n) /\ Nested(t, d, n)
  <2>1. OwnerOf(t, d, n) = OwnerOf(stack, c, n) /\ SetOf(t, d, n) = SetOf(stack, c, n)
    BY Zenon, <1>1, <1>3, <1>4, <1>6, <1>7, <1>8 DEF OwnerOf, SetOf
  <2>2. t[n].op = "merge" <=> stack[n].op = "merge"
    BY <1>3, <1>4, <1>6, <1>7
  <2>3. d[n] = c[n]
    BY <1>1, <1>8
  <2> QED
    BY Zenon, <1>4, <1>10, <2>1, <2>2, <2>3, NestingSame
<1>16. FrameAt(t, nodes, b, d, n + 1)
  <2>1. PICK k : k = n + 1
    OBVIOUS
  <2>2. k - 1 = n /\ k > 1
    BY <1>4, <2>1
  <2>3. Context(t, nodes, b, d, k)
    BY <1>6, <1>7, <1>8, <2>1, <2>2 DEF Context
  <2>4. InContext(t, nodes, d, k)
    <3>1. x.line \in Seq(Mappings(nodes)) /\ (x.owner = 0 => x = None)
      BY <1>1, <1>11 DEF InContext
    <3>2. ASSUME x.owner # 0
          PROVE  /\ x.owner \in 1..k - 1 /\ t[x.owner].op = "mapping"
                 /\ t[x.owner].owner = x.owner /\ t[x.owner].target = x.target
                 /\ x.set \in Nat \ {0} /\ x.goal \in Mappings(nodes)
      <4>1. /\ x.owner \in 1..n - 1 /\ stack[x.owner].op = "mapping"
            /\ stack[x.owner].owner = x.owner /\ stack[x.owner].target = x.target
            /\ x.set \in Nat \ {0} /\ x.goal \in Mappings(nodes)
        BY <1>1, <1>11, <3>2 DEF InContext
      <4>2. t[x.owner] = stack[x.owner] /\ x.owner \in 1..n
        BY <1>4, <1>6, <4>1
      <4> QED
        BY <2>2, <4>1, <4>2
    <3> QED
      BY <1>6, <1>7, <1>8, <2>1, <3>1, <3>2 DEF InContext
  <2>5. UnmarshalAt(t[k], nodes, d[k])
    <3>1. g.node \in 0..Len(nodes) /\ g.into = x.owner
      BY <1>7, <1>11, <1>13 DEF UnmarshalAt
    <3>2. ASSUME x.owner # 0
          PROVE  Kind(nodes, g.node) \in {"alias", "mapping"} /\ Target(nodes, g.node) = x.goal
      <4>1. g.node = x.goal
        BY <1>1, <1>3, <1>7, <1>11, <3>2 DEF UnmarshalAt, Target
      <4>2. x.goal \in Mappings(nodes)
        BY <1>1, <1>11, <3>2 DEF InContext
      <4>3. x.goal # 0
        BY <1>4, <4>2, MappingContent
      <4>4. Kind(nodes, x.goal) = "mapping"
        BY <4>2, <4>3 DEF Kind, Mappings
      <4> QED
        BY <4>1, <4>4 DEF Target
    <3> QED
      BY <1>6, <1>8, <2>1, <3>1, <3>2 DEF UnmarshalAt
  <2>6. t[k].op = "unmarshal"
    BY <1>6, <1>7, <2>1
  <2>7. FrameAt(t, nodes, b, d, k)
    BY <2>3, <2>4, <2>5, <2>6 DEF FrameAt
  <2> QED
    BY <2>1, <2>7
<1>17. Inner(t, d, n + 1) /\ Nested(t, d, n + 1)
  <2>1. OwnerOf(t, d, n + 1) = OwnerOf(t, d, n) /\ SetOf(t, d, n + 1) = SetOf(t, d, n)
    BY <1>6, <1>7, <1>8 DEF OwnerOf, SetOf
  <2>2. ~Calling(t, n) /\ t[n].op = "alias"
    BY <1>6, <1>7 DEF Calling
  <2> QED
    BY <1>4, <1>15, <2>1, <2>2, NestingNext
<1>18. TopTip(t, "none", nodes, b, d, merged, terrors, n + 1)
  <2>1. ASSUME x.owner # 0
        PROVE  Done(t, terrors, nodes, merged, x.owner, x.line, {}, 0, {}, x.set)
    <3>1. Done(stack, terrors, nodes, merged, x.owner, x.line, {}, 0, {}, x.set)
      BY <1>12, <2>1 DEF UnmarshalTip
    <3>2. x.owner \in 1..n - 1
      BY <1>1, <1>11, <2>1 DEF InContext
    <3>3. t[x.owner] = stack[x.owner] /\ (Excused(stack, terrors, x.owner) => Excused(t, terrors, x.owner))
      BY <1>6, <1>10, <3>2
    <3> QED
      BY <3>1, <3>3, DoneSame
  <2>2. UnmarshalTip(t, nodes, merged, terrors, d[n + 1])
    BY <1>8, <2>1 DEF UnmarshalTip
  <2> QED
    BY <1>6, <1>7, <2>2 DEF TopTip
<1>19. mergedFields = Current(t, d, n + 1)
  BY <1>6, <1>7, <1>8, <1>12 DEF Current
<1>20. t[n].op # "unmarshal" /\ ~Calling(t, n)
  BY <1>6, <1>7 DEF Calling
<1>21. MergeOf(t, "none", nodes, b, d, merged, terrors, mergedFields)
  BY <1>4, <1>6, <1>8, <1>10, <1>14, <1>15, <1>16, <1>17, <1>18, <1>19, <1>20, AssembleCall
<1>22. MergeOf(stack', ret', nodes', b, d, merged', terrors', mergedFields')
  BY <1>1, <1>3, <1>21
<1> QED
  BY <1>22 DEF StepMerges

\* The mapping that the innermost call, a merge, is for merges src next.
NextSource(ns, src) ==
  LET n == stack[Len(stack) - 1].node IN
  /\ n \in Mappings(ns) /\ Looked(ns, n, Top.i) /\ Source(ns, n, Top.i) = Target(ns, src)
  /\ Target(ns, src) \in Mappings(ns) /\ Kind(ns, src) \in {"alias", "mapping"}

\* A merge looks at its next source.
LEMMA SourceLooked ==
  ASSUME TypeInv, AliasInv, Unique(nodes), NEW b, NEW c, Merging(b, c), In("merge"),
         Top.i <= Len(Sources(nodes, Top.node)), NEW src, src = Sources(nodes, Top.node)[Top.i],
         NEW ns \in Known(src)
  PROVE  /\ MergeOf(stack, ret, ns, b, c, merged, terrors, mergedFields)
         /\ Unique(ns) /\ Tree(ns) /\ Settled(b, ns) /\ src \in 0..Len(ns)
         /\ Mergeable(ns, src) => NextSource(ns, src)
<1>1. PICK n, x, i, v, m : n = Len(stack) /\ x = Sources(nodes, Top.node) /\ i = Top.i /\ v = Top.node /\ m = stack[n - 1].node
  OBVIOUS
<1>2. stack # <<>> /\ Top.op = "merge"
  BY DEF In
<1>3. /\ n \in Nat \ {0} /\ n \in 1..n /\ Top = stack[n] /\ FrameOK(Top, nodes, Len(merged)) /\ Tree(nodes)
      /\ Frames(stack, nodes, b, c, n)
  BY <1>1, <1>2, MergingFacts
<1>4. v \in 0..Len(nodes) /\ i \in Nat \ {0}
  BY <1>1, <1>2, <1>3 DEF FrameOK
<1>5. x \in Seq(0..Len(nodes)) /\ i \in 1..Len(x) /\ src \in 0..Len(nodes)
  <2>1. x \in Seq(0..Len(nodes))
    BY <1>1, <1>3, <1>4, SourcesOK
  <2>2. i \in 1..Len(x)
    BY <1>1, <1>4, <2>1
  <2> QED
    BY <1>1, <2>1, <2>2
<1>6. PICK a, ms : a = src /\ ms = ns
  OBVIOUS
<1>7. a \in 0..Len(nodes) /\ ns \in Known(a) /\ MayAdd(ns, a, ms)
  BY <1>5, <1>6 DEF MayAdd
<1>8. Grown(ms, b, c, a)
  BY <1>7, GrownMerging
<1>9. /\ MergeOf(stack, ret, ns, b, c, merged, terrors, mergedFields)
      /\ Unique(ns) /\ Tree(ns) /\ src \in 0..Len(ns) /\ Settled(b, ns)
  BY <1>6, <1>8 DEF Grown
<1>10. /\ n > 1 /\ MergeFrame(stack, nodes, b, n) /\ m \in Mappings(nodes)
  <2>1. n \in Nat /\ n \in 1..n /\ Frames(stack, nodes, b, c, n) /\ stack[n].op = "merge"
    BY <1>2, <1>3
  <2>2. n > 1 /\ MergeFrame(stack, nodes, b, n) /\ stack[n - 1].node \in Mappings(nodes)
    BY Zenon, <2>1, MergeBelow
  <2> QED
    BY <1>1, <2>2
<1>11. /\ EntryOf(nodes[m].content, Merge) # {} /\ v = MergeValue(nodes[m].content) /\ Kind(nodes, v) # "unknown"
  BY <1>1, <1>3, <1>10 DEF MergeFrame, Looked
<1>12. Sources(ns, v) = x /\ Kind(ns, v) # "unknown"
  <2>1. ns = nodes \/ Extends(nodes, ns)
    BY Zenon, <1>3, <1>5, KnownExtends DEF TypeInv
  <2>2. CASE ns = nodes
    <3>1. x = Sources(nodes, v)
      BY Zenon, <1>1
    <3> QED
      BY <1>11, <2>2, <3>1
  <2>3. CASE Extends(nodes, ns)
    BY <1>1, <1>4, <1>11, <2>3, KindKept
  <2> QED
    BY <2>1, <2>2, <2>3
<1>13. EntryOf(ns[m].content, Merge) # {} /\ MergeValue(ns[m].content) = v /\ m \in Mappings(ns)
  <2>1. KeepsMapping(nodes, ns, m)
    BY <1>6, <1>8, <1>10 DEF Grown
  <2> QED
    BY <1>11, <2>1 DEF KeepsMapping
<1>14. Froms(ns, m) = x
  BY <1>12, <1>13 DEF Froms
<1>15. ASSUME Mergeable(ns, src)
       PROVE  NextSource(ns, src)
  <2>1. MergeFrame(stack, ns, b, n)
    <3>1. Frames(stack, ns, b, c, n)
      <4>1. /\ n = Len(stack) /\ stack # <<>>
            /\ MergeOf(stack, ret, ns, b, c, merged, terrors, mergedFields)
        BY Zenon, <1>1, <1>2, <1>9
      <4> QED
        BY <4>1, GrownFacts
    <3> QED
      BY <1>2, <1>3, <3>1, MergeBelow
  <2>2. Looked(ns, m, i - 1)
    BY <1>1, <1>3, <2>1 DEF MergeFrame
  <2>3. \A j \in 1..i : j \in 1..i - 1 \/ j = i
    BY <1>4
  <2>4. \A j \in 1..i : j \in DOMAIN x
    BY <1>5
  <2>5. \A j \in 1..i - 1 : Mergeable(ns, x[j])
    BY <1>14, <2>2 DEF Looked
  <2>6. Looked(ns, m, i)
    BY <1>1, <1>12, <1>13, <1>14, <1>15, <2>3, <2>4, <2>5 DEF Looked
  <2>7. Source(ns, m, i) = Target(ns, src)
    BY <1>1, <1>14 DEF Source
  <2>8. Target(ns, src) \in Mappings(ns) /\ Kind(ns, src) \in {"alias", "mapping"}
    BY <1>9, <1>15, MergeableFacts
  <2> QED
    BY <1>1, <1>13, <2>6, <2>7, <2>8 DEF NextSource
<1> QED
  BY <1>9, <1>15

\* The next mapping is merged.
LEMMA MergeSourceCalls ==
  ASSUME TypeInv, AliasInv, NEW b, NEW c, NEW ns,
         MergeOf(stack, ret, ns, b, c, merged, terrors, mergedFields), stack # <<>>, Top.op = "merge",
         c[Len(stack)].owner = 0, NEW src \in 0..Len(ns), NextSource(ns, src), Tree(ns),
         stack' = Append(Advance, Unmarshal(src, Top.owner)), ret' = "none", nodes' = ns,
         merged' = merged, mergedFields' = mergedFields, terrors' = terrors
  PROVE  StepMerges
<1>1. PICK n, t, m, i, o, f, g, te :
        /\ n = Len(stack) /\ t = stack' /\ m = stack[n - 1].node /\ i = Top.i /\ o = Top.owner
        /\ f = [Top EXCEPT !.i = @ + 1] /\ g = Unmarshal(src, o) /\ te = terrors'
  OBVIOUS
<1>2. PICK x : x = [owner |-> o, set |-> Top.fields, goal |-> Source(ns, m, i),
                    line |-> LineAt(stack, ns, b, c, n, i - 1), target |-> stack[n - 1].target]
  OBVIOUS
<1>3. PICK d : d = [l \in 1..n + 1 |-> IF l = n + 1 THEN x ELSE c[l]]
  OBVIOUS
<1>4. /\ n \in Nat \ {0} /\ n - 1 \in Nat /\ n \in 1..n /\ IsSequence(stack) /\ DOMAIN stack = 1..n
      /\ Top = stack[n] /\ DOMAIN c = 1..n /\ Settled(b, ns)
      /\ Frames(stack, ns, b, c, n) /\ Frames(stack, ns, b, c, n - 1)
      /\ FrameAt(stack, ns, b, c, n) /\ Inner(stack, c, n) /\ Nested(stack, c, n)
      /\ TopTip(stack, ret, ns, b, c, merged, terrors, n) /\ mergedFields = Current(stack, c, n)
  BY <1>1, GrownFacts
<1>5. /\ n > 1 /\ n - 1 \in 1..n /\ MergeFrame(stack, ns, b, n) /\ stack[n - 1].op = "mapping"
      /\ m \in Mappings(ns) /\ c[n - 1].line \in Seq(Mappings(ns)) /\ i \in Nat \ {0}
  BY <1>1, <1>4, MergeBelow
<1>6. /\ stack[n - 1].owner = o /\ Top.saved = stack[n - 1].own
      /\ {"op", "node", "i", "owner", "saved", "fields"} \subseteq DOMAIN Top
      /\ Top.fields \in Nat \ {0} /\ (Top.saved # 0 => Top.fields = Top.saved)
      /\ EntryOf(ns[m].content, Merge) # {} /\ Top.node = MergeValue(ns[m].content)
  BY <1>1, <1>4, <1>5 DEF MergeFrame
<1>7. /\ o \in 1..n - 1 /\ stack[o].op = "mapping" /\ stack[o].owner = o
      /\ stack[o].target = stack[n - 1].target
  <2>1. n - 1 \in 1..n - 1
    BY <1>4, <1>5
  <2> QED
    <3>1. PICK l : l = n - 1
      OBVIOUS
    <3>2. l \in Nat /\ l \in 1..l /\ Frames(stack, ns, b, c, l) /\ stack[l].op = "mapping"
      BY <1>4, <1>5, <2>1, <3>1
    <3>3. /\ stack[l].owner \in 1..l /\ stack[stack[l].owner].op = "mapping"
          /\ stack[stack[l].owner].owner = stack[l].owner
          /\ stack[stack[l].owner].target = stack[l].target
      BY <3>2, OwnerFacts
    <3> QED
      BY <1>6, <3>1, <3>3
<1>8. /\ \A j \in 1..i - 1 : Source(ns, m, j) \in DOMAIN b
      /\ Done(stack, terrors, ns, merged, o, LineAt(stack, ns, b, c, n, i - 1), {}, 0, {}, Top.fields)
  <2>1. MergeTip(stack, ns, b, c, merged, terrors, n)
    BY <1>4 DEF TopTip
  <2> QED
    BY <1>1, <1>4, <2>1 DEF MergeTip
<1>9. Looked(ns, m, i) /\ Source(ns, m, i) = Target(ns, src) /\ Target(ns, src) \in Mappings(ns)
      /\ Kind(ns, src) \in {"alias", "mapping"}
  BY <1>1 DEF NextSource
<1>10. Called(stack, t, n, f, g)
  <2>1. t = Append(Append(Front(stack), f), g)
    BY <1>1 DEF Advance, Replace
  <2> QED
    BY <1>1, <1>4, <2>1, ReplacedCalled
<1>11. /\ Len(t) = n + 1 /\ DOMAIN t = 1..n + 1 /\ t[n] = f /\ t[n + 1] = g
       /\ \A l \in 1..n - 1 : t[l] = stack[l]
  BY <1>10 DEF Called
<1>12. /\ f.op = "merge" /\ f.node = Top.node /\ f.i = i + 1 /\ f.owner = o /\ f.saved = Top.saved
       /\ f.fields = Top.fields /\ DOMAIN f = DOMAIN Top
       /\ g.op = "unmarshal" /\ g.node = src /\ g.into = o
  BY <1>1, <1>6 DEF Unmarshal
<1>13. /\ DOMAIN d = 1..n + 1 /\ d[n + 1] = x /\ d[n] = c[n] /\ \A l \in 1..n - 1 : d[l] = c[l]
  BY <1>3, <1>4
<1>14. Around(b, c, ns, t, d)
  <2>1. \A l \in n..Len(t) : l = n \/ l = n + 1
    BY <1>4, <1>11
  <2>2. n = Len(stack) /\ stack[n].op = "merge" /\ t[n].op = "merge" /\ t[n + 1].op = "unmarshal"
    BY <1>1, <1>4, <1>11, <1>12
  <2>3. Redone(t)
    BY <1>11, <2>1, <2>2 DEF Redone
  <2>4. \A l \in 1..Len(stack) - 1 : d[l] = c[l]
    BY <1>1, <1>13
  <2> QED
    BY <2>3, <2>4, RedoneAround
<1>15. /\ SameCalls(stack, c, t, d, n - 1)
       /\ Frames(t, ns, b, d, n - 1) /\ Callers(t, ns, d, merged, te, n - 1)
       /\ \A l \in 1..n - 1 : Excused(stack, terrors, l) => Excused(t, te, l)
  BY <1>1, <1>14 DEF Around
<1>16. t[n - 1] = stack[n - 1] /\ d[n - 1] = c[n - 1]
  <2>1. n - 1 \in 1..n - 1
    BY <1>4, <1>5
  <2> QED
    BY <1>11, <1>13, <2>1
<1>17. FrameAt(t, ns, b, d, n)
  <2>1. Context(stack, ns, b, c, n) /\ InContext(stack, ns, c, n)
    BY <1>4 DEF FrameAt
  <2>2. Context(t, ns, b, d, n)
    BY Zenon, <1>4, <1>13, <1>15, <2>1, ContextSame
  <2>3. InContext(t, ns, d, n)
    <3>1. SameCalls(stack, c, t, d, n - 1) /\ d[n] = c[n] /\ InContext(stack, ns, c, n)
      BY <1>4, <1>13, <1>15, <2>1
    <3>2. c[n].owner = 0 \/ t[n].op \in {"unmarshal", "alias", "mapping"}
      BY <1>1
    <3> QED
      BY <1>4, <3>1, <3>2, InContextSame
  <2>4. t[n].i - 1 = i /\ t[n].i - 2 = i - 1 /\ t[n].i \in Nat \ {0}
    BY <1>5, <1>11, <1>12
  <2>5. MergeFrame(t, ns, b, n)
    <3>1. PICK p : p = n - 1
      OBVIOUS
    <3>2. t[n] = f /\ t[p] = stack[p] /\ stack[p].node = m /\ stack[p].op = "mapping" /\ stack[p].owner = o
      BY <1>1, <1>5, <1>6, <1>11, <1>16, <3>1
    <3>3. /\ f.owner = o /\ f.saved = stack[p].own /\ f.fields \in Nat \ {0} /\ (f.saved # 0 => f.fields = f.saved)
          /\ {"op", "node", "i", "owner", "saved", "fields"} \subseteq DOMAIN f
          /\ EntryOf(ns[m].content, Merge) # {} /\ f.node = MergeValue(ns[m].content)
      BY <1>6, <1>12, <3>1
    <3>4. f.i - 1 = i /\ f.i - 2 = i - 1 /\ f.i \in Nat \ {0}
      BY <1>11, <2>4
    <3>5. Looked(ns, m, f.i - 1) /\ \A j \in 1..f.i - 2 : Source(ns, m, j) \in DOMAIN b
      BY <1>8, <1>9, <3>4
    <3> QED
      BY <1>5, <3>1, <3>2, <3>3, <3>4, <3>5 DEF MergeFrame
  <2> QED
    BY <1>11, <1>12, <2>2, <2>3, <2>5 DEF FrameAt
<1>18. Inner(t, d, n) /\ Nested(t, d, n)
  <2>1. stack[n].op = "merge" /\ t[n].op = "merge" /\ t[n].owner = stack[n].owner /\ t[n].fields = stack[n].fields
    BY <1>1, <1>4, <1>11, <1>12
  <2>2. OwnerOf(t, d, n) = OwnerOf(stack, c, n) /\ SetOf(t, d, n) = SetOf(stack, c, n)
    BY <2>1 DEF OwnerOf, SetOf
  <2> QED
    BY <1>4, <1>13, <1>15, <2>1, <2>2, NestingSame
<1>19. FrameAt(t, ns, b, d, n + 1)
  <2>1. PICK k : k = n + 1
    OBVIOUS
  <2>2. k - 1 = n /\ k - 2 = n - 1 /\ k > 1
    BY <1>4, <2>1
  <2>3. LineAt(t, ns, b, d, n, i - 1) = LineAt(stack, ns, b, c, n, i - 1)
    BY <1>16 DEF LineAt
  <2>4. Context(t, ns, b, d, k)
    <3>1. t[k - 1].op = "merge" /\ t[k - 1].owner = o /\ t[k - 1].fields = Top.fields /\ t[k - 1].i - 1 = i
          /\ t[k - 1].i - 2 = i - 1 /\ t[k - 1].i >= 2
      <4>1. t[k - 1] = f
        BY <1>11, <2>2
      <4>2. f.op = "merge" /\ f.owner = o /\ f.fields = Top.fields /\ f.i = i + 1 /\ i \in Nat \ {0}
        BY <1>5, <1>12
      <4>3. f.i - 1 = i /\ f.i - 2 = i - 1 /\ f.i >= 2
        <5>1. PICK h : h = f.i
          OBVIOUS
        <5>2. h = i + 1 /\ i \in Nat \ {0}
          BY <4>2, <5>1
        <5>3. h - 1 = i /\ h - 2 = i - 1 /\ h >= 2
          BY <5>2
        <5> QED
          BY <5>1, <5>3
      <4> QED
        BY <4>1, <4>2, <4>3
    <3>2. t[k - 2].node = m /\ t[k - 2].target = stack[n - 1].target
      BY <1>1, <1>16, <2>2
    <3>3. d[k] = [owner |-> t[k - 1].owner, set |-> t[k - 1].fields,
                  goal |-> Source(ns, t[k - 2].node, t[k - 1].i - 1),
                  line |-> LineAt(t, ns, b, d, k - 1, t[k - 1].i - 2), target |-> t[k - 2].target]
      BY <1>2, <1>13, <2>1, <2>2, <2>3, <3>1, <3>2
    <3> QED
      BY <2>2, <3>1, <3>3 DEF Context
  <2>5. InContext(t, ns, d, k)
    <3>1. LineAt(stack, ns, b, c, n, i - 1) \in Seq(Mappings(ns))
      <4>1. i - 1 \in Nat
        BY <1>5
      <4> QED
        BY <1>1, <1>4, <1>5, <1>8, <4>1, LineType
    <3>2. d[k] = x /\ x.owner = o /\ x.set = Top.fields /\ x.goal = Source(ns, m, i) /\ x.target = stack[n - 1].target
          /\ x.line = LineAt(stack, ns, b, c, n, i - 1)
      BY <1>2, <1>13, <2>1
    <3>3. o \in 1..k - 1 /\ o # 0 /\ t[o] = stack[o]
      BY <1>4, <1>7, <1>11, <2>2
    <3>4. t[k].op = "unmarshal"
      BY <1>11, <1>12, <2>1
    <3> QED
      BY <1>6, <1>7, <1>9, <3>1, <3>2, <3>3, <3>4 DEF InContext
  <2>6. UnmarshalAt(t[k], ns, d[k])
    BY <1>2, <1>9, <1>11, <1>12, <1>13, <2>1 DEF UnmarshalAt
  <2>7. FrameAt(t, ns, b, d, k)
    BY <1>11, <1>12, <2>1, <2>4, <2>5, <2>6 DEF FrameAt
  <2> QED
    BY <2>1, <2>7
<1>20. Inner(t, d, n + 1) /\ Nested(t, d, n + 1)
  <2>1. OwnerOf(t, d, n + 1) = OwnerOf(t, d, n) /\ SetOf(t, d, n + 1) = SetOf(t, d, n)
    BY <1>2, <1>11, <1>12, <1>13 DEF OwnerOf, SetOf
  <2>2. ~Calling(t, n) /\ t[n].op = "merge"
    BY <1>11, <1>12 DEF Calling
  <2> QED
    BY <1>4, <1>18, <2>1, <2>2, NestingNext
<1>21. TopTip(t, "none", ns, b, d, merged, te, n + 1)
  <2>1. t[o] = stack[o] /\ (Excused(stack, terrors, o) => Excused(t, te, o))
    BY <1>7, <1>11, <1>15
  <2>2. PICK line, set : line = LineAt(stack, ns, b, c, n, i - 1) /\ set = Top.fields
    OBVIOUS
  <2>3. Done(stack, terrors, ns, merged, o, line, {}, 0, {}, set)
    BY <1>8, <2>2
  <2>4. /\ Done(stack, terrors, ns, merged, o, line, {}, 0, {}, set)
        /\ t[o].out = stack[o].out /\ t[o].target = stack[o].target
        /\ Excused(stack, terrors, o) => Excused(t, te, o)
        /\ set # 0 => merged[set] = merged[set]
    BY <2>1, <2>3
  <2>7. Done(t, te, ns, merged, o, line, {}, 0, {}, set)
    <3>1. Filling(stack[o], Excused(stack, terrors, o), ns, line, {}, 0) /\ Marks(merged, ns, line, {}, {}, set)
      BY <2>4 DEF Done
    <3>2. Filling(t[o], Excused(t, te, o), ns, line, {}, 0)
      BY <2>4, <3>1 DEF Filling
    <3> QED
      BY <3>1, <3>2 DEF Done
  <2>5. d[n + 1].owner = o /\ d[n + 1].line = line /\ d[n + 1].set = set
    BY <1>2, <1>13, <2>2
  <2>6. UnmarshalTip(t, ns, merged, te, d[n + 1])
    BY <2>5, <2>7 DEF UnmarshalTip
  <2> QED
    BY <1>11, <1>12, <2>6 DEF TopTip
<1>22. mergedFields = Current(t, d, n + 1)
  BY <1>2, <1>4, <1>11, <1>12, <1>13 DEF Current
<1>23. t[n].op # "unmarshal" /\ ~Calling(t, n)
  BY <1>11, <1>12 DEF Calling
<1>24. MergeOf(t, "none", ns, b, d, merged, te, mergedFields)
  BY <1>4, <1>11, <1>13, <1>15, <1>17, <1>18, <1>19, <1>20, <1>21, <1>22, <1>23, AssembleCall
<1>25. MergeOf(stack', ret', nodes', b, d, merged', terrors', mergedFields')
  BY <1>1, <1>24
<1> QED
  BY <1>25 DEF StepMerges

\* A merge looks at its next source, and merges it or fails.
LEMMA MergeSourceMerges ==
  ASSUME TypeInv, AliasInv, Unique(nodes), NEW b, NEW c, Merging(b, c), MergeSource, departed' = {}
  PROVE  StepMerges
<1>1. PICK src : src = Sources(nodes, Top.node)[Top.i]
  OBVIOUS
<1>2. /\ In("merge") /\ stack # <<>> /\ Top.op = "merge" /\ Top.i <= Len(Sources(nodes, Top.node))
      /\ merged' = merged /\ mergedFields' = mergedFields /\ terrors' = terrors
  BY DEF MergeSource, In, decoder
<1>3. PICK ns \in Known(src) :
        /\ nodes' = ns
        /\ IF Mergeable(ns, src)
             THEN stack' = Append(Advance, Unmarshal(src, Top.owner)) /\ ret' = "none"
             ELSE Fail(stack)
  BY <1>1 DEF MergeSource
<1>4. /\ MergeOf(stack, ret, ns, b, c, merged, terrors, mergedFields)
      /\ Tree(ns) /\ Settled(b, ns) /\ src \in 0..Len(ns)
      /\ Mergeable(ns, src) => NextSource(ns, src)
  BY <1>1, <1>2, SourceLooked
<1>5. CASE Mergeable(ns, src)
  <2>1. c[Len(stack)].owner = 0
    BY <1>2, OtherPlain
  <2>2. NextSource(ns, src) /\ stack' = Append(Advance, Unmarshal(src, Top.owner)) /\ ret' = "none"
    BY <1>3, <1>4, <1>5
  <2> QED
    BY <1>2, <1>3, <1>4, <2>1, <2>2, MergeSourceCalls
<1>6. CASE ~Mergeable(ns, src)
  <2>1. Settled(b, nodes') /\ Fail(stack)
    BY <1>3, <1>4, <1>6
  <2> QED
    BY <2>1, FailMerges DEF Fail
<1> QED
  BY <1>5, <1>6

\* The node of a call is a mapping.
LEMMA MappingNode ==
  ASSUME Tree(nodes), NEW a \in 0..Len(nodes), Kind(nodes, a) = "mapping"
  PROVE  a \in Mappings(nodes) /\ Target(nodes, a) = a
<1>1. a # 0 /\ nodes[a].kind = "mapping"
  BY DEF Kind
<1>2. DOMAIN nodes = 1..Len(nodes) /\ Len(nodes) \in Nat
  BY TreeFacts
<1>3. a \in Mappings(nodes)
  BY <1>1, <1>2 DEF Mappings
<1> QED
  BY <1>3 DEF Target

\* The decoding of a mapping begins.
LEMMA DecodeMappingMerges ==
  ASSUME TypeInv, AliasInv, NEW b, NEW c, Merging(b, c), DecodeMapping
  PROVE  StepMerges
<1>1. PICK n, t, x, a, te : n = Len(stack) /\ t = stack' /\ x = c[n] /\ a = Top.node /\ te = terrors'
  OBVIOUS
<1>2. PICK target \in IF Top.into = 0 THEN Targets ELSE {stack[Top.into].target} :
        t = Replace([op |-> "mapping", node |-> Top.node, i |-> 1, own |-> mergedFields,
                     owner |-> IF Top.into = 0 THEN Len(stack) ELSE Top.into, target |-> target, out |-> <<>>])
  BY <1>1 DEF DecodeMapping
<1>3. PICK f : f = [op |-> "mapping", node |-> Top.node, i |-> 1, own |-> mergedFields,
                    owner |-> IF Top.into = 0 THEN Len(stack) ELSE Top.into, target |-> target, out |-> <<>>]
  OBVIOUS
<1>4. /\ stack # <<>> /\ Top.op = "unmarshal" /\ ret = "none" /\ Kind(nodes, a) = "mapping"
      /\ t = Append(Front(stack), f)
      /\ ret' = "none" /\ nodes' = nodes /\ merged' = merged /\ mergedFields' = 0 /\ terrors' = terrors
  BY <1>1, <1>2, <1>3 DEF DecodeMapping, AtKind, AtCall, Replace
<1>5. /\ n \in Nat \ {0} /\ n \in 1..n /\ IsSequence(stack) /\ DOMAIN stack = 1..n /\ Top = stack[n]
      /\ DOMAIN c = 1..n /\ FrameOK(Top, nodes, Len(merged)) /\ Settled(b, nodes) /\ n - 1 \in Nat
      /\ Tree(nodes) /\ terrors \in Nat
      /\ Frames(stack, nodes, b, c, n) /\ Frames(stack, nodes, b, c, n - 1)
      /\ FrameAt(stack, nodes, b, c, n) /\ Inner(stack, c, n) /\ Nested(stack, c, n)
      /\ TopTip(stack, ret, nodes, b, c, merged, terrors, n)
      /\ mergedFields = Current(stack, c, n)
  BY <1>1, <1>4, MergingFacts
<1>6. Swapped(stack, t, n, f)
  BY <1>1, <1>4, <1>5, Replaced
<1>7. Len(t) = n /\ DOMAIN t = 1..n /\ t[n] = f /\ \A l \in 1..n - 1 : t[l] = stack[l]
  BY <1>6 DEF Swapped
<1>8. /\ Context(stack, nodes, b, c, n) /\ InContext(stack, nodes, c, n) /\ UnmarshalAt(Top, nodes, x)
      /\ UnmarshalTip(stack, nodes, merged, terrors, x) /\ mergedFields = x.set
  BY <1>1, <1>4, <1>5 DEF FrameAt, TopTip, Current
<1>9. /\ f.op = "mapping" /\ f.node = a /\ f.i = 1 /\ f.own = x.set /\ f.target = target /\ f.out = <<>>
      /\ f.owner = (IF x.owner = 0 THEN n ELSE x.owner) /\ MappingFields \subseteq DOMAIN f
      /\ Top.into = x.owner
  BY <1>1, <1>3, <1>8 DEF UnmarshalAt, MappingFields
<1>10. Around(b, c, nodes, t, c)
  <2>1. \A l \in n..Len(t) : l = n
    BY <1>5, <1>7
  <2>2. n = Len(stack) /\ stack[n].op = "unmarshal" /\ t[n].op = "mapping"
    BY <1>1, <1>4, <1>5, <1>7, <1>9
  <2>3. Redone(t)
    BY <1>7, <2>1, <2>2 DEF Redone
  <2>4. MergeOf(stack, ret, nodes, b, c, merged, terrors, mergedFields)
    BY DEF Merging
  <2> QED
    BY <1>4, <2>3, <2>4, RedoneAround
<1>11. /\ SameCalls(stack, c, t, c, n - 1)
       /\ Frames(t, nodes, b, c, n - 1) /\ Callers(t, nodes, c, merged, te, n - 1)
       /\ \A o \in 1..n - 1 : Excused(stack, terrors, o) => Excused(t, te, o)
  BY <1>1, <1>4, <1>10 DEF Around
<1>12. a \in Mappings(nodes) /\ Target(nodes, a) = a
  <2>1. a \in 0..Len(nodes)
    BY <1>1, <1>8 DEF UnmarshalAt
  <2> QED
    BY <1>4, <1>5, <2>1, MappingNode
<1>13. ASSUME x.owner # 0
       PROVE  /\ x.owner \in 1..n - 1 /\ a = x.goal /\ target = x.target
              /\ target.fields \subseteq Keys \cup {Origin}
  <2>1. /\ x.owner \in 1..n - 1 /\ stack[x.owner].op = "mapping" /\ stack[x.owner].target = x.target
    BY <1>1, <1>8, <1>13 DEF InContext
  <2>2. target = stack[x.owner].target
    BY <1>2, <1>9, <1>13
  <2>3. MappingFrame(stack[x.owner], nodes, c[x.owner], x.owner)
    <3>1. n - 1 \in Nat /\ Frames(stack, nodes, b, c, n - 1)
      BY <1>5
    <3> QED
      BY <2>1, <3>1, OwnerFacts
  <2>4. a = x.goal
    BY <1>1, <1>8, <1>12, <1>13 DEF UnmarshalAt
  <2> QED
    BY <2>1, <2>2, <2>3, <2>4 DEF MappingFrame
<1>14. ASSUME x.owner = 0
       PROVE  target.fields \subseteq Keys \cup {Origin}
  <2>1. target \in Targets
    BY <1>2, <1>9, <1>14
  <2> QED
    BY <2>1, DecoderConstants DEF Targets, Map
<1>15. FrameAt(t, nodes, b, c, n)
  <2>1. Context(t, nodes, b, c, n)
    BY <1>5, <1>8, <1>11, ContextSame
  <2>2. t[n].op \in {"unmarshal", "alias", "mapping"}
    BY <1>7, <1>9
  <2>3. InContext(t, nodes, c, n)
    BY <1>5, <1>8, <1>11, <2>2, InContextSame
  <2>4. 1 \in 1..Len(nodes[a].content) + 1
    <3>1. Len(nodes[a].content) \in Nat
      BY <1>5, <1>12, MappingContent
    <3> QED
      BY <3>1
  <2>5. MappingFrame(f, nodes, x, n)
    BY <1>9, <1>12, <1>13, <1>14, <2>4 DEF MappingFrame
  <2> QED
    BY <1>1, <1>7, <1>9, <2>1, <2>3, <2>5 DEF FrameAt
<1>16. Inner(t, c, n) /\ Nested(t, c, n)
  <2>1. OwnerOf(t, c, n) \in {0, n, OwnerOf(stack, c, n)} /\ SetOf(t, c, n) = SetOf(stack, c, n)
    BY <1>1, <1>4, <1>5, <1>7, <1>9 DEF OwnerOf, SetOf
  <2>2. t[n].op = "merge" <=> stack[n].op = "merge"
    BY <1>4, <1>5, <1>7, <1>9
  <2> QED
    BY <1>5, <1>11, <2>1, <2>2, NestingSame
<1>17. Done(t, te, nodes, merged, f.owner, x.line, {}, a, {}, x.set)
  <2>1. CASE x.owner = 0
    <3>1. x.line = <<>> /\ x.set = 0
      BY <1>1, <1>8, <2>1 DEF InContext, None
    <3>2. \A k : ~Has(nodes, x.line, k)
      BY <3>1 DEF Has
    <3>3. t[f.owner] = f
      BY <1>7, <1>9, <2>1
    <3>4. Filling(f, Excused(t, te, f.owner), nodes, x.line, {}, a)
      <4>1. DOMAIN f.out = {}
        BY <1>9
      <4> QED
        BY <3>2, <4>1 DEF Filling
    <3>5. Marks(merged, nodes, x.line, {}, {}, x.set)
      BY <3>1 DEF Marks
    <3> QED
      BY <3>3, <3>4, <3>5 DEF Done
  <2>2. CASE x.owner # 0
    <3>1. Done(stack, terrors, nodes, merged, x.owner, x.line, {}, 0, {}, x.set)
      BY <1>8, <2>2 DEF UnmarshalTip
    <3>2. PICK o : o = x.owner
      OBVIOUS
    <3>3. f.owner = o /\ t[o] = stack[o] /\ (Excused(stack, terrors, o) => Excused(t, te, o))
      BY <1>7, <1>9, <1>11, <1>13, <2>2, <3>2
    <3>4. Filling(stack[o], Excused(stack, terrors, o), nodes, x.line, {}, 0)
          /\ Marks(merged, nodes, x.line, {}, {}, x.set)
      BY <3>1, <3>2 DEF Done
    <3>5. Filling(t[o], Excused(t, te, o), nodes, x.line, {}, a)
      BY <3>3, <3>4 DEF Filling
    <3> QED
      BY <3>3, <3>4, <3>5 DEF Done
  <2> QED
    BY <2>1, <2>2
<1>18. Before(nodes, f) = {}
  <2>1. 1..f.i - 1 = {}
    BY <1>9
  <2> QED
    BY <2>1 DEF Before
<1>19. TopTip(t, "none", nodes, b, c, merged, te, n)
  <2>1. MappingTip(t, nodes, c, merged, te, n, FALSE)
    BY <1>1, <1>7, <1>9, <1>17, <1>18 DEF MappingTip
  <2> QED
    BY <1>7, <1>9, <2>1 DEF TopTip
<1>20. 0 = Current(t, c, n)
  BY <1>7, <1>9 DEF Current
<1>21. MergeOf(t, "none", nodes, b, c, merged, te, 0)
  BY <1>5, <1>7, <1>11, <1>15, <1>16, <1>19, <1>20, Assemble
<1>22. MergeOf(stack', ret', nodes', b, c, merged', terrors', mergedFields')
  BY <1>1, <1>4, <1>21
<1> QED
  BY <1>22 DEF StepMerges

\* The set of merged fields that the merge of the innermost mapping, of the map with owner o, uses
\* has the keys of the mappings of line.
MergeBegins(ng, fields, line, o) ==
  /\ fields \in Nat \ {0} /\ (Top.own # 0 => fields = Top.own)
  /\ Top.own = 0 => fields = Len(merged) + 1
  /\ Done(stack, terrors, nodes, ng, o, line, {}, 0, {}, fields)
  /\ \A l \in 1..Len(stack) - 1 : Calling(stack, l) /\ stack[l].own # 0 =>
       ng[stack[l].own] = merged[stack[l].own]

\* A mapping has been decoded, and its merge begins.
LEMMA MergeBeginsOK ==
  ASSUME TypeInv, AliasInv, NEW b, NEW c, Merging(b, c), DecodeMerge
  PROVE  MergeBegins(merged', mergedFields', c[Len(stack)].line \o <<Top.node>>, Top.owner)
<1>1. PICK n, m, past, o, set, ng, fields, line :
        /\ n = Len(stack) /\ m = Top.node /\ past = c[n].line /\ o = Top.owner /\ set = Top.own
        /\ ng = merged' /\ fields = mergedFields' /\ line = past \o <<m>>
  OBVIOUS
<1>2. /\ AtMerge /\ stack # <<>> /\ Top.op = "mapping"
      /\ set = 0 => ng = Append(merged, KeysOf(nodes[m].content)) /\ fields = Len(merged) + 1
      /\ set # 0 => ng = merged /\ fields = set
  BY <1>1 DEF DecodeMerge, AtMerge, In, MergeFields
<1>3. /\ n \in Nat \ {0} /\ n \in 1..n /\ Top = stack[n] /\ Frames(stack, nodes, b, c, n)
      /\ DOMAIN stack = 1..n /\ FrameOK(Top, nodes, Len(merged))
  BY <1>1, <1>2, MergingFacts
<1>4. /\ m \in Mappings(nodes) /\ past \in Seq(Mappings(nodes))
      /\ Done(stack, terrors, nodes, merged, o, past, OwnKeys(nodes, m), m, {}, set)
  BY <1>1, <1>2, MappingEnd
<1>5. Done(stack, terrors, nodes, merged, o, line, {}, 0, {}, set)
  BY <1>1, <1>4, DoneNext
<1>6. IsSequence(merged) /\ Len(merged) \in Nat /\ FramesOK(stack, nodes, Len(merged))
  BY TypeFacts DEF TypeInv
<1>7. set \in 0..Len(merged)
  BY <1>1, <1>2, <1>3 DEF FrameOK
<1>8. \A s \in 1..Len(merged) : ng[s] = merged[s]
  <2>1. CASE set = 0
    BY <1>2, <1>6, <2>1, AppendFacts
  <2>2. CASE set # 0
    BY <1>2, <2>2
  <2> QED
    BY <2>1, <2>2
<1>9. ASSUME NEW l \in 1..n - 1, Calling(stack, l), stack[l].own # 0
      PROVE  ng[stack[l].own] = merged[stack[l].own]
  <2>1. stack[l].op = "mapping" /\ l \in DOMAIN stack
    BY <1>3, <1>9 DEF Calling
  <2>2. FrameOK(stack[l], nodes, Len(merged))
    BY <1>6, <2>1 DEF FramesOK
  <2>3. stack[l].own \in 1..Len(merged)
    BY <1>6, <1>9, <2>1, <2>2 DEF FrameOK
  <2> QED
    BY <1>8, <2>3
<1>10. fields \in Nat \ {0} /\ (set # 0 => fields = set) /\ (set = 0 => fields = Len(merged) + 1)
  BY <1>2, <1>6, <1>7
<1>11. Marks(ng, nodes, line, {}, {}, fields)
  <2>1. CASE set = 0
    <3>1. past = <<>>
      <4>1. n \in Nat /\ n \in 1..n /\ stack[n].op = "mapping" /\ stack[n].own = 0
        BY <1>1, <1>2, <1>3, <2>1
      <4>2. c[n] = None
        BY <1>3, <4>1, OwnerFacts
      <4> QED
        BY <1>1, <4>2 DEF None
    <3>2. line = <<m>>
      BY <1>1, <1>4, <3>1
    <3>3. \A k : Has(nodes, line, k) <=> k \in OwnKeys(nodes, m)
      BY <3>2 DEF Has
    <3>4. ng[fields] = KeysOf(nodes[m].content)
      BY <1>2, <1>6, <2>1, AppendFacts
    <3>5. \A k \in Keys : k \in ng[fields] <=> Has(nodes, line, k)
      BY <3>3, <3>4 DEF OwnKeys
    <3> QED
      BY <3>5 DEF Marks
  <2>2. CASE set # 0
    <3>1. ng = merged /\ fields = set
      BY <1>2, <2>2
    <3>2. Marks(merged, nodes, line, {}, {}, set)
      BY <1>5 DEF Done
    <3> QED
      BY <3>1, <3>2
  <2> QED
    BY <2>1, <2>2
<1>12. Done(stack, terrors, nodes, ng, o, line, {}, 0, {}, fields)
  BY <1>5, <1>11 DEF Done
<1>13. MergeBegins(ng, fields, line, o)
  BY <1>1, <1>9, <1>10, <1>12 DEF MergeBegins
<1> QED
  BY <1>1, <1>13

\* It is called.
LEMMA DecodeMergeMerges ==
  ASSUME TypeInv, AliasInv, Unique(nodes), NEW b, NEW c, Merging(b, c), DecodeMerge
  PROVE  StepMerges
<1>1. PICK n, m, v, o, t, ng, fields, line, te, past :
        /\ n = Len(stack) /\ m = Top.node /\ v = MergeValue(nodes[m].content) /\ o = Top.owner /\ t = stack'
        /\ ng = merged' /\ fields = mergedFields' /\ past = c[n].line /\ line = past \o <<m>> /\ te = terrors'
  OBVIOUS
<1>2. /\ AtMerge /\ stack # <<>> /\ Top.op = "mapping" /\ EntryOf(nodes[m].content, Merge) # {}
      /\ ret' = ret /\ terrors' = terrors
  BY <1>1 DEF DecodeMerge, AtMerge, In
<1>3. PICK ns \in Known(v) :
        /\ nodes' = ns
        /\ t = Append(stack, [op |-> "merge", node |-> v, i |-> 1, owner |-> Top.owner,
                              saved |-> Top.own, fields |-> mergedFields'])
  BY <1>1 DEF DecodeMerge
<1>4. PICK h : h = [op |-> "merge", node |-> v, i |-> 1, owner |-> Top.owner,
                    saved |-> Top.own, fields |-> mergedFields']
  OBVIOUS
<1>5. /\ t = Append(stack, h) /\ h.op = "merge" /\ h.node = v /\ h.i = 1 /\ h.owner = o /\ h.saved = Top.own
      /\ h.fields = fields /\ {"op", "node", "i", "owner", "saved", "fields"} \subseteq DOMAIN h
  BY <1>1, <1>3, <1>4
<1>6. v \in 0..Len(nodes)
  BY <1>1, <1>2, MergeValueFacts
<1>7. MergeBegins(merged', mergedFields', c[Len(stack)].line \o <<Top.node>>, Top.owner)
  BY MergeBeginsOK
<1>8. /\ fields \in Nat \ {0} /\ (Top.own # 0 => fields = Top.own)
      /\ Top.own = 0 => fields = Len(merged) + 1
      /\ Done(stack, terrors, nodes, ng, o, line, {}, 0, {}, fields)
      /\ \A l \in 1..n - 1 : Calling(stack, l) /\ stack[l].own # 0 => ng[stack[l].own] = merged[stack[l].own]
  BY <1>1, <1>7 DEF MergeBegins
<1>9. /\ m \in Mappings(nodes) /\ past \in Seq(Mappings(nodes)) /\ ret = "none"
  BY <1>1, <1>2, MappingEnd
<1>10. PICK ms : ms = ns
  OBVIOUS
<1>11. MayAdd(ns, v, ms)
  BY <1>10 DEF MayAdd
<1>12. /\ MergeOf(stack, ret, ms, b, c, merged, terrors, mergedFields)
       /\ Unique(ms) /\ Tree(ms) /\ v \in 0..Len(ms) /\ Settled(b, ms)
       /\ m \in Mappings(ms)
       /\ EntryOf(ms[m].content, Merge) = EntryOf(nodes[m].content, Merge)
       /\ EntryOf(nodes[m].content, Merge) # {} => MergeValue(ms[m].content) = MergeValue(nodes[m].content)
  <2>1. Grown(ms, b, c, v)
    BY <1>6, <1>11, GrownMerging
  <2>2. KeepsMapping(nodes, ms, m)
    BY <1>9, <2>1 DEF Grown
  <2> QED
    BY <2>1, <2>2 DEF Grown, KeepsMapping
<1>13. (ms = nodes \/ Extends(nodes, ms)) /\ Kind(ms, v) # "unknown"
  BY <1>6, <1>10, KnownExtends DEF TypeInv
<1>14. /\ n \in Nat \ {0} /\ n \in 1..n /\ IsSequence(stack) /\ DOMAIN stack = 1..n /\ Top = stack[n]
       /\ DOMAIN c = 1..n /\ n - 1 \in Nat /\ FrameOK(Top, nodes, Len(merged))
       /\ Frames(stack, ms, b, c, n)
  BY <1>1, <1>2, <1>12, GrownFacts
<1>15. PICK d : d = [l \in 1..n + 1 |-> IF l = n + 1 THEN None ELSE c[l]]
  OBVIOUS
<1>16. Beneath(b, c, ms, t, d, ng)
  <2>1. d = [l \in 1..Len(stack) + 1 |-> IF l = Len(stack) + 1 THEN None ELSE c[l]]
    BY <1>1, <1>15
  <2>2. \A l \in 1..Len(stack) - 1 : Calling(stack, l) /\ stack[l].own # 0 =>
          ng[stack[l].own] = merged[stack[l].own]
    BY <1>1, <1>8
  <2>3. h.op # "unmarshaler"
    BY <1>5
  <2>4. Beneath(b, c, ms, Append(stack, h), d, ng)
    BY <1>2, <1>12, <2>1, <2>2, <2>3, BeneathCall
  <2> QED
    BY <1>5, <2>4
<1>17. /\ Frames(t, ms, b, d, n) /\ Callers(t, ms, d, ng, te, n - 1)
       /\ \A l \in 1..n : Excused(stack, terrors, l) => Excused(t, te, l)
  BY <1>1, <1>2, <1>16 DEF Beneath
<1>18. /\ Len(t) = n + 1 /\ DOMAIN t = 1..n + 1 /\ t[n + 1] = h /\ \A l \in 1..n : t[l] = stack[l]
  BY <1>1, <1>5, <1>14, AppendFacts
<1>19. /\ DOMAIN d = 1..n + 1 /\ d[n + 1] = None /\ \A l \in 1..n : d[l] = c[l]
  BY <1>14, <1>15
<1>20. t[n] = Top /\ d[n] = c[n]
  BY <1>14, <1>18, <1>19
<1>21. /\ Frames(t, ms, b, d, n - 1) /\ FrameAt(t, ms, b, d, n) /\ Inner(t, d, n) /\ Nested(t, d, n)
  <2>1. \A l \in 1..n - 1 : l \in 1..n
    BY <1>14
  <2> QED
    BY <1>14, <1>17, <2>1 DEF Frames
<1>22. FrameAt(t, ms, b, d, n + 1)
  <2>1. PICK k : k = n + 1
    OBVIOUS
  <2>2. k - 1 = n /\ k > 1
    BY <1>14, <2>1
  <2>3. t[k - 1] = Top /\ t[k] = h /\ d[k] = None
    BY <1>18, <1>19, <1>20, <2>1, <2>2
  <2>4. Context(t, ms, b, d, k)
    BY <1>2, <2>3 DEF Context
  <2>5. InContext(t, ms, d, k)
    BY <2>3 DEF InContext, None
  <2>6. MergeFrame(t, ms, b, k)
    <3>1. Looked(ms, m, h.i - 1)
      <4>1. 1..h.i - 1 = {}
        BY <1>5
      <4>2. MergeValue(ms[m].content) = v
        BY <1>1, <1>2, <1>12
      <4> QED
        BY <1>13, <4>1, <4>2 DEF Looked
    <3>2. 1..h.i - 2 = {}
      BY <1>5
    <3> QED
      BY <1>1, <1>2, <1>5, <1>8, <1>12, <2>2, <2>3, <3>1, <3>2 DEF MergeFrame
  <2>7. FrameAt(t, ms, b, d, k)
    BY <1>5, <2>3, <2>4, <2>5, <2>6 DEF FrameAt
  <2> QED
    BY <2>1, <2>7
<1>23. t[n].op = "mapping" /\ t[n + 1].op = "merge" /\ ~Calling(t, n)
  BY <1>2, <1>5, <1>18, <1>20 DEF Calling
<1>24. Inner(t, d, n + 1) /\ Nested(t, d, n + 1)
  <2>1. OwnerOf(t, d, n + 1) = OwnerOf(t, d, n) /\ SetOf(t, d, n + 1) = fields /\ SetOf(t, d, n) = Top.own
    BY <1>1, <1>5, <1>18, <1>20, <1>23 DEF OwnerOf, SetOf
  <2>2. /\ Inner(t, d, n + 1)
        /\ SetOf(t, d, n + 1) \in {0, SetOf(t, d, n)} => Nested(t, d, n + 1)
    BY <1>14, <1>21, <1>23, <2>1, NestingNext
  <2>3. CASE Top.own # 0
    BY <1>8, <2>1, <2>2, <2>3
  <2>4. CASE Top.own = 0
    <3>1. ASSUME NEW l \in 1..n, Calling(t, l)
          PROVE  SetOf(t, d, l) < fields
      <4>1. stack[l].op = "mapping" /\ t[l] = stack[l] /\ l \in DOMAIN stack
        BY <1>14, <1>18, <3>1 DEF Calling
      <4>2. FramesOK(stack, nodes, Len(merged)) /\ Len(merged) \in Nat
        BY TypeFacts DEF TypeInv
      <4>3. stack[l].own \in 0..Len(merged)
        BY <4>1, <4>2 DEF FramesOK, FrameOK
      <4>4. SetOf(t, d, l) = stack[l].own
        BY <4>1 DEF SetOf
      <4> QED
        BY <1>8, <2>4, <4>2, <4>3, <4>4
    <3>2. PICK k : k = n + 1
      OBVIOUS
    <3>3. \A l \in 1..k - 1 : l \in 1..n
      BY <1>14, <3>2
    <3>4. Nested(t, d, k)
      BY <2>1, <3>1, <3>2, <3>3 DEF Nested
    <3> QED
      BY <2>2, <3>2, <3>4
  <2> QED
    BY <2>3, <2>4
<1>25. line \in Seq(Mappings(nodes))
  <2>1. <<m>> \in Seq(Mappings(nodes))
    BY <1>9
  <2> QED
    BY <1>1, <1>9, <2>1, ConcatProperties
<1>26. Done(t, te, ms, ng, o, line, {}, 0, {}, fields)
  <2>1. Done(stack, terrors, ms, ng, o, line, {}, 0, {}, fields)
    <3>1. CASE ms = nodes
      BY <1>8, <3>1
    <3>2. CASE Extends(nodes, ms)
      BY Zenon, <1>8, <1>25, <3>2, DoneKept
    <3> QED
      BY <1>13, <3>1, <3>2
  <2>2. o \in 1..n
    <3>1. n \in Nat /\ n \in 1..n /\ stack[n].op = "mapping"
      BY <1>2, <1>14
    <3> QED
      BY <1>1, <1>14, <3>1, OwnerFacts
  <2>3. t[o] = stack[o] /\ (Excused(stack, terrors, o) => Excused(t, te, o))
    BY <1>17, <1>18, <2>2
  <2>4. Filling(stack[o], Excused(stack, terrors, o), ms, line, {}, 0) /\ Marks(ng, ms, line, {}, {}, fields)
    BY <2>1 DEF Done
  <2>5. Filling(t[o], Excused(t, te, o), ms, line, {}, 0)
    BY <2>3, <2>4 DEF Filling
  <2> QED
    BY <2>4, <2>5 DEF Done
<1>27. TopTip(t, "none", ms, b, d, ng, te, n + 1)
  <2>1. PICK k : k = n + 1
    OBVIOUS
  <2>2. k - 1 = n /\ t[k - 1] = Top /\ t[k] = h /\ d[k - 1] = c[n]
    BY <1>14, <1>18, <1>20, <2>1
  <2>3. LineAt(t, ms, b, d, k, 0) = line
    <3>1. Lines(b, ms, m, 0) = <<>>
      BY LinesNone
    <3>2. <<m>> \o <<>> = <<m>>
      OBVIOUS
    <3> QED
      BY <1>1, <2>2, <3>1, <3>2 DEF LineAt
  <2>4. t[k].i - 1 = 0
    BY <1>5, <2>2
  <2>5. MergeTip(t, ms, b, d, ng, te, k)
    BY <1>5, <1>26, <2>2, <2>3, <2>4 DEF MergeTip
  <2>6. TopTip(t, "none", ms, b, d, ng, te, k)
    BY <1>5, <2>2, <2>5 DEF TopTip
  <2> QED
    BY <2>1, <2>6
<1>28. fields = Current(t, d, n + 1) /\ t[n].op # "unmarshal"
  BY <1>5, <1>18, <1>23 DEF Current
<1>29. MergeOf(t, "none", ms, b, d, ng, te, fields)
  BY <1>12, <1>14, <1>17, <1>18, <1>19, <1>21, <1>22, <1>23, <1>24, <1>27, <1>28, AssembleCall
<1>30. MergeOf(stack', ret', nodes', b, d, merged', terrors', mergedFields')
  BY <1>1, <1>2, <1>3, <1>9, <1>10, <1>29
<1> QED
  BY <1>30 DEF StepMerges

-----------------------------------------------------------------------------
(* Failures, the beginning and the end                                       *)

\* A mapping with the same key twice is one with two origins.
LEMMA NoDuplicate ==
  ASSUME TypeInv, AliasInv, OriginInv, Unique(nodes), departed = {}, AtKind("mapping")
  PROVE  ~Duplicate(nodes[Top.node].content)
<1>1. Top.node \in DOMAIN nodes /\ nodes[Top.node].kind = "mapping"
  BY AtKindFacts
<1>2. PICK F : Good(F, stack, ret, nodes)
  BY DEF OriginInv
<1>3. PICK n, x : n = Top.node /\ x = nodes[n].content
  OBVIOUS
<1>4. \A i, j \in EntryOf(x, Origin) : i = j
  BY <1>1, <1>2, <1>3 DEF Good, Origins, Single
<1>5. \A i, j \in DOMAIN x : x[i].key = x[j].key /\ x[i].key # Origin => i = j
  BY <1>1, <1>3 DEF Unique, Mappings
<1>6. \A i, j \in DOMAIN x : x[i].key = x[j].key => i = j
  <2> SUFFICES ASSUME NEW i \in DOMAIN x, NEW j \in DOMAIN x, x[i].key = x[j].key
               PROVE  i = j
    OBVIOUS
  <2>1. CASE x[i].key = Origin
    <3>1. i \in EntryOf(x, Origin) /\ j \in EntryOf(x, Origin)
      BY <2>1 DEF EntryOf
    <3> QED
      BY <1>4, <3>1
  <2>2. CASE x[i].key # Origin
    BY <1>5, <2>2
  <2> QED
    BY <2>1, <2>2
<1>7. ~Duplicate(x)
  BY <1>6 DEF Duplicate
<1> QED
  BY <1>3, <1>7

\* A value is refused: nothing is left to be merged.
LEMMA RefuseMerges ==
  ASSUME TypeInv, NEW b, NEW c, Merging(b, c),
         Refuse \/ RefuseCycle \/ OriginFails, departed' = {}
  PROVE  StepMerges
<1>1. nodes' = nodes /\ \E left : Panic(stack, left)
  BY DEF Refuse, RefuseCycle, OriginFails, Fail
<1>2. Settled(b, nodes')
  BY <1>1 DEF Merging, MergeOf
<1> QED
  BY <1>1, <1>2, FailMerges

\* Decode returns.
LEMMA FinishMerges ==
  ASSUME NEW b, NEW c, Merging(b, c), Finish
  PROVE  StepMerges
<1>1. /\ stack = <<>> /\ stack' = stack /\ ret' = "none" /\ nodes' = nodes
      /\ merged' = merged /\ terrors' = terrors /\ mergedFields' = mergedFields
  BY DEF Finish, decoder
<1>2. MergeOf(stack, "none", nodes, b, c, merged, terrors, mergedFields)
  BY <1>1 DEF Merging, MergeOf
<1>3. MergeOf(stack', ret', nodes', b, c, merged', terrors', mergedFields')
  BY <1>1, <1>2
<1> QED
  BY <1>3 DEF StepMerges

\* Decode begins.
LEMMA StartMerges ==
  ASSUME TypeInv, AliasInv, Unique(nodes), NEW b, NEW c, Merging(b, c), Start, mergedFields = 0
  PROVE  StepMerges
<1>1. PICK ns \in Known(1) : nodes' = AddOriginTo(ns, 1, 1)
  BY DEF Start
<1>2. PICK ms, t, d : ms = nodes' /\ t = stack' /\ d = <<None>>
  OBVIOUS
<1>3. /\ t = <<Unmarshal(1, 0)>> /\ ret' = ret /\ merged' = merged /\ terrors' = terrors /\ mergedFields' = 0
  BY <1>2 DEF Start, decoder
<1>4. 1 \in 0..Len(nodes)
  BY TypeFacts DEF TypeInv
<1>5. MayAdd(ns, 1, ms)
  BY <1>1, <1>2 DEF MayAdd
<1>6. /\ Settled(b, ms) /\ 1 \in 0..Len(ms)
  <2>1. Grown(ms, b, c, 1)
    BY <1>4, <1>5, GrownMerging
  <2> QED
    BY <2>1 DEF Grown
<1>7. ret # "error" /\ (ret = "bad" => terrors > 0)
  BY DEF Merging, MergeOf
<1>8. Len(t) = 1 /\ DOMAIN t = 1..1 /\ t[1] = Unmarshal(1, 0) /\ DOMAIN d = 1..1 /\ d[1] = None
  BY <1>2, <1>3
<1>9. t[1].op = "unmarshal" /\ t[1].node = 1 /\ t[1].into = 0
  BY <1>8 DEF Unmarshal
<1>10. None.owner = 0 /\ None.set = 0 /\ None.line = <<>>
  BY DEF None
<1>11. FrameAt(t, ms, b, d, 1)
  <2>1. Context(t, ms, b, d, 1)
    BY <1>8 DEF Context
  <2>2. InContext(t, ms, d, 1)
    BY <1>8, <1>10 DEF InContext
  <2>3. UnmarshalAt(t[1], ms, d[1])
    BY <1>6, <1>8, <1>9, <1>10 DEF UnmarshalAt
  <2> QED
    BY <1>9, <2>1, <2>2, <2>3 DEF FrameAt
<1>12. Inner(t, d, 1) /\ Nested(t, d, 1) /\ 0 = Current(t, d, 1)
  BY <1>8, <1>9, <1>10 DEF Inner, OwnerOf, Nested, SetOf, Current
<1>13. TopTip(t, ret, ms, b, d, merged, terrors, 1)
  BY <1>8, <1>9, <1>10 DEF TopTip, UnmarshalTip
<1>14. PICK k : k = 1
  OBVIOUS
<1>15. Frames(t, ms, b, d, k - 1) /\ Callers(t, ms, d, merged, terrors, k - 1)
  <2>1. 1..k - 1 = {}
    BY <1>14
  <2> QED
    BY <2>1 DEF Frames, Callers
<1>16. /\ k \in Nat \ {0} /\ Len(t) = k /\ DOMAIN t = 1..k /\ DOMAIN d = 1..k
       /\ FrameAt(t, ms, b, d, k) /\ Inner(t, d, k) /\ Nested(t, d, k)
       /\ TopTip(t, ret, ms, b, d, merged, terrors, k) /\ 0 = Current(t, d, k)
  BY <1>8, <1>11, <1>12, <1>13, <1>14
<1>17. MergeOf(t, ret, ms, b, d, merged, terrors, 0)
  BY <1>6, <1>7, <1>15, <1>16, Assemble
<1>18. MergeOf(stack', ret', nodes', b, d, merged', terrors', mergedFields')
  BY <1>2, <1>3, <1>17
<1> QED
  BY <1>18 DEF StepMerges

-----------------------------------------------------------------------------
(* The invariant of merges                                                   *)

\* No key stands twice in a mapping; and unless an unmarshaler has been given an error, or
\* has called its function twice, merges have done what they should.
MergeInv ==
  /\ Unique(nodes)
  /\ outcome = "none" => mergedFields = 0
  /\ departed = {} => \E b, c : Merging(b, c)

\* Nothing has been merged.
LEMMA MergeInit ==
  ASSUME Init
  PROVE  MergeInv
<1>1. /\ nodes = <<Unknown>> /\ stack = <<>> /\ ret = "none" /\ mergedFields = 0
  BY DEF Init
<1>2. PICK ns : ns = <<Unknown>>
  OBVIOUS
<1>3. DOMAIN ns = {1} /\ ns[1] = Unknown
  BY <1>2
<1>4. Mappings(ns) = {}
  BY <1>3 DEF Mappings, Unknown
<1>5. Unique(ns)
  BY <1>4 DEF Unique
<1>6. PICK b : b = [n \in {} |-> 0]
  OBVIOUS
<1>7. Settled(b, ns)
  BY <1>6 DEF Settled
<1>8. MergeOf(<<>>, "none", ns, b, <<>>, merged, terrors, 0)
  BY <1>7 DEF MergeOf, Frames, Callers
<1>9. Merging(b, <<>>)
  BY <1>1, <1>2, <1>8 DEF Merging
<1> QED
  BY <1>1, <1>2, <1>5, <1>9 DEF MergeInv

\* A node is looked at, and may get its origin.
LEMMA UniqueGrown ==
  ASSUME TypeInv, Unique(nodes), NEW v \in 0..Len(nodes), NEW ns \in Known(v), NEW ms, MayAdd(ns, v, ms)
  PROVE  Unique(ms)
<1>1. Tree(nodes) /\ Len(nodes) + unmarshalers <= MaxNodes /\ unmarshalers \in Nat
  BY DEF TypeInv
<1>2. Unique(ns) /\ Tree(ns) /\ v \in 0..Len(ns)
  BY <1>1, KnownExtends
<1>3. ms = ns \/ (Extends(ns, ms) /\ Unique(ms))
  BY <1>2, OriginExtends
<1> QED
  BY <1>2, <1>3

\* No step makes a key stand twice.
LEMMA UniqueStep ==
  ASSUME TypeInv, AliasInv, Unique(nodes), Next
  PROVE  Unique(nodes')
<1>1. ASSUME NEW v \in 0..Len(nodes), \E ns \in Known(v) : MayAdd(ns, v, nodes')
      PROVE  Unique(nodes')
  <2>1. PICK ms : ms = nodes'
    OBVIOUS
  <2>2. PICK ns \in Known(v) : MayAdd(ns, v, ms)
    BY <1>1, <2>1
  <2> QED
    BY <2>1, <2>2, UniqueGrown
<1>2. ASSUME nodes' = nodes
      PROVE  Unique(nodes')
  BY <1>2
<1>3. CASE Start
  <2>1. \E ns \in Known(1) : MayAdd(ns, 1, nodes')
    BY <1>3 DEF Start, MayAdd
  <2>2. 1 \in 0..Len(nodes)
    BY TypeFacts DEF TypeInv
  <2> QED
    BY <1>1, <2>1, <2>2
<1>4. CASE SequenceItem
  <2>1. PICK v : v = nodes[Top.node].content[Top.i]
    OBVIOUS
  <2>2. v \in 0..Len(nodes)
    BY <1>4, <2>1, ContentFacts DEF SequenceItem, In
  <2>3. \E ns \in Known(v) : MayAdd(ns, v, nodes')
    BY <1>4, <2>1 DEF SequenceItem, MayAdd
  <2> QED
    BY <1>1, <2>2, <2>3
<1>5. CASE MappingValue
  <2>1. PICK v : v = Entry.value
    OBVIOUS
  <2>2. v \in 0..Len(nodes)
    BY <1>5, <2>1, ContentFacts DEF MappingValue, AtEntry, In
  <2>3. PICK ns \in Known(v) : nodes' = IF Top.target.struct THEN ns ELSE AddOriginTo(ns, v, 0)
    BY <1>5, <2>1 DEF MappingValue
  <2>4. MayAdd(ns, v, nodes')
    BY <2>3 DEF MayAdd
  <2> QED
    BY <1>1, <2>2, <2>3, <2>4
<1>6. CASE DecodeMerge
  <2>1. PICK v : v = MergeValue(nodes[Top.node].content)
    OBVIOUS
  <2>2. v \in 0..Len(nodes)
    BY <1>6, <2>1, MergeValueFacts DEF DecodeMerge
  <2>3. nodes' \in Known(v)
    BY <1>6, <2>1 DEF DecodeMerge
  <2>4. MayAdd(nodes', v, nodes')
    BY DEF MayAdd
  <2> QED
    BY <1>1, <2>2, <2>3, <2>4
<1>7. CASE MergeSource
  <2>1. PICK v, x : x = Sources(nodes, Top.node) /\ v = x[Top.i]
    OBVIOUS
  <2>2. stack # <<>> /\ Top.op = "merge" /\ Top.i <= Len(x) /\ nodes' \in Known(v)
    BY <1>7, <2>1 DEF MergeSource, In
  <2>3. FrameOK(Top, nodes, Len(merged)) /\ Tree(nodes)
    BY <2>2, TypeFacts DEF TypeInv
  <2>4. Top.node \in 0..Len(nodes) /\ Top.i \in Nat \ {0}
    BY <2>2, <2>3 DEF FrameOK
  <2>5. x \in Seq(0..Len(nodes))
    BY <2>1, <2>3, <2>4, SourcesOK
  <2>6. v \in 0..Len(nodes)
    BY <2>1, <2>2, <2>4, <2>5
  <2>7. MayAdd(nodes', v, nodes')
    BY DEF MayAdd
  <2> QED
    BY <1>1, <2>2, <2>6, <2>7
<1>8. CASE Finish \/ DecodeWhole \/ Mismatch \/ Refuse \/ DecodeAlias \/ RefuseCycle \/ AliasReturns
  BY <1>2, <1>8 DEF Finish, DecodeWhole, Mismatch, Refuse, DecodeAlias, RefuseCycle, AliasReturns
<1>9. CASE DecodeSequence \/ SequenceReturns \/ RefuseDuplicate \/ DecodeMapping \/ MappingSkips \/ MappingIgnores
  BY <1>2, <1>9 DEF DecodeSequence, SequenceReturns, RefuseDuplicate, DecodeMapping, MappingSkips, MappingIgnores
<1>10. CASE MappingOrigin \/ OriginMismatch \/ OriginFails \/ MappingStores \/ MappingReturns \/ MergeReturns
  BY <1>2, <1>10 DEF MappingOrigin, OriginMismatch, OriginFails, MappingStores, MappingReturns, MergeReturns
<1>11. CASE CallUnmarshaler \/ UnmarshalerCalls \/ FunctionReturns \/ UnmarshalerReturns
  BY <1>2, <1>11 DEF CallUnmarshaler, UnmarshalerCalls, FunctionReturns, UnmarshalerReturns
<1> QED
  BY <1>3, <1>4, <1>5, <1>6, <1>7, <1>8, <1>9, <1>10, <1>11 DEF Next

\* Every step does with merges what it should.
LEMMA MergeStep ==
  ASSUME TypeInv, AliasInv, OriginInv, MergeInv, [Next]_vars
  PROVE  MergeInv'
<1>1. CASE UNCHANGED vars
  <2>1. UNCHANGED <<nodes, stack, ret, mergedFields, merged, terrors, outcome, departed>>
    BY <1>1 DEF vars
  <2>2. ASSUME NEW b, NEW c, Merging(b, c)
        PROVE  Merging(b, c)'
    BY <2>1, <2>2 DEF Merging
  <2>3. \E b, c : Merging(b, c)' \/ departed' # {}
    BY <2>1, <2>2 DEF MergeInv
  <2> QED
    BY <2>1, <2>3 DEF MergeInv
<1>2. CASE Next
  <2>1. outcome' # "none" /\ departed \subseteq departed'
    BY <1>2, StepHistory
  <2>2. Unique(nodes) /\ Unique(nodes')
    BY <1>2, UniqueStep DEF MergeInv
  <2>3. ASSUME departed' = {}
        PROVE  StepMerges
    <3>1. departed = {}
      BY <2>1, <2>3
    <3>2. PICK b, c : Merging(b, c)
      BY <3>1 DEF MergeInv
    <3>3. CASE Start
      <4>1. mergedFields = 0
        BY <3>3 DEF Start, MergeInv
      <4> QED
        BY <2>2, <3>2, <3>3, <4>1, StartMerges
    <3>4. CASE Finish
      BY <3>2, <3>4, FinishMerges
    <3>5. CASE DecodeWhole \/ Mismatch
      BY <3>2, <3>5, WholeMerges
    <3>6. CASE Refuse \/ RefuseCycle \/ OriginFails
      BY <2>3, <3>2, <3>6, RefuseMerges
    <3>7. CASE DecodeAlias
      BY <3>2, <3>7, DecodeAliasMerges
    <3>8. CASE AliasReturns
      BY <3>2, <3>8, AliasReturnsMerges
    <3>9. CASE DecodeSequence \/ CallUnmarshaler
      BY <3>2, <3>9, BeginMerges
    <3>10. CASE SequenceItem
      BY <2>2, <3>2, <3>10, SequenceItemMerges
    <3>11. CASE SequenceReturns
      BY <3>2, <3>11, SequenceReturnsMerges
    <3>12. CASE RefuseDuplicate
      BY <2>2, <3>1, <3>12, NoDuplicate DEF RefuseDuplicate
    <3>13. CASE DecodeMapping
      BY <3>2, <3>13, DecodeMappingMerges
    <3>14. CASE MappingSkips
      BY <2>2, <3>2, <3>14, MappingSkipsMerges
    <3>15. CASE MappingIgnores
      BY <2>2, <3>2, <3>15, MappingIgnoresMerges
    <3>16. CASE MappingOrigin \/ OriginMismatch
      BY <2>2, <3>2, <3>16, MappingOriginMerges
    <3>17. CASE MappingValue
      BY <2>2, <3>2, <3>17, MappingValueMerges
    <3>18. CASE MappingStores
      BY <2>2, <3>2, <3>18, MappingStoresMerges
    <3>19. CASE MappingReturns
      BY <3>2, <3>19, MappingReturnsMerges
    <3>20. CASE DecodeMerge
      BY <2>2, <3>2, <3>20, DecodeMergeMerges
    <3>21. CASE MergeSource
      BY <2>2, <2>3, <3>2, <3>21, MergeSourceMerges
    <3>22. CASE MergeReturns
      BY <3>2, <3>22, MergeReturnsMerges
    <3>23. CASE UnmarshalerCalls
      BY <3>2, <3>23, UnmarshalerCallsMerges
    <3>24. CASE FunctionReturns
      BY <3>2, <3>24, FunctionReturnsMerges
    <3>25. CASE UnmarshalerReturns
      BY <2>3, <3>2, <3>25, UnmarshalerReturnsMerges
    <3> QED
      BY <1>2, <3>3, <3>4, <3>5, <3>6, <3>7, <3>8, <3>9, <3>10, <3>11, <3>12, <3>13, <3>14, <3>15,
         <3>16, <3>17, <3>18, <3>19, <3>20, <3>21, <3>22, <3>23, <3>24, <3>25 DEF Next
  <2>4. departed' = {} => \E b, c : Merging(b, c)'
    BY <2>3 DEF StepMerges, Merging
  <2> QED
    BY <2>1, <2>2, <2>4 DEF MergeInv
<1> QED
  BY <1>1, <1>2

-----------------------------------------------------------------------------
(* The precedence of merges                                                  *)

\* The mapping that a line gives a key from is the one that the lineage says.
LEMMA GiverIs ==
  ASSUME NEW n, NEW line, line = Lineage[MaxNodes][n], NEW S, line \in Seq(S), NEW key \in Keys, NEW x,
         Gives(nodes, line, key, x)
  PROVE  Giver(n, key) = x
<1>1. PICK has : has = {i \in DOMAIN line : key \in KeysOf(nodes[line[i]].content)}
  OBVIOUS
<1>2. Giver(n, key) = line[CHOOSE i \in has : \A j \in has : i <= j]
  BY <1>1 DEF Giver
<1>3. DOMAIN line = 1..Len(line) /\ Len(line) \in Nat
  OBVIOUS
<1>4. \A i \in DOMAIN line : i \in has <=> key \in OwnKeys(nodes, line[i])
  BY <1>1 DEF OwnKeys
<1>5. PICK j \in DOMAIN line : line[j] = x /\ key \in OwnKeys(nodes, x) /\ \A h \in 1..j - 1 : key \notin OwnKeys(nodes, line[h])
  BY DEF Gives
<1>6. j \in has /\ has \subseteq 1..Len(line) /\ j \in Nat
  BY <1>1, <1>3, <1>4, <1>5
<1>7. \A h \in has : j <= h
  <2> SUFFICES ASSUME NEW h \in has, h < j
               PROVE  FALSE
    BY <1>6
  <2>1. h \in 1..j - 1 /\ h \in DOMAIN line
    BY <1>3, <1>6
  <2> QED
    BY <1>4, <1>5, <2>1
<1>8. PICK i : i = CHOOSE e \in has : \A h \in has : e <= h
  OBVIOUS
<1>9. i \in has /\ \A h \in has : i <= h
  BY <1>6, <1>7, <1>8
<1>10. i = j
  BY <1>6, <1>7, <1>9
<1> QED
  BY <1>2, <1>5, <1>8, <1>10

\* A key that is given is one of a mapping of the line.
LEMMA GivenHas ==
  ASSUME NEW n, NEW line, line = Lineage[MaxNodes][n], NEW key \in Keys, key \in Given(n)
  PROVE  Has(nodes, line, key)
<1>1. PICK m \in Range(line) : key \in KeysOf(nodes[m].content)
  BY DEF Given
<1>2. PICK j \in DOMAIN line : m = line[j]
  BY <1>1 DEF Range
<1> QED
  BY <1>1, <1>2 DEF Has, OwnKeys

\* A map or struct that has been filled was filled from its lineage.
FilledFrom(l, line) ==
  /\ Filling(stack[l], Excused(stack, terrors, l), nodes, line, {}, 0)
  /\ line \in Seq(Mappings(nodes)) /\ line = Lineage[MaxNodes][stack[l].node]
  /\ stack[l].target.fields \subseteq Keys \cup {Origin}

\* A call is in its context.
LEMMA FrameContext ==
  ASSUME NEW s, NEW ns, NEW b, NEW c, NEW l, FrameAt(s, ns, b, c, l)
  PROVE  InContext(s, ns, c, l)
BY DEF FrameAt

\* It is the innermost and merges nothing.
LEMMA FilledPlain ==
  ASSUME TypeInv, AliasInv, NEW b, NEW c, Merging(b, c), AtMerge,
         EntryOf(nodes[Top.node].content, Merge) = {}, NEW n, n = Len(stack), Top.owner = n
  PROVE  \E line : FilledFrom(n, line)
<1>1. stack # <<>> /\ Top.op = "mapping"
  BY DEF AtMerge, In
<1>2. /\ n \in Nat \ {0} /\ n \in 1..n /\ Top = stack[n] /\ Tree(nodes) /\ Settled(b, nodes)
      /\ FrameAt(stack, nodes, b, c, n)
  BY <1>1, MergingFacts
<1>3. PICK g, past : g = Top.node /\ past = c[n].line
  OBVIOUS
<1>4. /\ g \in Mappings(nodes) /\ MappingFrame(Top, nodes, c[n], n) /\ past \in Seq(Mappings(nodes))
      /\ Done(stack, terrors, nodes, merged, n, past, OwnKeys(nodes, g), g, {}, Top.own)
  BY <1>3, MappingEnd
<1>5. past = <<>>
  <2>1. InContext(stack, nodes, c, n)
    BY Zenon, <1>2, FrameContext
  <2>2. c[n].owner = 0 \/ (c[n].owner \in 1..n - 1 /\ Top.owner = c[n].owner)
    BY <1>4, <2>1 DEF InContext, MappingFrame
  <2>3. c[n].owner = 0
    BY <1>2, <2>2
  <2>4. c[n] = None
    BY <2>1, <2>3 DEF InContext
  <2> QED
    BY <1>3, <2>4 DEF None
<1>6. PICK line : line = <<g>>
  OBVIOUS
<1>7. line = past \o <<g>> /\ line \in Seq(Mappings(nodes))
  BY <1>4, <1>5, <1>6
<1>8. Done(stack, terrors, nodes, merged, n, line, {}, 0, {}, Top.own)
  BY <1>4, <1>7, DoneNext
<1>9. line = Lineage[MaxNodes][g]
  <2>1. Froms(nodes, g) = <<>>
    BY <1>3 DEF Froms
  <2>2. PICK k : k = Len(Froms(nodes, g))
    OBVIOUS
  <2>3. k = 0 /\ 1..k = {}
    BY <2>1, <2>2
  <2>4. Looked(nodes, g, k)
    BY <1>3, <2>3 DEF Looked
  <2>5. \A i \in 1..k : Source(nodes, g, i) \in DOMAIN b
    BY <2>3
  <2>6. Len(nodes) <= MaxNodes
    BY TypeFacts, DecoderConstants DEF TypeInv
  <2>7. Lineage[MaxNodes][g] = <<g>> \o Lines(b, nodes, g, k)
    BY <1>2, <1>4, <2>2, <2>4, <2>5, <2>6, LineageFull
  <2>8. Lines(b, nodes, g, k) = <<>>
    BY <2>3, LinesNone
  <2>9. <<g>> \o <<>> = <<g>>
    <3>1. <<g>> \in Seq(Mappings(nodes))
      <4>1. g \in Mappings(nodes)
        BY Zenon, <1>4
      <4> QED
        BY <4>1
    <3> QED
      BY <3>1, ConcatEmptySeq
  <2> QED
    BY <1>6, <2>7, <2>8, <2>9
<1>10. FilledFrom(n, line)
  BY <1>2, <1>3, <1>4, <1>7, <1>8, <1>9 DEF FilledFrom, Done, MappingFrame
<1> QED
  BY <1>10

\* All its merges have been made.
LEMMA FilledMerged ==
  ASSUME TypeInv, AliasInv, NEW b, NEW c, Merging(b, c), In("merge"), Top.i > Len(Sources(nodes, Top.node)),
         NEW l, l = Len(stack) - 1, stack[l].owner = l
  PROVE  \E line : FilledFrom(l, line)
<1>1. stack # <<>> /\ Top.op = "merge"
  BY DEF In
<1>2. PICK n, g, k, past, line :
        /\ n = Len(stack) /\ g = stack[n - 1].node /\ k = Len(Froms(nodes, g)) /\ past = c[n - 1].line
        /\ line = <<g>> \o Lines(b, nodes, g, k)
  OBVIOUS
<1>3. /\ n \in Nat \ {0} /\ n \in 1..n /\ Top = stack[n] /\ Tree(nodes) /\ Settled(b, nodes)
      /\ Frames(stack, nodes, b, c, n)
  BY <1>1, <1>2, MergingFacts
<1>4. l = n - 1 /\ g = stack[l].node /\ past = c[l].line
  BY <1>2
<1>5. /\ MergeFrame(stack, nodes, b, n) /\ g \in Mappings(nodes) /\ l \in 1..n
      /\ past \in Seq(Mappings(nodes)) /\ k \in Nat /\ Looked(nodes, g, k)
      /\ \A i \in 1..k : Source(nodes, g, i) \in DOMAIN b
      /\ Done(stack, terrors, nodes, merged, Top.owner, past \o line, {}, 0, {}, Top.fields)
  BY <1>2, <1>4, MergeEnd
<1>6. Top.owner = l /\ stack[l].op = "mapping"
  BY <1>3, <1>4, <1>5 DEF MergeFrame
<1>7. /\ FrameAt(stack, nodes, b, c, l) /\ MappingFrame(stack[l], nodes, c[l], l)
      /\ InContext(stack, nodes, c, l)
  BY <1>3, <1>5, <1>6 DEF Frames, FrameAt
<1>8. past = <<>>
  <2>1. c[l].owner = 0 \/ (c[l].owner \in 1..l - 1 /\ stack[l].owner = c[l].owner)
    BY <1>7 DEF InContext, MappingFrame
  <2>2. c[l].owner = 0
    BY <1>5, <2>1
  <2>3. c[l] = None
    BY <1>7, <2>2 DEF InContext
  <2> QED
    BY <1>4, <2>3 DEF None
<1>9. line \in Seq(Mappings(nodes))
  <2>1. Lines(b, nodes, g, k) \in Seq(Mappings(nodes))
    BY <1>3, <1>5, LinesType
  <2>2. <<g>> \in Seq(Mappings(nodes))
    BY <1>5
  <2> QED
    BY <1>2, <2>1, <2>2, ConcatProperties
<1>10. past \o line = line
  <2>1. AfterNothing(Mappings(nodes))
    BY Zenon, SequencesAfterNothing
  <2> QED
    BY Zenon, <1>8, <1>9, <2>1 DEF AfterNothing
<1>11. line = Lineage[MaxNodes][g]
  <2>1. Len(nodes) <= MaxNodes
    BY TypeFacts, DecoderConstants DEF TypeInv
  <2> QED
    BY <1>2, <1>3, <1>5, <2>1, LineageFull
<1>12. FilledFrom(l, line)
  BY Zenon, <1>4, <1>5, <1>6, <1>7, <1>9, <1>10, <1>11 DEF FilledFrom, Done, MappingFrame
<1> QED
  BY <1>12

\* What has been filled from its lineage has each key from the mapping that gives it.
LEMMA FilledPrecedence ==
  ASSUME TypeInv, NEW l, NEW line, FilledFrom(l, line)
  PROVE  /\ \A key \in DOMAIN stack[l].out \ {Origin} : stack[l].out[key] = Giver(stack[l].node, key)
         /\ terrors = 0 => Given(stack[l].node) \cap stack[l].target.fields \cap Keys \subseteq DOMAIN stack[l].out
<1>1. PICK f, n : f = stack[l] /\ n = f.node
  OBVIOUS
<1>2. /\ Filling(f, Excused(stack, terrors, l), nodes, line, {}, 0)
      /\ line \in Seq(Mappings(nodes)) /\ line = Lineage[MaxNodes][n]
      /\ f.target.fields \subseteq Keys \cup {Origin}
  BY <1>1 DEF FilledFrom
<1>3. ASSUME NEW key \in DOMAIN f.out \ {Origin}
      PROVE  f.out[key] = Giver(n, key)
  <2>1. key \in Keys
    BY <1>2 DEF Filling
  <2>2. Gives(nodes, line, key, f.out[key])
    BY <1>2, <2>1 DEF Filling
  <2> QED
    BY <1>2, <2>1, <2>2, GiverIs
<1>4. ASSUME terrors = 0
      PROVE  Given(n) \cap f.target.fields \cap Keys \subseteq DOMAIN f.out
  <2>1. ~Excused(stack, terrors, l)
    BY <1>4 DEF Excused
  <2>2. \A key \in f.target.fields \cap Keys : Has(nodes, line, key) => key \in DOMAIN f.out
    BY <1>2, <2>1 DEF Filling
  <2>3. \A key \in Given(n) \cap Keys : Has(nodes, line, key)
    BY <1>2, GivenHas
  <2> QED
    BY <2>2, <2>3
<1> QED
  BY <1>1, <1>3, <1>4

\* A map or a struct that has been filled has each key from the mapping itself or, where
\* it does not have the key, from the first that does among those it merges, in the order in
\* which they are merged with what each of them merges right behind it; and it has them all
\* unless an error says otherwise.  That is so however aliases, merges and values in
\* merged mappings are nested, as long as no unmarshaler goes on after a failure or calls
\* its function twice.
THEOREM MergesHavePrecedence == Spec => []MergePrecedence
<1>1. Init => TypeInv /\ AliasInv /\ OriginInv /\ MergeInv
  BY TypeInit, AliasInit, OriginInit, MergeInit
<1>2. TypeInv /\ AliasInv /\ OriginInv /\ MergeInv /\ [Next]_vars
        => (TypeInv /\ AliasInv /\ OriginInv /\ MergeInv)'
  BY TypeStep, NextStep, OriginStep, MergeStep
<1>3. TypeInv /\ AliasInv /\ MergeInv => MergePrecedence
  <2> SUFFICES ASSUME TypeInv, AliasInv, MergeInv, departed = {}, NEW l \in DOMAIN stack, Filled(l)
               PROVE  /\ \A key \in DOMAIN stack[l].out \ {Origin} : stack[l].out[key] = Giver(stack[l].node, key)
                      /\ terrors = 0 =>
                           Given(stack[l].node) \cap stack[l].target.fields \cap Keys \subseteq DOMAIN stack[l].out
    BY DEF MergePrecedence
  <2>1. PICK b, c : Merging(b, c)
    BY DEF MergeInv
  <2>2. \E line : FilledFrom(l, line)
    <3>1. stack[l].owner = l
      BY DEF Filled
    <3>2. CASE l = Len(stack) /\ AtMerge /\ EntryOf(nodes[Top.node].content, Merge) = {}
      <4>1. stack # <<>>
        BY <3>2 DEF AtMerge, In
      <4>2. Top = stack[l]
        BY <2>1, <3>2, <4>1, MergingFacts
      <4> QED
        BY <2>1, <3>1, <3>2, <4>2, FilledPlain
    <3>3. CASE l = Len(stack) - 1 /\ Top.op = "merge" /\ Top.i > Len(Sources(nodes, Top.node))
      <4>1. stack # <<>> /\ Running
        BY TypeFacts DEF AliasInv, Idle
      <4>2. In("merge")
        BY <3>3, <4>1 DEF In
      <4> QED
        BY <2>1, <3>1, <3>3, <4>2, FilledMerged
    <3> QED
      BY <3>2, <3>3 DEF Filled
  <2> QED
    BY <2>2, FilledPrecedence
<1> QED
  BY <1>1, <1>2, <1>3, PTL DEF Spec
=============================================================================
