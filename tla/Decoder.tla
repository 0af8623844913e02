------------------------------- MODULE Decoder -------------------------------
(***************************************************************************)
(* The value decoder of decode.go: how a tree of nodes is turned into Go    *)
(* values, with aliases followed, mappings merged by `<<' and `__origin__'  *)
(* entries added on the way.  The recursion of unmarshal is an explicit     *)
(* stack of calls.                                                         *)
(*                                                                         *)
(* A failure is a panic.  It unwinds to the caller of Decode, or to the     *)
(* function that an unmarshaler of the obsolete kind was given, where it    *)
(* becomes an error that the unmarshaler may ignore.  Unwinding restores    *)
(* nothing: aliases, aliasDepth and mergedFields stay as they are.          *)
(*                                                                         *)
(* The tree is the environment: a node is chosen when the decoder first     *)
(* looks at it.  A value is named by the mapping it was found in.  Left     *)
(* out: contents and types of scalars (a scalar may decode, be of the wrong *)
(* type or fail), keys of the text that are not scalars or not of the type  *)
(* of the map's keys, null, duplicate keys in the text, inlined fields, maps *)
(* that hold values before, and the ratio in the test for excessive         *)
(* aliasing (it may fail once an alias was followed).                       *)
(***************************************************************************)
EXTENDS Integers, Sequences, FiniteSets, SequencesExt

CONSTANTS
  Keys,             \* keys of mappings
  Structs,          \* field names of the struct types: a set of sets of keys
  KnownFields,      \* d.knownFields
  MaxNodes,         \* bound: nodes other than scalars, and unmarshalers
  MaxItems,         \* bound: items of a sequence
  MaxUnmarshalers,  \* bound: obsolete unmarshalers called
  MaxCalls          \* bound: calls each of them makes of its function

Merge == "<<"
Origin == "__origin__"

ASSUME DecoderConstants ==
  /\ KnownFields \in BOOLEAN
  /\ {MaxNodes, MaxItems, MaxUnmarshalers, MaxCalls} \subseteq Nat
  /\ MaxNodes >= 1
  /\ IsFiniteSet(Keys) /\ Keys \cap {Merge, Origin} = {}
  /\ \A fields \in Structs : fields \subseteq Keys

VARIABLES
  nodes,         \* the nodes met so far, by number
  stack,         \* the active calls, innermost last
  ret,           \* what the call that has just ended gave: see Results
  aliases,       \* d.aliases
  aliasDepth,    \* d.aliasDepth
  aliased,       \* d.aliasCount > 0
  mergedFields,  \* d.mergedFields: 0 for nil, or the number of a set in merged
  merged,        \* the sets of merged fields made so far
  terrors,       \* the length of d.terrors
  outcome,
  unmarshalers,  \* history: obsolete unmarshalers called
  departed       \* history: "recovered" if one has been given the error of a
                 \* failed call, "zeroed" if that call failed in an origin entry
                 \* below an alias, "repeated" if one has called twice

vars == <<nodes, stack, ret, aliases, aliasDepth, aliased, mergedFields, merged, terrors,
          outcome, unmarshalers, departed>>
decoder == <<aliases, aliasDepth, aliased, mergedFields, merged>>

Results == {"none", "good", "bad", "error"}
Outcomes == {"none", "running", "ok", "type_error", "error"}

-----------------------------------------------------------------------------
(* Nodes.  Number 0 is any scalar, and the value of an origin entry, which   *)
(* is a sequence of scalars.                                                 *)

Unknown == [kind |-> "unknown"]
Kind(ns, n) == IF n = 0 THEN "scalar" ELSE ns[n].kind
Room == MaxNodes - Len(nodes) - unmarshalers

\* Fills slots with a new node each, where p says 1, or a scalar.
Value(p, i) == IF p[i] = 1 THEN Len(nodes) + Cardinality({j \in 1..i : p[j] = 1}) ELSE 0
News(p) == Cardinality({i \in DOMAIN p : p[i] = 1})

Slots == SetToSeq(Keys) \o <<Merge>>
\* A mapping has the keys in the slots where p does not say -1.
MappingOf(p) ==
  LET content[i \in 0..Len(Slots)] ==
        IF i = 0 THEN <<>>
        ELSE IF p[i] = -1 THEN content[i - 1]
        ELSE Append(content[i - 1], [key |-> Slots[i], value |-> Value(p, i)])
  IN [kind |-> "mapping", content |-> content[Len(Slots)]]
SequenceOf(p) == [kind |-> "sequence", content |-> [i \in DOMAIN p |-> Value(p, i)]]

\* What an unknown node may turn out to be.  An anchor stands before its alias.
Learned(n) ==
  LET put(node, new) == [nodes EXCEPT ![n] = node] \o [i \in 1..new |-> Unknown]
      mappings == {p \in [DOMAIN Slots -> {-1, 0, 1}] : News(p) <= Room}
      sequences == {p \in UNION {[1..l -> {0, 1}] : l \in 0..MaxItems} : News(p) <= Room}
      anchored == {0} \cup {t \in DOMAIN nodes : nodes[t].kind \in {"mapping", "sequence"}}
  IN {put(MappingOf(p), News(p)) : p \in mappings}
       \cup {put(SequenceOf(p), News(p)) : p \in sequences}
       \cup {put([kind |-> "alias", target |-> t], 0) : t \in anchored}

\* The nodes once the kind of node n is known.
Known(n) == IF n # 0 /\ nodes[n].kind = "unknown" THEN Learned(n) ELSE {nodes}

EntryOf(content, key) == {i \in DOMAIN content : content[i].key = key}
KeysOf(content) == {content[i].key : i \in DOMAIN content}

\* addOrigin: an entry behind the others.
AddOrigin(ns, n) ==
  [ns EXCEPT ![n].content = Append(@, [key |-> Origin, value |-> 0])]

\* Mutant: below an alias the entry is added as well.
AddOriginToEach(ns, n, atLeast) ==
  IF Kind(ns, n) = "mapping" /\ Len(ns[n].content) >= atLeast THEN AddOrigin(ns, n) ELSE ns
\* An origin is added to a mapping with this many entries where it stands itself.
AddOriginTo(ns, n, atLeast) ==
  IF aliasDepth = 0 /\ Kind(ns, n) = "mapping" /\ Len(ns[n].content) >= atLeast
    THEN AddOrigin(ns, n) ELSE ns

-----------------------------------------------------------------------------
(* Calls                                                                     *)

Running == outcome = "running"
Top == Last(stack)
Replace(frame) == Append(Front(stack), frame)

\* unmarshal; into: 0 for a new value, otherwise the call of mapping whose map or
\* struct is filled.
Unmarshal(n, into) == [op |-> "unmarshal", node |-> n, into |-> into]
AtCall == Running /\ ret = "none" /\ stack # <<>> /\ Top.op = "unmarshal"
AtKind(kind) == AtCall /\ Kind(nodes, Top.node) = kind
\* A call is innermost and has been returned to, or has not called yet.
In(op) == Running /\ stack # <<>> /\ Top.op = op

Return(result) ==
  /\ stack' = Front(stack)
  /\ ret' = result

\* fail: the panic unwinds frames to the function of an obsolete unmarshaler or to
\* Decode.  left: what departed says of it besides.
Panic(frames, left) ==
  LET callers == {l \in DOMAIN frames : frames[l].op = "unmarshaler"} IN
  \/ /\ callers = {}
     /\ stack' = <<>> /\ ret' = "none" /\ outcome' = "error"
     /\ UNCHANGED departed
  \/ \E l \in callers :
       /\ \A k \in callers : k <= l
       /\ stack' = SubSeq(frames, 1, l) /\ ret' = "error"
       /\ departed' = departed \cup {"recovered"} \cup left
       /\ UNCHANGED outcome
Fail(frames) == Panic(frames, {})

-----------------------------------------------------------------------------
(* unmarshal                                                                 *)

\* document
Start ==
  /\ outcome = "none"
  /\ \E ns \in Known(1) : nodes' = AddOriginTo(ns, 1, 1)
  /\ stack' = <<Unmarshal(1, 0)>>
  /\ outcome' = "running"
  /\ UNCHANGED <<ret, decoder, terrors, unmarshalers, departed>>

\* A scalar; a Node, which takes any node as it is; an Unmarshaler, which takes it
\* whole.
DecodeWhole ==
  /\ AtCall
  /\ Top.into = 0 \/ Kind(nodes, Top.node) = "scalar"
  /\ Return("good")
  /\ UNCHANGED <<nodes, decoder, terrors, outcome, unmarshalers, departed>>

\* A node that does not fit the type of the value, a type error of an Unmarshaler.
Mismatch ==
  /\ AtCall /\ Kind(nodes, Top.node) # "alias" /\ Top.into = 0
  /\ Return("bad")
  /\ terrors' = terrors + 1
  /\ UNCHANGED <<nodes, decoder, outcome, unmarshalers, departed>>

\* A scalar that cannot be decoded, an array of another length, an error of an
\* Unmarshaler; and once an alias has been followed any node may be one too many.
Refuse ==
  /\ AtCall
  /\ aliased \/ (Top.into = 0 /\ Kind(nodes, Top.node) # "alias")
  /\ Fail(stack)
  /\ UNCHANGED <<nodes, decoder, terrors, unmarshalers>>

\* Mutant: an alias is not remembered.
DecodeAliasForgets ==
  /\ AtKind("alias")
  /\ Top.node \notin aliases
  /\ stack' = Append(Replace([op |-> "alias", node |-> Top.node]),
                     Unmarshal(nodes[Top.node].target, Top.into))
  /\ aliasDepth' = aliasDepth + 1
  /\ aliased' = (aliased \/ aliasDepth >= 0)
  /\ UNCHANGED <<nodes, ret, aliases, mergedFields, merged, terrors, outcome, unmarshalers, departed>>

\* alias
DecodeAlias ==
  /\ AtKind("alias")
  /\ Top.node \notin aliases
  /\ stack' = Append(Replace([op |-> "alias", node |-> Top.node]),
                     Unmarshal(nodes[Top.node].target, Top.into))
  /\ aliases' = aliases \cup {Top.node}
  /\ aliasDepth' = aliasDepth + 1
  /\ aliased' = (aliased \/ aliasDepth >= 0)
  /\ UNCHANGED <<nodes, ret, mergedFields, merged, terrors, outcome, unmarshalers, departed>>

\* "value contains itself"
RefuseCycle ==
  /\ AtKind("alias")
  /\ Top.node \in aliases
  /\ Fail(stack)
  /\ UNCHANGED <<nodes, decoder, terrors, unmarshalers>>

AliasReturns ==
  /\ In("alias") /\ ret # "none"
  /\ aliases' = aliases \ {Top.node}
  /\ aliasDepth' = aliasDepth - 1
  /\ Return(ret)
  /\ UNCHANGED <<nodes, aliased, mergedFields, merged, terrors, outcome, unmarshalers, departed>>

\* sequence
DecodeSequence ==
  /\ AtKind("sequence") /\ Top.into = 0
  /\ stack' = Replace([op |-> "sequence", node |-> Top.node, i |-> 1])
  /\ UNCHANGED <<nodes, ret, decoder, terrors, outcome, unmarshalers, departed>>

\* Mutant: the index stays.
SequenceItemStays ==
  /\ In("sequence") /\ Top.i <= Len(nodes[Top.node].content)
  /\ LET item == nodes[Top.node].content[Top.i] IN
     /\ \E ns \in Known(item) : nodes' = AddOriginTo(ns, item, 1)
     /\ stack' = Append(stack, Unmarshal(item, 0))
  /\ ret' = "none"
  /\ UNCHANGED <<decoder, terrors, outcome, unmarshalers, departed>>

SequenceItem ==
  /\ In("sequence") /\ Top.i <= Len(nodes[Top.node].content)
  /\ LET item == nodes[Top.node].content[Top.i] IN
     /\ \E ns \in Known(item) : nodes' = AddOriginTo(ns, item, 1)
     /\ stack' = Append(Replace([Top EXCEPT !.i = @ + 1]), Unmarshal(item, 0))
  /\ ret' = "none"
  /\ UNCHANGED <<decoder, terrors, outcome, unmarshalers, departed>>

SequenceReturns ==
  /\ In("sequence") /\ Top.i > Len(nodes[Top.node].content)
  /\ Return("good")
  /\ UNCHANGED <<nodes, decoder, terrors, outcome, unmarshalers, departed>>

-----------------------------------------------------------------------------
(* mapping and mappingStruct                                                 *)

\* The type that is filled: a map takes any key, a struct those of its fields.
Map == [struct |-> FALSE, fields |-> Keys \cup {Origin}]
Targets == {Map} \cup {[struct |-> TRUE, fields |-> fields] : fields \in Structs}

Duplicate(content) == \E i, j \in DOMAIN content : i # j /\ content[i].key = content[j].key

RefuseDuplicate ==
  /\ AtKind("mapping") /\ Duplicate(nodes[Top.node].content)
  /\ terrors' = terrors + 1
  /\ Return("bad")
  /\ UNCHANGED <<nodes, decoder, outcome, unmarshalers, departed>>

\* own: d.mergedFields as it was found.  owner: the call whose map or struct is filled.
DecodeMapping ==
  /\ AtKind("mapping") /\ ~Duplicate(nodes[Top.node].content)
  /\ \E target \in IF Top.into = 0 THEN Targets ELSE {stack[Top.into].target} :
       stack' = Replace([op |-> "mapping", node |-> Top.node, i |-> 1, own |-> mergedFields,
                         owner |-> IF Top.into = 0 THEN Len(stack) ELSE Top.into,
                         target |-> target, out |-> <<>>])
  /\ mergedFields' = 0
  /\ UNCHANGED <<nodes, ret, aliases, aliasDepth, aliased, merged, terrors, outcome,
                 unmarshalers, departed>>

AtEntry == In("mapping") /\ ret = "none" /\ Top.i <= Len(nodes[Top.node].content)
Entry == nodes[Top.node].content[Top.i]
Advance == Replace([Top EXCEPT !.i = @ + 1])

\* In a mapping that is merged: the key has been met before.
Hidden == Top.own # 0 /\ Entry.key \in merged[Top.own]
Remember == IF Top.own = 0 THEN merged ELSE [merged EXCEPT ![Top.own] = @ \cup {Entry.key}]
\* An origin entry of a map, and isOrigin below an alias: the entry is decoded as if
\* below none, whatever has been met before.
AtOrigin == Entry.key = Origin /\ Origin \in Top.target.fields
Bypass == AtOrigin /\ aliasDepth > 0

\* The value of the current entry goes into the owner's map or struct.
Put(out, key, value) ==
  [k \in DOMAIN out \cup {key} |-> IF k = key THEN value ELSE out[k]]
Store ==
  LET put(f) == [f EXCEPT !.out = Put(@, Entry.key, Top.node)] IN
  [l \in DOMAIN stack |->
     IF l = Len(stack) THEN IF l = Top.owner THEN [put(Top) EXCEPT !.i = @ + 1] ELSE [Top EXCEPT !.i = @ + 1]
     ELSE IF l = Top.owner THEN put(stack[l]) ELSE stack[l]]

MappingSkips ==
  /\ AtEntry /\ ~Bypass
  /\ Entry.key = Merge \/ Hidden
  /\ stack' = Advance
  /\ UNCHANGED <<nodes, ret, decoder, terrors, outcome, unmarshalers, departed>>

\* A key that is no field of the struct; an error if the caller wants to know.
MappingIgnores ==
  /\ AtEntry /\ Entry.key # Merge /\ ~Hidden
  /\ Entry.key \notin Top.target.fields
  /\ merged' = Remember
  /\ stack' = Advance
  /\ terrors' = IF KnownFields THEN terrors + 1 ELSE terrors
  /\ UNCHANGED <<nodes, ret, aliases, aliasDepth, aliased, mergedFields, outcome, unmarshalers, departed>>

\* Key and value of an origin entry are decoded in two calls of unmarshal that meet
\* neither alias nor mapping: all they leave is how they end, and type errors.  Below
\* an alias they run at depth 0, which is restored behind them.
\* The key is good, and the value is decoded.
OriginReached ==
  /\ Bypass \/ ~Hidden
  /\ merged' = IF Bypass THEN merged ELSE Remember

\* The value may fit in part only.
MappingOrigin ==
  /\ AtEntry /\ AtOrigin
  /\ OriginReached
  /\ stack' = Store
  /\ terrors' \in terrors..terrors + 1
  /\ UNCHANGED <<nodes, ret, aliases, aliasDepth, aliased, mergedFields, outcome,
                 unmarshalers, departed>>

\* Mutant: the depth is not restored behind a value that does not fit.
OriginMismatchZeroed ==
  /\ AtEntry /\ AtOrigin
  /\ UNCHANGED merged \/ OriginReached
  /\ stack' = Advance
  /\ terrors' = terrors + 1
  /\ aliasDepth' = IF Bypass THEN 0 ELSE aliasDepth
  /\ UNCHANGED <<nodes, ret, aliases, aliased, mergedFields, outcome, unmarshalers, departed>>

\* The key does not fit the type of the map's keys, or the value that of its values.
OriginMismatch ==
  /\ AtEntry /\ AtOrigin
  /\ UNCHANGED merged \/ OriginReached
  /\ stack' = Advance
  /\ terrors' = terrors + 1
  /\ UNCHANGED <<nodes, ret, aliases, aliasDepth, aliased, mergedFields, outcome,
                 unmarshalers, departed>>

\* The key or the value fails: nothing restores the depth.
OriginFails ==
  /\ AtEntry /\ AtOrigin
  /\ \/ UNCHANGED <<merged, terrors>>
     \/ OriginReached /\ terrors' \in terrors..terrors + 1
  /\ aliasDepth' = IF Bypass THEN 0 ELSE aliasDepth
  /\ Panic(stack, IF Bypass THEN {"zeroed"} ELSE {})
  /\ UNCHANGED <<nodes, aliases, aliased, mergedFields, unmarshalers>>

MappingValue ==
  /\ AtEntry /\ Entry.key \in Top.target.fields \ {Merge, Origin} /\ ~Hidden
  /\ merged' = Remember
  /\ \E ns \in Known(Entry.value) :
       nodes' = IF Top.target.struct THEN ns ELSE AddOriginTo(ns, Entry.value, 0)
  /\ stack' = Append(stack, Unmarshal(Entry.value, 0))
  /\ UNCHANGED <<ret, aliases, aliasDepth, aliased, mergedFields, terrors, outcome,
                 unmarshalers, departed>>

MappingStores ==
  /\ In("mapping") /\ ret # "none" /\ Top.i <= Len(nodes[Top.node].content)
  /\ stack' = IF ret = "good" THEN Store ELSE Advance
  /\ ret' = "none"
  /\ UNCHANGED <<nodes, decoder, terrors, outcome, unmarshalers, departed>>

AtMerge == In("mapping") /\ Top.i = Len(nodes[Top.node].content) + 1

MappingReturns ==
  /\ AtMerge /\ EntryOf(nodes[Top.node].content, Merge) = {}
  /\ mergedFields' = Top.own
  /\ Return("good")
  /\ UNCHANGED <<nodes, aliases, aliasDepth, aliased, merged, terrors, outcome, unmarshalers, departed>>

-----------------------------------------------------------------------------
(* merge                                                                     *)

MergeValue(content) == content[CHOOSE i \in EntryOf(content, Merge) : TRUE].value

\* Mutant: the keys of the mapping itself are not remembered.
MergeFieldsNone(content) == {}
\* The keys no merged mapping may set again.
MergeFields(content) == KeysOf(content)

\* The outermost mapping makes the set, those merged into it share it.
DecodeMerge ==
  /\ AtMerge /\ EntryOf(nodes[Top.node].content, Merge) # {}
  /\ LET content == nodes[Top.node].content
         value == MergeValue(content)
     IN /\ IF Top.own = 0
             THEN /\ merged' = Append(merged, MergeFields(content))
                  /\ mergedFields' = Len(merged) + 1
             ELSE mergedFields' = Top.own /\ UNCHANGED merged
        /\ \E ns \in Known(value) :
             /\ nodes' = ns
             /\ stack' = Append(stack,
                  [op |-> "merge", node |-> value, i |-> 1, owner |-> Top.owner,
                   saved |-> Top.own, fields |-> mergedFields'])
  /\ UNCHANGED <<ret, aliases, aliasDepth, aliased, terrors, outcome, unmarshalers, departed>>

\* The nodes to merge from: the items of a sequence, or the node itself.
Sources(ns, n) == IF Kind(ns, n) = "sequence" THEN ns[n].content ELSE <<n>>

Mergeable(ns, n) ==
  \/ Kind(ns, n) = "mapping"
  \/ Kind(ns, n) = "alias" /\ Kind(ns, ns[n].target) = "mapping"

\* The result of a merged mapping is not looked at.
MergeSource ==
  /\ In("merge") /\ Top.i <= Len(Sources(nodes, Top.node))
  /\ LET source == Sources(nodes, Top.node)[Top.i] IN
     \E ns \in Known(source) :
       /\ nodes' = ns
       /\ IF Mergeable(ns, source)
            THEN /\ stack' = Append(Advance, Unmarshal(source, Top.owner))
                 /\ ret' = "none"
                 /\ UNCHANGED <<outcome, departed>>
            ELSE Fail(stack)                          \* failWantMap
  /\ UNCHANGED <<decoder, terrors, unmarshalers>>

\* Mutant: the set is left behind for the values that come next.
MergeReturnsKeeps ==
  /\ In("merge") /\ Top.i > Len(Sources(nodes, Top.node))
  /\ merged' = IF Top.saved = 0 THEN SubSeq(merged, 1, Top.fields - 1) ELSE merged
  /\ stack' = Front(Front(stack))
  /\ ret' = "good"
  /\ UNCHANGED <<nodes, aliases, aliasDepth, aliased, mergedFields, terrors, outcome, unmarshalers, departed>>

\* merge and the mapping that called it return; nothing refers to the set any more.
MergeReturns ==
  /\ In("merge") /\ Top.i > Len(Sources(nodes, Top.node))
  /\ mergedFields' = Top.saved
  /\ merged' = IF Top.saved = 0 THEN SubSeq(merged, 1, Top.fields - 1) ELSE merged
  /\ stack' = Front(Front(stack))
  /\ ret' = "good"
  /\ UNCHANGED <<nodes, aliases, aliasDepth, aliased, terrors, outcome, unmarshalers, departed>>

-----------------------------------------------------------------------------
(* prepare and callObsoleteUnmarshaler                                       *)

\* result: of the last call of the function; issues: the type errors in it.
CallUnmarshaler ==
  /\ AtCall /\ Top.into = 0 /\ Kind(nodes, Top.node) # "alias"
  /\ unmarshalers < MaxUnmarshalers /\ Room > 0
  /\ unmarshalers' = unmarshalers + 1
  /\ stack' = Replace([op |-> "unmarshaler", node |-> Top.node, terrlen |-> terrors,
                       calls |-> 0, result |-> "none", issues |-> 0])
  /\ UNCHANGED <<nodes, ret, decoder, terrors, outcome, departed>>

\* The unmarshaler calls its function.
UnmarshalerCalls ==
  /\ In("unmarshaler") /\ ret = "none" /\ Top.calls < MaxCalls
  /\ stack' = Append(Replace([Top EXCEPT !.calls = @ + 1]), Unmarshal(Top.node, 0))
  /\ departed' = IF Top.calls = 0 THEN departed ELSE departed \cup {"repeated"}
  /\ UNCHANGED <<nodes, ret, decoder, terrors, outcome, unmarshalers>>

\* The function returns: nil, the new type errors, or what handleErr has recovered.
FunctionReturns ==
  /\ In("unmarshaler") /\ ret # "none"
  /\ IF ret = "error"
       THEN /\ stack' = Replace([Top EXCEPT !.result = "error", !.issues = 0])
            /\ UNCHANGED terrors
       ELSE /\ stack' = Replace([Top EXCEPT !.result = IF terrors > Top.terrlen THEN "type_error" ELSE "nil",
                                            !.issues = terrors - Top.terrlen])
            /\ terrors' = Top.terrlen
  /\ ret' = "none"
  /\ UNCHANGED <<nodes, decoder, outcome, unmarshalers, departed>>

\* It returns nil, the type errors of the last call, or an error.
UnmarshalerReturns ==
  /\ In("unmarshaler") /\ ret = "none"
  /\ \/ Return("good") /\ UNCHANGED <<terrors, outcome, departed>>
     \/ /\ Top.result = "type_error"
        /\ terrors' = terrors + Top.issues
        /\ Return("bad")
        /\ UNCHANGED <<outcome, departed>>
     \/ Fail(Front(stack)) /\ UNCHANGED terrors
  /\ UNCHANGED <<nodes, decoder, unmarshalers>>

Finish ==
  /\ Running /\ stack = <<>>
  /\ outcome' = IF terrors > 0 THEN "type_error" ELSE "ok"
  /\ ret' = "none"
  /\ UNCHANGED <<nodes, stack, decoder, terrors, unmarshalers, departed>>

-----------------------------------------------------------------------------
Init ==
  /\ nodes = <<Unknown>>
  /\ stack = <<>> /\ ret = "none"
  /\ aliases = {} /\ aliasDepth = 0 /\ aliased = FALSE
  /\ mergedFields = 0 /\ merged = <<>>
  /\ terrors = 0
  /\ outcome = "none"
  /\ unmarshalers = 0 /\ departed = {}

Next ==
  \/ Start \/ Finish
  \/ DecodeWhole \/ Mismatch \/ Refuse
  \/ DecodeAlias \/ RefuseCycle \/ AliasReturns
  \/ DecodeSequence \/ SequenceItem \/ SequenceReturns
  \/ RefuseDuplicate \/ DecodeMapping \/ MappingSkips \/ MappingIgnores
  \/ MappingOrigin \/ OriginMismatch \/ OriginFails
  \/ MappingValue \/ MappingStores \/ MappingReturns
  \/ DecodeMerge \/ MergeSource \/ MergeReturns
  \/ CallUnmarshaler \/ UnmarshalerCalls \/ FunctionReturns \/ UnmarshalerReturns

\* Decode is one call of sequential code, and unmarshalers return.
Spec == Init /\ [][Next]_vars /\ WF_vars(Next)

-----------------------------------------------------------------------------
(* Properties                                                                *)

TypeOK ==
  /\ \A n \in DOMAIN nodes : nodes[n].kind \in {"unknown", "alias", "sequence", "mapping"}
  /\ Len(nodes) <= MaxNodes
  /\ ret \in Results
  /\ stack # <<>> => Running
  /\ aliases \subseteq DOMAIN nodes
  /\ aliasDepth \in Int /\ aliased \in BOOLEAN
  /\ mergedFields \in 0..Len(merged)
  /\ terrors \in Nat
  /\ outcome \in Outcomes
  /\ departed \subseteq {"recovered", "zeroed", "repeated"}

AliasCalls == {l \in DOMAIN stack : stack[l].op = "alias"}

\* The recursion ends: however aliases and merges are nested, and whatever
\* unmarshalers do with failures, no alias is entered again while it is being
\* decoded.
AliasEnteredOnce ==
  \A k, l \in AliasCalls : stack[k].node = stack[l].node => k = l

\* "contains itself" is said of aliases that do: the set holds those being decoded
\* and no other, and the depth that origins depend on counts them, on every path
\* out of a decoded value but a recovered failure.
AliasesExact ==
  Running /\ "recovered" \notin departed =>
    /\ aliases = {stack[l].node : l \in AliasCalls}
    /\ aliasDepth = Cardinality(AliasCalls)

\* The mappings whose keys a mapping gets, in the order in which they are merged.
SourcesOf(n) ==
  LET content == nodes[n].content IN
  IF EntryOf(content, Merge) = {} THEN <<>>
  ELSE Sources(nodes, MergeValue(content))
MappingAt(n) == IF nodes[n].kind = "alias" THEN nodes[n].target ELSE n
Lineage[d \in 0..MaxNodes] ==
  [n \in DOMAIN nodes |->
     IF d = 0 THEN <<n>>
     ELSE <<n>> \o FlattenSeq([i \in DOMAIN SourcesOf(n) |-> Lineage[d - 1][MappingAt(SourcesOf(n)[i])]])]
\* The first of them that has the key.
Giver(n, key) ==
  LET line == Lineage[MaxNodes][n]
      has == {i \in DOMAIN line : key \in KeysOf(nodes[line[i]].content)}
  IN line[CHOOSE i \in has : \A j \in has : i <= j]
Given(n) == UNION {KeysOf(nodes[m].content) : m \in Range(Lineage[MaxNodes][n])}

\* A map or a struct that has been filled.
Filled(l) ==
  /\ l \in DOMAIN stack /\ stack[l].op = "mapping" /\ stack[l].owner = l
  /\ \/ l = Len(stack) /\ AtMerge /\ EntryOf(nodes[Top.node].content, Merge) = {}
     \/ l = Len(stack) - 1 /\ Top.op = "merge" /\ Top.i > Len(Sources(nodes, Top.node))

\* Merging: a key's own value wins, then that of the mapping merged first, with
\* the merges of a merged mapping right behind it; nothing is missing unless an
\* error says so, and a value nested in a merged one is whole.
MergePrecedence ==
  departed = {} =>
    \A l \in DOMAIN stack :
      Filled(l) =>
        LET f == stack[l] IN
        /\ \A key \in DOMAIN f.out \ {Origin} : f.out[key] = Giver(f.node, key)
        /\ terrors = 0 => Given(f.node) \cap f.target.fields \cap Keys \subseteq DOMAIN f.out

\* A mapping gets one origin, however often it is decoded: with two, the keys
\* would be taken for duplicates.  An unmarshaler that calls its function twice
\* has the values below it decoded twice where they stand; one that swallows the
\* failure of an origin entry goes on with a depth that is too low.
OriginOnce ==
  departed \cap {"repeated", "zeroed"} = {} =>
    \A n \in DOMAIN nodes :
      nodes[n].kind = "mapping" => Cardinality(EntryOf(nodes[n].content, Origin)) <= 1

\* The origin of a map is that of the mapping it was decoded from.
OwnOrigin ==
  departed = {} =>
    \A l \in DOMAIN stack :
      Filled(l) /\ Origin \in DOMAIN stack[l].out /\ EntryOf(nodes[stack[l].node].content, Origin) # {}
        => stack[l].out[Origin] = stack[l].node

\* Decode returns, on every tree, with aliases that lead back included.
Returns == <>(outcome \in {"ok", "type_error", "error"})
=============================================================================
