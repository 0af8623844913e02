--------------------------- MODULE Encoder_proofs ---------------------------
(***************************************************************************)
(* Proofs about Encoder and its Emitter, for any number of calls and nodes  *)
(* and any nesting depth: indents and flow levels are those of the          *)
(* collections that are open, flow collections hold no block collection,    *)
(* empty collections and simple keys are seen in time, comments do not      *)
(* drift, a call that returns no error has written what it was given, and   *)
(* no call returns without one behind a failure inside a document.          *)
(***************************************************************************)
EXTENDS Encoder, SequenceTheorems, FiniteSetTheorems, TLAPS

-----------------------------------------------------------------------------
(* Types                                                                     *)

\* The walk gives a comment to a leaf or to the end of a collection.
Commented == {"SCALAR", "ALIAS", "SEQUENCE_END", "MAPPING_END"}
Events == {ev \in [typ : EventTypes, inline : BOOLEAN, comment : BOOLEAN] :
             ev.comment => ev.typ \in Commented}

FirstStates == FlowFirst \cup BlockFirst
CollectionStates == FirstStates \cup FlowStates \cup BlockStates
ReturnStates == {"DOCUMENT_END"} \cup FlowStates \cup BlockStates
Indents == Nat \cup {-1}

Emitters ==
  [events : Seq(Events), state : EmitterStates, states : Seq(ReturnStates),
   indent : Indents, indents : Seq(Indents), flow_level : Int,
   line_comment : BOOLEAN, key_line_comment : BOOLEAN, buffered : BOOLEAN]

\* The end of the document lies below everything else, even behind failures, and
\* a collection has something to return to.
Rooted(e) ==
  /\ e.states # <<>> => e.states[1] = "DOCUMENT_END"
  /\ e.state \in CollectionStates => e.states # <<>>
Sane(e) == e \in Emitters /\ Rooted(e)
\* A state may be popped.
Ready(e) == e \in Emitters /\ e.states # <<>> /\ e.states[1] = "DOCUMENT_END"

\* An outcome that leaves a sane emitter with the queue it had.
Fit(e, r) == Sane(r.emitter) /\ r.emitter.events = e.events

-----------------------------------------------------------------------------
(* Sequences                                                                 *)

\* What is left of a sequence that loses its last element.
LEMMA FrontFacts ==
  ASSUME NEW S, NEW s \in Seq(S), s # <<>>
  PROVE  /\ Len(s) \in Nat \ {0} /\ Last(s) = s[Len(s)] /\ Last(s) \in S
         /\ Front(s) \in Seq(S) /\ Len(Front(s)) = Len(s) - 1
         /\ \A i \in 1..Len(s) - 1 : Front(s)[i] = s[i]
         /\ Front(s) = <<>> <=> Len(s) = 1
<1>1. Len(s) \in Nat /\ Len(s) # 0
  BY EmptySeq, LenProperties
<1>2. s[Len(s)] \in S
  BY <1>1, ElementOfSeq
<1>3. /\ Front(s) \in Seq(S) /\ Len(Front(s)) = Len(s) - 1
      /\ \A i \in 1..Len(s) - 1 : Front(s)[i] = s[i]
  <2>1. Len(s) - 1 \in 0..Len(s) /\ Len(s) - 1 - 1 + 1 = Len(s) - 1
    BY <1>1
  <2>2. \A i \in 1..Len(s) - 1 : 1 + i - 1 = i
    BY <1>1
  <2>. QED
    BY <1>1, <2>1, <2>2, SubSeqProperties DEF Front
<1>. QED
  BY <1>1, <1>2, <1>3, EmptySeq DEF Last

\* What becomes of a sequence that gains an element.
LEMMA AppendFacts ==
  ASSUME NEW S, NEW s \in Seq(S), NEW x \in S
  PROVE  /\ Append(s, x) \in Seq(S) /\ Append(s, x) # <<>>
         /\ Len(s) \in Nat /\ Len(Append(s, x)) = Len(s) + 1
         /\ \A i \in 1..Len(s) : Append(s, x)[i] = s[i]
         /\ Append(s, x)[Len(s) + 1] = x
         /\ s = <<>> => Append(s, x)[1] = x
         /\ s # <<>> => Append(s, x)[1] = s[1]
         /\ Front(Append(s, x)) = s /\ Last(Append(s, x)) = x
<1>1. Append(s, x) \in Seq(S) /\ Len(s) \in Nat
  BY AppendProperties, LenProperties
<1>2. /\ Len(Append(s, x)) = Len(s) + 1 /\ \A i \in 1..Len(s) : Append(s, x)[i] = s[i]
      /\ Append(s, x)[Len(s) + 1] = x
  BY AppendProperties
<1>3. s = <<>> <=> Len(s) = 0
  BY EmptySeq
<1>4. Front(Append(s, x)) = s /\ Last(Append(s, x)) = x
  BY <1>1, <1>2 DEF Front, Last
<1>. QED
  BY <1>1, <1>2, <1>3, <1>4, EmptySeq
-----------------------------------------------------------------------------
(* Every outcome of the emitter is well-typed                                *)

\* A changed field of its type leaves an emitter.
LEMMA Updates ==
  ASSUME NEW e \in Emitters
  PROVE  /\ \A x \in Seq(Events) : [e EXCEPT !.events = x] \in Emitters
         /\ \A x \in EmitterStates : [e EXCEPT !.state = x] \in Emitters
         /\ \A x \in Seq(ReturnStates) : [e EXCEPT !.states = x] \in Emitters
         /\ \A x \in Indents : [e EXCEPT !.indent = x] \in Emitters
         /\ \A x \in Seq(Indents) : [e EXCEPT !.indents = x] \in Emitters
         /\ \A x \in Int : [e EXCEPT !.flow_level = x] \in Emitters
         /\ \A x \in BOOLEAN : [e EXCEPT !.line_comment = x] \in Emitters
         /\ \A x \in BOOLEAN : [e EXCEPT !.key_line_comment = x] \in Emitters
         /\ \A x \in BOOLEAN : [e EXCEPT !.buffered = x] \in Emitters
BY DEF Emitters

\* The types of the fields.
LEMMA Fields ==
  ASSUME NEW e \in Emitters
  PROVE  /\ e.events \in Seq(Events) /\ e.state \in EmitterStates /\ e.states \in Seq(ReturnStates)
         /\ e.indent \in Indents /\ e.indents \in Seq(Indents) /\ e.flow_level \in Int
         /\ e.line_comment \in BOOLEAN /\ e.key_line_comment \in BOOLEAN /\ e.buffered \in BOOLEAN
BY DEF Emitters

\* A failed write leaves everything but the buffer as it is.
LEMMA FailsFacts ==
  ASSUME NEW e \in Emitters
  PROVE  /\ Fails(e).how = "failed" /\ Fails(e).emitter \in Emitters
         /\ Fails(e).emitter = [e EXCEPT !.buffered = TRUE]
         /\ Rooted(e) => Fit(e, Fails(e))
<1>1. Fails(e).emitter = [e EXCEPT !.buffered = TRUE] /\ Fails(e).how = "failed"
  BY DEF Fails, Result
<1>2. [e EXCEPT !.buffered = TRUE] \in Emitters
  BY Updates
<1>3. /\ [e EXCEPT !.buffered = TRUE].events = e.events
      /\ [e EXCEPT !.buffered = TRUE].state = e.state
      /\ [e EXCEPT !.buffered = TRUE].states = e.states
  BY DEF Emitters
<1>. QED
  BY <1>1, <1>2, <1>3 DEF Fit, Sane, Rooted

\* A write that succeeds ends with the emitter the handler has meant.
LEMMA WritesFit ==
  ASSUME NEW e, NEW x, Sane(e), Sane(x), x.events = e.events, NEW r \in Writes(e, x)
  PROVE  Fit(e, r)
<1>1. CASE r = Fails(e)
  BY <1>1, FailsFacts DEF Sane
<1>2. CASE r = Done([x EXCEPT !.buffered = TRUE])
  <2>1. r.emitter = [x EXCEPT !.buffered = TRUE]
    BY <1>2 DEF Done, Result
  <2>2. [x EXCEPT !.buffered = TRUE] \in Emitters
    BY Updates DEF Sane
  <2>3. /\ [x EXCEPT !.buffered = TRUE].events = x.events
        /\ [x EXCEPT !.buffered = TRUE].state = x.state
        /\ [x EXCEPT !.buffered = TRUE].states = x.states
    BY DEF Sane, Emitters
  <2>. QED
    BY <2>1, <2>2, <2>3 DEF Fit, Sane, Rooted
<1>. QED
  BY <1>1, <1>2 DEF Writes

\* A state may be popped once one has been pushed.
LEMMA PushFacts ==
  ASSUME NEW e, Sane(e), NEW st \in ReturnStates, e.states # <<>> \/ st = "DOCUMENT_END"
  PROVE  /\ Ready(PushState(e, st)) /\ Rooted(PushState(e, st))
         /\ PushState(e, st).states = Append(e.states, st)
         /\ PushState(e, st).events = e.events /\ PushState(e, st).state = e.state
         /\ PushState(e, st).indent = e.indent /\ PushState(e, st).indents = e.indents
         /\ PushState(e, st).flow_level = e.flow_level
         /\ PushState(e, st).line_comment = e.line_comment
         /\ PushState(e, st).key_line_comment = e.key_line_comment
<1>. DEFINE t == Append(e.states, st)
<1>1. e.states \in Seq(ReturnStates)
  BY Fields DEF Sane
<1>2. /\ t \in Seq(ReturnStates) /\ t # <<>>
      /\ e.states = <<>> => t[1] = st
      /\ e.states # <<>> => t[1] = e.states[1]
  BY <1>1, AppendFacts
<1>3. PushState(e, st) = [e EXCEPT !.states = t]
  BY DEF PushState
<1>. HIDE DEF t
<1>4. [e EXCEPT !.states = t] \in Emitters
  BY <1>2, Updates DEF Sane
<1>5. /\ [e EXCEPT !.states = t].states = t /\ [e EXCEPT !.states = t].events = e.events
      /\ [e EXCEPT !.states = t].state = e.state
      /\ [e EXCEPT !.states = t].indent = e.indent /\ [e EXCEPT !.states = t].indents = e.indents
      /\ [e EXCEPT !.states = t].flow_level = e.flow_level
      /\ [e EXCEPT !.states = t].line_comment = e.line_comment
      /\ [e EXCEPT !.states = t].key_line_comment = e.key_line_comment
  BY DEF Sane, Emitters
<1>6. t[1] = "DOCUMENT_END"
  BY <1>2 DEF Sane, Rooted
<1>. QED
  BY <1>2, <1>3, <1>4, <1>5, <1>6 DEF Ready, Rooted, t

\* The state that is popped, and what stays below it.
LEMMA PopFacts ==
  ASSUME NEW e, Ready(e)
  PROVE  /\ Sane(PopState(e))
         /\ PopState(e).state = e.states[Len(e.states)] /\ PopState(e).states = Front(e.states)
         /\ PopState(e).events = e.events
         /\ PopState(e).indent = e.indent /\ PopState(e).indents = e.indents
         /\ PopState(e).flow_level = e.flow_level
         /\ PopState(e).line_comment = e.line_comment
         /\ PopState(e).key_line_comment = e.key_line_comment
<1>. DEFINE st == Last(e.states)
            t == Front(e.states)
            y == [e EXCEPT !.state = st]
            z == [y EXCEPT !.states = t]
<1>1. e.states \in Seq(ReturnStates)
  BY Fields DEF Ready
<1>2. /\ Len(e.states) \in Nat \ {0} /\ st = e.states[Len(e.states)] /\ st \in ReturnStates
      /\ t \in Seq(ReturnStates) /\ Len(t) = Len(e.states) - 1
      /\ \A i \in 1..Len(e.states) - 1 : t[i] = e.states[i]
      /\ t = <<>> <=> Len(e.states) = 1
  BY <1>1, FrontFacts DEF Ready
<1>3. st \in EmitterStates
  BY <1>2 DEF ReturnStates, EmitterStates
<1>4. PopState(e) = z
  BY DEF PopState, Ready, Emitters
<1>. HIDE DEF st, t
<1>5. y \in Emitters
  BY <1>3, Updates DEF Ready
<1>6. z \in Emitters
  BY <1>2, <1>5, Updates
<1>7. /\ z.state = st /\ z.states = t /\ z.events = e.events /\ z.indent = e.indent
      /\ z.indents = e.indents /\ z.flow_level = e.flow_level
      /\ z.line_comment = e.line_comment /\ z.key_line_comment = e.key_line_comment
  BY DEF Ready, Emitters
<1>8. t # <<>> => t[1] = "DOCUMENT_END"
  BY <1>2 DEF Ready
<1>9. st \in CollectionStates => t # <<>>
  BY <1>2 DEF Ready, CollectionStates, FirstStates, FlowFirst, BlockFirst, FlowStates, BlockStates, Trails
<1>. HIDE DEF y, z
<1>. QED
  BY <1>2, <1>4, <1>6, <1>7, <1>8, <1>9 DEF Sane, Rooted, t

\* An indent is saved and another one chosen.
LEMMA IndentFacts ==
  ASSUME NEW e, e \in Emitters
  PROVE  /\ IncreaseIndent(e) \in Emitters
         /\ IncreaseIndent(e).indents = Append(e.indents, e.indent)
         /\ IncreaseIndent(e).indent = Len(e.states)
         /\ IncreaseIndent(e).states = e.states /\ IncreaseIndent(e).state = e.state
         /\ IncreaseIndent(e).events = e.events /\ IncreaseIndent(e).flow_level = e.flow_level
         /\ IncreaseIndent(e).line_comment = e.line_comment
         /\ IncreaseIndent(e).key_line_comment = e.key_line_comment
         /\ IncreaseIndent(e).buffered = e.buffered
<1>. DEFINE t == Append(e.indents, e.indent)
            n == Len(e.states)
            y == [e EXCEPT !.indents = t]
            z == [y EXCEPT !.indent = n]
<1>1. t \in Seq(Indents)
  BY Fields, AppendFacts
<1>2. n \in Indents
  BY Fields, LenProperties DEF Indents
<1>3. IncreaseIndent(e) = z
  BY DEF IncreaseIndent, Emitters
<1>. HIDE DEF t, n
<1>4. y \in Emitters
  BY <1>1, Updates
<1>5. z \in Emitters
  BY <1>2, <1>4, Updates
<1>6. /\ z.indents = t /\ z.indent = n /\ z.states = e.states /\ z.state = e.state
      /\ z.events = e.events /\ z.flow_level = e.flow_level
      /\ z.line_comment = e.line_comment /\ z.key_line_comment = e.key_line_comment
      /\ z.buffered = e.buffered
  BY DEF Emitters
<1>. HIDE DEF y, z
<1>. QED
  BY <1>3, <1>5, <1>6 DEF t, n

\* An indent is restored.
LEMMA PopIndentFacts ==
  ASSUME NEW e, e \in Emitters, e.indents # <<>>
  PROVE  /\ PopIndent(e) \in Emitters
         /\ PopIndent(e).indents = Front(e.indents)
         /\ PopIndent(e).indent = e.indents[Len(e.indents)]
         /\ PopIndent(e).states = e.states /\ PopIndent(e).state = e.state
         /\ PopIndent(e).events = e.events /\ PopIndent(e).flow_level = e.flow_level
         /\ PopIndent(e).line_comment = e.line_comment
         /\ PopIndent(e).key_line_comment = e.key_line_comment
         /\ PopIndent(e).buffered = e.buffered
<1>. DEFINE t == Front(e.indents)
            n == Last(e.indents)
            y == [e EXCEPT !.indent = n]
            z == [y EXCEPT !.indents = t]
<1>1. e.indents \in Seq(Indents)
  BY Fields
<1>2. t \in Seq(Indents) /\ n \in Indents /\ n = e.indents[Len(e.indents)]
  BY <1>1, FrontFacts
<1>3. PopIndent(e) = z
  BY DEF PopIndent, Emitters
<1>. HIDE DEF t, n
<1>4. y \in Emitters
  BY <1>2, Updates
<1>5. z \in Emitters
  BY <1>2, <1>4, Updates
<1>6. /\ z.indents = t /\ z.indent = n /\ z.states = e.states /\ z.state = e.state
      /\ z.events = e.events /\ z.flow_level = e.flow_level
      /\ z.line_comment = e.line_comment /\ z.key_line_comment = e.key_line_comment
      /\ z.buffered = e.buffered
  BY DEF Emitters
<1>. HIDE DEF y, z
<1>. QED
  BY <1>2, <1>3, <1>5, <1>6 DEF t

\* A new state above a state to return to.
LEMMA StateFacts ==
  ASSUME NEW e, e \in Emitters, NEW st \in EmitterStates
  PROVE  /\ [e EXCEPT !.state = st] \in Emitters
         /\ [e EXCEPT !.state = st].state = st /\ [e EXCEPT !.state = st].states = e.states
         /\ [e EXCEPT !.state = st].events = e.events /\ [e EXCEPT !.state = st].indent = e.indent
         /\ [e EXCEPT !.state = st].indents = e.indents
         /\ [e EXCEPT !.state = st].flow_level = e.flow_level
         /\ [e EXCEPT !.state = st].line_comment = e.line_comment
         /\ [e EXCEPT !.state = st].key_line_comment = e.key_line_comment
         /\ [e EXCEPT !.state = st].buffered = e.buffered
<1>1. [e EXCEPT !.state = st] \in Emitters
  BY Updates
<1>. QED
  BY <1>1 DEF Emitters

\* What the state machine does with a node, however it ends.
LEMMA NodeFit ==
  ASSUME NEW e, Ready(e), Rooted(e), NEW r \in EmitNode(e)
  PROVE  Fit(e, r)
<1>1. Sane(e) /\ e \in Emitters
  BY DEF Ready, Sane
<1>2. Sane(PopState(e)) /\ PopState(e).events = e.events
  BY PopFacts
<1>3. Sane(IncreaseIndent(e)) /\ IncreaseIndent(e).events = e.events
  BY <1>1, IndentFacts DEF Sane, Rooted
<1>4. ASSUME r \in EmitScalar(e) PROVE Fit(e, r)
  <2>1. CASE r = Fails(IncreaseIndent(e))
    <3>1. Fit(IncreaseIndent(e), r)
      BY <1>3, <2>1, FailsFacts DEF Sane
    <3>. QED
      BY <1>3, <3>1 DEF Fit
  <2>2. CASE r \in Writes(e, PopState(e))
    BY <1>1, <1>2, <2>2, WritesFit
  <2>. QED
    BY <1>4, <2>1, <2>2 DEF EmitScalar
<1>5. ASSUME r \in EmitAlias(e) PROVE Fit(e, r)
  BY <1>1, <1>2, <1>5, WritesFit DEF EmitAlias
<1>6. ASSUME NEW flow \in EmitterStates, NEW block \in EmitterStates, r \in EmitStart(e, flow, block)
      PROVE  Fit(e, r)
  <2>1. PICK st \in {flow, block} :
          r = Done([e EXCEPT !.state = st]) \/ r \in Writes(e, [e EXCEPT !.state = st])
    BY <1>6 DEF EmitStart
  <2>2. Sane([e EXCEPT !.state = st]) /\ [e EXCEPT !.state = st].events = e.events
    BY <1>1, StateFacts DEF Sane, Rooted, Ready
  <2>3. CASE r = Done([e EXCEPT !.state = st])
    BY <2>2, <2>3 DEF Done, Result, Fit
  <2>4. CASE r \in Writes(e, [e EXCEPT !.state = st])
    BY <1>1, <2>2, <2>4, WritesFit
  <2>. QED
    BY <2>1, <2>3, <2>4
<1>7. ASSUME r = Refused(e) PROVE Fit(e, r)
  BY <1>1, <1>7 DEF Refused, Result, Fit
<1>8. {"FLOW_SEQUENCE_FIRST_ITEM", "BLOCK_SEQUENCE_FIRST_ITEM", "FLOW_MAPPING_FIRST_KEY",
       "BLOCK_MAPPING_FIRST_KEY"} \subseteq EmitterStates
  BY DEF EmitterStates, FlowFirst, BlockFirst
<1>. QED
  BY <1>4, <1>5, <1>6, <1>7, <1>8 DEF EmitNode

\* The same of the comment behind a node.
LEMMA LineCommentFit ==
  ASSUME NEW e, Sane(e), NEW r \in LineComment(e)
  PROVE  Fit(e, r)
<1>. DEFINE x == [e EXCEPT !.line_comment = FALSE]
<1>1. x \in Emitters
  BY Updates DEF Sane
<1>2. x.events = e.events /\ x.state = e.state /\ x.states = e.states
  BY DEF Sane, Emitters
<1>3. Sane(x)
  BY <1>1, <1>2 DEF Sane, Rooted
<1>4. CASE r \in Writes(e, x)
  BY <1>2, <1>3, <1>4, WritesFit
<1>5. CASE r = Done(e)
  BY <1>5 DEF Done, Result, Fit
<1>. QED
  BY <1>4, <1>5 DEF LineComment

\* The same of a node and what is written behind it.
LEMMA ItemFit ==
  ASSUME NEW e, Sane(e), NEW st \in ReturnStates, e.states # <<>> \/ st = "DOCUMENT_END",
         NEW r \in EmitItem(e, st)
  PROVE  Fit(e, r)
<1>1. /\ Ready(PushState(e, st)) /\ Rooted(PushState(e, st))
      /\ PushState(e, st).events = e.events
  BY PushFacts
<1>2. PICK q \in EmitNode(PushState(e, st)) :
        r \in IF q.how = "done" THEN LineComment(q.emitter) ELSE {q}
  BY DEF EmitItem
<1>3. Fit(PushState(e, st), q)
  BY <1>1, NodeFit
<1>4. CASE r = q
  BY <1>1, <1>3, <1>4 DEF Fit
<1>5. CASE r \in LineComment(q.emitter)
  <2>1. Fit(q.emitter, r)
    BY <1>3, <1>5, LineCommentFit DEF Fit
  <2>. QED
    BY <1>1, <1>3, <2>1 DEF Fit
<1>. QED
  BY <1>2, <1>4, <1>5

\* A flow collection whose opening bracket has been written.
LEMMA OpenedFacts ==
  ASSUME NEW e, e \in Emitters
  PROVE  /\ FlowOpened(e) \in Emitters
         /\ FlowOpened(e).indents = Append(e.indents, e.indent)
         /\ FlowOpened(e).indent = Len(e.states) /\ FlowOpened(e).flow_level = e.flow_level + 1
         /\ FlowOpened(e).states = e.states /\ FlowOpened(e).state = e.state
         /\ FlowOpened(e).events = e.events /\ FlowOpened(e).line_comment = e.line_comment
         /\ FlowOpened(e).key_line_comment = e.key_line_comment
<1>. DEFINE i == IncreaseIndent(e)
            f == e.flow_level + 1
            y == [i EXCEPT !.flow_level = f]
            z == [y EXCEPT !.buffered = TRUE]
<1>1. /\ i \in Emitters
      /\ i.indents = Append(e.indents, e.indent) /\ i.indent = Len(e.states)
      /\ i.states = e.states /\ i.state = e.state
      /\ i.events = e.events /\ i.flow_level = e.flow_level
      /\ i.line_comment = e.line_comment /\ i.key_line_comment = e.key_line_comment
  BY IndentFacts
<1>2. f \in Int
  BY Fields
<1>. HIDE DEF i, f
<1>3. i.flow_level + 1 = f
  BY <1>1 DEF f
<1>4. FlowOpened(e) = z
  BY <1>1, <1>3 DEF FlowOpened, i, Emitters
<1>5. y \in Emitters
  BY <1>1, <1>2, Updates
<1>6. z \in Emitters
  BY <1>5, Updates
<1>7. /\ z.indents = i.indents /\ z.indent = i.indent /\ z.states = i.states /\ z.state = i.state
      /\ z.events = i.events /\ z.flow_level = f
      /\ z.line_comment = i.line_comment /\ z.key_line_comment = i.key_line_comment
  BY <1>1 DEF Emitters
<1>. HIDE DEF y, z
<1>. QED
  BY <1>1, <1>4, <1>6, <1>7 DEF f

\* A handler that opens a collection, or saves and restores an indent, leaves the
\* states as they are.
LEMMA SaneStacks ==
  ASSUME NEW e, Sane(e), NEW x, x \in Emitters, x.states = e.states, x.state = e.state
  PROVE  Sane(x)
BY DEF Sane, Rooted

\* What becomes of the end of a flow collection.
LEMMA FlowEndFit ==
  ASSUME NEW e, Ready(e), Rooted(e), NEW r \in EmitFlowEnd(e)
  PROVE  Fit(e, r)
<1>. DEFINE f == e.flow_level - 1
            left == [e EXCEPT !.flow_level = f]
            closed == [PopIndent(left) EXCEPT !.buffered = TRUE]
<1>1. left \in Emitters
  <2>1. f \in Int
    BY Fields DEF Ready
  <2>. HIDE DEF f
  <2>. QED
    BY <2>1, Updates DEF Ready
<1>2. /\ left.events = e.events /\ left.states = e.states /\ left.state = e.state
      /\ left.indents = e.indents
  BY DEF Ready, Emitters
<1>3. left = [e EXCEPT !.flow_level = @ - 1]
  BY DEF Ready, Emitters
<1>. HIDE DEF left
<1>4. Sane(left)
  BY <1>1, <1>2, SaneStacks DEF Sane, Ready
<1>5. CASE e.indents = <<>>
  <2>1. r = Panics(left)
    BY <1>3, <1>5 DEF EmitFlowEnd
  <2>. QED
    BY <1>2, <1>4, <2>1 DEF Panics, Result, Fit
<1>6. CASE e.indents # <<>>
  <2>1. /\ PopIndent(left) \in Emitters /\ PopIndent(left).states = e.states
        /\ PopIndent(left).state = e.state /\ PopIndent(left).events = e.events
    BY <1>1, <1>2, <1>6, PopIndentFacts
  <2>2. closed \in Emitters
    BY <2>1, Updates
  <2>3. closed.states = e.states /\ closed.state = e.state /\ closed.events = e.events
    BY <2>1 DEF Emitters
  <2>4. \/ r = Fails(closed)
        \/ \E q \in LineComment(closed) : r = IF q.how = "done" THEN Done(PopState(q.emitter)) ELSE q
    BY <1>3, <1>6 DEF EmitFlowEnd
  <2>. HIDE DEF closed
  <2>5. Sane(closed)
    BY <2>2, <2>3, SaneStacks DEF Sane, Ready
  <2>6. CASE r = Fails(closed)
    <3>1. Fit(closed, r)
      BY <2>5, <2>6, FailsFacts DEF Sane
    <3>. QED
      BY <2>3, <3>1 DEF Fit
  <2>7. ASSUME NEW q \in LineComment(closed), r = IF q.how = "done" THEN Done(PopState(q.emitter)) ELSE q
        PROVE  Fit(e, r)
    <3>1. Fit(closed, q)
      BY <2>5, LineCommentFit
    <3>2. q.emitter.states # <<>> /\ q.emitter.states[1] = "DOCUMENT_END"
      <4>1. q.emitter.states = closed.states
        <5>1. /\ [closed EXCEPT !.line_comment = FALSE] \in Emitters
              /\ [closed EXCEPT !.line_comment = FALSE].states = closed.states
          <6>1. [closed EXCEPT !.line_comment = FALSE] \in Emitters
            BY <2>2, Updates
          <6>2. [closed EXCEPT !.line_comment = FALSE].states = closed.states
            BY <2>2 DEF Emitters
          <6>. QED
            BY <6>1, <6>2
        <5>2. CASE q = Fails(closed)
          BY <2>2, <5>2 DEF Fails, Result, Emitters
        <5>3. CASE q = Done([[closed EXCEPT !.line_comment = FALSE] EXCEPT !.buffered = TRUE])
          <6>. DEFINE y == [closed EXCEPT !.line_comment = FALSE]
          <6>1. y \in Emitters /\ y.states = closed.states
            BY <5>1
          <6>. HIDE DEF y
          <6>2. [y EXCEPT !.buffered = TRUE].states = closed.states
            BY <6>1 DEF Emitters
          <6>. QED
            BY <5>3, <6>2 DEF Done, Result, y
        <5>4. CASE q = Done(closed)
          BY <5>4 DEF Done, Result
        <5>. QED
          BY <5>2, <5>3, <5>4 DEF LineComment, Writes
      <4>. QED
        BY <2>3, <4>1 DEF Ready
    <3>3. CASE q.how = "done"
      <4>1. Ready(q.emitter)
        BY <3>1, <3>2 DEF Ready, Fit, Sane
      <4>2. Sane(PopState(q.emitter)) /\ PopState(q.emitter).events = q.emitter.events
        BY <4>1, PopFacts
      <4>. QED
        BY <2>3, <2>7, <3>1, <3>3, <4>2 DEF Done, Result, Fit
    <3>4. CASE q.how # "done"
      BY <2>3, <2>7, <3>1, <3>4 DEF Fit
    <3>. QED
      BY <3>3, <3>4
  <2>. QED
    BY <2>4, <2>6, <2>7
<1>. QED
  BY <1>5, <1>6

\* What becomes of the end of a block collection.
LEMMA BlockEndFit ==
  ASSUME NEW e, Ready(e), Rooted(e), NEW r \in EmitBlockEnd(e)
  PROVE  Fit(e, r)
<1>1. CASE e.indents = <<>>
  BY <1>1 DEF EmitBlockEnd, Panics, Result, Fit, Sane, Ready
<1>2. CASE e.indents # <<>>
  <2>1. /\ PopIndent(e) \in Emitters /\ PopIndent(e).states = e.states
        /\ PopIndent(e).events = e.events
    BY <1>2, PopIndentFacts DEF Ready
  <2>2. Ready(PopIndent(e))
    BY <2>1 DEF Ready
  <2>3. Sane(PopState(PopIndent(e))) /\ PopState(PopIndent(e)).events = e.events
    BY <2>1, <2>2, PopFacts
  <2>4. r = Done(PopState(PopIndent(e)))
    BY <1>2 DEF EmitBlockEnd
  <2>. QED
    BY <2>3, <2>4 DEF Done, Result, Fit
<1>. QED
  BY <1>1, <1>2

\* What becomes of an item, a key or a value of a collection, or of its end.
LEMMA FlowSequenceFit ==
  ASSUME NEW e, Ready(e), Rooted(e), NEW r \in FlowSequenceItem(e)
  PROVE  Fit(e, r)
<1>1. Sane(e) /\ e.states # <<>> /\ e \in Emitters
  BY DEF Ready, Sane
<1>2. \/ r \in EmitFlowEnd(e) \/ r = Fails(e)
      \/ r \in EmitItem(e, "FLOW_SEQUENCE_TRAIL_ITEM") \/ r \in EmitItem(e, "FLOW_SEQUENCE_ITEM")
  BY DEF FlowSequenceItem
<1>3. {"FLOW_SEQUENCE_TRAIL_ITEM", "FLOW_SEQUENCE_ITEM"} \subseteq ReturnStates
  BY DEF ReturnStates, FlowStates, Trails
<1>. QED
  BY <1>1, <1>2, <1>3, FlowEndFit, FailsFacts, ItemFit

\* See FlowSequenceFit.
LEMMA FlowKeyFit ==
  ASSUME NEW e, Ready(e), Rooted(e), NEW r \in FlowMappingKey(e)
  PROVE  Fit(e, r)
<1>1. Sane(e) /\ e.states # <<>> /\ e \in Emitters
  BY DEF Ready, Sane
<1>2. \/ r \in EmitFlowEnd(e) \/ r = Fails(e)
      \/ \E st \in {"FLOW_MAPPING_SIMPLE_VALUE", "FLOW_MAPPING_VALUE"} : r \in EmitNode(PushState(e, st))
  BY DEF FlowMappingKey
<1>3. {"FLOW_MAPPING_SIMPLE_VALUE", "FLOW_MAPPING_VALUE"} \subseteq ReturnStates
  BY DEF ReturnStates, FlowStates
<1>4. ASSUME NEW st \in ReturnStates, r \in EmitNode(PushState(e, st))
      PROVE  Fit(e, r)
  <2>1. /\ Ready(PushState(e, st)) /\ Rooted(PushState(e, st)) /\ PushState(e, st).events = e.events
    BY <1>1, PushFacts
  <2>2. Fit(PushState(e, st), r)
    BY <1>4, <2>1, NodeFit
  <2>. QED
    BY <2>1, <2>2 DEF Fit
<1>. QED
  BY <1>1, <1>2, <1>3, <1>4, FlowEndFit, FailsFacts

\* See FlowSequenceFit.
LEMMA FlowValueFit ==
  ASSUME NEW e, Ready(e), Rooted(e), NEW r \in EmitFlowMappingValue(e)
  PROVE  Fit(e, r)
<1>1. Sane(e) /\ e.states # <<>> /\ e \in Emitters
  BY DEF Ready, Sane
<1>2. \/ r = Fails(e)
      \/ r \in EmitItem(e, "FLOW_MAPPING_TRAIL_KEY") \/ r \in EmitItem(e, "FLOW_MAPPING_KEY")
  BY DEF EmitFlowMappingValue
<1>3. {"FLOW_MAPPING_TRAIL_KEY", "FLOW_MAPPING_KEY"} \subseteq ReturnStates
  BY DEF ReturnStates, FlowStates, Trails
<1>. QED
  BY <1>1, <1>2, <1>3, FailsFacts, ItemFit

\* See FlowSequenceFit.
LEMMA BlockSequenceFit ==
  ASSUME NEW e, Ready(e), Rooted(e), NEW r \in BlockSequenceItem(e)
  PROVE  Fit(e, r)
<1>1. Sane(e) /\ e.states # <<>> /\ e \in Emitters
  BY DEF Ready, Sane
<1>2. \/ r \in EmitBlockEnd(e) \/ r = Fails(e) \/ r \in EmitItem(e, "BLOCK_SEQUENCE_ITEM")
  BY DEF BlockSequenceItem
<1>3. "BLOCK_SEQUENCE_ITEM" \in ReturnStates
  BY DEF ReturnStates, BlockStates
<1>. QED
  BY <1>1, <1>2, <1>3, BlockEndFit, FailsFacts, ItemFit

\* An emitter with other comments pending.
Pending(e, a, b) == [e EXCEPT !.line_comment = a, !.key_line_comment = b]

\* The pending comments may change without harm to the types.
LEMMA CommentFacts ==
  ASSUME NEW e, e \in Emitters, NEW a \in BOOLEAN, NEW b \in BOOLEAN
  PROVE  /\ Pending(e, a, b) \in Emitters
         /\ Pending(e, a, b).line_comment = a /\ Pending(e, a, b).key_line_comment = b
         /\ Pending(e, a, b).events = e.events /\ Pending(e, a, b).state = e.state
         /\ Pending(e, a, b).states = e.states /\ Pending(e, a, b).indent = e.indent
         /\ Pending(e, a, b).indents = e.indents /\ Pending(e, a, b).flow_level = e.flow_level
         /\ Pending(e, a, b).buffered = e.buffered
         /\ Rooted(e) => Rooted(Pending(e, a, b))
         /\ Ready(e) => Ready(Pending(e, a, b))
<1>. DEFINE y == [e EXCEPT !.line_comment = a]
            z == [y EXCEPT !.key_line_comment = b]
<1>1. Pending(e, a, b) = z
  BY DEF Pending
<1>2. y \in Emitters
  BY Updates
<1>3. z \in Emitters
  BY <1>2, Updates
<1>4. /\ z.line_comment = a /\ z.key_line_comment = b
      /\ z.events = e.events /\ z.state = e.state /\ z.states = e.states
      /\ z.indent = e.indent /\ z.indents = e.indents /\ z.flow_level = e.flow_level
      /\ z.buffered = e.buffered
  BY DEF Emitters
<1>. HIDE DEF y, z
<1>. QED
  BY <1>1, <1>3, <1>4 DEF Rooted, Ready

\* See FlowSequenceFit.
LEMMA BlockKeyFit ==
  ASSUME NEW e, Ready(e), Rooted(e), NEW r \in BlockMappingKey(e)
  PROVE  Fit(e, r)
<1>. DEFINE a == e.key_line_comment \/ e.line_comment
            saved == Pending(e, FALSE, a)
<1>1. Sane(e) /\ e.states # <<>> /\ e \in Emitters
  BY DEF Ready, Sane
<1>2. saved = [e EXCEPT !.key_line_comment = @ \/ e.line_comment, !.line_comment = FALSE]
  BY DEF Ready, Emitters, Pending
<1>3. a \in BOOLEAN
  OBVIOUS
<1>4. \/ r \in EmitBlockEnd(e) \/ r = Fails(e) \/ r = Fails(saved)
      \/ \E st \in {"BLOCK_MAPPING_SIMPLE_VALUE", "BLOCK_MAPPING_VALUE"} :
           r \in EmitNode(PushState(saved, st))
  BY <1>2 DEF BlockMappingKey
<1>5. /\ Ready(saved) /\ Rooted(saved) /\ Sane(saved) /\ saved.states # <<>>
      /\ saved.events = e.events
  <2>. HIDE DEF a
  <2>1. saved \in Emitters /\ saved.events = e.events /\ Rooted(saved) /\ Ready(saved)
    BY <1>1, <1>3, CommentFacts
  <2>. HIDE DEF saved
  <2>. QED
    BY <2>1 DEF Sane, Ready
<1>. HIDE DEF saved
<1>6. {"BLOCK_MAPPING_SIMPLE_VALUE", "BLOCK_MAPPING_VALUE"} \subseteq ReturnStates
  BY DEF ReturnStates, BlockStates
<1>7. ASSUME NEW st \in ReturnStates, r \in EmitNode(PushState(saved, st))
      PROVE  Fit(e, r)
  <2>1. /\ Ready(PushState(saved, st)) /\ Rooted(PushState(saved, st))
        /\ PushState(saved, st).events = saved.events
    BY <1>5, PushFacts
  <2>2. Fit(PushState(saved, st), r)
    BY <1>7, <2>1, NodeFit
  <2>. QED
    BY <1>5, <2>1, <2>2 DEF Fit
<1>8. ASSUME r = Fails(saved) PROVE Fit(e, r)
  <2>1. Fit(saved, r)
    BY <1>5, <1>8, FailsFacts DEF Sane
  <2>. QED
    BY <1>5, <2>1 DEF Fit
<1>. QED
  BY <1>1, <1>4, <1>6, <1>7, <1>8, BlockEndFit, FailsFacts

\* What the value of a block mapping comes down to: an item, with the comments as
\* they may have been swapped.
LEMMA ValueCases ==
  ASSUME NEW e, e \in Emitters, NEW r \in EmitBlockMappingValue(e)
  PROVE  \/ r = Fails(e) \/ r = Fails(Pending(e, TRUE, e.line_comment))
         \/ \E a, b \in BOOLEAN : r \in EmitItem(Pending(e, a, b), "BLOCK_MAPPING_KEY")
<1>0. e.line_comment \in BOOLEAN /\ e.key_line_comment \in BOOLEAN
  BY Fields
<1>. DEFINE head == Head(e.events)
            block == head.typ \in {"SEQUENCE_START", "MAPPING_START"} /\ ~head.inline
            given == IF head.typ = "SCALAR" /\ ~e.line_comment
               THEN [e EXCEPT !.line_comment = @ \/ e.key_line_comment, !.key_line_comment = FALSE]
             ELSE IF block THEN [e EXCEPT !.key_line_comment = FALSE]
             ELSE e
<1>1. \/ r = Fails(e)
      \/ r = Fails(Pending(e, TRUE, e.line_comment))
      \/ r \in EmitItem(given, "BLOCK_MAPPING_KEY")
  BY DEF EmitBlockMappingValue, Pending
<1>2. \E a, b \in BOOLEAN : given = Pending(e, a, b)
  <2>1. [e EXCEPT !.line_comment = @ \/ e.key_line_comment, !.key_line_comment = FALSE]
          = Pending(e, e.line_comment \/ e.key_line_comment, FALSE)
    BY <1>0 DEF Emitters, Pending
  <2>2. [e EXCEPT !.key_line_comment = FALSE]
          = Pending(e, e.line_comment, FALSE)
    BY <1>0 DEF Emitters, Pending
  <2>3. e = Pending(e, e.line_comment, e.key_line_comment)
    BY <1>0 DEF Emitters, Pending
  <2>4. (e.line_comment \/ e.key_line_comment) \in BOOLEAN
    OBVIOUS
  <2>. QED
    BY <1>0, <2>1, <2>2, <2>3, <2>4
<1>. HIDE DEF given
<1>. QED
  BY <1>1, <1>2

\* See FlowSequenceFit.
LEMMA BlockValueFit ==
  ASSUME NEW e, Ready(e), Rooted(e), NEW r \in EmitBlockMappingValue(e)
  PROVE  Fit(e, r)
<1>1. Sane(e) /\ e.states # <<>> /\ e \in Emitters
      /\ e.line_comment \in BOOLEAN /\ e.key_line_comment \in BOOLEAN
  BY Fields DEF Ready, Sane
<1>2. \/ r = Fails(e)
      \/ r = Fails(Pending(e, TRUE, e.line_comment))
      \/ \E a, b \in BOOLEAN :
           r \in EmitItem(Pending(e, a, b), "BLOCK_MAPPING_KEY")
  BY <1>1, ValueCases
<1>3. "BLOCK_MAPPING_KEY" \in ReturnStates
  BY DEF ReturnStates, BlockStates
<1>4. ASSUME NEW a \in BOOLEAN, NEW b \in BOOLEAN, NEW x,
             x = Pending(e, a, b)
      PROVE  Sane(x) /\ x.events = e.events /\ x.states # <<>>
  <2>1. x \in Emitters /\ x.events = e.events /\ Rooted(x) /\ Ready(x)
    <3>1. Rooted(e) /\ Ready(e) /\ e \in Emitters /\ a \in BOOLEAN /\ b \in BOOLEAN
      BY <1>1, <1>4
    <3>2. /\ Pending(e, a, b) \in Emitters /\ Pending(e, a, b).events = e.events
          /\ Rooted(Pending(e, a, b)) /\ Ready(Pending(e, a, b))
      BY <3>1, CommentFacts
    <3>. QED
      BY <1>4, <3>2
  <2>. QED
    BY <2>1 DEF Sane, Ready
<1>5. ASSUME r = Fails(Pending(e, TRUE, e.line_comment))
      PROVE  Fit(e, r)
  <2>. DEFINE x == Pending(e, TRUE, e.line_comment)
  <2>1. Sane(x) /\ x.events = e.events
    BY <1>1, <1>4
  <2>2. r = Fails(x)
    BY <1>5
  <2>. HIDE DEF x
  <2>3. Fit(x, r)
    BY <2>1, <2>2, FailsFacts DEF Sane
  <2>. QED
    BY <2>1, <2>3 DEF Fit
<1>6. ASSUME NEW a \in BOOLEAN, NEW b \in BOOLEAN,
             r \in EmitItem(Pending(e, a, b), "BLOCK_MAPPING_KEY")
      PROVE  Fit(e, r)
  <2>. DEFINE x == Pending(e, a, b)
  <2>1. Sane(x) /\ x.events = e.events /\ x.states # <<>>
    BY <1>4
  <2>2. r \in EmitItem(x, "BLOCK_MAPPING_KEY")
    BY <1>6
  <2>. HIDE DEF x
  <2>3. Fit(x, r)
    BY <1>3, <2>1, <2>2, ItemFit
  <2>. QED
    BY <2>1, <2>3 DEF Fit
<1>. QED
  BY <1>1, <1>2, <1>5, <1>6, FailsFacts

\* What becomes of the head of the queue in any state.
LEMMA AttemptFit ==
  ASSUME NEW e, Sane(e), NEW r \in Attempt(e)
  PROVE  Fit(e, r)
<1>1. e \in Emitters /\ e.state \in EmitterStates
  BY Fields DEF Sane
<1>2. ASSUME NEW st \in EmitterStates \ CollectionStates
      PROVE  /\ Sane([e EXCEPT !.state = st]) /\ [e EXCEPT !.state = st].events = e.events
             /\ [e EXCEPT !.state = st] \in Emitters /\ Rooted([e EXCEPT !.state = st])
             /\ [e EXCEPT !.state = st].states = e.states
             /\ [e EXCEPT !.state = st].state = st
  BY <1>1, <1>2, StateFacts DEF Sane, Rooted
<1>3. /\ "FIRST_DOCUMENT_START" \in EmitterStates \ CollectionStates
      /\ "DOCUMENT_CONTENT" \in EmitterStates \ CollectionStates
      /\ "DOCUMENT_START" \in EmitterStates \ CollectionStates
      /\ "END" \in EmitterStates \ CollectionStates
  BY DEF EmitterStates, CollectionStates, FirstStates, FlowFirst, BlockFirst, FlowStates, BlockStates, Trails
<1>4. Fit(e, Refused(e)) /\ Fit(e, Fails(e))
  BY <1>1, FailsFacts DEF Refused, Result, Fit, Sane
<1>5. CASE e.state = "STREAM_START"
  <2>. DEFINE y == [e EXCEPT !.state = "FIRST_DOCUMENT_START"]
              z == [y EXCEPT !.indent = -1]
  <2>1. r = Refused(e) \/ r = Done(z)
    BY <1>5 DEF Attempt, EmitStreamStart
  <2>2. y \in Emitters /\ Rooted(y) /\ y.events = e.events
    BY <1>2, <1>3
  <2>. HIDE DEF y
  <2>3. -1 \in Indents
    BY DEF Indents
  <2>4. z \in Emitters
    BY <2>2, <2>3, Updates
  <2>5. z.events = y.events /\ z.state = y.state /\ z.states = y.states
    BY <2>2 DEF Emitters
  <2>. HIDE DEF z
  <2>. QED
    BY <1>4, <2>1, <2>2, <2>4, <2>5 DEF Done, Result, Fit, Sane, Rooted
<1>6. CASE e.state \in {"FIRST_DOCUMENT_START", "DOCUMENT_START"}
  <2>. DEFINE y == [e EXCEPT !.state = "DOCUMENT_CONTENT"]
              x == [e EXCEPT !.state = "END"]
              z == [x EXCEPT !.buffered = FALSE]
  <2>1. r = Refused(e) \/ r = Fails(e) \/ r \in Writes(e, y) \/ r = Done(z)
    BY <1>6 DEF Attempt, EmitDocumentStart
  <2>2. Sane(y) /\ y.events = e.events
    BY <1>2, <1>3
  <2>3. x \in Emitters /\ Rooted(x) /\ x.events = e.events
    BY <1>2, <1>3
  <2>. HIDE DEF x, y
  <2>4. z \in Emitters
    BY <2>3, Updates
  <2>5. z.events = x.events /\ z.state = x.state /\ z.states = x.states
    BY <2>3 DEF Emitters
  <2>. HIDE DEF z
  <2>6. Fit(e, Done(z))
    BY <2>3, <2>4, <2>5 DEF Done, Result, Fit, Sane, Rooted
  <2>. QED
    BY <1>4, <2>1, <2>2, <2>6, WritesFit
<1>7. CASE e.state = "DOCUMENT_CONTENT"
  <2>. DEFINE p == PushState(e, "DOCUMENT_END")
  <2>1. r = Fails(p) \/ r \in EmitItem(e, "DOCUMENT_END")
    BY <1>7 DEF Attempt, EmitDocumentContent
  <2>2. "DOCUMENT_END" \in ReturnStates
    BY DEF ReturnStates
  <2>3. Ready(p) /\ Rooted(p) /\ p.events = e.events
    BY <2>2, PushFacts
  <2>. HIDE DEF p
  <2>4. r = Fails(p) => Fit(p, r)
    BY <2>3, FailsFacts DEF Ready
  <2>5. r = Fails(p) => Fit(e, r)
    BY <2>3, <2>4 DEF Fit
  <2>. QED
    BY <2>1, <2>2, <2>5, ItemFit
<1>8. CASE e.state = "DOCUMENT_END"
  <2>. DEFINE x == [e EXCEPT !.state = "DOCUMENT_START"]
              z == [x EXCEPT !.buffered = FALSE]
  <2>1. r = Refused(e) \/ r = Fails(e) \/ r = Done(z)
    BY <1>8 DEF Attempt, EmitDocumentEnd
  <2>3. x \in Emitters /\ Rooted(x) /\ x.events = e.events
    BY <1>2, <1>3
  <2>. HIDE DEF x
  <2>4. z \in Emitters
    BY <2>3, Updates
  <2>5. z.events = x.events /\ z.state = x.state /\ z.states = x.states
    BY <2>3 DEF Emitters
  <2>. HIDE DEF z
  <2>. QED
    BY <1>4, <2>1, <2>3, <2>4, <2>5 DEF Done, Result, Fit, Sane, Rooted
<1>9. CASE e.state = "END"
  <2>1. r = Refused(e)
    BY <1>9 DEF Attempt
  <2>. QED
    BY <1>4, <2>1
<1>10. CASE e.state \in CollectionStates
  <2>1. Ready(e) /\ Rooted(e)
    BY <1>10 DEF Ready, Sane, Rooted
  <2>2. /\ IncreaseIndent(e) \in Emitters /\ IncreaseIndent(e).states = e.states
        /\ IncreaseIndent(e).state = e.state /\ IncreaseIndent(e).events = e.events
    BY <1>1, IndentFacts
  <2>3. Ready(IncreaseIndent(e)) /\ Rooted(IncreaseIndent(e))
    BY <2>1, <2>2 DEF Ready, Rooted
  <2>4. /\ FlowOpened(e) \in Emitters /\ FlowOpened(e).states = e.states
        /\ FlowOpened(e).state = e.state /\ FlowOpened(e).events = e.events
    BY <1>1, OpenedFacts
  <2>5. Ready(FlowOpened(e)) /\ Rooted(FlowOpened(e))
    BY <2>1, <2>4 DEF Ready, Rooted
  <2>6. \A x : Fit(x, r) /\ x.events = e.events => Fit(e, r)
    BY DEF Fit
  <2>7. \E x \in {e, IncreaseIndent(e), FlowOpened(e)} :
          \/ r = Fails(e) \/ r \in FlowSequenceItem(x) \/ r \in FlowMappingKey(x)
          \/ r \in EmitFlowMappingValue(x) \/ r \in BlockSequenceItem(x)
          \/ r \in BlockMappingKey(x) \/ r \in EmitBlockMappingValue(x)
    BY <1>10 DEF Attempt, CollectionStates, FirstStates, FlowFirst, BlockFirst, FlowStates, BlockStates, Trails
  <2>. QED
    BY <1>4, <2>1, <2>2, <2>3, <2>4, <2>5, <2>6, <2>7, FlowSequenceFit, FlowKeyFit, FlowValueFit,
       BlockSequenceFit, BlockKeyFit, BlockValueFit
<1>. QED
  BY <1>1, <1>5, <1>6, <1>7, <1>8, <1>9, <1>10
     DEF EmitterStates, CollectionStates, FirstStates

\* The emitter that knows the comment of the event at the head.
Analyzed(e) == [e EXCEPT !.line_comment = @ \/ Head(e.events).comment]
\* The emitter when the event at the head leaves the queue.
Consumed(e) == [e EXCEPT !.events = Tail(@)]

\* The event at the head.
LEMMA HeadFacts ==
  ASSUME NEW q \in Seq(Events), q # <<>>
  PROVE  /\ Head(q) = q[1] /\ Head(q) \in Events /\ Head(q).typ \in EventTypes
         /\ Head(q).inline \in BOOLEAN /\ Head(q).comment \in BOOLEAN
         /\ Head(q).comment => Head(q).typ \in Commented
         /\ Tail(q) \in Seq(Events) /\ Len(q) \in Nat \ {0} /\ Len(Tail(q)) = Len(q) - 1
         /\ \A i \in 1..Len(Tail(q)) : Tail(q)[i] = q[i + 1]
<1>1. Head(q) = q[1] /\ Len(q) \in Nat \ {0} /\ q[1] \in Events
  BY EmptySeq, LenProperties, ElementOfSeq
<1>2. /\ Tail(q) \in Seq(Events) /\ Len(Tail(q)) = Len(q) - 1
      /\ \A i \in 1..Len(Tail(q)) : Tail(q)[i] = q[i + 1]
  BY HeadTailProperties
<1>. QED
  BY <1>1, <1>2 DEF Events

\* To analyze an event makes its comment pending, nothing else.
LEMMA AnalyzedFacts ==
  ASSUME NEW e, Sane(e), e.events # <<>>
  PROVE  /\ Sane(Analyzed(e)) /\ Analyzed(e) \in Emitters
         /\ Analyzed(e).line_comment = (e.line_comment \/ Head(e.events).comment)
         /\ Analyzed(e).events = e.events /\ Analyzed(e).state = e.state
         /\ Analyzed(e).states = e.states /\ Analyzed(e).indent = e.indent
         /\ Analyzed(e).indents = e.indents /\ Analyzed(e).flow_level = e.flow_level
         /\ Analyzed(e).key_line_comment = e.key_line_comment
         /\ Analyzed(e).buffered = e.buffered
<1>. DEFINE c == e.line_comment \/ Head(e.events).comment
<1>1. e \in Emitters /\ e.key_line_comment \in BOOLEAN
  BY Fields DEF Sane
<1>2. c \in BOOLEAN
  OBVIOUS
<1>3. Analyzed(e) = Pending(e, c, e.key_line_comment)
  BY <1>1 DEF Analyzed, Pending, Emitters
<1>. HIDE DEF c
<1>4. /\ Analyzed(e) \in Emitters /\ Analyzed(e).line_comment = c
      /\ Analyzed(e).events = e.events /\ Analyzed(e).state = e.state
      /\ Analyzed(e).states = e.states /\ Analyzed(e).indent = e.indent
      /\ Analyzed(e).indents = e.indents /\ Analyzed(e).flow_level = e.flow_level
      /\ Analyzed(e).key_line_comment = e.key_line_comment
      /\ Analyzed(e).buffered = e.buffered
      /\ Rooted(e) => Rooted(Analyzed(e))
  BY <1>1, <1>2, <1>3, CommentFacts
<1>. QED
  BY <1>4 DEF Sane, c

\* When the event leaves the queue the rest stays.
LEMMA ConsumedFacts ==
  ASSUME NEW e, Sane(e), e.events # <<>>
  PROVE  /\ Sane(Consumed(e)) /\ Consumed(e).events = Tail(e.events)
         /\ Consumed(e).state = e.state /\ Consumed(e).states = e.states
         /\ Consumed(e).indent = e.indent /\ Consumed(e).indents = e.indents
         /\ Consumed(e).flow_level = e.flow_level /\ Consumed(e).line_comment = e.line_comment
         /\ Consumed(e).key_line_comment = e.key_line_comment
         /\ Consumed(e).buffered = e.buffered
<1>. DEFINE t == Tail(e.events)
            z == [e EXCEPT !.events = t]
<1>1. t \in Seq(Events)
  BY Fields, HeadFacts DEF Sane
<1>2. Consumed(e) = z
  BY DEF Consumed, Sane, Emitters
<1>. HIDE DEF t
<1>3. z \in Emitters
  BY <1>1, Updates DEF Sane
<1>4. /\ z.events = t /\ z.state = e.state /\ z.states = e.states
      /\ z.indent = e.indent /\ z.indents = e.indents /\ z.flow_level = e.flow_level
      /\ z.line_comment = e.line_comment /\ z.key_line_comment = e.key_line_comment
      /\ z.buffered = e.buffered
  BY DEF Sane, Emitters
<1>. HIDE DEF z
<1>. QED
  BY <1>2, <1>3, <1>4 DEF Sane, Rooted, t

\* A turn of the loop is an attempt, and the event leaves the queue if it succeeds.
LEMMA HeadCases ==
  ASSUME NEW e, NEW r \in EmitHead(e)
  PROVE  \E q \in Attempt(Analyzed(e)) :
           /\ r.how = q.how
           /\ r.emitter = IF q.how = "done" THEN Consumed(q.emitter) ELSE q.emitter
<1>1. PICK q \in Attempt(Analyzed(e)) :
        r = IF q.how = "done" THEN Done([q.emitter EXCEPT !.events = Tail(@)]) ELSE q
  BY DEF EmitHead, Analyzed
<1>. QED
  BY <1>1 DEF Done, Result, Consumed

\* The emitter that a turn of the loop leaves.
LEMMA EmitHeadFit ==
  ASSUME NEW e, Sane(e), e.events # <<>>, NEW r \in EmitHead(e)
  PROVE  Sane(r.emitter)
<1>1. PICK q \in Attempt(Analyzed(e)) :
        /\ r.how = q.how
        /\ r.emitter = IF q.how = "done" THEN Consumed(q.emitter) ELSE q.emitter
  BY HeadCases
<1>2. Sane(Analyzed(e)) /\ Analyzed(e).events = e.events
  BY AnalyzedFacts
<1>3. Fit(Analyzed(e), q)
  BY <1>2, AttemptFit
<1>. QED
  BY <1>1, <1>2, <1>3, ConsumedFacts DEF Fit

-----------------------------------------------------------------------------
(* What a handler has done when it succeeds                                  *)

\* The queue, the indents and the flow level are those from before.
Kept(e, x) ==
  /\ x.events = e.events /\ x.indent = e.indent /\ x.indents = e.indents
  /\ x.flow_level = e.flow_level

\* The node at the head of e has been written, or begun, with st to return to.
NodeWritten(e, st, x) ==
  /\ Kept(e, x)
  /\ \/ /\ Head(e.events).typ \in {"SCALAR", "ALIAS"}
        /\ x.state = st /\ x.states = e.states
     \/ /\ Head(e.events).typ \in {"SEQUENCE_START", "MAPPING_START"}
        /\ x.state \in FirstStates /\ x.states = Append(e.states, st)
        /\ x.state \in BlockFirst => ~(e.flow_level > 0) /\ ~Empty(e.events)

\* The emitter of a write that succeeds.
LEMMA WritesDone ==
  ASSUME NEW e, NEW x, x \in Emitters, NEW r \in Writes(e, x), r.how = "done"
  PROVE  /\ Kept(x, r.emitter) /\ r.emitter.state = x.state /\ r.emitter.states = x.states
         /\ r.emitter.line_comment = x.line_comment
<1>1. r = Done([x EXCEPT !.buffered = TRUE])
  BY DEF Writes, Fails, Result
<1>2. r.emitter = [x EXCEPT !.buffered = TRUE]
  BY <1>1 DEF Done, Result
<1>. QED
  BY <1>2 DEF Kept, Emitters

\* A node that succeeds has been written.
LEMMA NodeDone ==
  ASSUME NEW e, Sane(e), NEW st \in ReturnStates, e.states # <<>> \/ st = "DOCUMENT_END",
         NEW r \in EmitNode(PushState(e, st)), r.how = "done"
  PROVE  NodeWritten(e, st, r.emitter) /\ r.emitter.line_comment = e.line_comment
<1>. DEFINE p == PushState(e, st)
<1>1. /\ Ready(p) /\ p.states = Append(e.states, st) /\ p.line_comment = e.line_comment
      /\ p.events = e.events /\ p.indent = e.indent /\ p.indents = e.indents
      /\ p.flow_level = e.flow_level
  BY PushFacts
<1>2. r \in EmitNode(p)
  OBVIOUS
<1>3. /\ p.states[Len(p.states)] = st /\ Front(p.states) = e.states
  BY <1>1, Fields, AppendFacts DEF Sane
<1>. HIDE DEF p
<1>4. /\ PopState(p) \in Emitters
      /\ PopState(p).state = st /\ PopState(p).states = e.states /\ Kept(e, PopState(p))
      /\ PopState(p).line_comment = e.line_comment
  BY <1>1, <1>3, PopFacts DEF Kept, Sane
<1>5. ASSUME NEW x, r \in Writes(x, PopState(p))
      PROVE  /\ r.emitter.state = st /\ r.emitter.states = e.states /\ Kept(e, r.emitter)
             /\ r.emitter.line_comment = e.line_comment
  BY <1>4, <1>5, WritesDone DEF Kept
<1>6. CASE Head(e.events).typ = "SCALAR"
  <2>1. r \in EmitScalar(p)
    BY <1>1, <1>2, <1>6 DEF EmitNode
  <2>2. r \in Writes(p, PopState(p))
    BY <2>1 DEF EmitScalar, Fails, Result
  <2>. QED
    BY <1>5, <1>6, <2>2 DEF NodeWritten
<1>7. CASE Head(e.events).typ = "ALIAS"
  <2>1. r \in Writes(p, PopState(p))
    BY <1>1, <1>2, <1>7 DEF EmitNode, EmitAlias
  <2>. QED
    BY <1>5, <1>7, <2>1 DEF NodeWritten
<1>8. ASSUME NEW flow \in FlowFirst, NEW block \in BlockFirst, r \in EmitStart(p, flow, block),
             Head(e.events).typ \in {"SEQUENCE_START", "MAPPING_START"}
      PROVE  NodeWritten(e, st, r.emitter) /\ r.emitter.line_comment = e.line_comment
  <2>. DEFINE inFlow == p.flow_level > 0 \/ Head(p.events).inline \/ Empty(p.events)
              s == IF inFlow THEN flow ELSE block
              x == [p EXCEPT !.state = s]
  <2>1. r = Done(x) \/ r \in Writes(p, x)
    BY <1>8 DEF EmitStart
  <2>2. s \in FirstStates /\ s \in EmitterStates
    BY DEF FirstStates, EmitterStates
  <2>3. s \in BlockFirst => ~(e.flow_level > 0) /\ ~Empty(e.events)
    BY <1>1 DEF BlockFirst, FlowFirst
  <2>. HIDE DEF s
  <2>4. /\ x \in Emitters /\ x.state = s /\ x.states = p.states /\ Kept(p, x)
        /\ x.line_comment = p.line_comment
    BY <1>1, <2>2, StateFacts DEF Kept, Ready
  <2>. HIDE DEF x
  <2>5. /\ r.emitter.state = s /\ r.emitter.states = p.states /\ Kept(p, r.emitter)
        /\ r.emitter.line_comment = p.line_comment
    BY <2>1, <2>4, WritesDone DEF Kept, Done, Result
  <2>. QED
    BY <1>1, <1>8, <2>2, <2>3, <2>5 DEF NodeWritten, Kept
<1>9. CASE Head(e.events).typ = "SEQUENCE_START"
  BY <1>1, <1>2, <1>8, <1>9 DEF EmitNode, FlowFirst, BlockFirst
<1>10. CASE Head(e.events).typ = "MAPPING_START"
  BY <1>1, <1>2, <1>8, <1>10 DEF EmitNode, FlowFirst, BlockFirst
<1>11. CASE Head(e.events).typ \notin {"SCALAR", "ALIAS", "SEQUENCE_START", "MAPPING_START"}
  BY <1>1, <1>2, <1>11 DEF EmitNode, Refused, Result
<1>. QED
  BY <1>6, <1>7, <1>9, <1>10, <1>11

\* The comment behind a node is no longer pending.
LEMMA LineCommentDone ==
  ASSUME NEW e, e \in Emitters, NEW r \in LineComment(e), r.how = "done"
  PROVE  /\ Kept(e, r.emitter) /\ r.emitter.state = e.state /\ r.emitter.states = e.states
         /\ r.emitter.line_comment = FALSE
<1>. DEFINE x == [e EXCEPT !.line_comment = FALSE]
<1>1. x \in Emitters
  BY Updates
<1>2. Kept(e, x) /\ x.state = e.state /\ x.states = e.states /\ x.line_comment = FALSE
  BY DEF Kept, Emitters
<1>. HIDE DEF x
<1>3. CASE e.line_comment
  <2>1. r \in Writes(e, x)
    BY <1>3 DEF LineComment, x
  <2>. QED
    BY <1>1, <1>2, <2>1, WritesDone DEF Kept
<1>4. CASE ~e.line_comment
  <2>1. r.emitter = e
    BY <1>4 DEF LineComment, Done, Result
  <2>2. e.line_comment = FALSE
    BY <1>4, Fields
  <2>. QED
    BY <2>1, <2>2 DEF Kept
<1>. QED
  BY <1>3, <1>4

\* An item that succeeds has been written, its comment included.
LEMMA ItemDone ==
  ASSUME NEW e, Sane(e), NEW st \in ReturnStates, e.states # <<>> \/ st = "DOCUMENT_END",
         NEW r \in EmitItem(e, st), r.how = "done"
  PROVE  NodeWritten(e, st, r.emitter) /\ r.emitter.line_comment = FALSE
<1>1. PICK q \in EmitNode(PushState(e, st)) :
        r \in IF q.how = "done" THEN LineComment(q.emitter) ELSE {q}
  BY DEF EmitItem
<1>2. q.how = "done" /\ r \in LineComment(q.emitter)
  BY <1>1
<1>3. NodeWritten(e, st, q.emitter)
  BY <1>2, NodeDone
<1>4. q.emitter \in Emitters
  <2>1. Ready(PushState(e, st)) /\ Rooted(PushState(e, st))
    BY PushFacts
  <2>. QED
    BY <2>1, NodeFit DEF Fit, Sane
<1>5. /\ Kept(q.emitter, r.emitter) /\ r.emitter.state = q.emitter.state
      /\ r.emitter.states = q.emitter.states /\ r.emitter.line_comment = FALSE
  BY <1>2, <1>4, LineCommentDone
<1>. QED
  BY <1>3, <1>5 DEF NodeWritten, Kept

\* A collection that ends gives back its state and its indent.
Closed(e, x) ==
  /\ e.indents # <<>> /\ x.events = e.events
  /\ x.state = e.states[Len(e.states)] /\ x.states = Front(e.states)
  /\ x.indent = e.indents[Len(e.indents)] /\ x.indents = Front(e.indents)

\* The end of a flow collection takes the level with it, and no comment is left.
LEMMA FlowEndDone ==
  ASSUME NEW e, Ready(e), NEW r \in EmitFlowEnd(e), r.how = "done"
  PROVE  /\ Closed(e, r.emitter) /\ r.emitter.flow_level = e.flow_level - 1
         /\ r.emitter.line_comment = FALSE
<1>. DEFINE f == e.flow_level - 1
            left == [e EXCEPT !.flow_level = f]
            closed == [PopIndent(left) EXCEPT !.buffered = TRUE]
<1>1. left \in Emitters
  <2>1. f \in Int
    BY Fields DEF Ready
  <2>. HIDE DEF f
  <2>. QED
    BY <2>1, Updates DEF Ready
<1>2. /\ left.events = e.events /\ left.states = e.states /\ left.state = e.state
      /\ left.indents = e.indents /\ left.flow_level = f
  BY DEF Ready, Emitters
<1>3. left = [e EXCEPT !.flow_level = @ - 1]
  BY DEF Ready, Emitters
<1>. HIDE DEF left, f
<1>4. e.indents # <<>>
  BY <1>3 DEF EmitFlowEnd, Panics, Result
<1>5. /\ PopIndent(left) \in Emitters /\ PopIndent(left).states = e.states
      /\ PopIndent(left).events = e.events
      /\ PopIndent(left).indents = Front(e.indents)
      /\ PopIndent(left).indent = e.indents[Len(e.indents)] /\ PopIndent(left).flow_level = f
  BY <1>1, <1>2, <1>4, PopIndentFacts
<1>6. closed \in Emitters
  BY <1>5, Updates
<1>7. /\ closed.states = e.states /\ closed.events = e.events
      /\ closed.indents = Front(e.indents)
      /\ closed.indent = e.indents[Len(e.indents)] /\ closed.flow_level = f
  BY <1>5 DEF Emitters
<1>8. PICK q \in LineComment(closed) : r = IF q.how = "done" THEN Done(PopState(q.emitter)) ELSE q
  <2>1. \/ r = Fails(closed)
        \/ \E q \in LineComment(closed) : r = IF q.how = "done" THEN Done(PopState(q.emitter)) ELSE q
    BY <1>3, <1>4 DEF EmitFlowEnd
  <2>. HIDE DEF closed
  <2>2. Fails(closed).how = "failed"
    BY <1>6, FailsFacts
  <2>. QED
    BY <2>1, <2>2
<1>. HIDE DEF closed
<1>9. q.how = "done" /\ r.emitter = PopState(q.emitter)
  BY <1>8 DEF Done, Result
<1>10. /\ Kept(closed, q.emitter) /\ q.emitter.states = closed.states
       /\ q.emitter.line_comment = FALSE
  BY <1>6, <1>8, <1>9, LineCommentDone
<1>11. q.emitter \in Emitters
  <2>. DEFINE x == [closed EXCEPT !.line_comment = FALSE]
              y == [x EXCEPT !.buffered = TRUE]
  <2>1. x \in Emitters
    BY <1>6, Updates
  <2>. HIDE DEF x
  <2>2. y \in Emitters
    BY <2>1, Updates
  <2>3. q = Fails(closed) \/ q = Done(y) \/ q = Done(closed)
    BY <1>8 DEF LineComment, Writes, x
  <2>. HIDE DEF y
  <2>4. Fails(closed).emitter \in Emitters
    BY <1>6, FailsFacts
  <2>5. Done(y).emitter = y /\ Done(closed).emitter = closed
    BY DEF Done, Result
  <2>. QED
    BY <1>6, <2>2, <2>3, <2>4, <2>5
<1>12. Ready(q.emitter)
  BY <1>7, <1>10, <1>11 DEF Ready
<1>13. /\ PopState(q.emitter).state = q.emitter.states[Len(q.emitter.states)]
       /\ PopState(q.emitter).states = Front(q.emitter.states)
       /\ PopState(q.emitter).events = q.emitter.events
       /\ PopState(q.emitter).indent = q.emitter.indent
       /\ PopState(q.emitter).indents = q.emitter.indents
       /\ PopState(q.emitter).flow_level = q.emitter.flow_level
       /\ PopState(q.emitter).line_comment = q.emitter.line_comment
  BY <1>12, PopFacts
<1>. QED
  BY <1>4, <1>7, <1>9, <1>10, <1>13 DEF Closed, Kept, f

\* The end of a block collection leaves level and comments as they are.
LEMMA BlockEndDone ==
  ASSUME NEW e, Ready(e), NEW r \in EmitBlockEnd(e), r.how = "done"
  PROVE  /\ Closed(e, r.emitter) /\ r.emitter.flow_level = e.flow_level
         /\ r.emitter.line_comment = e.line_comment
<1>1. e.indents # <<>> /\ r = Done(PopState(PopIndent(e)))
  BY DEF EmitBlockEnd, Panics, Result
<1>2. /\ PopIndent(e) \in Emitters /\ PopIndent(e).states = e.states
      /\ PopIndent(e).events = e.events /\ PopIndent(e).flow_level = e.flow_level
      /\ PopIndent(e).indents = Front(e.indents)
      /\ PopIndent(e).indent = e.indents[Len(e.indents)]
      /\ PopIndent(e).line_comment = e.line_comment
  BY <1>1, PopIndentFacts DEF Ready
<1>3. Ready(PopIndent(e))
  BY <1>2 DEF Ready
<1>4. r.emitter = PopState(PopIndent(e))
  BY <1>1 DEF Done, Result
<1>. QED
  BY <1>1, <1>2, <1>3, <1>4, PopFacts DEF Closed

\* The collection of e has ended.
Ended(e, x) ==
  /\ Closed(e, x) /\ Head(e.events).typ \in {"SEQUENCE_END", "MAPPING_END"}
  /\ x.flow_level = IF e.flow_level > 0 THEN e.flow_level - 1 ELSE e.flow_level

\* An item of a flow sequence, or its end, has been written with its comment.
LEMMA FlowSequenceDone ==
  ASSUME NEW e, Ready(e), Rooted(e), e.flow_level > 0, NEW r \in FlowSequenceItem(e), r.how = "done"
  PROVE  /\ r.emitter.line_comment = FALSE
         /\ \/ Ended(e, r.emitter)
            \/ NodeWritten(e, IF e.line_comment THEN "FLOW_SEQUENCE_TRAIL_ITEM" ELSE "FLOW_SEQUENCE_ITEM",
                           r.emitter)
<1>. DEFINE st == IF e.line_comment THEN "FLOW_SEQUENCE_TRAIL_ITEM" ELSE "FLOW_SEQUENCE_ITEM"
<1>1. e \in Emitters /\ Sane(e) /\ e.states # <<>> /\ st \in ReturnStates
  BY DEF Ready, Sane, ReturnStates, FlowStates, Trails
<1>2. CASE Head(e.events).typ = "SEQUENCE_END"
  <2>1. r \in EmitFlowEnd(e)
    BY <1>2 DEF FlowSequenceItem
  <2>. QED
    BY <1>2, <2>1, FlowEndDone DEF Ended
<1>3. CASE Head(e.events).typ # "SEQUENCE_END"
  <2>1. r = Fails(e) \/ r \in EmitItem(e, st)
    BY <1>3 DEF FlowSequenceItem
  <2>. HIDE DEF st
  <2>2. r \in EmitItem(e, st)
    BY <1>1, <2>1, FailsFacts
  <2>3. NodeWritten(e, st, r.emitter) /\ r.emitter.line_comment = FALSE
    BY <1>1, <2>2, ItemDone
  <2>. QED
    BY <2>3 DEF st
<1>. QED
  BY <1>2, <1>3

\* A key of a flow mapping has been written without its comment, or its end with it.
LEMMA FlowKeyDone ==
  ASSUME NEW e, Ready(e), Rooted(e), e.flow_level > 0, NEW r \in FlowMappingKey(e), r.how = "done"
  PROVE  \/ Ended(e, r.emitter) /\ r.emitter.line_comment = FALSE
         \/ /\ r.emitter.line_comment = e.line_comment
            /\ NodeWritten(e, IF SimpleKey(e.events) THEN "FLOW_MAPPING_SIMPLE_VALUE"
                                                     ELSE "FLOW_MAPPING_VALUE", r.emitter)
<1>. DEFINE st == IF SimpleKey(e.events) THEN "FLOW_MAPPING_SIMPLE_VALUE" ELSE "FLOW_MAPPING_VALUE"
<1>1. e \in Emitters /\ Sane(e) /\ e.states # <<>> /\ st \in ReturnStates
  BY DEF Ready, Sane, ReturnStates, FlowStates
<1>2. r # Fails(e)
  BY <1>1, FailsFacts
<1>3. CASE Head(e.events).typ = "MAPPING_END"
  <2>1. r \in EmitFlowEnd(e)
    BY <1>2, <1>3 DEF FlowMappingKey
  <2>. QED
    BY <1>3, <2>1, FlowEndDone DEF Ended
<1>4. CASE Head(e.events).typ # "MAPPING_END"
  <2>1. r \in EmitNode(PushState(e, st))
    BY <1>2, <1>4 DEF FlowMappingKey
  <2>. HIDE DEF st
  <2>2. NodeWritten(e, st, r.emitter) /\ r.emitter.line_comment = e.line_comment
    BY <1>1, <2>1, NodeDone
  <2>. QED
    BY <2>2 DEF st
<1>. QED
  BY <1>3, <1>4

\* A value of a flow mapping has been written with its comment.
LEMMA FlowValueDone ==
  ASSUME NEW e, Ready(e), Rooted(e), NEW r \in EmitFlowMappingValue(e), r.how = "done"
  PROVE  /\ r.emitter.line_comment = FALSE
         /\ \E st \in {"FLOW_MAPPING_TRAIL_KEY", "FLOW_MAPPING_KEY"} : NodeWritten(e, st, r.emitter)
<1>. DEFINE st == IF e.line_comment THEN "FLOW_MAPPING_TRAIL_KEY" ELSE "FLOW_MAPPING_KEY"
<1>1. e \in Emitters /\ Sane(e) /\ e.states # <<>> /\ st \in ReturnStates
  BY DEF Ready, Sane, ReturnStates, FlowStates, Trails
<1>2. r = Fails(e) \/ r \in EmitItem(e, st)
  BY DEF EmitFlowMappingValue
<1>3. st \in {"FLOW_MAPPING_TRAIL_KEY", "FLOW_MAPPING_KEY"}
  OBVIOUS
<1>. HIDE DEF st
<1>4. r \in EmitItem(e, st)
  BY <1>1, <1>2, FailsFacts
<1>5. NodeWritten(e, st, r.emitter) /\ r.emitter.line_comment = FALSE
  BY <1>1, <1>4, ItemDone
<1>. QED
  BY <1>3, <1>5

\* An item of a block sequence has been written with its comment, or its end without.
LEMMA BlockSequenceDone ==
  ASSUME NEW e, Ready(e), Rooted(e), ~(e.flow_level > 0), NEW r \in BlockSequenceItem(e), r.how = "done"
  PROVE  \/ Ended(e, r.emitter) /\ r.emitter.line_comment = e.line_comment
         \/ NodeWritten(e, "BLOCK_SEQUENCE_ITEM", r.emitter) /\ r.emitter.line_comment = FALSE
<1>1. e \in Emitters /\ Sane(e) /\ e.states # <<>> /\ "BLOCK_SEQUENCE_ITEM" \in ReturnStates
  BY DEF Ready, Sane, ReturnStates, BlockStates
<1>2. CASE Head(e.events).typ = "SEQUENCE_END"
  <2>1. r \in EmitBlockEnd(e)
    BY <1>2 DEF BlockSequenceItem
  <2>. QED
    BY <1>2, <2>1, BlockEndDone DEF Ended
<1>3. CASE Head(e.events).typ # "SEQUENCE_END"
  <2>1. r = Fails(e) \/ r \in EmitItem(e, "BLOCK_SEQUENCE_ITEM")
    BY <1>3 DEF BlockSequenceItem
  <2>2. r \in EmitItem(e, "BLOCK_SEQUENCE_ITEM")
    BY <1>1, <2>1, FailsFacts
  <2>. QED
    BY <1>1, <2>2, ItemDone
<1>. QED
  BY <1>2, <1>3

\* A key of a block mapping has been written and its comment saved, or the mapping
\* has ended.
LEMMA BlockKeyDone ==
  ASSUME NEW e, Ready(e), Rooted(e), ~(e.flow_level > 0), NEW r \in BlockMappingKey(e), r.how = "done"
  PROVE  \/ Ended(e, r.emitter) /\ r.emitter.line_comment = e.line_comment
         \/ /\ r.emitter.line_comment = FALSE
            /\ NodeWritten(e, IF SimpleKey(e.events) THEN "BLOCK_MAPPING_SIMPLE_VALUE"
                                                     ELSE "BLOCK_MAPPING_VALUE", r.emitter)
<1>. DEFINE st == IF SimpleKey(e.events) THEN "BLOCK_MAPPING_SIMPLE_VALUE" ELSE "BLOCK_MAPPING_VALUE"
            a == e.key_line_comment \/ e.line_comment
            saved == Pending(e, FALSE, a)
<1>1. e \in Emitters /\ Sane(e) /\ e.states # <<>> /\ st \in ReturnStates
  BY DEF Ready, Sane, ReturnStates, BlockStates
<1>2. saved = [e EXCEPT !.key_line_comment = @ \/ e.line_comment, !.line_comment = FALSE]
  BY DEF Ready, Emitters, Pending
<1>3. a \in BOOLEAN
  OBVIOUS
<1>4. r # Fails(e)
  BY <1>1, FailsFacts
<1>5. /\ Ready(saved) /\ Rooted(saved) /\ saved \in Emitters /\ saved.events = e.events
      /\ saved.line_comment = FALSE
      /\ saved.states = e.states /\ saved.indent = e.indent /\ saved.indents = e.indents
      /\ saved.flow_level = e.flow_level
  <2>. HIDE DEF a
  <2>. QED
    BY <1>1, <1>3, CommentFacts
<1>6. CASE Head(e.events).typ = "MAPPING_END"
  <2>1. r \in EmitBlockEnd(e)
    BY <1>4, <1>6 DEF BlockMappingKey
  <2>. QED
    BY <1>6, <2>1, BlockEndDone DEF Ended
<1>7. CASE Head(e.events).typ # "MAPPING_END"
  <2>1. r = Fails(saved) \/ r \in EmitNode(PushState(saved, st))
    BY <1>2, <1>4, <1>7 DEF BlockMappingKey
  <2>. HIDE DEF st, saved
  <2>2. r \in EmitNode(PushState(saved, st))
    BY <1>5, <2>1, FailsFacts
  <2>3. Sane(saved) /\ saved.states # <<>>
    BY <1>5 DEF Sane, Ready
  <2>4. NodeWritten(saved, st, r.emitter) /\ r.emitter.line_comment = FALSE
    BY <1>1, <1>5, <2>2, <2>3, NodeDone
  <2>5. NodeWritten(e, st, r.emitter)
    BY <1>5, <2>4 DEF NodeWritten, Kept
  <2>. QED
    BY <2>4, <2>5 DEF st
<1>. QED
  BY <1>6, <1>7

\* A value of a block mapping has been written with a comment, its own or the key's.
LEMMA BlockValueDone ==
  ASSUME NEW e, Ready(e), Rooted(e), NEW r \in EmitBlockMappingValue(e), r.how = "done"
  PROVE  NodeWritten(e, "BLOCK_MAPPING_KEY", r.emitter) /\ r.emitter.line_comment = FALSE
<1>1. e \in Emitters /\ Sane(e) /\ e.line_comment \in BOOLEAN /\ e.key_line_comment \in BOOLEAN
  BY Fields DEF Ready, Sane
<1>2. \/ r = Fails(e) \/ r = Fails(Pending(e, TRUE, e.line_comment))
      \/ \E a, b \in BOOLEAN : r \in EmitItem(Pending(e, a, b), "BLOCK_MAPPING_KEY")
  BY <1>1, ValueCases
<1>3. r # Fails(e)
  BY <1>1, FailsFacts
<1>4. r # Fails(Pending(e, TRUE, e.line_comment))
  <2>1. TRUE \in BOOLEAN
    OBVIOUS
  <2>2. Pending(e, TRUE, e.line_comment) \in Emitters
    BY <1>1, <2>1, CommentFacts
  <2>. QED
    BY <2>2, FailsFacts
<1>5. PICK a \in BOOLEAN, b \in BOOLEAN : r \in EmitItem(Pending(e, a, b), "BLOCK_MAPPING_KEY")
  BY <1>2, <1>3, <1>4
<1>. DEFINE x == Pending(e, a, b)
<1>6. /\ Ready(x) /\ Rooted(x) /\ x \in Emitters /\ x.events = e.events
      /\ x.states = e.states /\ x.indent = e.indent /\ x.indents = e.indents
      /\ x.flow_level = e.flow_level
  BY <1>1, CommentFacts
<1>7. r \in EmitItem(x, "BLOCK_MAPPING_KEY")
  BY <1>5
<1>8. "BLOCK_MAPPING_KEY" \in ReturnStates
  BY DEF ReturnStates, BlockStates
<1>. HIDE DEF x
<1>9. Sane(x) /\ x.states # <<>>
  BY <1>6 DEF Sane, Ready
<1>10. NodeWritten(x, "BLOCK_MAPPING_KEY", r.emitter) /\ r.emitter.line_comment = FALSE
  BY <1>7, <1>8, <1>9, ItemDone
<1>. QED
  BY <1>6, <1>10 DEF NodeWritten, Kept

-----------------------------------------------------------------------------
(* The stacks                                                                *)

\* The first m of the collections around own an indent, each that of its level,
\* and the flow collections are the innermost of them.
Stacked(e, m) ==
  /\ e.flow_level \in 0..m /\ Len(e.indents) = m
  /\ \A i \in 1..m : e.indents[i] = IF i = 1 THEN -1 ELSE i - 1
  /\ \A l \in 2..Len(e.states) :
       /\ e.states[l] \in FlowStates \cup BlockStates
       /\ e.states[l] \in FlowStates <=> l > m + 1 - e.flow_level
\* Inside a collection, which has chosen its indent.
Nested(e) == Stacked(e, Len(e.states)) /\ e.indent = Len(e.states)
\* In front of a collection, which has not.
Awaits(e) ==
  /\ Stacked(e, Len(e.states) - 1)
  /\ e.indent = IF Len(e.states) = 1 THEN -1 ELSE Len(e.states) - 1
\* Outside of collections.
Flat(e) == e.indent = -1 /\ e.indents = <<>> /\ e.flow_level = 0

\* The stacks in any state.
Framed(e) ==
  /\ e.state \notin CollectionStates => Flat(e) /\ e.states = <<>>
  /\ e.state \in FlowStates => Nested(e) /\ e.flow_level > 0
  /\ e.state \in BlockStates => Nested(e) /\ ~(e.flow_level > 0)
  /\ e.state \in FirstStates => Awaits(e)
  /\ e.state \in BlockFirst => ~(e.flow_level > 0)

\* The kinds of states exclude each other.
LEMMA StateKinds ==
  /\ FlowStates \cap BlockStates = {} /\ FlowStates \cap FirstStates = {}
  /\ BlockStates \cap FirstStates = {} /\ FlowFirst \cap BlockFirst = {}
  /\ FirstStates = FlowFirst \cup BlockFirst
  /\ CollectionStates = FirstStates \cup FlowStates \cup BlockStates
  /\ "DOCUMENT_END" \notin CollectionStates
  /\ ReturnStates = {"DOCUMENT_END"} \cup FlowStates \cup BlockStates
  /\ SimpleValues \subseteq FlowStates \cup BlockStates
BY DEF FlowStates, BlockStates, FirstStates, FlowFirst, BlockFirst, Trails, CollectionStates,
       ReturnStates, SimpleValues

\* A collection that chooses its indent is inside.
LEMMA Opening ==
  ASSUME NEW e, Sane(e), Awaits(e), e.states # <<>>,
         NEW x, x.states = e.states, x.indents = Append(e.indents, e.indent),
         x.indent = Len(e.states),
         \/ x.flow_level = e.flow_level + 1
         \/ x.flow_level = e.flow_level /\ ~(e.flow_level > 0)
  PROVE  Nested(x)
<1>. DEFINE n == Len(e.states)
            t == Append(e.indents, e.indent)
<1>1. n \in Nat \ {0} /\ Len(x.states) = n
  BY Fields, EmptySeq, LenProperties DEF Sane
<1>2. /\ e.flow_level \in 0..n - 1 /\ Len(e.indents) = n - 1
      /\ \A i \in 1..n - 1 : e.indents[i] = IF i = 1 THEN -1 ELSE i - 1
      /\ \A l \in 2..n : /\ e.states[l] \in FlowStates \cup BlockStates
                         /\ e.states[l] \in FlowStates <=> l > n - e.flow_level
      /\ e.indent = IF n = 1 THEN -1 ELSE n - 1
  <2>1. n - 1 + 1 = n
    BY <1>1
  <2>. HIDE DEF n
  <2>. QED
    BY <2>1 DEF Awaits, Stacked, n
<1>3. e.indents \in Seq(Indents) /\ e.indent \in Indents
  BY Fields DEF Sane
<1>. HIDE DEF n
<1>4. Len(t) = n /\ \A i \in 1..n : t[i] = IF i = 1 THEN -1 ELSE i - 1
  <2>1. /\ Len(t) = Len(e.indents) + 1 /\ t[Len(e.indents) + 1] = e.indent
        /\ \A i \in 1..Len(e.indents) : t[i] = e.indents[i]
    BY <1>3, AppendFacts
  <2>. HIDE DEF t
  <2>2. \A i \in 1..n : i = n \/ i \in 1..n - 1
    BY <1>1
  <2>. QED
    BY <1>1, <1>2, <2>1, <2>2
<1>5. /\ x.flow_level \in 0..n
      /\ \A l \in 2..n : l > n - e.flow_level <=> l > n + 1 - x.flow_level
  BY <1>1, <1>2
<1>. QED
  BY <1>1, <1>2, <1>4, <1>5 DEF Nested, Stacked, n

\* The height of a sequence of states.
LEMMA Heights ==
  ASSUME NEW e, e \in Emitters
  PROVE  Len(e.states) \in Nat /\ (e.states = <<>> <=> Len(e.states) = 0) /\ e.flow_level \in Int
BY Fields, EmptySeq, LenProperties

\* A node that is written inside a collection leaves the stacks in order.
LEMMA NodeFramed ==
  ASSUME NEW e, Sane(e), e.states # <<>>, Nested(e),
         NEW st \in FlowStates \cup BlockStates, st \in FlowStates <=> e.flow_level > 0,
         NEW x, Sane(x), NodeWritten(e, st, x)
  PROVE  Framed(x)
<1>. DEFINE n == Len(e.states)
<1>1. n \in Nat \ {0}
  BY Heights DEF Sane
<1>2. /\ x.indent = e.indent /\ x.indents = e.indents /\ x.flow_level = e.flow_level
  BY DEF NodeWritten, Kept
<1>3. /\ e.flow_level \in 0..n /\ Len(e.indents) = n
      /\ \A i \in 1..n : e.indents[i] = IF i = 1 THEN -1 ELSE i - 1
      /\ \A l \in 2..n : /\ e.states[l] \in FlowStates \cup BlockStates
                         /\ e.states[l] \in FlowStates <=> l > n + 1 - e.flow_level
      /\ e.indent = n
  BY DEF Nested, Stacked
<1>4. CASE x.state = st /\ x.states = e.states
  <2>1. Nested(x)
    BY <1>2, <1>4 DEF Nested, Stacked
  <2>. QED
    BY <1>2, <1>4, <2>1, StateKinds DEF Framed
<1>5. CASE /\ x.state \in FirstStates /\ x.states = Append(e.states, st)
           /\ x.state \in BlockFirst => ~(e.flow_level > 0) /\ ~Empty(e.events)
  <2>. DEFINE t == Append(e.states, st)
  <2>1. e.states \in Seq(ReturnStates) /\ st \in ReturnStates
    BY Fields, StateKinds DEF Sane
  <2>2. /\ Len(t) = n + 1 /\ t[n + 1] = st /\ \A l \in 1..n : t[l] = e.states[l]
    BY <2>1, AppendFacts
  <2>. HIDE DEF n, t
  <2>3. \A l \in 2..n + 1 : (l \in 2..n /\ l \in 1..n) \/ l = n + 1
    BY <1>1
  <2>4. \A l \in 2..n + 1 : /\ t[l] \in FlowStates \cup BlockStates
                            /\ t[l] \in FlowStates <=> l > n + 1 - e.flow_level
    <3>1. ASSUME NEW l \in 2..n PROVE t[l] = e.states[l]
      BY <1>1, <2>2, <2>3
    <3>2. e.flow_level > 0 <=> n + 1 > n + 1 - e.flow_level
      BY <1>1, <1>3
    <3>. QED
      BY <1>3, <2>2, <2>3, <3>1, <3>2
  <2>5. Len(x.states) = n + 1 /\ x.states = t /\ n + 1 - 1 = n /\ n + 1 # 1
    BY <1>1, <1>5, <2>2 DEF t
  <2>6. Awaits(x)
    <3>1. Stacked(x, n)
      BY <1>2, <1>3, <2>4, <2>5 DEF Stacked
    <3>. QED
      BY <1>2, <1>3, <2>5, <3>1 DEF Awaits
  <2>. QED
    BY <1>2, <1>5, <2>6, StateKinds DEF Framed
<1>. QED
  BY <1>4, <1>5 DEF NodeWritten

\* So does the root of a document.
LEMMA RootFramed ==
  ASSUME NEW e, Sane(e), e.states = <<>>, Flat(e),
         NEW x, Sane(x), NodeWritten(e, "DOCUMENT_END", x)
  PROVE  Framed(x)
<1>1. /\ x.indent = -1 /\ x.indents = <<>> /\ x.flow_level = 0
  BY DEF NodeWritten, Kept, Flat
<1>2. CASE x.state = "DOCUMENT_END" /\ x.states = e.states
  BY <1>1, <1>2, StateKinds DEF Framed, Flat
<1>3. CASE /\ x.state \in FirstStates /\ x.states = Append(e.states, "DOCUMENT_END")
  <2>1. Len(x.states) = 1
    <3>1. e.states \in Seq(ReturnStates) /\ "DOCUMENT_END" \in ReturnStates
      BY Fields, StateKinds DEF Sane
    <3>2. Len(Append(e.states, "DOCUMENT_END")) = Len(e.states) + 1
      BY <3>1, AppendFacts
    <3>. QED
      BY <1>3, <3>2
  <2>2. Stacked(x, 0)
    BY <1>1, <2>1 DEF Stacked
  <2>3. Awaits(x)
    BY <1>1, <2>1, <2>2 DEF Awaits
  <2>. QED
    BY <1>1, <1>3, <2>3, StateKinds DEF Framed
<1>. QED
  BY <1>2, <1>3 DEF NodeWritten

\* A collection that ends restores what its start has saved.
LEMMA EndFramed ==
  ASSUME NEW e, Ready(e), Nested(e), NEW x, Sane(x), Ended(e, x)
  PROVE  Framed(x)
<1>. DEFINE n == Len(e.states)
<1>1. n \in Nat \ {0}
  BY Heights DEF Ready
<1>2. /\ e.flow_level \in 0..n /\ Len(e.indents) = n
      /\ \A i \in 1..n : e.indents[i] = IF i = 1 THEN -1 ELSE i - 1
      /\ \A l \in 2..n : /\ e.states[l] \in FlowStates \cup BlockStates
                         /\ e.states[l] \in FlowStates <=> l > n + 1 - e.flow_level
  BY DEF Nested, Stacked
<1>3. /\ e.states[1] = "DOCUMENT_END" /\ x.state = e.states[n] /\ x.states = Front(e.states)
      /\ x.indent = e.indents[n] /\ x.indents = Front(e.indents)
      /\ x.flow_level = IF e.flow_level > 0 THEN e.flow_level - 1 ELSE e.flow_level
  BY <1>2 DEF Ended, Closed, Ready
<1>4. /\ Len(x.states) = n - 1 /\ \A l \in 1..n - 1 : x.states[l] = e.states[l]
      /\ x.states = <<>> <=> n = 1
  <2>1. e.states \in Seq(ReturnStates) /\ e.states # <<>>
    BY Fields DEF Ready
  <2>. QED
    BY <1>3, <2>1, FrontFacts
<1>5. /\ Len(x.indents) = n - 1 /\ \A l \in 1..n - 1 : x.indents[l] = e.indents[l]
      /\ x.indents = <<>> <=> n = 1
  <2>1. e.indents \in Seq(Indents) /\ e.indents # <<>>
    BY Fields DEF Ready, Ended, Closed
  <2>2. /\ Len(Front(e.indents)) = Len(e.indents) - 1
        /\ \A l \in 1..Len(e.indents) - 1 : Front(e.indents)[l] = e.indents[l]
        /\ Front(e.indents) = <<>> <=> Len(e.indents) = 1
    BY <2>1, FrontFacts
  <2>3. Len(e.indents) = n /\ x.indents = Front(e.indents)
    BY <1>2, <1>3
  <2>. HIDE DEF n
  <2>. QED
    BY <2>2, <2>3
<1>. HIDE DEF n
<1>6. x.flow_level \in Int
  BY <1>2, <1>3
<1>7. CASE n = 1
  <2>1. x.state = "DOCUMENT_END" /\ x.states = <<>> /\ x.indents = <<>>
    BY <1>3, <1>4, <1>5, <1>7
  <2>2. x.indent = -1 /\ x.flow_level = 0
    BY <1>2, <1>3, <1>7
  <2>. QED
    BY <2>1, <2>2, StateKinds DEF Framed, Flat
<1>8. CASE n > 1
  <2>1. /\ n \in 2..n /\ n \in 1..n /\ x.indent = n - 1
        /\ x.state \in FlowStates \cup BlockStates
        /\ x.state \in FlowStates <=> n > n + 1 - e.flow_level
    BY <1>1, <1>2, <1>3, <1>8
  <2>2. /\ x.flow_level \in 0..n - 1
        /\ n > n + 1 - e.flow_level <=> x.flow_level > 0
        /\ \A l \in 2..n - 1 : l > n + 1 - e.flow_level <=> l > n - 1 + 1 - x.flow_level
    <3>. DEFINE f == e.flow_level
                g == x.flow_level
    <3>1. f \in 0..n /\ g = IF f > 0 THEN f - 1 ELSE f
      BY <1>2, <1>3
    <3>. HIDE DEF f, g
    <3>2. g \in 0..n - 1 /\ (n > n + 1 - f <=> g > 0)
      BY <1>1, <1>8, <3>1
    <3>3. ASSUME NEW l \in 2..n - 1 PROVE l > n + 1 - f <=> l > n - 1 + 1 - g
      BY <1>1, <3>1
    <3>. QED
      BY <3>2, <3>3 DEF f, g
  <2>3. Stacked(x, n - 1)
    <3>1. \A l \in 2..n - 1 : l \in 2..n /\ l \in 1..n - 1
      BY <1>1
    <3>2. \A l \in 1..n - 1 : l \in 1..n
      BY <1>1
    <3>3. \A l \in 2..n - 1 : /\ x.states[l] \in FlowStates \cup BlockStates
                              /\ x.states[l] \in FlowStates <=> l > n - 1 + 1 - x.flow_level
      BY <1>2, <1>4, <2>2, <3>1
    <3>4. \A i \in 1..n - 1 : x.indents[i] = IF i = 1 THEN -1 ELSE i - 1
      BY <1>2, <1>5, <3>2
    <3>. QED
      BY <1>4, <1>5, <2>2, <3>3, <3>4 DEF Stacked
  <2>4. Nested(x)
    BY <1>4, <2>1, <2>3 DEF Nested
  <2>. QED
    BY <2>1, <2>2, <2>4, StateKinds DEF Framed
<1>. QED
  BY <1>1, <1>7, <1>8

-----------------------------------------------------------------------------
(* A step inside a collection                                                *)

\* The collection of e has chosen its indent: what its handler works on.
Inside(e, o) ==
  /\ Ready(o) /\ Rooted(o) /\ Nested(o)
  /\ o.events = e.events /\ o.states = e.states /\ o.line_comment = e.line_comment

\* States in which the comment of a key may be pending.
KeyDone == {"FLOW_MAPPING_SIMPLE_VALUE", "FLOW_MAPPING_VALUE"}

\* The states a node of a collection can return to.
Target(e, st) ==
  /\ st \in FlowStates \cup BlockStates
  /\ st \in SimpleValues => SimpleKey(e.events)
  /\ st = "FLOW_SEQUENCE_TRAIL_ITEM" => e.line_comment /\ e.state \notin KeyDone

\* The collection has ended, or a node of it has been written; a comment is left
\* only behind a block collection or a flow key.
Moved(e, o, x) ==
  \/ /\ Ended(o, x)
     /\ x.line_comment => e.line_comment /\ ~(o.flow_level > 0)
  \/ \E st : /\ Target(e, st) /\ NodeWritten(o, st, x)
             /\ st \in FlowStates <=> o.flow_level > 0
             /\ x.line_comment => e.line_comment /\ st \in KeyDone /\ e.state \notin KeyDone

\* What a handler does with a collection that has chosen its indent.
LEMMA FlowMoved ==
  ASSUME NEW e, NEW o, Inside(e, o), o.flow_level > 0, NEW r, r.how = "done",
         \/ /\ e.state \notin KeyDone
            /\ r \in FlowSequenceItem(o) \/ r \in FlowMappingKey(o)
         \/ r \in EmitFlowMappingValue(o)
  PROVE  Moved(e, o, r.emitter)
<1>1. Ready(o) /\ Rooted(o) /\ o.events = e.events /\ o.line_comment = e.line_comment
  BY DEF Inside
<1>. DEFINE Written(st) == NodeWritten(o, st, r.emitter)
<1>2. CASE e.state \notin KeyDone /\ r \in FlowSequenceItem(o)
  <2>1. /\ r.emitter.line_comment = FALSE
        /\ \/ Ended(o, r.emitter)
           \/ Written(IF o.line_comment THEN "FLOW_SEQUENCE_TRAIL_ITEM" ELSE "FLOW_SEQUENCE_ITEM")
    BY <1>1, <1>2, FlowSequenceDone
  <2>2. /\ "FLOW_SEQUENCE_ITEM" \in FlowStates /\ "FLOW_SEQUENCE_TRAIL_ITEM" \in FlowStates
        /\ "FLOW_SEQUENCE_ITEM" \notin SimpleValues /\ "FLOW_SEQUENCE_TRAIL_ITEM" \notin SimpleValues
    BY DEF FlowStates, Trails, SimpleValues
  <2>3. CASE o.line_comment /\ Written("FLOW_SEQUENCE_TRAIL_ITEM")
    BY <1>1, <1>2, <2>1, <2>2, <2>3 DEF Moved, Target
  <2>4. CASE ~o.line_comment /\ Written("FLOW_SEQUENCE_ITEM")
    BY <1>1, <1>2, <2>1, <2>2, <2>4 DEF Moved, Target
  <2>5. CASE Ended(o, r.emitter)
    BY <2>1, <2>5 DEF Moved
  <2>. QED
    BY <2>1, <2>3, <2>4, <2>5
<1>3. CASE e.state \notin KeyDone /\ r \in FlowMappingKey(o)
  <2>1. \/ Ended(o, r.emitter) /\ r.emitter.line_comment = FALSE
        \/ /\ r.emitter.line_comment = o.line_comment
           /\ Written(IF SimpleKey(o.events) THEN "FLOW_MAPPING_SIMPLE_VALUE" ELSE "FLOW_MAPPING_VALUE")
    BY <1>1, <1>3, FlowKeyDone
  <2>2. /\ "FLOW_MAPPING_SIMPLE_VALUE" \in FlowStates /\ "FLOW_MAPPING_VALUE" \in FlowStates
        /\ "FLOW_MAPPING_VALUE" \notin SimpleValues
        /\ {"FLOW_MAPPING_SIMPLE_VALUE", "FLOW_MAPPING_VALUE"} = KeyDone
    BY DEF FlowStates, Trails, SimpleValues, KeyDone
  <2>3. CASE /\ SimpleKey(o.events) /\ Written("FLOW_MAPPING_SIMPLE_VALUE")
             /\ r.emitter.line_comment = o.line_comment
    BY <1>1, <1>3, <2>2, <2>3 DEF Moved, Target
  <2>4. CASE /\ Written("FLOW_MAPPING_VALUE") /\ r.emitter.line_comment = o.line_comment
    BY <1>1, <1>3, <2>2, <2>4 DEF Moved, Target
  <2>5. CASE Ended(o, r.emitter) /\ r.emitter.line_comment = FALSE
    BY <2>5 DEF Moved
  <2>. QED
    BY <2>1, <2>3, <2>4, <2>5
<1>4. CASE r \in EmitFlowMappingValue(o)
  <2>1. PICK st \in {"FLOW_MAPPING_TRAIL_KEY", "FLOW_MAPPING_KEY"} : Written(st)
    BY <1>1, <1>4, FlowValueDone
  <2>2. r.emitter.line_comment = FALSE
    BY <1>1, <1>4, FlowValueDone
  <2>3. st \in FlowStates /\ st \notin SimpleValues /\ st # "FLOW_SEQUENCE_TRAIL_ITEM"
    BY DEF FlowStates, Trails, SimpleValues
  <2>. QED
    BY <2>1, <2>2, <2>3 DEF Moved, Target
<1>. QED
  BY <1>2, <1>3, <1>4

\* The same of a block collection.
LEMMA BlockMoved ==
  ASSUME NEW e, NEW o, Inside(e, o), ~(o.flow_level > 0), NEW r, r.how = "done",
         r \in BlockSequenceItem(o) \/ r \in BlockMappingKey(o) \/ r \in EmitBlockMappingValue(o)
  PROVE  Moved(e, o, r.emitter)
<1>1. Ready(o) /\ Rooted(o) /\ o.events = e.events /\ o.line_comment = e.line_comment
  BY DEF Inside
<1>. DEFINE Written(st) == NodeWritten(o, st, r.emitter) /\ r.emitter.line_comment = FALSE
<1>2. \A st \in BlockStates : st \notin FlowStates /\ st # "FLOW_SEQUENCE_TRAIL_ITEM"
  BY DEF BlockStates, FlowStates, Trails
<1>3. ASSUME NEW st \in BlockStates, Written(st), st \in SimpleValues => SimpleKey(o.events)
      PROVE  Moved(e, o, r.emitter)
  <2>1. Target(e, st)
    BY <1>1, <1>2, <1>3 DEF Target
  <2>. QED
    BY <1>2, <1>3, <2>1 DEF Moved
<1>4. CASE Ended(o, r.emitter) /\ r.emitter.line_comment = o.line_comment
  BY <1>1, <1>4 DEF Moved
<1>5. /\ BlockStates = {"BLOCK_SEQUENCE_ITEM", "BLOCK_MAPPING_KEY", "BLOCK_MAPPING_SIMPLE_VALUE",
                        "BLOCK_MAPPING_VALUE"}
      /\ "BLOCK_SEQUENCE_ITEM" \notin SimpleValues /\ "BLOCK_MAPPING_KEY" \notin SimpleValues
      /\ "BLOCK_MAPPING_VALUE" \notin SimpleValues
  BY DEF BlockStates, SimpleValues
<1>6. CASE r \in BlockSequenceItem(o)
  <2>1. \/ Ended(o, r.emitter) /\ r.emitter.line_comment = o.line_comment
        \/ Written("BLOCK_SEQUENCE_ITEM")
    BY <1>1, <1>6, BlockSequenceDone
  <2>. HIDE DEF Written
  <2>. QED
    BY <1>3, <1>4, <1>5, <2>1
<1>7. CASE r \in BlockMappingKey(o)
  <2>1. \/ Ended(o, r.emitter) /\ r.emitter.line_comment = o.line_comment
        \/ Written(IF SimpleKey(o.events) THEN "BLOCK_MAPPING_SIMPLE_VALUE" ELSE "BLOCK_MAPPING_VALUE")
    BY <1>1, <1>7, BlockKeyDone
  <2>. HIDE DEF Written
  <2>. QED
    BY <1>3, <1>4, <1>5, <2>1
<1>8. CASE r \in EmitBlockMappingValue(o)
  <2>1. Written("BLOCK_MAPPING_KEY")
    BY <1>1, <1>8, BlockValueDone
  <2>. HIDE DEF Written
  <2>. QED
    BY <1>3, <1>5, <2>1
<1>. QED
  BY <1>6, <1>7, <1>8

\* Whatever succeeds inside a collection is an item, a key, a value or its end.
LEMMA CollectionMoved ==
  ASSUME NEW e, Sane(e), Framed(e), e.state \in CollectionStates, NEW r \in Attempt(e), r.how = "done"
  PROVE  \E o : /\ Inside(e, o) /\ Moved(e, o, r.emitter)
                /\ o.flow_level > 0 <=> e.state \notin BlockStates \cup BlockFirst
<1>1. e \in Emitters /\ Ready(e) /\ e.states # <<>>
  BY DEF Sane, Rooted, Ready
<1>2. Rooted(e) /\ r # Fails(e)
  BY <1>1, FailsFacts DEF Sane
<1>3. e.flow_level \in Int
  BY <1>1, Fields
<1>4. CASE e.state \in FlowStates
  <2>1. Inside(e, e) /\ e.flow_level > 0 /\ e.state \notin BlockStates \cup BlockFirst
    BY <1>1, <1>2, <1>4, StateKinds DEF Inside, Framed
  <2>2. \/ /\ e.state \notin KeyDone
           /\ r \in FlowSequenceItem(e) \/ r \in FlowMappingKey(e)
        \/ r \in EmitFlowMappingValue(e)
    BY <1>2, <1>4 DEF Attempt, FlowStates, Trails, KeyDone
  <2>. QED
    BY <2>1, <2>2, FlowMoved
<1>5. CASE e.state \in BlockStates
  <2>1. Inside(e, e) /\ ~(e.flow_level > 0)
    BY <1>1, <1>2, <1>5, StateKinds DEF Inside, Framed
  <2>2. r \in BlockSequenceItem(e) \/ r \in BlockMappingKey(e) \/ r \in EmitBlockMappingValue(e)
    BY <1>2, <1>5 DEF Attempt, BlockStates
  <2>. QED
    BY <1>5, <2>1, <2>2, BlockMoved
<1>6. CASE e.state \in FlowFirst
  <2>. DEFINE o == FlowOpened(e)
  <2>1. /\ o \in Emitters /\ o.indents = Append(e.indents, e.indent)
        /\ o.indent = Len(e.states) /\ o.flow_level = e.flow_level + 1
        /\ o.states = e.states /\ o.state = e.state /\ o.events = e.events
        /\ o.line_comment = e.line_comment
    BY <1>1, OpenedFacts
  <2>2. /\ e.state \notin KeyDone
        /\ r \in FlowSequenceItem(o) \/ r \in FlowMappingKey(o)
    BY <1>2, <1>6 DEF Attempt, FlowFirst, KeyDone
  <2>3. Awaits(e) /\ e.state \notin BlockStates \cup BlockFirst
    BY <1>6, StateKinds DEF Framed
  <2>. HIDE DEF o
  <2>4. Ready(o) /\ Rooted(o)
    BY <1>1, <1>2, <2>1 DEF Ready, Rooted
  <2>5. Nested(o)
    BY <1>1, <2>1, <2>3, Opening
  <2>6. o.flow_level > 0
    <3>1. e.flow_level \in 0..Len(e.states) - 1 /\ Len(e.states) \in Nat
      BY <1>1, <2>3, Heights DEF Awaits, Stacked
    <3>. QED
      BY <1>3, <2>1, <3>1
  <2>7. Inside(e, o)
    BY <2>1, <2>4, <2>5 DEF Inside
  <2>. QED
    BY <2>2, <2>3, <2>6, <2>7, FlowMoved
<1>7. CASE e.state \in BlockFirst
  <2>. DEFINE o == IncreaseIndent(e)
  <2>1. /\ o \in Emitters /\ o.indents = Append(e.indents, e.indent)
        /\ o.indent = Len(e.states) /\ o.flow_level = e.flow_level
        /\ o.states = e.states /\ o.state = e.state /\ o.events = e.events
        /\ o.line_comment = e.line_comment
    BY <1>1, IndentFacts
  <2>2. r \in BlockSequenceItem(o) \/ r \in BlockMappingKey(o)
    BY <1>2, <1>7 DEF Attempt, BlockFirst
  <2>3. Awaits(e) /\ ~(e.flow_level > 0)
    BY <1>7, StateKinds DEF Framed
  <2>. HIDE DEF o
  <2>4. Ready(o) /\ Rooted(o)
    BY <1>1, <1>2, <2>1 DEF Ready, Rooted
  <2>5. Nested(o)
    BY <1>1, <2>1, <2>3, Opening
  <2>6. Inside(e, o) /\ ~(o.flow_level > 0)
    BY <2>1, <2>3, <2>4, <2>5 DEF Inside
  <2>. QED
    BY <1>7, <2>2, <2>6, BlockMoved
<1>. QED
  BY <1>4, <1>5, <1>6, <1>7, StateKinds

-----------------------------------------------------------------------------
(* The queue                                                                 *)

Openings == {"SEQUENCE_START", "MAPPING_START"}
Closings == {"SEQUENCE_END", "MAPPING_END"}
Outside == {"STREAM_START", "FIRST_DOCUMENT_START", "DOCUMENT_START", "END"}

\* How many nodes are open around what comes next, the document included.
Height(e) == IF e.state \in Outside THEN 0 ELSE Len(e.states) + 1

\* Where an event leads from one height to the next.
Follows(a, typ, b) ==
  \/ typ \in {"STREAM_START", "STREAM_END"} /\ a = 0 /\ b = 0
  \/ typ = "DOCUMENT_START" /\ a = 0 /\ b = 1
  \/ typ = "DOCUMENT_END" /\ a = 1 /\ b = 0
  \/ typ \in Openings /\ a >= 1 /\ b = a + 1
  \/ typ \in Closings /\ a >= 2 /\ b = a - 1
  \/ typ \in {"SCALAR", "ALIAS"} /\ a >= 1 /\ b = a

\* Behind the start of a collection, an end is its own.
Paired(q) ==
  \A i \in 1..Len(q) - 1 :
    q[i].typ \in Openings /\ q[i + 1].typ \in Ends => q[i + 1].typ = EndOf[q[i].typ]

\* A collection that is a key without `?' is empty, and so are the brackets.
Simple(e) ==
  \A l \in DOMAIN e.states :
    e.states[l] \in SimpleValues =>
      /\ l = Len(e.states) /\ e.state \in FlowFirst
      /\ e.events # <<>> /\ Head(e.events).typ \in Ends
\* A block collection has an item or a key.
Filled(e) == e.state \in BlockFirst => e.events # <<>> /\ Head(e.events).typ \notin Ends
\* A pending comment belongs to a key in brackets.
Tidy(e) ==
  /\ e.line_comment => e.state \in KeyDone
  /\ \A l \in DOMAIN e.states : e.states[l] # "FLOW_SEQUENCE_TRAIL_ITEM"

\* The start of a collection is written when the event behind it has come.
LEMMA StartLooksAhead ==
  ASSUME NEW q \in Seq(Events), q # <<>>, ~NeedMoreEvents(q), Head(q).typ \in Openings
  PROVE  Len(q) >= 2
<1>. DEFINE len == Len(q)
            A(n) == {i \in 1..n : q[i].typ \in Starts}
            B(n) == {i \in 1..n : q[i].typ \in Ends}
<1>1. len \in Nat \ {0} /\ Head(q) = q[1]
  BY HeadFacts
<1>2. ASSUME len = 1 PROVE FALSE
  <2>1. Accumulate[Head(q).typ] >= 1 /\ Head(q).typ \in DOMAIN Accumulate
    BY DEF Accumulate, Openings
  <2>2. \E n \in 1..1 : Level(q, n) = 0
    BY <1>2, <2>1 DEF NeedMoreEvents
  <2>3. Level(q, 1) = Cardinality(A(1)) - Cardinality(B(1))
    BY DEF Level
  <2>4. A(1) = {1} /\ B(1) = {}
    BY <1>1 DEF Openings, Starts, Ends
  <2>. HIDE DEF A, B
  <2>5. Cardinality(A(1)) = 1 /\ Cardinality(B(1)) = 0
    <3>1. Cardinality(A(1)) = Cardinality({1}) /\ Cardinality(B(1)) = Cardinality({})
      BY <2>4, Zenon
    <3>. QED
      BY <3>1, FS_Singleton, FS_EmptySet
  <2>6. Level(q, 1) = 1
    BY <2>3, <2>5
  <2>. QED
    BY <2>2, <2>6
<1>. HIDE DEF len
<1>3. len >= 2
  BY <1>1, <1>2
<1>. QED
  BY <1>3 DEF len

\* An empty collection is one whose end is next.
LEMMA EmptyMeansEnd ==
  ASSUME NEW q \in Seq(Events), Len(q) >= 2, Head(q).typ \in Openings, Paired(q)
  PROVE  Empty(q) <=> Head(Tail(q)).typ \in Ends
<1>1. /\ Head(q) = q[1] /\ Len(q) \in Nat \ {0} /\ Tail(q) \in Seq(Events)
      /\ Len(Tail(q)) = Len(q) - 1 /\ \A i \in 1..Len(Tail(q)) : Tail(q)[i] = q[i + 1]
  <2>1. q # <<>>
    BY EmptySeq
  <2>. QED
    BY <2>1, HeadFacts
<1>2. Tail(q) # <<>> /\ Tail(q)[1] = q[2]
  <2>1. 1 \in 1..Len(Tail(q)) /\ Len(Tail(q)) # 0 /\ 1 + 1 = 2
    BY <1>1
  <2>2. Tail(q)[1] = q[2]
    BY <1>1, <2>1
  <2>3. Tail(q) # <<>>
    BY <2>1, EmptySeq
  <2>. QED
    BY <2>2, <2>3
<1>3. Head(Tail(q)) = q[2]
  BY <1>1, <1>2, HeadFacts
<1>4. 1 \in 1..Len(q) - 1 /\ 1 + 1 = 2
  BY <1>1
<1>5. q[2].typ \in Ends => q[2].typ = EndOf[q[1].typ]
  BY <1>1, <1>4 DEF Paired
<1>6. EndOf[Head(q).typ] \in Ends
  BY DEF EndOf, Ends, Openings
<1>. QED
  BY <1>1, <1>3, <1>5, <1>6 DEF Empty

\* The kinds of events and of states that do not meet.
LEMMA EventKinds ==
  /\ Openings \cap Ends = {} /\ {"SCALAR", "ALIAS"} \cap Ends = {} /\ Closings \subseteq Ends
  /\ CollectionStates \cap Outside = {} /\ ReturnStates \cap Outside = {}
  /\ ReturnStates \cap FirstStates = {} /\ "DOCUMENT_CONTENT" \notin Outside
  /\ "DOCUMENT_CONTENT" \notin CollectionStates
BY DEF Openings, Ends, Closings, Outside, CollectionStates, ReturnStates, FirstStates, FlowFirst,
       BlockFirst, FlowStates, BlockStates, Trails

\* Behind a node the heights agree, a key in brackets is closed by the next event,
\* and a block collection that was opened has something in it.
LEMMA NodeNext ==
  ASSUME NEW e, Sane(e), e.events # <<>>, ~NeedMoreEvents(e.events), Paired(e.events), Simple(e),
         e.state \notin Outside,
         NEW o, o.events = e.events, o.states = e.states,
         NEW st \in ReturnStates, st \in SimpleValues => SimpleKey(e.events),
         NEW x, Sane(x), NodeWritten(o, st, x)
  PROVE  /\ Follows(Height(e), Head(e.events).typ, Height(x))
         /\ Simple(Consumed(x)) /\ Filled(Consumed(x))
<1>. DEFINE n == Len(e.states)
            head == Head(e.events).typ
            t == Append(e.states, st)
<1>1. /\ e.events \in Seq(Events) /\ e.states \in Seq(ReturnStates) /\ n \in Nat
      /\ x.events = e.events /\ x.states \in Seq(ReturnStates) /\ x.state \in EmitterStates
  BY Fields, Heights DEF Sane, NodeWritten, Kept
<1>2. /\ Consumed(x).events = Tail(e.events) /\ Consumed(x).states = x.states
      /\ Consumed(x).state = x.state
  BY <1>1, ConsumedFacts
<1>3. Height(e) = n + 1
  BY DEF Height
<1>4. DOMAIN e.states = 1..n
  BY <1>1
<1>5. CASE head \in {"SCALAR", "ALIAS"} /\ x.state = st /\ x.states = e.states
  <2>1. Height(x) = n + 1
    BY <1>5, EventKinds DEF Height
  <2>2. Follows(Height(e), head, Height(x))
    <3>. HIDE DEF n, head
    <3>. QED
      BY <1>1, <1>3, <1>5, <2>1 DEF Follows
  <2>3. \A l \in DOMAIN x.states : x.states[l] \notin SimpleValues
    BY <1>5, EventKinds DEF Simple
  <2>. QED
    BY <1>2, <1>5, <2>2, <2>3, EventKinds, StateKinds DEF Simple, Filled
<1>6. CASE /\ head \in Openings /\ x.state \in FirstStates /\ x.states = t
           /\ x.state \in BlockFirst => ~Empty(e.events)
  <2>1. /\ Len(t) = n + 1 /\ t[n + 1] = st /\ \A l \in 1..n : t[l] = e.states[l]
        /\ DOMAIN t = 1..n + 1
    <3>1. t \in Seq(ReturnStates)
      BY <1>1, AppendFacts
    <3>. QED
      BY <1>1, <3>1, AppendFacts
  <2>2. Height(x) = n + 2
    <3>1. x.state \notin Outside
      BY <1>6, EventKinds DEF CollectionStates
    <3>2. Height(x) = Len(t) + 1
      BY <1>6, <3>1 DEF Height
    <3>. HIDE DEF n, t
    <3>. QED
      BY <1>1, <2>1, <3>2
  <2>3. Follows(Height(e), head, Height(x))
    <3>. HIDE DEF n, head
    <3>. QED
      BY <1>1, <1>3, <1>6, <2>2 DEF Follows
  <2>4. Len(e.events) >= 2 /\ (Empty(e.events) <=> Head(Tail(e.events)).typ \in Ends)
    BY <1>1, <1>6, StartLooksAhead, EmptyMeansEnd
  <2>5. Tail(e.events) # <<>>
    <3>1. Len(Tail(e.events)) = Len(e.events) - 1 /\ Len(e.events) \in Nat
      BY <1>1, HeadFacts
    <3>2. Len(Tail(e.events)) # 0
      BY <2>4, <3>1
    <3>. QED
      BY <3>2, EmptySeq
  <2>6. Filled(Consumed(x))
    BY <1>2, <1>6, <2>4, <2>5 DEF Filled
  <2>7. \A l \in 1..n : e.states[l] \notin SimpleValues
    BY <1>4, <1>6, EventKinds DEF Simple
  <2>8. st \in SimpleValues => x.state \in FlowFirst /\ Head(Tail(e.events)).typ \in Ends
    <3>1. st \in SimpleValues => Empty(e.events)
      BY <1>6 DEF SimpleKey, Openings
    <3>. QED
      BY <1>6, <2>4, <3>1, StateKinds
  <2>9. Simple(Consumed(x))
    <3>. HIDE DEF n, t
    <3>1. \A l \in 1..n + 1 : l \in 1..n \/ l = n + 1
      BY <1>1
    <3>. QED
      BY <1>2, <1>6, <2>1, <2>5, <2>7, <2>8, <3>1 DEF Simple
  <2>. QED
    BY <2>3, <2>6, <2>9
<1>. QED
  BY <1>5, <1>6 DEF NodeWritten, Openings

\* Behind the end of a collection the heights agree, and what the collection is
\* part of is no key without `?'.
LEMMA EndNext ==
  ASSUME NEW e, Sane(e), e.states # <<>>, Simple(e), e.state \notin Outside, e.events # <<>>,
         NEW o, o.events = e.events, o.states = e.states,
         NEW x, Sane(x), Ended(o, x)
  PROVE  /\ Follows(Height(e), Head(e.events).typ, Height(x))
         /\ Simple(Consumed(x)) /\ Filled(Consumed(x))
<1>. DEFINE n == Len(e.states)
            head == Head(e.events).typ
            t == Front(e.states)
<1>1. /\ e.states \in Seq(ReturnStates) /\ n \in Nat \ {0} /\ x.events = e.events
      /\ x.states = t /\ x.state = e.states[n] /\ head \in Closings
  BY Fields, Heights DEF Sane, Ended, Closed, Closings
<1>2. /\ Len(t) = n - 1 /\ \A l \in 1..n - 1 : t[l] = e.states[l]
      /\ t \in Seq(ReturnStates) /\ e.states[n] \in ReturnStates
  <2>1. e.states \in Seq(ReturnStates) /\ e.states # <<>>
    BY <1>1
  <2>. QED
    BY <2>1, FrontFacts
<1>3. /\ Consumed(x).states = x.states /\ Consumed(x).state = x.state
  BY <1>1, ConsumedFacts
<1>4. Height(e) = n + 1 /\ Height(x) = n
  <2>1. Height(e) = n + 1
    BY DEF Height
  <2>2. Height(x) = Len(t) + 1
    BY <1>1, <1>2, EventKinds DEF Height
  <2>. HIDE DEF n, t
  <2>. QED
    BY <1>1, <1>2, <2>1, <2>2
<1>5. Follows(Height(e), head, Height(x))
  <2>. HIDE DEF n, head, t
  <2>. QED
    BY <1>1, <1>4 DEF Follows
<1>6. \A l \in 1..n - 1 : e.states[l] \notin SimpleValues
  <2>1. DOMAIN e.states = 1..n
    BY <1>1
  <2>2. \A l \in 1..n - 1 : l \in DOMAIN e.states /\ l # n
    BY <1>1, <2>1
  <2>. QED
    BY <2>2 DEF Simple
<1>7. DOMAIN t = 1..n - 1
  BY <1>2
<1>8. Simple(Consumed(x))
  <2>. HIDE DEF n, t
  <2>. QED
    BY <1>1, <1>2, <1>3, <1>6, <1>7 DEF Simple
<1>9. Filled(Consumed(x))
  BY <1>1, <1>2, <1>3, EventKinds DEF Filled, FirstStates
<1>. QED
  BY <1>5, <1>8, <1>9

\* A step that succeeds inside a collection.
LEMMA CollectionDone ==
  ASSUME NEW e, Sane(e), Framed(e), Simple(e), Paired(e.events), e.events # <<>>,
         ~NeedMoreEvents(e.events), e.state \in CollectionStates,
         NEW r \in Attempt(e), r.how = "done"
  PROVE  /\ Framed(r.emitter) /\ Follows(Height(e), Head(e.events).typ, Height(r.emitter))
         /\ Simple(Consumed(r.emitter)) /\ Filled(Consumed(r.emitter))
<1>. DEFINE x == r.emitter
<1>1. PICK o : Inside(e, o) /\ Moved(e, o, x)
  BY CollectionMoved
<1>2. /\ Sane(o) /\ Ready(o) /\ Nested(o) /\ o.events = e.events /\ o.states = e.states
      /\ o.states # <<>>
  BY <1>1 DEF Inside, Ready, Sane
<1>3. Sane(x)
  BY AttemptFit DEF Fit
<1>4. e.state \notin Outside
  BY EventKinds
<1>. HIDE DEF x
<1>5. ASSUME Ended(o, x)
      PROVE  /\ Framed(x) /\ Follows(Height(e), Head(e.events).typ, Height(x))
             /\ Simple(Consumed(x)) /\ Filled(Consumed(x))
  <2>1. Framed(x)
    BY <1>2, <1>3, <1>5, EndFramed
  <2>2. /\ Follows(Height(e), Head(e.events).typ, Height(x))
        /\ Simple(Consumed(x)) /\ Filled(Consumed(x))
    BY <1>2, <1>3, <1>4, <1>5, EndNext
  <2>. QED
    BY <2>1, <2>2
<1>6. ASSUME NEW st, Target(e, st), st \in FlowStates <=> o.flow_level > 0, NodeWritten(o, st, x)
      PROVE  /\ Framed(x) /\ Follows(Height(e), Head(e.events).typ, Height(x))
             /\ Simple(Consumed(x)) /\ Filled(Consumed(x))
  <2>1. st \in FlowStates \cup BlockStates /\ st \in ReturnStates
    BY <1>6, StateKinds DEF Target
  <2>2. Framed(x)
    BY <1>2, <1>3, <1>6, <2>1, NodeFramed
  <2>3. st \in SimpleValues => SimpleKey(e.events)
    BY <1>6 DEF Target
  <2>4. /\ Follows(Height(e), Head(e.events).typ, Height(x))
        /\ Simple(Consumed(x)) /\ Filled(Consumed(x))
    BY <1>2, <1>3, <1>4, <1>6, <2>1, <2>3, NodeNext
  <2>. QED
    BY <2>2, <2>4
<1>7. /\ Framed(x) /\ Follows(Height(e), Head(e.events).typ, Height(x))
      /\ Simple(Consumed(x)) /\ Filled(Consumed(x))
  <2>1. CASE Ended(o, x)
    BY <1>5, <2>1
  <2>2. CASE \E st : /\ Target(e, st) /\ NodeWritten(o, st, x)
                     /\ st \in FlowStates <=> o.flow_level > 0
    <3>1. PICK st : /\ Target(e, st) /\ NodeWritten(o, st, x)
                    /\ st \in FlowStates <=> o.flow_level > 0
      BY <2>2
    <3>. QED
      BY <1>6, <3>1
  <2>. QED
    BY <1>1, <2>1, <2>2 DEF Moved
<1>. QED
  BY <1>7 DEF x

\* A comment that is left over is that of a key in brackets, or a block collection
\* has had one at its end.
LEMMA CollectionTidy ==
  ASSUME NEW e, Sane(e), Framed(e), Filled(e), e.events # <<>>, e.state \in CollectionStates,
         e.line_comment => e.state \in KeyDone \/ Head(e.events).comment,
         Head(e.events).typ \in Ends /\ Head(e.events).comment => e.state \notin BlockStates,
         \A l \in DOMAIN e.states : e.states[l] # "FLOW_SEQUENCE_TRAIL_ITEM",
         NEW r \in Attempt(e), r.how = "done"
  PROVE  Tidy(r.emitter)
<1>. DEFINE x == r.emitter
            n == Len(e.states)
<1>1. PICK o : /\ Inside(e, o) /\ Moved(e, o, x)
               /\ o.flow_level > 0 <=> e.state \notin BlockStates \cup BlockFirst
  BY CollectionMoved
<1>2. /\ e.states \in Seq(ReturnStates) /\ n \in Nat \ {0} /\ e.events \in Seq(Events)
      /\ o.events = e.events /\ o.states = e.states
  BY <1>1, Fields, Heights DEF Inside, Sane, Ready
<1>3. Head(e.events).comment => Head(e.events).typ \in Commented
  BY <1>2, HeadFacts
<1>. HIDE DEF x
<1>4. ASSUME Ended(o, x), x.line_comment => e.line_comment /\ ~(o.flow_level > 0)
      PROVE  Tidy(x)
  <2>1. ~x.line_comment
    <3>. SUFFICES ASSUME x.line_comment PROVE FALSE
      OBVIOUS
    <3>1. e.state \in BlockStates \cup BlockFirst /\ e.line_comment
      BY <1>1, <1>4
    <3>2. e.state \notin KeyDone
      BY <3>1 DEF BlockStates, BlockFirst, KeyDone
    <3>3. Head(e.events).typ \in Ends
      BY <1>2, <1>4 DEF Ended, Ends
    <3>. QED
      BY <3>1, <3>2, <3>3 DEF Filled
  <2>2. \A l \in DOMAIN x.states : x.states[l] # "FLOW_SEQUENCE_TRAIL_ITEM"
    <3>1. x.states = Front(e.states)
      BY <1>2, <1>4 DEF Ended, Closed
    <3>2. /\ Len(Front(e.states)) = n - 1 /\ Front(e.states) \in Seq(ReturnStates)
          /\ \A l \in 1..n - 1 : Front(e.states)[l] = e.states[l]
      BY <1>2, FrontFacts, EmptySeq
    <3>3. DOMAIN x.states = 1..n - 1 /\ \A l \in 1..n - 1 : l \in DOMAIN e.states
      BY <1>2, <3>1, <3>2
    <3>. QED
      BY <3>1, <3>2, <3>3
  <2>. QED
    BY <2>1, <2>2, <1>4 DEF Tidy
<1>5. ASSUME NEW st, Target(e, st), NodeWritten(o, st, x),
             x.line_comment => e.line_comment /\ st \in KeyDone /\ e.state \notin KeyDone
      PROVE  Tidy(x)
  <2>1. CASE Head(e.events).typ \in {"SCALAR", "ALIAS"} /\ x.state = st /\ x.states = e.states
    BY <1>5, <2>1 DEF Tidy
  <2>2. CASE /\ Head(e.events).typ \in Openings /\ x.states = Append(e.states, st)
    <3>1. ~Head(e.events).comment
      BY <1>3, <2>2 DEF Openings, Commented
    <3>2. ~x.line_comment /\ st # "FLOW_SEQUENCE_TRAIL_ITEM"
      BY <1>5, <3>1 DEF Target
    <3>3. st \in ReturnStates
      BY <1>5, StateKinds DEF Target
    <3>4. /\ Append(e.states, st)[n + 1] = st /\ \A l \in 1..n : Append(e.states, st)[l] = e.states[l]
          /\ Append(e.states, st) \in Seq(ReturnStates) /\ Len(Append(e.states, st)) = n + 1
      BY <1>2, <3>3, AppendFacts
    <3>5. /\ DOMAIN x.states = 1..n + 1 /\ \A l \in 1..n : l \in DOMAIN e.states
          /\ \A l \in 1..n + 1 : l \in 1..n \/ l = n + 1
      BY <1>2, <2>2, <3>4
    <3>6. \A l \in DOMAIN x.states : x.states[l] # "FLOW_SEQUENCE_TRAIL_ITEM"
      <4>. HIDE DEF n
      <4>. QED
        BY <2>2, <3>2, <3>4, <3>5
    <3>. QED
      BY <3>2, <3>6 DEF Tidy
  <2>. QED
    BY <1>2, <1>5, <2>1, <2>2 DEF NodeWritten, Openings
<1>6. Tidy(x)
  <2>1. CASE \E st : /\ Target(e, st) /\ NodeWritten(o, st, x)
                     /\ x.line_comment => e.line_comment /\ st \in KeyDone /\ e.state \notin KeyDone
    <3>1. PICK st : /\ Target(e, st) /\ NodeWritten(o, st, x)
                    /\ x.line_comment => e.line_comment /\ st \in KeyDone /\ e.state \notin KeyDone
      BY <2>1
    <3>. QED
      BY <1>5, <3>1
  <2>. QED
    BY <1>1, <1>4, <2>1 DEF Moved
<1>. QED
  BY <1>6 DEF x

\* Outside of collections the stacks are empty.
LEMMA PlainNext ==
  ASSUME NEW x, Sane(x), x.events # <<>>, x.state \notin CollectionStates, x.states = <<>>, Flat(x)
  PROVE  /\ Framed(x) /\ Simple(Consumed(x)) /\ Filled(Consumed(x))
         /\ ~x.line_comment => Tidy(x)
         /\ Height(x) = IF x.state \in Outside THEN 0 ELSE 1
<1>1. Framed(x)
  BY StateKinds DEF Framed
<1>2. Consumed(x).states = <<>> /\ Consumed(x).state = x.state
  BY ConsumedFacts
<1>3. Len(<<>>) = 0 /\ DOMAIN <<>> = {}
  OBVIOUS
<1>4. Simple(Consumed(x)) /\ Filled(Consumed(x))
  BY <1>2, <1>3, StateKinds DEF Simple, Filled
<1>5. ~x.line_comment => Tidy(x)
  BY <1>3 DEF Tidy
<1>. QED
  BY <1>1, <1>3, <1>4, <1>5 DEF Height

\* A step that succeeds outside of collections.
LEMMA OutsideDone ==
  ASSUME NEW e, Sane(e), Framed(e), Paired(e.events), e.events # <<>>,
         ~NeedMoreEvents(e.events), e.state \notin CollectionStates,
         e.state \in Outside => ~e.buffered,
         NEW r \in Attempt(e), r.how = "done"
  PROVE  /\ Framed(r.emitter) /\ Follows(Height(e), Head(e.events).typ, Height(r.emitter))
         /\ Simple(Consumed(r.emitter)) /\ Filled(Consumed(r.emitter))
         /\ (e.line_comment => Head(e.events).comment) => Tidy(r.emitter)
         /\ r.emitter.state \in Outside => ~r.emitter.buffered
         /\ r.emitter.state # "STREAM_START"
         /\ r.emitter.state = "FIRST_DOCUMENT_START" => Head(e.events).typ = "STREAM_START"
<1>. DEFINE x == r.emitter
            head == Head(e.events).typ
            Calm == e.line_comment => Head(e.events).comment
            Plain == /\ x.states = <<>> /\ Flat(x) /\ (Calm => ~x.line_comment)
                     /\ x.state \notin CollectionStates /\ x.state # "STREAM_START"
                     /\ x.state \in Outside => ~x.buffered
            Passage ==
                      \/ e.state \in Outside /\ head = "STREAM_START" /\ x.state = "FIRST_DOCUMENT_START"
                      \/ e.state \in Outside /\ head = "DOCUMENT_START" /\ x.state = "DOCUMENT_CONTENT"
                      \/ e.state \in Outside /\ head = "STREAM_END" /\ x.state = "END"
                      \/ e.state = "DOCUMENT_END" /\ head = "DOCUMENT_END" /\ x.state = "DOCUMENT_START"
<1>1. /\ e \in Emitters /\ e.states = <<>> /\ Flat(e) /\ e.state \in EmitterStates
      /\ e.events \in Seq(Events)
  BY Fields DEF Sane, Framed
<1>2. Sane(x) /\ x.events = e.events
  BY AttemptFit DEF Fit
<1>3. r # Fails(e) /\ r # Refused(e)
  <2>1. Fails(e).how = "failed"
    BY DEF Fails, Result
  <2>2. Refused(e).how = "refused"
    BY DEF Refused, Result
  <2>. QED
    BY <2>1, <2>2
<1>4. Head(e.events).comment => head \in Commented
  BY <1>1, HeadFacts
<1>5. Height(e) = IF e.state \in Outside THEN 0 ELSE 1
  <2>1. Len(<<>>) = 0
    OBVIOUS
  <2>. QED
    BY <1>1, <2>1 DEF Height
<1>6. ASSUME Plain, Passage
      PROVE  /\ Framed(x) /\ Follows(Height(e), head, Height(x))
             /\ Simple(Consumed(x)) /\ Filled(Consumed(x)) /\ (Calm => Tidy(x))
             /\ x.state \in Outside => ~x.buffered
             /\ x.state # "STREAM_START"
             /\ x.state = "FIRST_DOCUMENT_START" => head = "STREAM_START"
  <2>1. /\ Framed(x) /\ Simple(Consumed(x)) /\ Filled(Consumed(x)) /\ (Calm => Tidy(x))
        /\ Height(x) = IF x.state \in Outside THEN 0 ELSE 1
    BY <1>2, <1>6, PlainNext
  <2>2. Follows(Height(e), head, Height(x))
    <3>. HIDE DEF x, head, Plain
    <3>1. /\ "FIRST_DOCUMENT_START" \in Outside /\ "DOCUMENT_START" \in Outside /\ "END" \in Outside
          /\ "DOCUMENT_CONTENT" \notin Outside /\ "DOCUMENT_END" \notin Outside
      BY DEF Outside
    <3>2. \/ Height(e) = 0 /\ head = "STREAM_START" /\ Height(x) = 0
          \/ Height(e) = 0 /\ head = "DOCUMENT_START" /\ Height(x) = 1
          \/ Height(e) = 0 /\ head = "STREAM_END" /\ Height(x) = 0
          \/ Height(e) = 1 /\ head = "DOCUMENT_END" /\ Height(x) = 0
      BY <1>5, <1>6, <2>1, <3>1
    <3>. QED
      BY <3>2 DEF Follows
  <2>. HIDE DEF x
  <2>. QED
    BY <1>6, <2>1, <2>2
<1>7. CASE e.state = "STREAM_START"
  <2>1. head = "STREAM_START" /\ x = [e EXCEPT !.state = "FIRST_DOCUMENT_START", !.indent = -1]
    BY <1>3, <1>7 DEF Attempt, EmitStreamStart, Done, Result
  <2>2. /\ x.state = "FIRST_DOCUMENT_START" /\ x.states = <<>> /\ x.indent = -1
        /\ x.indents = <<>> /\ x.flow_level = 0 /\ x.buffered = e.buffered
        /\ x.line_comment = e.line_comment
    BY <1>1, <2>1 DEF Emitters, Flat
  <2>3. Calm => ~x.line_comment
    BY <1>4, <2>1, <2>2 DEF Commented
  <2>4. e.state \in Outside /\ "FIRST_DOCUMENT_START" \notin CollectionStates
    BY <1>7, EventKinds DEF Outside
  <2>5. Passage
    <3>. HIDE DEF x, head
    <3>. QED
      BY <2>1, <2>2, <2>3, <2>4
  <2>6. Plain
    <3>1. Flat(x) /\ x.states = <<>> /\ (Calm => ~x.line_comment)
      BY <2>1, <2>2, <2>3, <2>4 DEF Flat
    <3>2. x.state \notin CollectionStates /\ x.state # "STREAM_START"
      BY <2>1, <2>2, <2>3, <2>4
    <3>3. x.state \in Outside => ~x.buffered
      BY <2>1, <2>2, <2>3, <2>4
    <3>. QED
      BY <3>1, <3>2, <3>3
  <2>. QED
    BY <1>6, <2>5, <2>6
<1>8. CASE e.state \in {"FIRST_DOCUMENT_START", "DOCUMENT_START"} /\ head = "DOCUMENT_START"
  <2>. DEFINE y == [e EXCEPT !.state = "DOCUMENT_CONTENT"]
  <2>1. r \in Writes(e, y)
    BY <1>8 DEF Attempt, EmitDocumentStart
  <2>2. "DOCUMENT_CONTENT" \in EmitterStates
    BY DEF EmitterStates
  <2>3. /\ y \in Emitters /\ y.state = "DOCUMENT_CONTENT" /\ y.states = <<>> /\ y.indent = -1
        /\ y.indents = <<>> /\ y.flow_level = 0 /\ y.line_comment = e.line_comment
    BY <1>1, <2>2, StateFacts DEF Flat
  <2>. HIDE DEF y
  <2>4. /\ x.state = "DOCUMENT_CONTENT" /\ x.states = <<>> /\ x.indent = -1
        /\ x.indents = <<>> /\ x.flow_level = 0 /\ x.line_comment = e.line_comment
    BY <2>1, <2>3, WritesDone DEF Kept
  <2>5. Calm => ~x.line_comment
    BY <1>4, <1>8, <2>4 DEF Commented
  <2>6. e.state \in Outside
    BY <1>8 DEF Outside
  <2>7. Passage
    <3>. HIDE DEF x, head
    <3>. QED
      BY <1>8, <2>4, <2>5, <2>6, EventKinds
  <2>8. Plain
    <3>1. Flat(x) /\ x.states = <<>> /\ (Calm => ~x.line_comment)
      BY <1>8, <2>4, <2>5, <2>6, EventKinds DEF Flat
    <3>2. x.state \notin CollectionStates /\ x.state # "STREAM_START"
      BY <1>8, <2>4, <2>5, <2>6, EventKinds
    <3>3. x.state \in Outside => ~x.buffered
      BY <1>8, <2>4, <2>5, <2>6, EventKinds, EventKinds
    <3>. QED
      BY <3>1, <3>2, <3>3
  <2>. QED
    BY <1>6, <2>7, <2>8
<1>9. CASE e.state \in {"FIRST_DOCUMENT_START", "DOCUMENT_START"} /\ head # "DOCUMENT_START"
  <2>1. head = "STREAM_END" /\ x = [e EXCEPT !.state = "END", !.buffered = FALSE]
    BY <1>3, <1>9 DEF Attempt, EmitDocumentStart, Done, Result
  <2>2. /\ x.state = "END" /\ x.states = <<>> /\ x.indent = -1
        /\ x.indents = <<>> /\ x.flow_level = 0 /\ x.buffered = FALSE
        /\ x.line_comment = e.line_comment
    BY <1>1, <2>1 DEF Emitters, Flat
  <2>3. Calm => ~x.line_comment
    BY <1>4, <2>1, <2>2 DEF Commented
  <2>4. e.state \in Outside /\ "END" \notin CollectionStates
    BY <1>9, EventKinds DEF Outside
  <2>5. Passage
    <3>. HIDE DEF x, head
    <3>. QED
      BY <2>1, <2>2, <2>3, <2>4
  <2>6. Plain
    <3>1. Flat(x) /\ x.states = <<>> /\ (Calm => ~x.line_comment)
      BY <2>1, <2>2, <2>3, <2>4 DEF Flat
    <3>2. x.state \notin CollectionStates /\ x.state # "STREAM_START"
      BY <2>1, <2>2, <2>3, <2>4
    <3>3. x.state \in Outside => ~x.buffered
      BY <2>1, <2>2, <2>3, <2>4
    <3>. QED
      BY <3>1, <3>2, <3>3
  <2>. QED
    BY <1>6, <2>5, <2>6
<1>10. CASE e.state = "DOCUMENT_END"
  <2>1. head = "DOCUMENT_END" /\ x = [e EXCEPT !.state = "DOCUMENT_START", !.buffered = FALSE]
    BY <1>3, <1>10 DEF Attempt, EmitDocumentEnd, Done, Result
  <2>2. /\ x.state = "DOCUMENT_START" /\ x.states = <<>> /\ x.indent = -1
        /\ x.indents = <<>> /\ x.flow_level = 0 /\ x.buffered = FALSE
        /\ x.line_comment = e.line_comment
    BY <1>1, <2>1 DEF Emitters, Flat
  <2>3. Calm => ~x.line_comment
    BY <1>4, <2>1, <2>2 DEF Commented
  <2>4. "DOCUMENT_START" \notin CollectionStates
    BY EventKinds DEF Outside
  <2>5. Passage
    <3>. HIDE DEF x, head
    <3>. QED
      BY <1>10, <2>1, <2>2, <2>3, <2>4
  <2>6. Plain
    <3>1. Flat(x) /\ x.states = <<>> /\ (Calm => ~x.line_comment)
      BY <1>10, <2>1, <2>2, <2>3, <2>4 DEF Flat
    <3>2. x.state \notin CollectionStates /\ x.state # "STREAM_START"
      BY <1>10, <2>1, <2>2, <2>3, <2>4
    <3>3. x.state \in Outside => ~x.buffered
      BY <1>10, <2>1, <2>2, <2>3, <2>4
    <3>. QED
      BY <3>1, <3>2, <3>3
  <2>. QED
    BY <1>6, <2>5, <2>6
<1>11. CASE e.state = "DOCUMENT_CONTENT"
  <2>1. "DOCUMENT_END" \in ReturnStates /\ "DOCUMENT_END" \notin SimpleValues
    BY DEF ReturnStates, SimpleValues
  <2>2. r \in EmitItem(e, "DOCUMENT_END")
    <3>1. Fails(PushState(e, "DOCUMENT_END")).how = "failed"
      BY DEF Fails, Result
    <3>. QED
      BY <1>11, <3>1 DEF Attempt, EmitDocumentContent
  <2>3. NodeWritten(e, "DOCUMENT_END", x) /\ x.line_comment = FALSE
    BY <2>1, <2>2, ItemDone
  <2>4. Framed(x)
    BY <1>1, <1>2, <2>3, RootFramed
  <2>5. Simple(e)
    BY <1>1 DEF Simple
  <2>6. /\ Follows(Height(e), head, Height(x)) /\ Simple(Consumed(x)) /\ Filled(Consumed(x))
    BY <1>2, <1>11, <2>1, <2>3, <2>5, EventKinds, NodeNext
  <2>7. x.state \notin Outside
    BY <2>1, <2>3, EventKinds DEF NodeWritten, CollectionStates
  <2>8. Tidy(x)
    <3>1. Len(e.states) = 0
      BY <1>1
    <3>2. e.states \in Seq(ReturnStates)
      BY <1>1, Fields
    <3>3. /\ Len(Append(e.states, "DOCUMENT_END")) = 1 /\ Append(e.states, "DOCUMENT_END")[1] = "DOCUMENT_END"
          /\ Append(e.states, "DOCUMENT_END") \in Seq(ReturnStates)
      BY <1>1, <2>1, <3>1, <3>2, AppendFacts
    <3>4. DOMAIN Append(e.states, "DOCUMENT_END") = 1..1
      BY <3>3
    <3>5. CASE x.states = e.states
      BY <1>1, <2>3, <3>5 DEF Tidy
    <3>6. CASE x.states = Append(e.states, "DOCUMENT_END")
      BY <2>3, <3>3, <3>4, <3>6 DEF Tidy
    <3>. QED
      BY <2>3, <3>5, <3>6 DEF NodeWritten
  <2>. HIDE DEF x
  <2>. QED
    BY <2>4, <2>6, <2>7, <2>8 DEF Outside, x
<1>12. CASE e.state = "END"
  BY <1>3, <1>12 DEF Attempt
<1>. QED
  BY <1>1, <1>7, <1>8, <1>9, <1>10, <1>11, <1>12 DEF EmitterStates, CollectionStates, FirstStates

-----------------------------------------------------------------------------
(* A failure behind which the emitter goes on                                *)

\* The end of a document without content has been handed to the handler that
\* expects the content: it fails again and again.
Stuck(e) ==
  /\ e.state = "DOCUMENT_CONTENT" /\ e.events # <<>> /\ Head(e.events).typ = "DOCUMENT_END"
  /\ \A l \in DOMAIN e.states : e.states[l] = "DOCUMENT_END"
  /\ Flat(e)

\* The handler of the content does not get past the end of the document.
LEMMA ContentFails ==
  ASSUME NEW e, Sane(e), Stuck(e), NEW r \in Attempt(e)
  PROVE  \/ r.how = "refused"
         \/ r.how = "failed" /\ Stuck(r.emitter)
<1>. DEFINE p == PushState(e, "DOCUMENT_END")
            t == Append(e.states, "DOCUMENT_END")
            n == Len(e.states)
<1>1. "DOCUMENT_END" \in ReturnStates /\ e.states \in Seq(ReturnStates)
  BY Fields DEF ReturnStates, Sane
<1>2. /\ Ready(p) /\ p.states = t /\ p.events = e.events /\ p.state = e.state
      /\ p.indent = e.indent /\ p.indents = e.indents /\ p.flow_level = e.flow_level
  BY <1>1, PushFacts
<1>3. \A l \in DOMAIN t : t[l] = "DOCUMENT_END"
  <2>1. /\ n \in Nat /\ Len(t) = n + 1 /\ t[n + 1] = "DOCUMENT_END"
        /\ \A l \in 1..n : t[l] = e.states[l]
        /\ DOMAIN t = 1..n + 1 /\ DOMAIN e.states = 1..n
    <3>1. t \in Seq(ReturnStates) /\ n \in Nat
      BY <1>1, AppendFacts
    <3>. QED
      BY <1>1, <3>1, AppendFacts
  <2>2. \A l \in 1..n : e.states[l] = "DOCUMENT_END"
    BY <2>1 DEF Stuck
  <2>. HIDE DEF n, t
  <2>3. \A l \in 1..n + 1 : l \in 1..n \/ l = n + 1
    BY <2>1
  <2>. QED
    BY <2>1, <2>2, <2>3
<1>4. r = Fails(p) \/ r = Refused(p)
  <2>1. r = Fails(p) \/ r \in EmitItem(e, "DOCUMENT_END")
    BY DEF Attempt, EmitDocumentContent, Stuck
  <2>2. EmitNode(p) = {Refused(p)}
    BY <1>2 DEF EmitNode, Stuck
  <2>3. ASSUME r \in EmitItem(e, "DOCUMENT_END") PROVE r = Refused(p)
    <3>1. PICK q \in EmitNode(p) : r \in IF q.how = "done" THEN LineComment(q.emitter) ELSE {q}
      BY <2>3 DEF EmitItem
    <3>. QED
      BY <2>2, <3>1 DEF Refused, Result
  <2>. QED
    BY <2>1, <2>3
<1>5. Refused(p).how = "refused"
  BY DEF Refused, Result
<1>. HIDE DEF p, t
<1>6. /\ Fails(p).how = "failed" /\ Fails(p).emitter = [p EXCEPT !.buffered = TRUE] /\ p \in Emitters
  BY <1>2, FailsFacts DEF Ready
<1>7. Stuck(Fails(p).emitter)
  <2>. DEFINE y == [p EXCEPT !.buffered = TRUE]
  <2>1. /\ y.states = t /\ y.events = e.events /\ y.state = e.state
        /\ y.indent = e.indent /\ y.indents = e.indents /\ y.flow_level = e.flow_level
    BY <1>2, <1>6 DEF Emitters
  <2>. HIDE DEF y
  <2>2. Stuck(y)
    BY <1>3, <2>1 DEF Stuck, Flat
  <2>. QED
    BY <1>6, <2>2 DEF y
<1>. QED
  BY <1>4, <1>5, <1>6, <1>7

\* When the end of a document or of the stream fails, the stacks are as before or
\* the document has had no content.
LEMMA EndFails ==
  ASSUME NEW e, Sane(e), Framed(e), e.events # <<>>,
         Head(e.events).typ \in {"DOCUMENT_END", "STREAM_END"},
         NEW b, Follows(Height(e), Head(e.events).typ, b),
         e.state \in Outside => ~e.buffered, NEW r \in Attempt(e), r.how = "failed"
  PROVE  \/ Stuck(r.emitter)
         \/ e.state = "DOCUMENT_END" /\ r.emitter = [e EXCEPT !.buffered = TRUE]
<1>. DEFINE head == Head(e.events).typ
<1>1. /\ e \in Emitters /\ e.state \in EmitterStates /\ Len(e.states) \in Nat
      /\ e.states = <<>> <=> Len(e.states) = 0
  BY Fields, Heights DEF Sane
<1>2. \/ Height(e) = 1 /\ head = "DOCUMENT_END"
      \/ Height(e) = 0 /\ head = "STREAM_END"
  BY DEF Follows, Openings, Closings
<1>3. r # Refused(e)
  <2>1. Refused(e).how = "refused"
    BY DEF Refused, Result
  <2>. QED
    BY <2>1
<1>4. ASSUME NEW x PROVE r # Done(x)
  <2>1. Done(x).how = "done"
    BY DEF Done, Result
  <2>. QED
    BY <2>1
<1>5. CASE e.state \in Outside
  <2>1. head = "STREAM_END"
    BY <1>2, <1>5 DEF Height
  <2>2. CASE e.state = "STREAM_START"
    BY <1>3, <2>1, <2>2 DEF Attempt, EmitStreamStart
  <2>3. CASE e.state \in {"FIRST_DOCUMENT_START", "DOCUMENT_START"}
    BY <1>4, <1>5, <2>1, <2>3 DEF Attempt, EmitDocumentStart
  <2>4. CASE e.state = "END"
    BY <1>3, <2>4 DEF Attempt
  <2>. QED
    BY <1>5, <2>2, <2>3, <2>4 DEF Outside
<1>6. CASE e.state \in CollectionStates
  <2>1. e.states # <<>> /\ e.state \notin Outside
    BY <1>6, EventKinds DEF Sane, Rooted
  <2>2. Height(e) = Len(e.states) + 1 /\ Len(e.states) # 0
    BY <1>1, <2>1 DEF Height
  <2>3. FALSE
    BY <1>1, <1>2, <2>2
  <2>. QED
    BY <2>3
<1>7. CASE e.state = "DOCUMENT_END"
  <2>1. r = Fails(e)
    BY <1>3, <1>4, <1>7 DEF Attempt, EmitDocumentEnd
  <2>. QED
    BY <1>1, <1>7, <2>1, FailsFacts
<1>8. CASE e.state = "DOCUMENT_CONTENT"
  <2>1. e.states = <<>> /\ Flat(e) /\ e.state \notin Outside
    BY <1>8, EventKinds DEF Framed
  <2>2. Height(e) # 0
    BY <1>1, <2>1 DEF Height
  <2>3. Stuck(e)
    <3>1. DOMAIN <<>> = {}
      OBVIOUS
    <3>. QED
      BY <1>2, <1>8, <2>1, <2>2, <3>1 DEF Stuck
  <2>. QED
    BY <2>3, ContentFails
<1>. QED
  BY <1>1, <1>5, <1>6, <1>7, <1>8 DEF EmitterStates, CollectionStates, FirstStates, Outside

-----------------------------------------------------------------------------
(* The walk                                                                  *)

\* Inside a document: its root or what follows it, then the collections around.
Inner(w) ==
  /\ w \in Seq(Steps) /\ w # <<>> /\ w[1] \in {"root", "end"}
  /\ \A i \in 2..Len(w) : w[i] \in {"item", "key", "value"}
Walks == {<<>>, <<"document", "init">>, <<"document">>, <<"finish">>}
WalkShape(w) == w \in Walks \/ Inner(w)

\* The height of what is emitted next.
WalkHeight(w) == IF w # <<>> /\ w[1] \in {"root", "end"} THEN Len(w) ELSE 0

\* What the last step of a walk tells of it.
LEMMA WalkKinds ==
  ASSUME NEW w, WalkShape(w)
  PROVE  /\ w \in Seq(Steps) /\ WalkHeight(w) \in Nat
         /\ Inner(w) => WalkHeight(w) = Len(w) /\ Len(w) \in Nat \ {0}
         /\ w \in Walks => WalkHeight(w) = 0
         /\ w # <<>> /\ w[Len(w)] = "init" =>
              w = <<"document", "init">> /\ SubSeq(w, 1, Len(w) - 1) = <<"document">>
         /\ w # <<>> /\ w[Len(w)] = "document" => w = <<"document">>
         /\ w # <<>> /\ w[Len(w)] = "finish" =>
              w = <<"finish">> /\ SubSeq(w, 1, Len(w) - 1) = <<>>
         /\ w # <<>> /\ w[Len(w)] \in DOMAIN NextStep => Inner(w)
<1>1. CASE w \in Walks
  <2>1. <<"document", "init">>[1] = "document" /\ <<"document">>[1] = "document"
        /\ <<"finish">>[1] = "finish" /\ Len(<<"document", "init">>) = 2
        /\ Len(<<"document">>) = 1 /\ Len(<<"finish">>) = 1
        /\ <<"document", "init">>[2] = "init" /\ <<>> # <<"finish">>
    OBVIOUS
  <2>2. w \in Seq(Steps)
    <3>1. "document" \in Steps /\ "init" \in Steps /\ "finish" \in Steps
      BY DEF Steps
    <3>2. /\ <<>> \in Seq(Steps) /\ <<"document", "init">> \in Seq(Steps)
          /\ <<"document">> \in Seq(Steps) /\ <<"finish">> \in Seq(Steps)
      BY <3>1
    <3>. QED
      BY <1>1, <3>2 DEF Walks
  <2>3. WalkHeight(w) = 0 /\ ~Inner(w)
    BY <1>1, <2>1 DEF Walks, WalkHeight, Inner
  <2>4. /\ SubSeq(<<"document", "init">>, 1, Len(<<"document", "init">>) - 1) = <<"document">>
        /\ SubSeq(<<"finish">>, 1, Len(<<"finish">>) - 1) = <<>>
    <3>1. "document" \in Steps /\ "init" \in Steps /\ "finish" \in Steps
      BY DEF Steps
    <3>2. <<"document">> \in Seq(Steps) /\ <<>> \in Seq(Steps)
      BY <3>1
    <3>3. /\ <<"document", "init">> = Append(<<"document">>, "init")
          /\ <<"finish">> = Append(<<>>, "finish")
      OBVIOUS
    <3>4. /\ Front(Append(<<"document">>, "init")) = <<"document">>
          /\ Front(Append(<<>>, "finish")) = <<>>
      <4>1. Front(Append(<<"document">>, "init")) = <<"document">>
        BY <3>1, <3>2, AppendFacts, ZenonT(60)
      <4>2. Front(Append(<<>>, "finish")) = <<>>
        BY <3>1, <3>2, AppendFacts, ZenonT(60)
      <4>. QED
        BY <4>1, <4>2
    <3>5. Front(<<"document", "init">>) = <<"document">> /\ Front(<<"finish">>) = <<>>
      BY <3>3, <3>4, Zenon
    <3>. QED
      BY <3>5 DEF Front
  <2>5. DOMAIN NextStep = {"root", "item", "key", "value", "end"}
    BY DEF NextStep
  <2>6. w = <<>> \/ w = <<"document", "init">> \/ w = <<"document">> \/ w = <<"finish">>
    BY <1>1 DEF Walks
  <2>7. CASE w = <<>>
    BY <1>1, <2>2, <2>3, <2>7
  <2>8. CASE w = <<"document", "init">>
    <3>1. w[Len(w)] = "init" /\ SubSeq(w, 1, Len(w) - 1) = <<"document">>
      BY <2>1, <2>4, <2>8
    <3>. QED
      BY <1>1, <2>2, <2>3, <2>5, <2>8, <3>1
  <2>9. CASE w = <<"document">>
    <3>1. w[Len(w)] = "document"
      BY <2>1, <2>9
    <3>. QED
      BY <1>1, <2>2, <2>3, <2>5, <2>9, <3>1
  <2>10. CASE w = <<"finish">>
    <3>1. w[Len(w)] = "finish" /\ SubSeq(w, 1, Len(w) - 1) = <<>>
      BY <2>1, <2>4, <2>10
    <3>. QED
      BY <1>1, <2>2, <2>3, <2>5, <2>10, <3>1
  <2>. QED
    BY <2>6, <2>7, <2>8, <2>9, <2>10
<1>2. CASE Inner(w)
  <2>1. w \in Seq(Steps) /\ Len(w) \in Nat \ {0}
    BY <1>2, EmptySeq, LenProperties DEF Inner
  <2>2. w[Len(w)] \in {"root", "end", "item", "key", "value"}
    BY <1>2, <2>1 DEF Inner
  <2>3. WalkHeight(w) = Len(w)
    BY <1>2 DEF WalkHeight, Inner
  <2>4. w \notin Walks
    <3>1. <<"document", "init">>[1] = "document" /\ <<"document">>[1] = "document"
          /\ <<"finish">>[1] = "finish"
      OBVIOUS
    <3>. QED
      BY <1>2, <3>1 DEF Walks, Inner
  <2>. QED
    BY <1>2, <2>1, <2>2, <2>3, <2>4
<1>. QED
  BY <1>1, <1>2 DEF WalkShape

\* The walk without its last step, and with the one that follows it.
Outer(w) == SubSeq(w, 1, Len(w) - 1)
Onward(w) == Append(Outer(w), NextStep[w[Len(w)]])

\* The walk goes on behind a node, into a collection and out of one.
LEMMA WalkOn ==
  ASSUME NEW w, Inner(w)
  PROVE  /\ w[Len(w)] \in DOMAIN NextStep
         /\ Inner(Onward(w)) /\ WalkHeight(Onward(w)) = WalkHeight(w)
         /\ \A s \in {"item", "key"} :
              /\ Inner(Append(Onward(w), s)) /\ WalkHeight(Append(Onward(w), s)) = WalkHeight(w) + 1
              /\ Append(Onward(w), s)[Len(Append(Onward(w), s))] = s
         /\ w[Len(w)] \in {"item", "key"} =>
              Inner(Outer(w)) /\ WalkHeight(w) >= 2 /\ WalkHeight(Outer(w)) = WalkHeight(w) - 1
         /\ w[Len(w)] \in {"root", "end"} => WalkHeight(w) = 1 /\ Outer(w) = <<>>
<1>. DEFINE n == Len(w)
            c == Outer(w)
            s1 == w[n]
            s2 == NextStep[s1]
            b == Append(c, s2)
            Nodes == {"item", "key", "value"}
<1>1. w \in Seq(Steps) /\ n \in Nat \ {0} /\ w # <<>> /\ WalkHeight(w) = n
  BY WalkKinds DEF WalkShape, Inner
<1>2. c = Front(w)
  BY DEF Front, Outer
<1>3. c \in Seq(Steps) /\ Len(c) = n - 1 /\ \A i \in 1..n - 1 : c[i] = w[i]
  BY <1>1, <1>2, FrontFacts
<1>4. c = <<>> <=> n = 1
  BY <1>1, <1>2, FrontFacts
<1>5. w[1] \in {"root", "end"} /\ \A i \in 2..n : w[i] \in Nodes
  BY DEF Inner
<1>6. (n = 1 /\ s1 \in {"root", "end"}) \/ (n >= 2 /\ s1 \in Nodes)
  <2>1. n = 1 \/ n \in 2..n
    BY <1>1
  <2>. QED
    BY <1>1, <1>5, <2>1
<1>7. /\ s1 \in DOMAIN NextStep /\ s2 \in Steps
      /\ s1 \in {"root", "end"} => s2 = "end"
      /\ s1 \in Nodes => s2 \in Nodes
  BY <1>6 DEF NextStep, Steps
<1>. HIDE DEF n, c, s1, s2
<1>8. /\ b \in Seq(Steps) /\ b # <<>> /\ Len(b) = n
      /\ \A i \in 1..n - 1 : b[i] = w[i]
      /\ b[n] = s2
  <2>1. /\ b \in Seq(Steps) /\ b # <<>> /\ Len(b) = Len(c) + 1
        /\ \A i \in 1..Len(c) : b[i] = c[i]
        /\ b[Len(c) + 1] = s2
    BY <1>3, <1>7, AppendFacts
  <2>2. Len(c) = n - 1 /\ n - 1 + 1 = n
    BY <1>1, <1>3
  <2>. HIDE DEF b
  <2>. QED
    BY <1>3, <2>1, <2>2
<1>. HIDE DEF b
<1>9. b[1] \in {"root", "end"} /\ \A i \in 2..n : b[i] \in Nodes
  <2>1. CASE n = 1
    BY <1>6, <1>7, <1>8, <2>1
  <2>2. CASE n >= 2
    <3>1. 1 \in 1..n - 1 /\ \A i \in 2..n : i = n \/ (i \in 1..n - 1 /\ i \in 2..n)
      BY <1>1, <2>2
    <3>2. b[1] = w[1]
      BY <1>8, <3>1
    <3>3. s2 \in Nodes
      BY <1>6, <1>7, <2>2
    <3>. QED
      BY <1>5, <1>8, <3>1, <3>2, <3>3
  <2>. QED
    BY <1>1, <2>1, <2>2
<1>10. Inner(b) /\ WalkHeight(b) = n
  BY <1>8, <1>9 DEF Inner, WalkHeight
<1>11. ASSUME NEW s \in {"item", "key"}
       PROVE  /\ Inner(Append(b, s)) /\ WalkHeight(Append(b, s)) = n + 1
              /\ Append(b, s)[Len(Append(b, s))] = s
  <2>. DEFINE a == Append(b, s)
  <2>1. s \in Steps /\ s \in Nodes
    BY DEF Steps
  <2>2. /\ a \in Seq(Steps) /\ a # <<>> /\ Len(a) = n + 1
        /\ \A i \in 1..n : a[i] = b[i]
        /\ a[n + 1] = s /\ a[1] = b[1]
    BY <1>8, <2>1, AppendFacts
  <2>. HIDE DEF a
  <2>3. \A i \in 2..n + 1 : a[i] \in Nodes
    <3>1. \A i \in 2..n + 1 : i = n + 1 \/ (i \in 1..n /\ i \in 2..n)
      BY <1>1
    <3>. QED
      BY <1>9, <2>1, <2>2, <3>1
  <2>4. Inner(a) /\ WalkHeight(a) = n + 1 /\ a[Len(a)] = s
    BY <1>9, <2>2, <2>3 DEF Inner, WalkHeight
  <2>. QED
    BY <2>4 DEF a
<1>12. ASSUME s1 \in {"item", "key"}
       PROVE  Inner(c) /\ n >= 2 /\ WalkHeight(c) = n - 1
  <2>1. n >= 2
    BY <1>6, <1>12
  <2>2. 1 \in 1..n - 1 /\ \A i \in 2..n - 1 : i \in 1..n - 1 /\ i \in 2..n
    BY <1>1, <2>1
  <2>3. c # <<>> /\ c[1] = w[1] /\ \A i \in 2..Len(c) : c[i] \in Nodes
    BY <1>1, <1>3, <1>4, <1>5, <2>1, <2>2
  <2>. QED
    BY <1>3, <1>5, <2>1, <2>3 DEF Inner, WalkHeight
<1>13. s1 \in {"root", "end"} => n = 1 /\ c = <<>>
  BY <1>4, <1>6
<1>. QED
  BY <1>1, <1>7, <1>10, <1>11, <1>12, <1>13 DEF n, c, s1, s2, b, Onward

-----------------------------------------------------------------------------
(* The queue between the walk and the state                                  *)

\* The events lead from one height to another.
Path(a, q, b) ==
  \E P \in [1..Len(q) + 1 -> Nat] :
    P[1] = a /\ P[Len(q) + 1] = b /\ \A i \in 1..Len(q) : Follows(P[i], q[i].typ, P[i + 1])

\* What the walk has come to when the last event in the queue is a start.
Fresh(typ, w) ==
  /\ typ = "SEQUENCE_START" => w # <<>> /\ w[Len(w)] = "item"
  /\ typ = "MAPPING_START" => w # <<>> /\ w[Len(w)] = "key"
  /\ typ = "STREAM_START" => w = <<"document">>
\* Ends match their starts, and only the last event lies outside of a document.
Queued(q, w) ==
  /\ Paired(q)
  /\ \A i \in 1..Len(q) - 1 : q[i].typ \notin {"STREAM_START", "STREAM_END", "DOCUMENT_END"}
  /\ q # <<>> => Fresh(q[Len(q)].typ, w)

\* An event goes to the end of the queue.
LEMMA QueueGrows ==
  ASSUME NEW q \in Seq(Events), NEW ev \in Events, NEW w, NEW w2,
         NEW a \in Nat, NEW b \in Nat, NEW c \in Nat,
         Queued(q, w), Path(a, q, b), Follows(b, ev.typ, c), b = 0 => q = <<>>,
         ev.typ \in Ends /\ w # <<>> =>
           /\ w[Len(w)] = "item" => ev.typ = "SEQUENCE_END"
           /\ w[Len(w)] = "key" => ev.typ = "MAPPING_END",
         Fresh(ev.typ, w2)
  PROVE  Queued(Append(q, ev), w2) /\ Path(a, Append(q, ev), c)
<1>. DEFINE n == Len(q)
            z == Append(q, ev)
<1>1. /\ z \in Seq(Events) /\ z # <<>> /\ n \in Nat /\ Len(z) = n + 1
      /\ \A i \in 1..n : z[i] = q[i]
      /\ z[n + 1] = ev /\ (q = <<>> <=> n = 0)
  BY AppendFacts, EmptySeq
<1>2. \A i \in 1..n : i = n \/ i \in 1..n - 1
  BY <1>1
<1>3. PICK P \in [1..n + 1 -> Nat] :
        P[1] = a /\ P[n + 1] = b /\ \A i \in 1..n : Follows(P[i], q[i].typ, P[i + 1])
  BY DEF Path
<1>4. Path(a, z, c)
  <2>. DEFINE R == [i \in 1..n + 2 |-> IF i = n + 2 THEN c ELSE P[i]]
  <2>. HIDE DEF n, z
  <2>1. \A i \in 1..n + 2 : i # n + 2 => i \in 1..n + 1
    BY <1>1
  <2>2. R \in [1..n + 2 -> Nat]
    BY <1>3, <2>1
  <2>3. /\ \A i \in 1..n + 1 : R[i] = P[i]
        /\ R[n + 2] = c
    <3>1. \A i \in 1..n + 1 : i \in 1..n + 2 /\ i # n + 2
      BY <1>1
    <3>2. n + 2 \in 1..n + 2
      BY <1>1
    <3>. QED
      BY <3>1, <3>2
  <2>. HIDE DEF R
  <2>4. \A i \in 1..n + 1 : Follows(R[i], z[i].typ, R[i + 1])
    <3>. TAKE i \in 1..n + 1
    <3>1. CASE i \in 1..n
      <4>1. i \in 1..n + 1 /\ i + 1 \in 1..n + 1
        BY <1>1, <3>1
      <4>. QED
        BY <1>1, <1>3, <2>3, <3>1, <4>1
    <3>2. CASE i = n + 1
      <4>1. n + 1 + 1 = n + 2 /\ n + 1 \in 1..n + 1
        BY <1>1
      <4>. QED
        BY <1>1, <1>3, <2>3, <3>2, <4>1
    <3>. QED
      BY <1>1, <3>1, <3>2
  <2>5. Len(z) + 1 = n + 2 /\ 1 \in 1..n + 1
    BY <1>1
  <2>6. R[1] = a /\ R[Len(z) + 1] = c
    BY <1>3, <2>3, <2>5
  <2>7. Len(z) = n + 1
    BY <1>1
  <2>. QED
    BY <2>2, <2>4, <2>5, <2>6, <2>7 DEF Path
<1>5. Paired(z)
  <2>. SUFFICES ASSUME NEW i \in 1..n, z[i].typ \in Openings, z[i + 1].typ \in Ends
                PROVE  z[i + 1].typ = EndOf[z[i].typ]
    <3>1. Len(z) - 1 = n
      BY <1>1
    <3>. QED
      BY <3>1 DEF Paired
  <2>1. CASE i \in 1..n - 1
    <3>1. i + 1 \in 1..n
      BY <1>1, <2>1
    <3>2. z[i] = q[i] /\ z[i + 1] = q[i + 1]
      BY <1>1, <3>1
    <3>. QED
      BY <2>1, <3>2 DEF Queued, Paired
  <2>2. CASE i = n
    <3>1. z[i] = q[n] /\ z[i + 1] = ev /\ q # <<>>
      BY <1>1, <2>2
    <3>2. Fresh(q[n].typ, w)
      BY <3>1 DEF Queued
    <3>. HIDE DEF z, n
    <3>3. CASE z[i].typ = "SEQUENCE_START"
      BY <3>1, <3>2, <3>3 DEF Fresh, EndOf
    <3>4. CASE z[i].typ = "MAPPING_START"
      BY <3>1, <3>2, <3>4 DEF Fresh, EndOf
    <3>. QED
      BY <3>3, <3>4 DEF Openings
  <2>. QED
    BY <1>2, <2>1, <2>2
<1>6. \A i \in 1..n : z[i].typ \notin {"STREAM_START", "STREAM_END", "DOCUMENT_END"}
  <2>. SUFFICES ASSUME NEW i \in 1..n, q[i].typ \in {"STREAM_START", "STREAM_END", "DOCUMENT_END"}
                PROVE  FALSE
    BY <1>1
  <2>1. i = n
    BY <1>2 DEF Queued
  <2>2. Follows(P[n], q[n].typ, b)
    BY <1>3, <2>1
  <2>3. b = 0
    BY <2>1, <2>2 DEF Follows, Openings, Closings
  <2>. QED
    BY <1>1, <2>3
<1>7. Queued(z, w2)
  <2>1. Len(z) - 1 = n /\ z[Len(z)] = ev
    BY <1>1
  <2>. QED
    BY <1>5, <1>6, <2>1 DEF Queued
<1>. QED
  BY <1>4, <1>7

\* The event at the head leaves the queue.
LEMMA QueueShrinks ==
  ASSUME NEW q \in Seq(Events), q # <<>>, NEW w, NEW a \in Nat, NEW b \in Nat,
         Queued(q, w), Path(a, q, b), NEW c \in Nat, Follows(a, Head(q).typ, c)
  PROVE  /\ Queued(Tail(q), w) /\ Path(c, Tail(q), b)
         /\ Head(q).typ \in {"STREAM_START", "STREAM_END", "DOCUMENT_END"} => Tail(q) = <<>>
         /\ Tail(q) = <<>> => Fresh(Head(q).typ, w)
<1>. DEFINE n == Len(q)
            t == Tail(q)
            m == Len(t)
<1>1. /\ t \in Seq(Events) /\ n \in Nat \ {0} /\ m = n - 1 /\ (t = <<>> <=> m = 0)
      /\ \A i \in 1..m : t[i] = q[i + 1]
      /\ Head(q) = q[1]
  BY HeadFacts, EmptySeq
<1>2. PICK P \in [1..n + 1 -> Nat] :
        P[1] = a /\ P[n + 1] = b /\ \A i \in 1..n : Follows(P[i], q[i].typ, P[i + 1])
  BY DEF Path
<1>. HIDE DEF n, t, m
<1>3. P[2] = c
  <2>1. 1 \in 1..n /\ 1 + 1 = 2 /\ 2 \in 1..n + 1
    BY <1>1
  <2>2. Follows(a, Head(q).typ, P[2]) /\ P[2] \in Nat
    BY <1>1, <1>2, <2>1
  <2>. QED
    BY <2>2 DEF Follows, Openings, Closings
<1>4. Path(c, t, b)
  <2>. DEFINE R == [i \in 1..m + 1 |-> P[i + 1]]
  <2>1. \A i \in 1..m + 1 : i + 1 \in 1..n + 1
    BY <1>1
  <2>2. R \in [1..m + 1 -> Nat]
    BY <1>2, <2>1
  <2>3. \A i \in 1..m + 1 : R[i] = P[i + 1]
    OBVIOUS
  <2>. HIDE DEF R
  <2>4. R[1] = c /\ R[m + 1] = b
    <3>1. 1 \in 1..m + 1 /\ m + 1 \in 1..m + 1 /\ 1 + 1 = 2 /\ m + 1 + 1 = n + 1
      BY <1>1
    <3>. QED
      BY <1>2, <1>3, <2>3, <3>1
  <2>5. \A i \in 1..m : Follows(R[i], t[i].typ, R[i + 1])
    <3>. TAKE i \in 1..m
    <3>1. i \in 1..m + 1 /\ i + 1 \in 1..m + 1 /\ i + 1 \in 1..n
      BY <1>1
    <3>2. Follows(P[i + 1], q[i + 1].typ, P[i + 1 + 1])
      BY <1>2, <3>1
    <3>. QED
      BY <1>1, <2>3, <3>1, <3>2
  <2>. QED
    BY <2>2, <2>4, <2>5 DEF Path, m
<1>5. Queued(t, w)
  <2>1. ASSUME NEW i \in 1..m - 1
        PROVE  t[i] = q[i + 1] /\ t[i + 1] = q[i + 1 + 1] /\ i + 1 \in 1..n - 1
    <3>1. i \in 1..m /\ i + 1 \in 1..m /\ i + 1 \in 1..n - 1
      BY <1>1
    <3>. QED
      BY <1>1, <3>1
  <2>2. \A i \in 1..n - 1 : /\ q[i].typ \in Openings /\ q[i + 1].typ \in Ends => q[i + 1].typ = EndOf[q[i].typ]
                            /\ q[i].typ \notin {"STREAM_START", "STREAM_END", "DOCUMENT_END"}
    BY DEF Queued, Paired, n
  <2>3. Paired(t)
    BY <2>1, <2>2 DEF Paired, m
  <2>4. \A i \in 1..m - 1 : t[i].typ \notin {"STREAM_START", "STREAM_END", "DOCUMENT_END"}
    BY <2>1, <2>2
  <2>5. t # <<>> => t[m] = q[n]
    <3>1. m # 0 => m \in 1..m /\ m + 1 = n
      BY <1>1
    <3>. QED
      BY <1>1, <3>1
  <2>6. t # <<>> => Fresh(t[m].typ, w)
    BY <2>5 DEF Queued, n
  <2>. QED
    BY <2>3, <2>4, <2>6 DEF Queued, m
<1>6. Head(q).typ \in {"STREAM_START", "STREAM_END", "DOCUMENT_END"} => t = <<>>
  <2>1. m # 0 => 1 \in 1..n - 1
    BY <1>1
  <2>. QED
    BY <1>1, <2>1 DEF Queued, n
<1>7. t = <<>> => Fresh(Head(q).typ, w)
  <2>1. m = 0 => n = 1
    BY <1>1
  <2>. QED
    BY <1>1, <2>1 DEF Queued, n
<1>. QED
  BY <1>4, <1>5, <1>6, <1>7 DEF t

\* An event closes at most one collection, and the document only on its own.
LEMMA FollowsBounds ==
  ASSUME NEW a \in Nat, NEW typ, NEW b \in Nat, Follows(a, typ, b)
  PROVE  /\ a >= 2 => b >= 1
         /\ a >= 2 /\ b = 1 => typ \in Closings
         /\ typ \in Openings => b >= 2
         /\ typ = "DOCUMENT_START" => b = 1
BY DEF Follows, Openings, Closings

\* The emitter that waits for more events, when the walk is outside of documents,
\* has nothing in its queue.
LEMMA NothingWaits ==
  ASSUME NEW q \in Seq(Events), NEW a \in Nat, Path(a, q, 0), NeedMoreEvents(q)
  PROVE  q = <<>>
<1>. SUFFICES ASSUME q # <<>> PROVE FALSE
  OBVIOUS
<1>. DEFINE n == Len(q)
            typ == Head(q).typ
<1>1. n \in Nat \ {0} /\ Head(q) = q[1] /\ DOMAIN q = 1..n
  BY HeadFacts
<1>2. PICK P \in [1..n + 1 -> Nat] :
        P[1] = a /\ P[n + 1] = 0 /\ \A i \in 1..n : Follows(P[i], q[i].typ, P[i + 1])
  BY DEF Path
<1>3. /\ typ \in DOMAIN Accumulate /\ n <= Accumulate[typ]
      /\ \A i \in 1..n : Level(q, i) # 0
  BY DEF NeedMoreEvents
<1>4. /\ typ = "DOCUMENT_START" => n <= 1
      /\ typ = "SEQUENCE_START" => n <= 2
      /\ typ = "MAPPING_START" => n <= 3
      /\ typ \in {"DOCUMENT_START", "SEQUENCE_START", "MAPPING_START"}
  BY <1>3 DEF Accumulate
<1>5. Follows(P[1], typ, P[2]) /\ P[1] \in Nat /\ P[2] \in Nat
  <2>1. 1 \in 1..n /\ 1 \in 1..n + 1 /\ 2 \in 1..n + 1 /\ 1 + 1 = 2
    BY <1>1
  <2>. QED
    BY <1>1, <1>2, <2>1
<1>6. n >= 2 => Follows(P[2], q[2].typ, P[3]) /\ P[3] \in Nat
  <2>1. n >= 2 => 2 \in 1..n /\ 3 \in 1..n + 1 /\ 2 + 1 = 3
    BY <1>1
  <2>. QED
    BY <1>2, <2>1
<1>. HIDE DEF n
<1>7. CASE typ = "DOCUMENT_START"
  <2>1. n + 1 = 2
    BY <1>1, <1>4, <1>7
  <2>. QED
    BY <1>2, <1>5, <1>7, <2>1, FollowsBounds
<1>8. CASE typ \in Openings
  <2>1. P[2] >= 2
    BY <1>5, <1>8, FollowsBounds
  <2>2. n # 1
    <3>1. n = 1 => n + 1 = 2
      OBVIOUS
    <3>. QED
      BY <1>2, <1>5, <2>1, <3>1
  <2>3. n >= 2 /\ P[3] \in Nat /\ P[3] >= 1
    BY <1>1, <1>5, <1>6, <2>1, <2>2, FollowsBounds
  <2>4. n # 2
    <3>1. n = 2 => n + 1 = 3
      OBVIOUS
    <3>. QED
      BY <1>2, <2>3, <3>1
  <2>5. n = 3 /\ typ = "MAPPING_START"
    BY <1>1, <1>4, <1>8, <2>3, <2>4 DEF Openings
  <2>6. Follows(P[3], q[3].typ, 0)
    <3>1. 3 \in 1..n /\ 3 + 1 = n + 1
      BY <2>5
    <3>. QED
      BY <1>2, <3>1
  <2>7. P[3] = 1
    <3>1. 0 \in Nat
      OBVIOUS
    <3>2. ~(P[3] >= 2)
      BY <2>3, <2>6, <3>1, FollowsBounds
    <3>. QED
      BY <2>3, <3>2
  <2>8. q[2].typ \in Closings
    BY <1>5, <1>6, <2>1, <2>3, <2>7, FollowsBounds
  <2>9. Level(q, 2) = 0
    <3>. DEFINE A == {i \in 1..2 : q[i].typ \in Starts}
                B == {i \in 1..2 : q[i].typ \in Ends}
    <3>1. q[1].typ \in Starts /\ q[1].typ \notin Ends
      BY <1>1, <1>8 DEF Openings, Starts, Ends
    <3>2. q[2].typ \in Ends /\ q[2].typ \notin Starts
      BY <2>8 DEF Closings, Starts, Ends
    <3>3. A = {1} /\ B = {2}
      BY <3>1, <3>2
    <3>4. Level(q, 2) = Cardinality(A) - Cardinality(B)
      BY DEF Level
    <3>. HIDE DEF A, B
    <3>5. Cardinality(A) = Cardinality({1}) /\ Cardinality(B) = Cardinality({2})
      BY <3>3, Zenon
    <3>6. Cardinality(A) = 1 /\ Cardinality(B) = 1
      BY <3>5, FS_Singleton
    <3>. QED
      BY <3>4, <3>6
  <2>10. 2 \in 1..n
    BY <2>5
  <2>. QED
    BY <1>3, <2>9, <2>10 DEF n
<1>. QED
  BY <1>4, <1>7, <1>8 DEF Openings

-----------------------------------------------------------------------------
(* The inductive invariant                                                   *)

Typed ==
  /\ Sane(emitter) /\ doneInit \in BOOLEAN /\ broken \in BOOLEAN /\ late \in BOOLEAN
  /\ WalkShape(walk) /\ outcome \in Outcomes
  /\ walk # <<>> => Running

\* The start of the stream comes first, and what is outside of documents is flushed.
Stage ==
  /\ emitter.state = "STREAM_START" /\ emitter.events = <<>> /\ Running => walk # <<>>
  /\ emitter.state = "FIRST_DOCUMENT_START" /\ emitter.events = <<>> => walk = <<"document">>
  /\ emitter.state \in Outside => ~emitter.buffered

\* The stacks, the queue and the walk fit together.
Regular ==
  /\ Framed(emitter) /\ Simple(emitter) /\ Filled(emitter)
  /\ Queued(emitter.events, walk)
  /\ Path(Height(emitter), emitter.events, WalkHeight(walk))
  /\ Stage
  /\ outcome = "ok" => emitter.events = <<>> /\ emitter.state \in {"DOCUMENT_START", "END"}
  /\ ~late => Tidy(emitter)

\* They do until an event is refused or the walk is cut off; a document without
\* content may get the emitter stuck before.
Inv ==
  /\ Typed
  /\ ~broken => \/ Regular
                \/ Stuck(emitter) /\ outcome # "ok"

\* What the stacks say does not depend on the queue and the buffer.
LEMMA SameStacks ==
  ASSUME NEW x, NEW y, y.state = x.state, y.states = x.states, y.indent = x.indent,
         y.indents = x.indents, y.flow_level = x.flow_level
  PROVE  /\ Framed(x) <=> Framed(y)
         /\ Height(y) = Height(x)
         /\ y.line_comment = x.line_comment => (Tidy(x) <=> Tidy(y))
<1>1. Flat(x) <=> Flat(y)
  BY DEF Flat
<1>2. \A m : Stacked(x, m) <=> Stacked(y, m)
  BY DEF Stacked
<1>3. (Nested(x) <=> Nested(y)) /\ (Awaits(x) <=> Awaits(y))
  BY <1>2 DEF Nested, Awaits
<1>4. Framed(x) <=> Framed(y)
  BY <1>1, <1>3 DEF Framed
<1>5. y.line_comment = x.line_comment => (Tidy(x) <=> Tidy(y))
  BY DEF Tidy
<1>. QED
  BY <1>4, <1>5 DEF Height

\* The emitter with one more event in the queue.
LEMMA EmittedFacts ==
  ASSUME NEW e, Sane(e), NEW ev \in Events, NEW z, z = [e EXCEPT !.events = Append(@, ev)]
  PROVE  /\ Sane(z) /\ z.events = Append(e.events, ev) /\ z.events # <<>>
         /\ z.state = e.state /\ z.states = e.states /\ z.indent = e.indent
         /\ z.indents = e.indents /\ z.flow_level = e.flow_level
         /\ z.line_comment = e.line_comment /\ z.buffered = e.buffered
         /\ e.events # <<>> => Head(z.events) = Head(e.events)
<1>. DEFINE t == Append(e.events, ev)
            y == [e EXCEPT !.events = t]
<1>1. /\ e.events \in Seq(Events) /\ t \in Seq(Events) /\ t # <<>>
      /\ e.events # <<>> => t[1] = e.events[1]
  BY Fields, AppendFacts DEF Sane
<1>2. e.events # <<>> => Head(t) = Head(e.events)
  BY <1>1, HeadFacts
<1>3. z = y
  BY DEF Sane, Emitters
<1>. HIDE DEF t
<1>4. y \in Emitters
  BY <1>1, Updates DEF Sane
<1>5. /\ y.events = t /\ y.state = e.state /\ y.states = e.states /\ y.indent = e.indent
      /\ y.indents = e.indents /\ y.flow_level = e.flow_level
      /\ y.line_comment = e.line_comment /\ y.buffered = e.buffered
  BY DEF Sane, Emitters
<1>. HIDE DEF y
<1>6. Sane(y)
  BY <1>4, <1>5 DEF Sane, Rooted
<1>. QED
  BY <1>1, <1>2, <1>3, <1>5, <1>6 DEF t

\* An event that is emitted keeps the queue in order.
LEMMA EmitOne ==
  ASSUME Inv, Running, NeedMoreEvents(emitter.events), walk # <<>>,
         NEW ev \in Events, NEW w, WalkShape(w), Emit(ev, w), doneInit' \in BOOLEAN,
         Follows(WalkHeight(walk), ev.typ, WalkHeight(w)), Fresh(ev.typ, w),
         ev.typ \in Ends =>
           /\ walk[Len(walk)] = "item" => ev.typ = "SEQUENCE_END"
           /\ walk[Len(walk)] = "key" => ev.typ = "MAPPING_END"
  PROVE  Inv'
<1>1. /\ emitter' = [emitter EXCEPT !.events = Append(@, ev)] /\ walk' = w
      /\ outcome' = outcome /\ broken' = broken /\ late' = late
  BY DEF Emit
<1>2. Typed /\ Sane(emitter) /\ emitter.events \in Seq(Events)
  BY Fields DEF Inv, Typed, Sane
<1>3. /\ Sane(emitter') /\ emitter'.events = Append(emitter.events, ev) /\ emitter'.events # <<>>
      /\ emitter'.state = emitter.state /\ emitter'.states = emitter.states
      /\ emitter'.indent = emitter.indent /\ emitter'.indents = emitter.indents
      /\ emitter'.flow_level = emitter.flow_level
      /\ emitter'.line_comment = emitter.line_comment /\ emitter'.buffered = emitter.buffered
      /\ emitter.events # <<>> => Head(emitter'.events) = Head(emitter.events)
  BY <1>1, <1>2, EmittedFacts
<1>4. Typed'
  BY <1>1, <1>2, <1>3 DEF Typed, Running
<1>5. ASSUME ~broken PROVE Regular'
  <2>1. ~Stuck(emitter)
    <3>1. "DOCUMENT_END" \notin DOMAIN Accumulate
      BY DEF Accumulate
    <3>. QED
      BY <3>1 DEF Stuck, NeedMoreEvents
  <2>2. Regular
    BY <1>5, <2>1 DEF Inv
  <2>3. /\ Framed(emitter') /\ Height(emitter') = Height(emitter)
        /\ Tidy(emitter) => Tidy(emitter')
    BY <1>3, <2>2, SameStacks DEF Regular
  <2>4. Simple(emitter') /\ Filled(emitter')
    BY <1>3, <2>2 DEF Regular, Simple, Filled
  <2>5. /\ Height(emitter) \in Nat /\ WalkHeight(walk) \in Nat /\ WalkHeight(w) \in Nat
    BY <1>2, WalkKinds, Heights DEF Typed, Sane, Height
  <2>6. WalkHeight(walk) = 0 => emitter.events = <<>>
    BY <1>2, <2>2, <2>5, NothingWaits DEF Regular
  <2>7. /\ Queued(Append(emitter.events, ev), w)
        /\ Path(Height(emitter), Append(emitter.events, ev), WalkHeight(w))
    BY <1>2, <2>2, <2>5, <2>6, QueueGrows DEF Regular
  <2>8. Stage'
    BY <1>3, <2>2 DEF Stage, Regular
  <2>9. outcome' # "ok"
    BY <1>1 DEF Running
  <2>. QED
    BY <1>1, <1>3, <2>2, <2>3, <2>4, <2>7, <2>8, <2>9 DEF Regular
<1>. QED
  BY <1>1, <1>4, <1>5 DEF Inv

\* The events that the walk emits are well-typed.
LEMMA EventFacts ==
  /\ \A typ \in Commented, inline, comment \in BOOLEAN :
       Event(typ, inline, comment) \in Events /\ Event(typ, inline, comment).typ = typ
  /\ \A typ \in EventTypes, inline \in BOOLEAN :
       Event(typ, inline, FALSE) \in Events /\ Event(typ, inline, FALSE).typ = typ
BY DEF Event, Events, Commented, EventTypes, Ends

\* Each step of the walk.
LEMMA WalkSteps ==
  ASSUME Inv, \/ MarshalInit \/ MarshalDocument \/ MarshalLeaf \/ MarshalCollection
              \/ MarshalEnd \/ MarshalDocumentEnd \/ Finish
  PROVE  Inv'
<1>1. Typed /\ WalkShape(walk)
  BY DEF Inv, Typed
<1>2. /\ TRUE \in BOOLEAN /\ FALSE \in BOOLEAN /\ doneInit \in BOOLEAN
  BY <1>1 DEF Typed
<1>4. ASSUME NEW typ \in {"STREAM_START", "DOCUMENT_START", "DOCUMENT_END", "STREAM_END"}
      PROVE  Event(typ, FALSE, FALSE) \in Events /\ Event(typ, FALSE, FALSE).typ = typ
  BY <1>2, EventFacts DEF EventTypes, Starts, Ends
<1>6. CASE MarshalInit
  <2>. DEFINE ev == Event("STREAM_START", FALSE, FALSE)
  <2>1. Running /\ NeedMoreEvents(emitter.events) /\ walk # <<>> /\ walk[Len(walk)] = "init"
    BY <1>6 DEF MarshalInit, AtStep, Step
  <2>2. walk = <<"document", "init">> /\ Callers = <<"document">>
    BY <1>1, <2>1, WalkKinds DEF Callers
  <2>3. WalkShape(<<"document">>) /\ WalkHeight(walk) = 0 /\ WalkHeight(<<"document">>) = 0
    <3>1. <<"document">> \in Walks /\ walk \in Walks
      BY <2>2 DEF Walks
    <3>. QED
      BY <3>1, WalkKinds DEF WalkShape
  <2>4. ev \in Events /\ ev.typ = "STREAM_START"
    BY <1>4
  <2>5. Emit(ev, <<"document">>) /\ doneInit' = doneInit
    BY <1>6, <2>2 DEF MarshalInit
  <2>6. /\ Follows(0, "STREAM_START", 0) /\ "STREAM_START" \notin Ends
        /\ Fresh("STREAM_START", <<"document">>)
    BY DEF Follows, Ends, Fresh
  <2>. HIDE DEF ev
  <2>. QED
    BY <1>2, <2>1, <2>3, <2>4, <2>5, <2>6, EmitOne
<1>7. CASE MarshalDocument
  <2>. DEFINE ev == Event("DOCUMENT_START", FALSE, FALSE)
  <2>1. Running /\ NeedMoreEvents(emitter.events) /\ walk # <<>> /\ walk[Len(walk)] = "document"
    BY <1>7 DEF MarshalDocument, AtStep, Step
  <2>2. walk = <<"document">>
    BY <1>1, <2>1, WalkKinds
  <2>3. WalkHeight(walk) = 0
    <3>1. walk \in Walks
      BY <2>2 DEF Walks
    <3>. QED
      BY <1>1, <3>1, WalkKinds
  <2>4. WalkShape(<<"root">>) /\ WalkHeight(<<"root">>) = 1
    <3>1. Len(<<"root">>) = 1 /\ <<"root">>[1] = "root" /\ <<"root">> # <<>> /\ "root" \in Steps
      BY DEF Steps
    <3>2. <<"root">> \in Seq(Steps)
      BY <3>1
    <3>3. Inner(<<"root">>)
      BY <3>1, <3>2 DEF Inner
    <3>. QED
      BY <3>1, <3>3 DEF WalkShape, WalkHeight
  <2>5. ev \in Events /\ ev.typ = "DOCUMENT_START"
    BY <1>4
  <2>6. Emit(ev, <<"root">>) /\ doneInit' = TRUE
    BY <1>7 DEF MarshalDocument
  <2>7. /\ Follows(0, "DOCUMENT_START", 1) /\ "DOCUMENT_START" \notin Ends
        /\ Fresh("DOCUMENT_START", <<"root">>)
    BY DEF Follows, Ends, Fresh
  <2>. HIDE DEF ev
  <2>. QED
    BY <1>2, <2>1, <2>3, <2>4, <2>5, <2>6, <2>7, EmitOne
<1>8. CASE Finish
  <2>. DEFINE ev == Event("STREAM_END", FALSE, FALSE)
  <2>1. Running /\ NeedMoreEvents(emitter.events) /\ walk # <<>> /\ walk[Len(walk)] = "finish"
    BY <1>8 DEF Finish, AtStep, Step
  <2>2. walk = <<"finish">> /\ Callers = <<>>
    BY <1>1, <2>1, WalkKinds DEF Callers
  <2>3. WalkShape(<<>>) /\ WalkHeight(walk) = 0 /\ WalkHeight(<<>>) = 0
    <3>1. <<>> \in Walks /\ walk \in Walks
      BY <2>2 DEF Walks
    <3>. QED
      BY <3>1, WalkKinds DEF WalkShape
  <2>4. ev \in Events /\ ev.typ = "STREAM_END"
    BY <1>4
  <2>5. Emit(ev, <<>>) /\ doneInit' = doneInit
    BY <1>8, <2>2 DEF Finish
  <2>6. Follows(0, "STREAM_END", 0) /\ Fresh("STREAM_END", <<>>)
    BY DEF Follows, Fresh
  <2>. HIDE DEF ev
  <2>. QED
    BY <1>2, <2>1, <2>3, <2>4, <2>5, <2>6, EmitOne
<1>9. ASSUME walk # <<>>, walk[Len(walk)] \in DOMAIN NextStep
      PROVE  /\ WalkHeight(walk) \in Nat \ {0}
             /\ Inner(Behind) /\ WalkHeight(Behind) = WalkHeight(walk)
             /\ \A s \in {"item", "key"} :
                  /\ Inner(Append(Behind, s)) /\ WalkHeight(Append(Behind, s)) = WalkHeight(walk) + 1
                  /\ Append(Behind, s)[Len(Append(Behind, s))] = s /\ Append(Behind, s) # <<>>
             /\ walk[Len(walk)] \in {"item", "key"} =>
                  Inner(Callers) /\ WalkHeight(walk) >= 2 /\ WalkHeight(Callers) = WalkHeight(walk) - 1
             /\ walk[Len(walk)] \in {"root", "end"} => WalkHeight(walk) = 1 /\ Callers = <<>>
  <2>1. Inner(walk) /\ WalkHeight(walk) \in Nat \ {0}
    BY <1>1, <1>9, WalkKinds
  <2>2. \A w : Inner(w) => w # <<>>
    BY DEF Inner
  <2>3. Behind = Onward(walk) /\ Callers = Outer(walk)
    BY DEF Behind, Callers, Step, Onward, Outer
  <2>. QED
    BY <2>1, <2>2, <2>3, WalkOn
<1>10. CASE MarshalLeaf
  <2>1. Running /\ NeedMoreEvents(emitter.events) /\ walk # <<>> /\ walk[Len(walk)] \in DOMAIN NextStep
    BY <1>10 DEF MarshalLeaf, AtStep, Step
  <2>2. PICK typ \in {"SCALAR", "ALIAS"}, inline \in BOOLEAN, comment \in BOOLEAN :
          Emit(Event(typ, inline, comment), Behind) /\ doneInit' = doneInit
    BY <1>10 DEF MarshalLeaf
  <2>. DEFINE ev == Event(typ, inline, comment)
  <2>3. ev \in Events /\ ev.typ = typ
    BY EventFacts DEF Commented
  <2>4. /\ typ \notin Ends /\ Fresh(typ, Behind)
        /\ \A h \in Nat \ {0} : Follows(h, typ, h)
    BY DEF Ends, Fresh, Follows
  <2>5. Emit(ev, Behind)
    BY <2>2
  <2>. HIDE DEF ev
  <2>. QED
    BY <1>2, <1>9, <2>1, <2>2, <2>3, <2>4, <2>5, EmitOne DEF WalkShape
<1>11. CASE MarshalCollection
  <2>1. Running /\ NeedMoreEvents(emitter.events) /\ walk # <<>> /\ walk[Len(walk)] \in DOMAIN NextStep
    BY <1>11 DEF MarshalCollection, AtStep, Step
  <2>2. PICK inline \in BOOLEAN :
          \/ Emit(Event("SEQUENCE_START", inline, FALSE), Append(Behind, "item"))
          \/ Emit(Event("MAPPING_START", inline, FALSE), Append(Behind, "key"))
    BY <1>11 DEF MarshalCollection
  <2>3. PICK typ \in Openings, s \in {"item", "key"} :
          /\ Emit(Event(typ, inline, FALSE), Append(Behind, s))
          /\ typ = "SEQUENCE_START" => s = "item"
          /\ typ = "MAPPING_START" => s = "key"
    BY <2>2 DEF Openings
  <2>. DEFINE ev == Event(typ, inline, FALSE)
              w == Append(Behind, s)
  <2>4. ev \in Events /\ ev.typ = typ
    BY EventFacts DEF EventTypes, Starts, Openings
  <2>5. Inner(w) /\ WalkHeight(w) = WalkHeight(walk) + 1 /\ w[Len(w)] = s /\ w # <<>>
    BY <1>9, <2>1
  <2>6. Emit(ev, w) /\ doneInit' = doneInit
    BY <1>11, <2>3 DEF MarshalCollection
  <2>. HIDE DEF ev, w
  <2>7. /\ typ \notin Ends /\ Fresh(typ, w)
        /\ \A h \in Nat \ {0} : Follows(h, typ, h + 1)
    BY <2>3, <2>5 DEF Ends, Fresh, Follows, Openings
  <2>. QED
    BY <1>2, <1>9, <2>1, <2>4, <2>5, <2>6, <2>7, EmitOne DEF WalkShape
<1>12. CASE MarshalEnd
  <2>1. /\ Running /\ NeedMoreEvents(emitter.events) /\ walk # <<>>
        /\ walk[Len(walk)] \in {"item", "key"} /\ walk[Len(walk)] \in DOMAIN NextStep
    BY <1>12 DEF MarshalEnd, AtStep, Step, NextStep
  <2>. DEFINE typ == IF walk[Len(walk)] = "item" THEN "SEQUENCE_END" ELSE "MAPPING_END"
  <2>2. PICK comment \in BOOLEAN : Emit(Event(typ, FALSE, comment), Callers) /\ doneInit' = doneInit
    BY <1>12 DEF MarshalEnd, Step
  <2>. DEFINE ev == Event(typ, FALSE, comment)
  <2>3. typ \in Closings /\ typ \in Commented
    BY DEF Closings, Commented
  <2>4. /\ walk[Len(walk)] = "item" => typ = "SEQUENCE_END"
        /\ walk[Len(walk)] = "key" => typ = "MAPPING_END"
    OBVIOUS
  <2>. HIDE DEF typ
  <2>5. ev \in Events /\ ev.typ = typ
    BY <1>2, <2>3, EventFacts
  <2>6. Emit(ev, Callers)
    BY <2>2
  <2>7. /\ Inner(Callers) /\ WalkHeight(walk) >= 2 /\ WalkHeight(Callers) = WalkHeight(walk) - 1
        /\ WalkHeight(walk) \in Nat
    BY <1>9, <2>1
  <2>8. Fresh(typ, Callers) /\ Follows(WalkHeight(walk), typ, WalkHeight(Callers))
    BY <2>3, <2>7 DEF Fresh, Follows, Closings
  <2>. HIDE DEF ev
  <2>. QED
    BY <1>2, <2>1, <2>2, <2>4, <2>5, <2>6, <2>7, <2>8, EmitOne DEF WalkShape
<1>13. CASE MarshalDocumentEnd
  <2>. DEFINE ev == Event("DOCUMENT_END", FALSE, FALSE)
  <2>1. /\ Running /\ NeedMoreEvents(emitter.events) /\ walk # <<>>
        /\ walk[Len(walk)] \in {"root", "end"} /\ walk[Len(walk)] \in DOMAIN NextStep
    BY <1>13 DEF MarshalDocumentEnd, AtStep, Step, NextStep
  <2>2. WalkHeight(walk) = 1 /\ Callers = <<>>
    BY <1>9, <2>1
  <2>3. WalkShape(<<>>) /\ WalkHeight(<<>>) = 0
    <3>1. <<>> \in Walks
      BY DEF Walks
    <3>. QED
      BY <3>1, WalkKinds DEF WalkShape
  <2>4. ev \in Events /\ ev.typ = "DOCUMENT_END"
    BY <1>4
  <2>5. Emit(ev, <<>>) /\ doneInit' = doneInit
    BY <1>13, <2>2 DEF MarshalDocumentEnd
  <2>6. Follows(1, "DOCUMENT_END", 0) /\ Fresh("DOCUMENT_END", <<>>)
    BY DEF Follows, Fresh
  <2>7. walk[Len(walk)] # "item" /\ walk[Len(walk)] # "key"
    BY <2>1
  <2>. HIDE DEF ev
  <2>. QED
    BY <1>2, <2>1, <2>2, <2>3, <2>4, <2>5, <2>6, <2>7, EmitOne
<1>. QED
  BY <1>6, <1>7, <1>8, <1>10, <1>11, <1>12, <1>13

\* An event that the state machine has dealt with leaves everything in order.
LEMMA EventDone ==
  ASSUME Typed, Regular, ~NeedMoreEvents(emitter.events), Running,
         NEW q \in Attempt(Analyzed(emitter)), q.how = "done",
         emitter' = Consumed(q.emitter), UNCHANGED <<outcome, walk>>,
         late' = (late \/ /\ emitter.state \in BlockStates
                          /\ Head(emitter.events).typ \in Ends
                          /\ Head(emitter.events).comment)
  PROVE  Regular'
<1>. DEFINE e == Analyzed(emitter)
            x == q.emitter
            head == Head(emitter.events).typ
            Begun == /\ x.state \in Outside => ~x.buffered
                     /\ x.state # "STREAM_START"
                     /\ x.state = "FIRST_DOCUMENT_START" => head = "STREAM_START"
<1>1. Sane(emitter) /\ emitter.events \in Seq(Events) /\ emitter.events # <<>>
  BY Fields DEF Typed, Sane, NeedMoreEvents
<1>2. /\ Sane(e)
      /\ e.line_comment = (emitter.line_comment \/ Head(emitter.events).comment)
      /\ e.events = emitter.events /\ e.state = emitter.state
      /\ e.states = emitter.states /\ e.indent = emitter.indent
      /\ e.indents = emitter.indents /\ e.flow_level = emitter.flow_level
      /\ e.buffered = emitter.buffered
  BY <1>1, AnalyzedFacts
<1>3. Sane(x) /\ x.events = emitter.events
  BY <1>2, AttemptFit DEF Fit
<1>. HIDE DEF e, x
<1>4. /\ emitter'.events = Tail(emitter.events) /\ emitter'.state = x.state
      /\ emitter'.states = x.states /\ emitter'.indent = x.indent /\ emitter'.indents = x.indents
      /\ emitter'.flow_level = x.flow_level /\ emitter'.line_comment = x.line_comment
      /\ emitter'.buffered = x.buffered
  BY <1>1, <1>3, ConsumedFacts DEF x
<1>5. /\ Framed(e) /\ Simple(e) /\ Filled(e) /\ Height(e) = Height(emitter)
      /\ Paired(e.events) /\ ~NeedMoreEvents(e.events) /\ e.events # <<>>
  <2>1. Framed(e) /\ Height(e) = Height(emitter)
    BY <1>2, SameStacks DEF Regular
  <2>2. Simple(e) /\ Filled(e)
    BY <1>2 DEF Regular, Simple, Filled
  <2>. QED
    BY <1>1, <1>2, <2>1, <2>2 DEF Regular, Queued
<1>6. q \in Attempt(e)
  BY DEF e
<1>7. ASSUME e.state \in CollectionStates
      PROVE  /\ Framed(x) /\ Follows(Height(e), head, Height(x))
             /\ Simple(Consumed(x)) /\ Filled(Consumed(x)) /\ Begun /\ (~late' => Tidy(x))
  <2>1. /\ Framed(x) /\ Follows(Height(e), head, Height(x))
        /\ Simple(Consumed(x)) /\ Filled(Consumed(x))
    BY <1>2, <1>5, <1>6, <1>7, CollectionDone DEF x
  <2>2. Height(e) \in Nat /\ Height(e) >= 2
    <3>1. e.states # <<>> /\ e.state \notin Outside
      BY <1>2, <1>7, EventKinds DEF Sane, Rooted
    <3>2. Len(e.states) \in Nat /\ Len(e.states) # 0
      BY <1>2, <3>1, Heights DEF Sane
    <3>3. Height(e) = Len(e.states) + 1
      BY <3>1 DEF Height
    <3>. QED
      BY <3>2, <3>3
  <2>3. x.state \notin Outside
    <3>1. Height(x) # 0
      <4>. HIDE DEF head
      <4>. QED
        BY <2>1, <2>2 DEF Follows
    <3>. QED
      BY <3>1 DEF Height
  <2>4. Begun
    BY <2>3 DEF Outside
  <2>5. ASSUME ~late' PROVE Tidy(x)
    <3>1. Tidy(emitter)
      BY <2>5 DEF Regular
    <3>2. e.line_comment => e.state \in KeyDone \/ Head(e.events).comment
      BY <1>2, <3>1 DEF Tidy
    <3>3. Head(e.events).typ \in Ends /\ Head(e.events).comment => e.state \notin BlockStates
      BY <1>2, <2>5
    <3>4. \A l \in DOMAIN e.states : e.states[l] # "FLOW_SEQUENCE_TRAIL_ITEM"
      BY <1>2, <3>1 DEF Tidy
    <3>. QED
      BY <1>2, <1>5, <1>6, <1>7, <3>2, <3>3, <3>4, CollectionTidy DEF x
  <2>. QED
    BY <2>1, <2>4, <2>5
<1>8. ASSUME e.state \notin CollectionStates
      PROVE  /\ Framed(x) /\ Follows(Height(e), head, Height(x))
             /\ Simple(Consumed(x)) /\ Filled(Consumed(x)) /\ Begun /\ (~late' => Tidy(x))
  <2>1. e.state \in Outside => ~e.buffered
    BY <1>2 DEF Regular, Stage
  <2>2. /\ Framed(x) /\ Follows(Height(e), head, Height(x))
        /\ Simple(Consumed(x)) /\ Filled(Consumed(x))
        /\ (e.line_comment => Head(e.events).comment) => Tidy(x)
        /\ x.state \in Outside => ~x.buffered
        /\ x.state # "STREAM_START"
        /\ x.state = "FIRST_DOCUMENT_START" => head = "STREAM_START"
    BY <1>2, <1>5, <1>6, <1>8, <2>1, OutsideDone DEF x
  <2>5. ASSUME ~late' PROVE Tidy(x)
    <3>1. Tidy(emitter) /\ e.state \notin KeyDone
      BY <1>8, <2>5 DEF Regular, CollectionStates, FlowStates, KeyDone
    <3>2. e.line_comment => Head(e.events).comment
      BY <1>2, <3>1 DEF Tidy
    <3>. QED
      BY <2>2, <3>2
  <2>. QED
    BY <2>2, <2>5
<1>10. Height(emitter) \in Nat /\ Height(x) \in Nat /\ WalkHeight(walk) \in Nat
  BY <1>1, <1>3, Heights, WalkKinds DEF Height, Sane, Typed
<1>11. Follows(Height(emitter), head, Height(x))
  BY <1>5, <1>7, <1>8
<1>12. /\ Tail(emitter.events) = <<>> => Fresh(head, walk)
       /\ Queued(Tail(emitter.events), walk)
       /\ Path(Height(x), Tail(emitter.events), WalkHeight(walk))
  BY <1>1, <1>10, <1>11, QueueShrinks DEF Regular
<1>13. Framed(emitter') /\ Height(emitter') = Height(x) /\ (Tidy(x) => Tidy(emitter'))
  BY <1>4, <1>7, <1>8, SameStacks
<1>14. Simple(emitter') /\ Filled(emitter')
  BY <1>7, <1>8 DEF x
<1>15. outcome' # "ok"
  BY DEF Running
<1>16. Begun /\ (~late' => Tidy(x))
  BY <1>7, <1>8
<1>17. Stage'
  BY <1>4, <1>12, <1>16 DEF Stage, Fresh
<1>. QED
  BY <1>4, <1>12, <1>13, <1>14, <1>15, <1>16, <1>17 DEF Regular

\* The end of a document or of the stream that could not be written waits for the
\* next call, with the stacks as they were or without getting any further.
LEMMA EventFails ==
  ASSUME Typed, Regular \/ Stuck(emitter), ~NeedMoreEvents(emitter.events),
         NEW q \in Attempt(Analyzed(emitter)), q.how = "failed",
         Head(emitter.events).typ \in {"DOCUMENT_END", "STREAM_END"},
         emitter' = q.emitter, walk' = <<>>, outcome' = "error", late \in BOOLEAN, late => late'
  PROVE  Regular' \/ Stuck(emitter')
<1>. DEFINE e == Analyzed(emitter)
            head == Head(emitter.events).typ
<1>1. Sane(emitter) /\ emitter.events \in Seq(Events) /\ emitter.events # <<>>
  BY Fields DEF Typed, Sane, NeedMoreEvents
<1>2. /\ Sane(e) /\ e \in Emitters
      /\ e.line_comment = (emitter.line_comment \/ Head(emitter.events).comment)
      /\ e.events = emitter.events /\ e.state = emitter.state
      /\ e.states = emitter.states /\ e.indent = emitter.indent
      /\ e.indents = emitter.indents /\ e.flow_level = emitter.flow_level
      /\ e.buffered = emitter.buffered
  BY <1>1, AnalyzedFacts
<1>3. q \in Attempt(e)
  OBVIOUS
<1>. HIDE DEF e
<1>4. CASE Stuck(emitter)
  <2>1. Stuck(e)
    BY <1>2, <1>4 DEF Stuck, Flat
  <2>. QED
    BY <1>2, <1>3, <2>1, ContentFails
<1>5. CASE Regular
  <2>1. Framed(e) /\ Height(e) = Height(emitter)
    BY <1>2, <1>5, SameStacks DEF Regular
  <2>2. /\ Height(emitter) \in Nat /\ WalkHeight(walk) \in Nat
    BY <1>1, Heights, WalkKinds DEF Height, Sane, Typed
  <2>3. PICK P \in [1..Len(emitter.events) + 1 -> Nat] :
          /\ P[1] = Height(emitter) /\ P[Len(emitter.events) + 1] = WalkHeight(walk)
          /\ \A i \in 1..Len(emitter.events) : Follows(P[i], emitter.events[i].typ, P[i + 1])
    BY <1>5 DEF Regular, Path
  <2>4. /\ Len(emitter.events) \in Nat \ {0} /\ Head(emitter.events) = emitter.events[1]
        /\ Head(emitter.events).comment => head \in Commented
    BY <1>1, HeadFacts
  <2>5. Follows(Height(emitter), head, P[2]) /\ P[2] \in Nat
    <3>. DEFINE n == Len(emitter.events)
    <3>1. n \in Nat \ {0}
      BY <2>4
    <3>. HIDE DEF n
    <3>2. 1 \in 1..n /\ 1 + 1 = 2 /\ 2 \in 1..n + 1
      BY <3>1
    <3>3. P \in [1..n + 1 -> Nat] /\ \A i \in 1..n : Follows(P[i], emitter.events[i].typ, P[i + 1])
      BY <2>3 DEF n
    <3>. QED
      BY <2>3, <2>4, <3>2, <3>3
  <2>6. e.state \in Outside => ~e.buffered
    BY <1>2, <1>5 DEF Regular, Stage
  <2>7. \/ Stuck(q.emitter)
        \/ e.state = "DOCUMENT_END" /\ q.emitter = [e EXCEPT !.buffered = TRUE]
    BY <1>1, <1>2, <1>3, <2>1, <2>5, <2>6, EndFails
  <2>8. CASE e.state = "DOCUMENT_END" /\ q.emitter = [e EXCEPT !.buffered = TRUE]
    <3>. DEFINE y == [e EXCEPT !.buffered = TRUE]
    <3>1. /\ y.events = e.events /\ y.state = e.state /\ y.states = e.states
          /\ y.indent = e.indent /\ y.indents = e.indents /\ y.flow_level = e.flow_level
          /\ y.line_comment = e.line_comment
      BY <1>2 DEF Emitters
    <3>2. emitter' = y
      BY <2>8
    <3>. HIDE DEF y
    <3>3. Head(emitter.events).comment \in BOOLEAN /\ ~Head(emitter.events).comment
      BY <1>1, <2>4, HeadFacts DEF Commented
    <3>4. e.line_comment = emitter.line_comment
      BY <1>1, <1>2, <3>3, Fields DEF Sane
    <3>5. /\ Framed(emitter') /\ Height(emitter') = Height(emitter)
          /\ Tidy(emitter) => Tidy(emitter')
      BY <1>2, <1>5, <3>1, <3>2, <3>4, SameStacks DEF Regular
    <3>6. Simple(emitter') /\ Filled(emitter')
      BY <1>2, <1>5, <3>1, <3>2 DEF Regular, Simple, Filled
    <3>7. Len(emitter.events) = 1 /\ WalkHeight(walk) = 0
      <4>1. Height(emitter) = 1 /\ head = "DOCUMENT_END"
        <5>1. Height(emitter) # 0
          <6>1. e.state \notin Outside /\ Len(e.states) \in Nat
            BY <1>2, <2>8, Heights DEF Outside, Sane
          <6>. QED
            BY <1>2, <6>1 DEF Height
        <5>. QED
          BY <2>5, <5>1 DEF Follows, Openings, Closings
      <4>2. P[2] = 0
        BY <2>5, <4>1 DEF Follows, Openings, Closings
      <4>. DEFINE n == Len(emitter.events)
      <4>3. n \in Nat \ {0}
        BY <2>4
      <4>. HIDE DEF n
      <4>4. n = 1
        <5>1. \A i \in 1..n - 1 :
                emitter.events[i].typ \notin {"STREAM_START", "STREAM_END", "DOCUMENT_END"}
          BY <1>5 DEF Regular, Queued, n
        <5>2. 1 \notin 1..n - 1
          BY <2>4, <4>1, <5>1
        <5>. QED
          BY <4>3, <5>2
      <4>5. P[n + 1] = WalkHeight(walk) /\ n + 1 = 2
        BY <2>3, <4>4 DEF n
      <4>. QED
        BY <4>2, <4>4, <4>5 DEF n
    <3>8. WalkHeight(<<>>) = 0
      BY DEF WalkHeight
    <3>9. Queued(emitter.events, <<>>)
      <4>1. Fresh(emitter.events[1].typ, <<>>)
        BY <2>4 DEF Fresh
      <4>. QED
        BY <1>5, <3>7, <4>1 DEF Regular, Queued
    <3>10. Stage'
      BY <1>1, <1>2, <2>8, <3>1, <3>2 DEF Stage, Outside
    <3>11. ~late' => Tidy(emitter')
      BY <1>5, <3>5 DEF Regular
    <3>12. Path(Height(emitter), emitter.events, 0)
      BY <1>5, <3>7 DEF Regular
    <3>. QED
      BY <1>2, <3>1, <3>2, <3>5, <3>6, <3>8, <3>9, <3>10, <3>11, <3>12 DEF Regular
  <2>. QED
    BY <2>7, <2>8
<1>. QED
  BY <1>4, <1>5

\* A turn of the emitter's loop.
LEMMA EmitNextStep ==
  ASSUME Inv, EmitNext
  PROVE  Inv'
<1>1. /\ Running /\ ~NeedMoreEvents(emitter.events)
      /\ late' = (late \/ /\ emitter.state \in BlockStates
                          /\ Head(emitter.events).typ \in Ends
                          /\ Head(emitter.events).comment)
      /\ doneInit' = doneInit
  BY DEF EmitNext
<1>2. PICK r \in EmitHead(emitter) :
        /\ emitter' = r.emitter
        /\ IF r.how = "done" THEN UNCHANGED <<outcome, walk, broken>>
           ELSE /\ EndCall(IF r.how = "panic" THEN "panic" ELSE "error")
                /\ broken' = (broken \/ r.how # "failed"
                               \/ Head(emitter.events).typ \notin {"DOCUMENT_END", "STREAM_END"})
  BY DEF EmitNext
<1>3. PICK q \in Attempt(Analyzed(emitter)) :
        /\ r.how = q.how
        /\ r.emitter = IF q.how = "done" THEN Consumed(q.emitter) ELSE q.emitter
  BY HeadCases
<1>4. Typed /\ Sane(emitter) /\ emitter.events # <<>>
  BY <1>1 DEF Inv, Typed, NeedMoreEvents
<1>5. Sane(emitter')
  BY <1>2, <1>4, EmitHeadFit
<1>6. late' \in BOOLEAN
  BY <1>1
<1>7. CASE q.how = "done"
  <2>1. /\ emitter' = Consumed(q.emitter) /\ outcome' = outcome /\ walk' = walk /\ broken' = broken
    BY <1>2, <1>3, <1>7
  <2>2. Typed'
    BY <1>1, <1>4, <1>5, <1>6, <2>1 DEF Typed, Running
  <2>3. ASSUME ~broken PROVE Regular'
    <3>1. ~Stuck(emitter)
      <4>. SUFFICES ASSUME Stuck(emitter) PROVE FALSE
        OBVIOUS
      <4>1. /\ Sane(Analyzed(emitter))
            /\ Analyzed(emitter).events = emitter.events /\ Analyzed(emitter).state = emitter.state
            /\ Analyzed(emitter).states = emitter.states /\ Analyzed(emitter).indent = emitter.indent
            /\ Analyzed(emitter).indents = emitter.indents
            /\ Analyzed(emitter).flow_level = emitter.flow_level
        BY <1>4, AnalyzedFacts
      <4>2. Stuck(Analyzed(emitter))
        BY <4>1 DEF Stuck, Flat
      <4>3. q.how = "refused" \/ q.how = "failed"
        BY <4>1, <4>2, ContentFails
      <4>. QED
        BY <1>7, <4>3
    <3>2. Regular
      BY <2>3, <3>1 DEF Inv
    <3>. QED
      BY <1>1, <1>4, <1>7, <2>1, <3>2, EventDone
  <2>. QED
    BY <2>1, <2>2, <2>3 DEF Inv
<1>8. CASE q.how # "done"
  <2>1. /\ emitter' = q.emitter /\ walk' = <<>>
        /\ outcome' = IF q.how = "panic" THEN "panic" ELSE "error"
        /\ broken' = (broken \/ q.how # "failed"
                       \/ Head(emitter.events).typ \notin {"DOCUMENT_END", "STREAM_END"})
    BY <1>2, <1>3, <1>8 DEF EndCall
  <2>2. Typed'
    <3>1. WalkShape(<<>>)
      BY DEF WalkShape, Walks
    <3>2. outcome' \in Outcomes /\ broken' \in BOOLEAN
      BY <2>1 DEF Outcomes
    <3>. QED
      BY <1>1, <1>4, <1>5, <1>6, <2>1, <3>1, <3>2 DEF Typed
  <2>3. ASSUME ~broken' PROVE Regular' \/ Stuck(emitter')
    <3>1. /\ ~broken /\ q.how = "failed" /\ outcome' = "error"
          /\ Head(emitter.events).typ \in {"DOCUMENT_END", "STREAM_END"}
      BY <2>1, <2>3
    <3>2. Regular \/ Stuck(emitter)
      BY <3>1 DEF Inv
    <3>3. late \in BOOLEAN /\ (late => late')
      BY <1>1, <1>4 DEF Typed
    <3>. QED
      BY <1>1, <1>4, <2>1, <3>1, <3>2, <3>3, EventFails
  <2>4. outcome' # "ok"
    BY <2>1
  <2>. QED
    BY <2>2, <2>3, <2>4 DEF Inv
<1>. QED
  BY <1>7, <1>8

\* A new encoder.
LEMMA InitInv == Init => Inv
<1>. SUFFICES ASSUME Init PROVE Inv
  OBVIOUS
<1>. DEFINE e == NewEmitter
<1>1. /\ emitter = e /\ doneInit = FALSE /\ walk = <<>> /\ outcome = "none"
      /\ broken = FALSE /\ late = FALSE
  BY DEF Init
<1>2. /\ e.events = <<>> /\ e.state = "STREAM_START" /\ e.states = <<>> /\ e.indent = -1
      /\ e.indents = <<>> /\ e.flow_level = 0 /\ ~e.line_comment /\ ~e.buffered
  BY DEF NewEmitter
<1>3. "STREAM_START" \in EmitterStates /\ "STREAM_START" \in Outside
  BY DEF EmitterStates, Outside
<1>4. "STREAM_START" \notin CollectionStates
  BY <1>3, EventKinds
<1>5. Sane(e)
  <2>1. e \in Emitters
    BY <1>3 DEF NewEmitter, Emitters, Indents
  <2>. QED
    BY <1>2, <1>4, <2>1 DEF Sane, Rooted
<1>. HIDE DEF e
<1>6. Typed
  BY <1>1, <1>5 DEF Typed, WalkShape, Walks, Outcomes
<1>7. Framed(e)
  BY <1>2, <1>4, StateKinds DEF Framed, Flat
<1>8. Simple(e) /\ Filled(e) /\ Tidy(e)
  <2>1. DOMAIN e.states = {}
    BY <1>2
  <2>2. e.state \notin BlockFirst
    BY <1>2, <1>4, StateKinds
  <2>. QED
    BY <1>2, <2>1, <2>2 DEF Simple, Filled, Tidy
<1>9. Queued(<<>>, <<>>)
  BY DEF Queued, Paired
<1>10. Height(e) = 0 /\ WalkHeight(<<>>) = 0
  BY <1>2, <1>3 DEF Height, WalkHeight
<1>11. Path(0, <<>>, 0)
  <2>. DEFINE P == [i \in 1..1 |-> 0]
  <2>1. P \in [1..Len(<<>>) + 1 -> Nat] /\ P[1] = 0 /\ P[Len(<<>>) + 1] = 0
    OBVIOUS
  <2>2. \A i \in 1..Len(<<>>) : Follows(P[i], <<>>[i].typ, P[i + 1])
    OBVIOUS
  <2>. QED
    BY <2>1, <2>2 DEF Path
<1>12. Stage
  BY <1>1, <1>2 DEF Stage, Running
<1>13. Regular
  BY <1>1, <1>2, <1>7, <1>8, <1>9, <1>10, <1>11, <1>12 DEF Regular
<1>. QED
  BY <1>6, <1>13 DEF Inv

\* What holds between two calls, and when the walk of a call is over.
LEMMA WalkOver ==
  ASSUME Inv, walk = <<>>
  PROVE  /\ Sane(emitter) /\ emitter.events \in Seq(Events) /\ WalkHeight(walk) = 0
         /\ ~broken => Regular \/ Stuck(emitter)
         /\ Regular => /\ Path(Height(emitter), emitter.events, 0)
                       /\ ~(emitter.state = "FIRST_DOCUMENT_START" /\ emitter.events = <<>>)
BY Fields DEF Inv, Typed, Sane, Regular, Stage, WalkHeight

\* A call of Encode or Close.
LEMMA CallStep ==
  ASSUME Inv, Encode \/ Close
  PROVE  Inv'
<1>1. PICK steps : Call(steps) /\ steps \in Walks /\ steps # <<>>
  BY DEF Encode, Close, Walks
<1>2. /\ ~Running /\ outcome' = "running" /\ walk' = steps /\ emitter' = emitter
      /\ doneInit' = doneInit /\ broken' = broken /\ late' = late
  BY <1>1 DEF Call
<1>3. Typed /\ walk = <<>>
  BY <1>2 DEF Inv, Typed
<1>4. Typed'
  BY <1>1, <1>2, <1>3 DEF Typed, WalkShape, Running, Outcomes
<1>5. ASSUME Regular PROVE Regular'
  <2>1. WalkHeight(steps) = 0 /\ WalkHeight(walk) = 0
    BY <1>1, <1>3, WalkKinds, WalkOver DEF WalkShape
  <2>2. Queued(emitter.events, steps)
    <3>1. Queued(emitter.events, <<>>)
      BY <1>3, <1>5 DEF Regular
    <3>2. \A typ : Fresh(typ, <<>>) => Fresh(typ, steps)
      <4>1. <<>> # <<"document">>
        OBVIOUS
      <4>. QED
        BY <4>1 DEF Fresh
    <3>. QED
      BY <3>1, <3>2 DEF Queued
  <2>3. Stage'
    BY <1>1, <1>2, <1>3, <1>5, WalkOver DEF Regular, Stage
  <2>4. /\ Framed(emitter) /\ Simple(emitter) /\ Filled(emitter)
        /\ Path(Height(emitter), emitter.events, WalkHeight(walk)) /\ (~late => Tidy(emitter))
    BY <1>5 DEF Regular
  <2>5. outcome' # "ok"
    BY <1>2
  <2>. QED
    BY <1>2, <2>1, <2>2, <2>3, <2>4, <2>5 DEF Regular
<1>6. ~broken' => Regular' \/ (Stuck(emitter') /\ outcome' # "ok")
  BY <1>2, <1>5 DEF Inv
<1>. QED
  BY <1>4, <1>6 DEF Inv

\* A call returns when everything has been written.
LEMMA ReturnStep ==
  ASSUME Inv, Return
  PROVE  Inv'
<1>1. /\ Running /\ walk = <<>> /\ NeedMoreEvents(emitter.events)
      /\ outcome' = "ok" /\ walk' = walk /\ emitter' = emitter
      /\ doneInit' = doneInit /\ broken' = broken /\ late' = late
  BY DEF Return, EndCall
<1>2. Typed
  BY DEF Inv
<1>3. Typed'
  BY <1>1, <1>2 DEF Typed, Outcomes
<1>4. ~Stuck(emitter)
  <2>1. "DOCUMENT_END" \notin DOMAIN Accumulate
    BY DEF Accumulate
  <2>. QED
    BY <1>1, <2>1 DEF Stuck, NeedMoreEvents
<1>5. ASSUME Regular PROVE Regular'
  <2>1. Sane(emitter) /\ Height(emitter) \in Nat
    BY <1>1, WalkOver, Heights DEF Sane, Height
  <2>2. emitter.events = <<>>
    BY <1>1, <1>5, <2>1, WalkOver, NothingWaits
  <2>3. Height(emitter) = 0
    <3>1. PICK P \in [1..Len(<<>>) + 1 -> Nat] : P[1] = Height(emitter) /\ P[Len(<<>>) + 1] = 0
      BY <1>1, <1>5, <2>2, WalkOver DEF Path
    <3>2. Len(<<>>) + 1 = 1
      OBVIOUS
    <3>. QED
      BY <3>1, <3>2
  <2>4. emitter.state \in Outside
    <3>1. emitter.states \in Seq(ReturnStates)
      BY <2>1 DEF Sane, Emitters
    <3>. QED
      BY <2>3, <3>1 DEF Height
  <2>5. emitter.state # "STREAM_START"
    BY <1>1, <1>5, <2>2 DEF Regular, Stage
  <2>6. emitter.state \in {"DOCUMENT_START", "END"}
    BY <1>1, <1>5, <2>2, <2>4, <2>5, WalkOver DEF Outside
  <2>7. Stage'
    BY <1>1, <2>2, <2>6, <1>5 DEF Regular, Stage
  <2>. QED
    BY <1>1, <1>5, <2>2, <2>6, <2>7 DEF Regular
<1>. QED
  BY <1>1, <1>3, <1>4, <1>5 DEF Inv

\* The inductive invariant is one.
LEMMA NextInv == Inv /\ [Next]_vars => Inv'
<1>. SUFFICES ASSUME Inv, [Next]_vars PROVE Inv'
  OBVIOUS
<1>1. CASE Encode \/ Close
  BY <1>1, CallStep
<1>2. CASE Return
  BY <1>2, ReturnStep
<1>3. CASE MarshalFails
  <2>1. /\ outcome' = "error" /\ walk' = <<>> /\ broken' = TRUE
        /\ emitter' = emitter /\ doneInit' = doneInit /\ late' = late
    BY <1>3 DEF MarshalFails, EndCall
  <2>2. Typed'
    BY <2>1 DEF Inv, Typed, WalkShape, Walks, Outcomes
  <2>. QED
    BY <2>1, <2>2 DEF Inv
<1>4. CASE \/ MarshalInit \/ MarshalDocument \/ MarshalLeaf \/ MarshalCollection
           \/ MarshalEnd \/ MarshalDocumentEnd \/ Finish
  BY <1>4, WalkSteps
<1>5. CASE EmitNext
  BY <1>5, EmitNextStep
<1>6. CASE UNCHANGED vars
  BY <1>6 DEF vars, Inv, Typed, Regular, Stage, Running
<1>. QED
  BY <1>1, <1>2, <1>3, <1>4, <1>5, <1>6 DEF Next

\* It holds in every state.
LEMMA SpecInv == Spec => []Inv
BY InitInv, NextInv, PTL DEF Spec

-----------------------------------------------------------------------------
(* What the invariant says of the levels                                     *)

Open == {l \in 1..Levels : StateAt(l) \in FlowStates \cup BlockStates}

\* The state of each level is that of the stack, or the current one.
LEMMA LevelFacts ==
  ASSUME Sane(emitter)
  PROVE  /\ Len(emitter.states) \in Nat /\ Levels = Len(emitter.states) + 1
         /\ DOMAIN emitter.states = 1..Len(emitter.states)
         /\ \A l \in 1..Len(emitter.states) : StateAt(l) = emitter.states[l]
         /\ StateAt(Levels) = emitter.state
         /\ Len(emitter.states) >= 1 => StateAt(1) = "DOCUMENT_END"
<1>. DEFINE n == Len(emitter.states)
<1>1. n \in Nat /\ DOMAIN emitter.states = 1..n /\ (emitter.states = <<>> <=> n = 0)
  <2>1. emitter.states \in Seq(ReturnStates)
    BY DEF Sane, Emitters
  <2>. QED
    BY <2>1
<1>2. n >= 1 => emitter.states[1] = "DOCUMENT_END"
  BY <1>1 DEF Sane, Rooted
<1>3. Levels = n + 1
  BY DEF Levels
<1>. HIDE DEF n
<1>4. /\ \A l \in 1..n : StateAt(l) = emitter.states[l]
      /\ StateAt(Levels) = emitter.state
  BY <1>1, <1>3 DEF StateAt
<1>. QED
  BY <1>1, <1>2, <1>3, <1>4 DEF n

\* The collections around are those of the levels 2 to m + 1, each with the
\* indent of its level; the flow collections are the innermost.
LEMMA OpenLevels ==
  ASSUME Sane(emitter), Regular \/ Stuck(emitter)
  PROVE  \E m \in Nat :
           /\ emitter.flow_level \in 0..m /\ Len(emitter.indents) = m
           /\ \A i \in 1..m : emitter.indents[i] = IF i = 1 THEN -1 ELSE i - 1
           /\ emitter.indent = IF m = 0 THEN -1 ELSE m
           /\ Open = 2..m + 1
           /\ \A l \in Open : StateAt(l) \in FlowStates <=> l > m + 1 - emitter.flow_level
<1>. DEFINE n == Len(emitter.states)
            f == emitter.flow_level
            OC == FlowStates \cup BlockStates
            St(l) == StateAt(l)
<1>1. /\ n \in Nat /\ Levels = n + 1 /\ f \in Int
      /\ \A l \in 1..n : St(l) = emitter.states[l]
      /\ St(n + 1) = emitter.state
      /\ n >= 1 => St(1) = "DOCUMENT_END"
  BY LevelFacts, Heights DEF Sane
<1>2. "DOCUMENT_END" \notin OC /\ FlowStates \cap BlockStates = {}
  BY StateKinds
<1>3. Open = {l \in 1..n + 1 : St(l) \in OC}
  BY <1>1 DEF Open
<1>4. n >= 1 => 1 \notin Open
  BY <1>1, <1>2, <1>3
<1>. HIDE DEF n, f, OC, St
<1>5. ASSUME Flat(emitter), Open = {}
      PROVE  \E m \in Nat :
           /\ f \in 0..m /\ Len(emitter.indents) = m
           /\ \A i \in 1..m : emitter.indents[i] = IF i = 1 THEN -1 ELSE i - 1
           /\ emitter.indent = IF m = 0 THEN -1 ELSE m
           /\ Open = 2..m + 1
           /\ \A l \in Open : St(l) \in FlowStates <=> l > m + 1 - f
  BY <1>5 DEF Flat, f
<1>6. ASSUME NEW m \in Nat, Stacked(emitter, m), n - m \in 0..1,
             emitter.indent = IF m = 0 THEN -1 ELSE m, n >= 1,
             St(n + 1) \in OC <=> m = n,
             m = n => (St(n + 1) \in FlowStates <=> f > 0)
      PROVE  /\ f \in 0..m /\ Len(emitter.indents) = m
             /\ \A i \in 1..m : emitter.indents[i] = IF i = 1 THEN -1 ELSE i - 1
             /\ Open = 2..m + 1
             /\ \A l \in Open : St(l) \in FlowStates <=> l > m + 1 - f
  <2>1. /\ f \in 0..m /\ Len(emitter.indents) = m
        /\ \A i \in 1..m : emitter.indents[i] = IF i = 1 THEN -1 ELSE i - 1
        /\ \A l \in 2..n : St(l) \in OC /\ (St(l) \in FlowStates <=> l > m + 1 - f)
    <3>1. /\ f \in 0..m /\ Len(emitter.indents) = m
          /\ \A i \in 1..m : emitter.indents[i] = IF i = 1 THEN -1 ELSE i - 1
      BY <1>6 DEF Stacked, f
    <3>2. ASSUME NEW l \in 2..n
          PROVE  St(l) \in OC /\ (St(l) \in FlowStates <=> l > m + 1 - f)
      <4>1. /\ emitter.states[l] \in FlowStates \cup BlockStates
            /\ emitter.states[l] \in FlowStates <=> l > m + 1 - f
        BY <1>6, <3>2 DEF Stacked, f, n
      <4>2. St(l) = emitter.states[l]
        BY <1>1, <3>2
      <4>. QED
        BY <4>1, <4>2 DEF OC
    <3>. QED
      BY <3>1, <3>2
  <2>2. ASSUME NEW l PROVE l \in Open <=> l \in 2..m + 1
    <3>1. CASE m = n
      BY <1>1, <1>3, <1>4, <1>6, <2>1, <3>1
    <3>2. CASE m = n - 1
      BY <1>1, <1>3, <1>4, <1>6, <2>1, <3>2
    <3>. QED
      BY <1>1, <1>6, <3>1, <3>2
  <2>3. Open = 2..m + 1
    BY <2>2
  <2>4. ASSUME NEW l \in 2..m + 1 PROVE St(l) \in FlowStates <=> l > m + 1 - f
    <3>1. CASE l \in 2..n
      BY <2>1, <3>1
    <3>2. CASE l = n + 1 /\ m = n
      BY <1>1, <1>6, <2>1, <3>2
    <3>. QED
      BY <1>1, <1>6, <3>1, <3>2
  <2>. QED
    BY <2>1, <2>3, <2>4
<1>7. CASE Stuck(emitter)
  <2>1. Flat(emitter) /\ emitter.state = "DOCUMENT_CONTENT"
        /\ \A l \in 1..n : emitter.states[l] = "DOCUMENT_END"
    BY <1>7, LevelFacts DEF Stuck, n
  <2>2. "DOCUMENT_CONTENT" \notin OC
    BY EventKinds, StateKinds DEF OC
  <2>3. Open = {}
    BY <1>1, <1>2, <1>3, <2>1, <2>2
  <2>. QED
    BY <1>5, <2>1, <2>3 DEF f, St
<1>8. CASE Regular
  <2>1. Framed(emitter)
    BY <1>8 DEF Regular
  <2>2. CASE emitter.state \notin CollectionStates
    <3>1. Flat(emitter) /\ n = 0
      BY <2>1, <2>2, Heights DEF Framed, n, Sane
    <3>2. emitter.state \notin OC
      BY <2>2, StateKinds DEF OC
    <3>3. Open = {}
      BY <1>1, <1>3, <3>1, <3>2
    <3>. QED
      BY <1>5, <3>1, <3>3 DEF f, St
  <2>3. emitter.state \in CollectionStates => n >= 1
    BY <1>1, Heights DEF n, Sane, Rooted
  <2>4. CASE emitter.state \in OC
    <3>1. Stacked(emitter, n) /\ emitter.indent = n
          /\ (emitter.state \in FlowStates <=> f > 0)
      <4>1. Nested(emitter) /\ (emitter.state \in FlowStates <=> f > 0)
        BY <1>2, <2>1, <2>4 DEF Framed, OC, f
      <4>. QED
        BY <4>1 DEF Nested, n
    <3>2. n >= 1
      BY <2>3, <2>4, StateKinds DEF OC
    <3>. QED
      BY <1>1, <1>6, <2>4, <3>1, <3>2 DEF f, St
  <2>5. CASE emitter.state \in FirstStates
    <3>1. Awaits(emitter) /\ n >= 1 /\ emitter.state \notin OC
      BY <2>1, <2>3, <2>5, StateKinds DEF Framed, OC
    <3>2. Stacked(emitter, n - 1) /\ emitter.indent = IF n - 1 = 0 THEN -1 ELSE n - 1
      BY <1>1, <3>1 DEF Awaits, n
    <3>. DEFINE m == n - 1
    <3>3. m \in Nat /\ n - m \in 0..1 /\ m # n
      BY <1>1, <3>1
    <3>4. Stacked(emitter, m) /\ emitter.indent = IF m = 0 THEN -1 ELSE m
      BY <3>2
    <3>. HIDE DEF m
    <3>. QED
      BY <1>1, <1>6, <3>1, <3>3, <3>4 DEF f, St
  <2>. QED
    BY <2>2, <2>4, <2>5, StateKinds DEF OC
<1>. QED
  BY <1>7, <1>8

\* Before a call has failed the stacks are in order, or the emitter is stuck.
LEMMA SoundFacts ==
  ASSUME Inv, Sound
  PROVE  /\ Sane(emitter) /\ ~broken /\ (Regular \/ Stuck(emitter))
         /\ Stuck(emitter) => /\ emitter.state = "DOCUMENT_CONTENT"
                              /\ \A l \in DOMAIN emitter.states : emitter.states[l] = "DOCUMENT_END"
BY DEF Inv, Typed, Sound, Stuck

\* The indents and the flow level are those of the open levels.
LEMMA MatchFromInv == Inv => IndentsMatch
<1>. SUFFICES ASSUME Inv, Sound PROVE IndentsMatch
  BY DEF IndentsMatch
<1>1. PICK m \in Nat :
        /\ emitter.flow_level \in 0..m /\ Len(emitter.indents) = m
        /\ \A i \in 1..m : emitter.indents[i] = IF i = 1 THEN -1 ELSE i - 1
        /\ emitter.indent = IF m = 0 THEN -1 ELSE m
        /\ Open = 2..m + 1
        /\ \A l \in Open : StateAt(l) \in FlowStates <=> l > m + 1 - emitter.flow_level
  BY SoundFacts, OpenLevels
<1>. DEFINE f == emitter.flow_level
            all == Append(emitter.indents, emitter.indent)
            F == {l \in Open : StateAt(l) \in FlowStates}
<1>2. /\ DOMAIN all = 1..m + 1 /\ all[1] = -1
      /\ \A i \in 2..m + 1 : all[i] = i - 1
  <2>1. emitter.indents \in Seq(Indents) /\ emitter.indent \in Indents
    BY SoundFacts, Fields DEF Sane
  <2>2. /\ Len(all) = m + 1 /\ DOMAIN all = 1..m + 1
        /\ \A i \in 1..m : all[i] = emitter.indents[i]
        /\ all[m + 1] = emitter.indent
    BY <1>1, <2>1
  <2>. HIDE DEF all
  <2>3. all[1] = -1
    BY <1>1, <2>2
  <2>4. ASSUME NEW i \in 2..m + 1 PROVE all[i] = i - 1
    BY <1>1, <2>2, <2>4
  <2>. QED
    BY <2>2, <2>3, <2>4
<1>. HIDE DEF all
<1>3. F = (m + 2 - f)..(m + 1)
  <2>1. F = {l \in 2..m + 1 : l > m + 1 - f}
    BY <1>1
  <2>2. f \in 0..m
    BY <1>1
  <2>. HIDE DEF F, f
  <2>. QED
    BY <2>1, <2>2
<1>4. Cardinality(F) = f
  <2>1. f \in 0..m
    BY <1>1
  <2>2. Cardinality(F) = Cardinality((m + 2 - f)..(m + 1))
    BY <1>3
  <2>. HIDE DEF F, f
  <2>. QED
    BY <2>1, <2>2, FS_Interval
<1>5. {all[i] : i \in DOMAIN all} = {-1} \cup {l - 1 : l \in Open}
  <2>1. ASSUME NEW x PROVE x \in {all[i] : i \in 1..m + 1} <=> x \in {-1} \cup {l - 1 : l \in 2..m + 1}
    <3>1. ASSUME NEW i \in 1..m + 1 PROVE all[i] \in {-1} \cup {l - 1 : l \in 2..m + 1}
      <4>1. CASE i = 1
        BY <1>2, <4>1
      <4>2. CASE i \in 2..m + 1
        BY <1>2, <4>2
      <4>. QED
        BY <4>1, <4>2
    <3>2. -1 \in {all[i] : i \in 1..m + 1}
      <4>1. 1 \in 1..m + 1
        OBVIOUS
      <4>. QED
        BY <1>2, <4>1
    <3>3. ASSUME NEW l \in 2..m + 1 PROVE l - 1 \in {all[i] : i \in 1..m + 1}
      <4>1. l \in 1..m + 1
        OBVIOUS
      <4>. QED
        BY <1>2, <4>1
    <3>. QED
      BY <3>1, <3>2, <3>3
  <2>. QED
    BY <1>1, <1>2, <2>1
<1>6. \A i, j \in DOMAIN all : i < j => all[i] < all[j]
  <2>1. ASSUME NEW i \in 1..m + 1, NEW j \in 1..m + 1, i < j PROVE all[i] < all[j]
    <3>1. j \in 2..m + 1 /\ all[j] = j - 1
      BY <1>2, <2>1
    <3>2. all[i] = -1 \/ all[i] = i - 1
      BY <1>2
    <3>. QED
      BY <2>1, <3>1, <3>2
  <2>. QED
    BY <1>2, <2>1
<1>. QED
  BY <1>4, <1>5, <1>6 DEF IndentsMatch, Open, all

\* No block collection inside of a flow one.
LEMMA FlowFromInv == Inv => FlowInsideFlow
<1>. SUFFICES ASSUME Inv, Sound, NEW l \in 1..Levels, NEW k \in 1..Levels,
                     l < k, StateAt(l) \in FlowStates
              PROVE  StateAt(k) \notin BlockStates \cup BlockFirst
  BY DEF FlowInsideFlow
<1>1. PICK m \in Nat :
        /\ emitter.flow_level \in 0..m
        /\ Open = 2..m + 1
        /\ \A i \in Open : StateAt(i) \in FlowStates <=> i > m + 1 - emitter.flow_level
  BY SoundFacts, OpenLevels
<1>2. l \in Open
  BY DEF Open
<1>3. ASSUME k \in Open PROVE StateAt(k) \in FlowStates
  BY <1>1, <1>2, <1>3
<1>4. StateAt(k) \notin BlockStates
  <2>1. StateAt(k) \in BlockStates => k \in Open
    BY DEF Open
  <2>. QED
    BY <1>3, <2>1, StateKinds
<1>5. StateAt(k) \notin BlockFirst
  <2>. SUFFICES ASSUME StateAt(k) \in BlockFirst PROVE FALSE
    OBVIOUS
  <2>1. emitter.flow_level > 0
    BY <1>1, <1>2
  <2>2. emitter.state = StateAt(k)
    <3>1. k \in 1..Len(emitter.states) => StateAt(k) \in ReturnStates
      BY SoundFacts, LevelFacts, ElementOfSeq, Fields DEF Sane
    <3>2. k \notin 1..Len(emitter.states)
      BY <3>1, EventKinds, StateKinds
    <3>. QED
      BY <3>2, SoundFacts, LevelFacts
  <2>3. Regular
    BY <2>2, SoundFacts, StateKinds, EventKinds
  <2>. QED
    BY <2>1, <2>2, <2>3 DEF Regular, Framed
<1>. QED
  BY <1>4, <1>5

\* The other properties of a sound emitter.
LEMMA SoundFromInv == Inv => NoEmptyBlock /\ SimpleKeysFit /\ CommentsInPlace /\ EncodeComplete
<1>. SUFFICES ASSUME Inv PROVE NoEmptyBlock /\ SimpleKeysFit /\ CommentsInPlace /\ EncodeComplete
  OBVIOUS
<1>1. NoEmptyBlock
  <2>. SUFFICES ASSUME Sound, emitter.state \in BlockFirst
                PROVE  emitter.events # <<>> => Head(emitter.events).typ \notin Ends
    BY DEF NoEmptyBlock
  <2>1. Regular
    BY SoundFacts, StateKinds, EventKinds
  <2>. QED
    BY <2>1 DEF Regular, Filled
<1>2. SimpleKeysFit
  <2>. SUFFICES ASSUME Sound, NEW l \in DOMAIN emitter.states, emitter.states[l] \in SimpleValues
                PROVE  /\ l = Len(emitter.states) /\ emitter.state \in FlowFirst
                       /\ emitter.events # <<>> /\ Head(emitter.events).typ \in Ends
    BY DEF SimpleKeysFit
  <2>1. Regular
    BY SoundFacts, StateKinds
  <2>. QED
    BY <2>1 DEF Regular, Simple
<1>3. CommentsInPlace
  <2>. SUFFICES ASSUME Sound, ~late
                PROVE  /\ emitter.state \in Awaiting => ~emitter.line_comment
                       /\ \A l \in DOMAIN emitter.states :
                            emitter.states[l] # "FLOW_SEQUENCE_TRAIL_ITEM"
    BY DEF CommentsInPlace
  <2>1. Awaiting \cap KeyDone = {} /\ "DOCUMENT_CONTENT" \notin Awaiting
    BY DEF Awaiting, KeyDone, Trails
  <2>2. CASE Regular
    BY <2>1, <2>2 DEF Regular, Tidy
  <2>3. CASE Stuck(emitter)
    BY <2>1, <2>3 DEF Stuck
  <2>. QED
    BY <2>2, <2>3, SoundFacts
<1>4. EncodeComplete
  <2>. SUFFICES ASSUME outcome = "ok", ~broken
                PROVE  /\ emitter.events = <<>> /\ ~emitter.buffered
                       /\ emitter.state \in {"DOCUMENT_START", "END"} /\ emitter.states = <<>>
                       /\ emitter.indent = -1 /\ emitter.indents = <<>> /\ emitter.flow_level = 0
    BY DEF EncodeComplete
  <2>1. Regular
    BY DEF Inv
  <2>2. emitter.events = <<>> /\ emitter.state \in {"DOCUMENT_START", "END"}
    BY <2>1 DEF Regular
  <2>3. emitter.state \in Outside /\ emitter.state \notin CollectionStates
    <3>1. {"DOCUMENT_START", "END"} \subseteq Outside
      BY DEF Outside
    <3>. QED
      BY <2>2, <3>1, EventKinds
  <2>. QED
    BY <2>1, <2>2, <2>3 DEF Regular, Stage, Framed, Flat
<1>. QED
  BY <1>1, <1>2, <1>3, <1>4

\* The types.
LEMMA TypesFromInv == Inv => TypeOK
<1>. SUFFICES ASSUME Inv PROVE TypeOK
  OBVIOUS
<1>1. /\ Sane(emitter) /\ WalkShape(walk) /\ outcome \in Outcomes /\ (walk # <<>> => Running)
      /\ doneInit \in BOOLEAN /\ broken \in BOOLEAN /\ late \in BOOLEAN
  BY DEF Inv, Typed
<1>2. /\ emitter.events \in Seq(Events) /\ emitter.state \in EmitterStates
      /\ emitter.states \in Seq(ReturnStates) /\ emitter.indent \in Indents
      /\ emitter.flow_level \in Int /\ emitter.line_comment \in BOOLEAN
      /\ emitter.key_line_comment \in BOOLEAN /\ emitter.buffered \in BOOLEAN
  BY <1>1, Fields DEF Sane
<1>3. \A i \in DOMAIN emitter.events : emitter.events[i].typ \in EventTypes
  <2>1. \A i \in DOMAIN emitter.events : emitter.events[i] \in Events
    BY <1>2
  <2>. QED
    BY <2>1 DEF Events
<1>4. \A l \in DOMAIN emitter.states : emitter.states[l] \in EmitterStates
  <2>1. \A l \in DOMAIN emitter.states : emitter.states[l] \in ReturnStates
    BY <1>2
  <2>2. ReturnStates \subseteq EmitterStates
    BY DEF ReturnStates, EmitterStates
  <2>. QED
    BY <2>1, <2>2
<1>5. \A l \in DOMAIN walk : walk[l] \in Steps
  <2>1. walk \in Seq(Steps)
    BY <1>1, WalkKinds
  <2>. QED
    BY <2>1
<1>. QED
  BY <1>1, <1>2, <1>3, <1>4, <1>5 DEF TypeOK, Indents

-----------------------------------------------------------------------------
(* What a torn stream never gets past                                        *)

\* The events that begin or end a document or the stream.  The first three are
\* taken outside of documents only.
Edges == {"STREAM_START", "DOCUMENT_START", "STREAM_END"}
Borders == Edges \cup {"DOCUMENT_END"}

\* An attempt made inside a document does not lead out of it, and leaves the state
\* as it is if the event belongs elsewhere.
Within(e, r) ==
  IF Head(e.events).typ \in Borders THEN r.how # "done" /\ r.emitter.state = e.state
  ELSE r.emitter.state \notin Outside
\* Where one is made.
Enclosed(e) == Ready(e) /\ Rooted(e) /\ e.state \notin Outside

\* The states to return to, and those of a new collection, lie inside.
LEMMA InsideStates ==
  /\ ReturnStates \cap Outside = {} /\ FirstStates \cap Outside = {}
  /\ ReturnStates \subseteq EmitterStates /\ FirstStates \subseteq EmitterStates
  /\ Borders \cap ({"SCALAR", "ALIAS"} \cup Openings \cup Closings) = {}
BY DEF ReturnStates, FirstStates, FlowFirst, BlockFirst, FlowStates, BlockStates, Trails, Outside,
       EmitterStates, Borders, Edges, Openings, Closings

\* A failed write leaves the state, and what follows one takes the new one.
LEMMA WritesState ==
  ASSUME NEW e \in Emitters, NEW x \in Emitters, NEW r \in Writes(e, x)
  PROVE  \/ r = Fails(e) /\ r.how = "failed" /\ r.emitter.state = e.state
         \/ r.how = "done" /\ r.emitter.state = x.state
BY DEF Writes, Fails, Done, Result, Emitters

\* A failed write inside.
LEMMA FailsWithin ==
  ASSUME NEW e, e \in Emitters, e.state \notin Outside
  PROVE  Within(e, Fails(e)) /\ Fails(e).how = "failed" /\ Fails(e).emitter.state = e.state
BY DEF Fails, Result, Within, Emitters

\* What Within looks at.
LEMMA SameWithin ==
  ASSUME NEW e, NEW x, x.events = e.events, x.state = e.state, NEW r, Within(x, r)
  PROVE  Within(e, r)
BY DEF Within

\* A node.
LEMMA NodeWithin ==
  ASSUME NEW e, Enclosed(e), NEW r \in EmitNode(e)
  PROVE  Within(e, r)
<1>. DEFINE typ == Head(e.events).typ
<1>1. e \in Emitters /\ e.states # <<>> /\ Ready(e)
  BY DEF Enclosed, Ready
<1>2. /\ PopState(e) \in Emitters /\ PopState(e).state \notin Outside
  <2>1. e.states \in Seq(ReturnStates)
    BY <1>1, Fields
  <2>2. e.states[Len(e.states)] \in ReturnStates
    BY <1>1, <2>1, FrontFacts
  <2>3. PopState(e).state = e.states[Len(e.states)] /\ Sane(PopState(e))
    BY <1>1, PopFacts
  <2>. QED
    BY <2>2, <2>3, InsideStates DEF Sane
<1>3. IncreaseIndent(e) \in Emitters /\ IncreaseIndent(e).state = e.state
  BY <1>1, IndentFacts
<1>4. CASE typ = "SCALAR"
  <2>1. r = Fails(IncreaseIndent(e)) \/ r \in Writes(e, PopState(e))
    BY <1>4 DEF EmitNode, EmitScalar
  <2>2. r.emitter.state \notin Outside
    BY <1>1, <1>2, <1>3, <2>1, WritesState, FailsWithin DEF Enclosed
  <2>3. typ \notin Borders
    BY <1>4, InsideStates
  <2>. QED
    BY <2>2, <2>3 DEF Within
<1>5. CASE typ = "ALIAS"
  <2>1. r \in Writes(e, PopState(e))
    BY <1>5 DEF EmitNode, EmitAlias
  <2>2. r.emitter.state \notin Outside
    BY <1>1, <1>2, <2>1, WritesState DEF Enclosed
  <2>3. typ \notin Borders
    BY <1>5, InsideStates
  <2>. QED
    BY <2>2, <2>3 DEF Within
<1>6. CASE typ \in Openings
  <2>1. PICK st \in FirstStates :
          r = Done([e EXCEPT !.state = st]) \/ r \in Writes(e, [e EXCEPT !.state = st])
    <3>1. /\ "FLOW_SEQUENCE_FIRST_ITEM" \in FirstStates /\ "BLOCK_SEQUENCE_FIRST_ITEM" \in FirstStates
          /\ "FLOW_MAPPING_FIRST_KEY" \in FirstStates /\ "BLOCK_MAPPING_FIRST_KEY" \in FirstStates
      BY DEF FirstStates, FlowFirst, BlockFirst
    <3>2. \/ r \in EmitStart(e, "FLOW_SEQUENCE_FIRST_ITEM", "BLOCK_SEQUENCE_FIRST_ITEM")
          \/ r \in EmitStart(e, "FLOW_MAPPING_FIRST_KEY", "BLOCK_MAPPING_FIRST_KEY")
      BY <1>6 DEF EmitNode, Openings
    <3>. QED
      BY <3>1, <3>2 DEF EmitStart
  <2>. DEFINE x == [e EXCEPT !.state = st]
  <2>2. x \in Emitters /\ x.state = st
    BY <1>1, InsideStates, StateFacts
  <2>. HIDE DEF x
  <2>3. r = Done(x) \/ r \in Writes(e, x)
    BY <2>1 DEF x
  <2>4. r.emitter.state \notin Outside
    BY <1>1, <2>2, <2>3, InsideStates, WritesState DEF Enclosed, Done, Result
  <2>5. typ \notin Borders
    BY <1>6, InsideStates
  <2>. QED
    BY <2>4, <2>5 DEF Within
<1>7. CASE typ \notin {"SCALAR", "ALIAS"} \cup Openings
  <2>1. r = Refused(e)
    BY <1>7 DEF EmitNode, Openings
  <2>. QED
    BY <2>1 DEF Refused, Result, Within, Enclosed
<1>. QED
  BY <1>4, <1>5, <1>6, <1>7

\* The comment behind a node.
LEMMA LineCommentState ==
  ASSUME NEW e, Sane(e), NEW r \in LineComment(e)
  PROVE  r.emitter.state = e.state /\ r.emitter.states = e.states
<1>. DEFINE x == [e EXCEPT !.line_comment = FALSE]
<1>1. e \in Emitters /\ x \in Emitters
  BY Updates DEF Sane
<1>2. x.state = e.state /\ x.states = e.states
  BY <1>1 DEF Emitters
<1>3. r \in Writes(e, x) \/ r = Done(e)
  BY DEF LineComment
<1>. HIDE DEF x
<1>4. CASE r = Fails(e)
  BY <1>1, <1>4 DEF Fails, Result, Emitters
<1>5. CASE r = Done([x EXCEPT !.buffered = TRUE])
  <2>1. /\ [x EXCEPT !.buffered = TRUE].state = x.state
        /\ [x EXCEPT !.buffered = TRUE].states = x.states
    BY <1>1 DEF Emitters
  <2>2. r.emitter = [x EXCEPT !.buffered = TRUE]
    BY <1>5 DEF Done, Result
  <2>. QED
    BY <1>2, <2>1, <2>2
<1>6. CASE r = Done(e)
  BY <1>6 DEF Done, Result
<1>. QED
  BY <1>3, <1>4, <1>5, <1>6 DEF Writes

\* A node and what is written behind it.
LEMMA ItemWithin ==
  ASSUME NEW e, Sane(e), e.state \notin Outside,
         NEW st \in ReturnStates, e.states # <<>> \/ st = "DOCUMENT_END",
         NEW r \in EmitItem(e, st)
  PROVE  Within(e, r)
<1>. DEFINE p == PushState(e, st)
<1>1. Ready(p) /\ Rooted(p) /\ p.events = e.events /\ p.state = e.state
  BY PushFacts
<1>2. PICK q \in EmitNode(p) : r \in IF q.how = "done" THEN LineComment(q.emitter) ELSE {q}
  BY DEF EmitItem
<1>. HIDE DEF p
<1>3. Within(p, q) /\ Fit(p, q)
  BY <1>1, NodeWithin, NodeFit DEF Enclosed
<1>4. CASE q.how # "done"
  BY <1>1, <1>2, <1>3, <1>4, SameWithin
<1>5. CASE q.how = "done"
  <2>1. r.emitter.state = q.emitter.state
    BY <1>2, <1>3, <1>5, LineCommentState DEF Fit
  <2>. QED
    BY <1>1, <1>3, <1>5, <2>1 DEF Within
<1>. QED
  BY <1>4, <1>5

\* The end of a flow collection.
LEMMA FlowEndWithin ==
  ASSUME NEW e, Enclosed(e), NEW r \in EmitFlowEnd(e)
  PROVE  r.emitter.state \notin Outside
<1>. DEFINE f == e.flow_level - 1
            left == [e EXCEPT !.flow_level = f]
            closed == [PopIndent(left) EXCEPT !.buffered = TRUE]
<1>0. Ready(e) /\ e.state \notin Outside /\ e \in Emitters /\ Rooted(e)
  BY DEF Enclosed, Ready
<1>1. left \in Emitters
  <2>1. f \in Int
    BY <1>0, Fields
  <2>. HIDE DEF f
  <2>. QED
    BY <1>0, <2>1, Updates
<1>2. /\ left.events = e.events /\ left.states = e.states /\ left.state = e.state
      /\ left.indents = e.indents
  BY <1>0 DEF Emitters
<1>3. left = [e EXCEPT !.flow_level = @ - 1]
  BY <1>0 DEF Emitters
<1>. HIDE DEF left
<1>5. CASE e.indents = <<>>
  <2>1. r = Panics(left)
    BY <1>3, <1>5 DEF EmitFlowEnd
  <2>. QED
    BY <1>0, <1>2, <2>1 DEF Panics, Result
<1>6. CASE e.indents # <<>>
  <2>1. /\ PopIndent(left) \in Emitters /\ PopIndent(left).states = e.states
        /\ PopIndent(left).state = e.state
    BY <1>1, <1>2, <1>6, PopIndentFacts
  <2>2. closed \in Emitters
    BY <2>1, Updates
  <2>3. closed.states = e.states /\ closed.state = e.state
    BY <2>1 DEF Emitters
  <2>4. \/ r = Fails(closed)
        \/ \E q \in LineComment(closed) : r = IF q.how = "done" THEN Done(PopState(q.emitter)) ELSE q
    BY <1>3, <1>6 DEF EmitFlowEnd
  <2>. HIDE DEF closed
  <2>5. Sane(closed)
    BY <1>0, <2>2, <2>3, SaneStacks DEF Sane
  <2>6. CASE r = Fails(closed)
    BY <1>0, <2>2, <2>3, <2>6, FailsWithin
  <2>7. ASSUME NEW q \in LineComment(closed), r = IF q.how = "done" THEN Done(PopState(q.emitter)) ELSE q
        PROVE  r.emitter.state \notin Outside
    <3>1. q.emitter.state = e.state /\ q.emitter.states = e.states /\ Sane(q.emitter)
      BY <2>3, <2>5, LineCommentState, LineCommentFit DEF Fit
    <3>2. Ready(q.emitter)
      BY <1>0, <3>1 DEF Ready, Sane
    <3>3. PopState(q.emitter).state \in ReturnStates
      <4>1. e.states \in Seq(ReturnStates) /\ e.states # <<>>
        BY <1>0, Fields DEF Ready
      <4>2. e.states[Len(e.states)] \in ReturnStates
        BY <4>1, FrontFacts
      <4>. QED
        BY <3>1, <3>2, <4>2, PopFacts
    <3>. QED
      BY <1>0, <2>7, <3>1, <3>3, InsideStates DEF Done, Result
  <2>. QED
    BY <2>4, <2>6, <2>7
<1>. QED
  BY <1>5, <1>6

\* The end of a block collection.
LEMMA BlockEndWithin ==
  ASSUME NEW e, Enclosed(e), NEW r \in EmitBlockEnd(e)
  PROVE  r.emitter.state \notin Outside
<1>0. Ready(e) /\ e.state \notin Outside /\ e \in Emitters
  BY DEF Enclosed, Ready
<1>1. CASE e.indents = <<>>
  BY <1>0, <1>1 DEF EmitBlockEnd, Panics, Result
<1>2. CASE e.indents # <<>>
  <2>1. PopIndent(e) \in Emitters /\ PopIndent(e).states = e.states
    BY <1>0, <1>2, PopIndentFacts
  <2>2. Ready(PopIndent(e))
    BY <1>0, <2>1 DEF Ready
  <2>3. PopState(PopIndent(e)).state \in ReturnStates
    <3>1. e.states \in Seq(ReturnStates) /\ e.states # <<>>
      BY <1>0, Fields DEF Ready
    <3>2. e.states[Len(e.states)] \in ReturnStates
      BY <3>1, FrontFacts
    <3>. QED
      BY <2>1, <2>2, <3>2, PopFacts
  <2>4. r = Done(PopState(PopIndent(e)))
    BY <1>2 DEF EmitBlockEnd
  <2>. QED
    BY <2>3, <2>4, InsideStates DEF Done, Result
<1>. QED
  BY <1>1, <1>2

\* An item of a collection, or its end.
LEMMA FlowSequenceWithin ==
  ASSUME NEW e, Enclosed(e), NEW r \in FlowSequenceItem(e)
  PROVE  Within(e, r)
<1>1. Sane(e) /\ e.states # <<>> /\ e \in Emitters /\ e.state \notin Outside
  BY DEF Enclosed, Ready, Sane
<1>2. {"FLOW_SEQUENCE_TRAIL_ITEM", "FLOW_SEQUENCE_ITEM"} \subseteq ReturnStates
  BY DEF ReturnStates, FlowStates, Trails
<1>3. CASE Head(e.events).typ = "SEQUENCE_END"
  <2>1. r \in EmitFlowEnd(e)
    BY <1>3 DEF FlowSequenceItem
  <2>2. Head(e.events).typ \notin Borders
    BY <1>3 DEF Borders, Edges
  <2>. QED
    BY <2>1, <2>2, FlowEndWithin DEF Within
<1>4. CASE Head(e.events).typ # "SEQUENCE_END"
  <2>1. \/ r = Fails(e) \/ r \in EmitItem(e, "FLOW_SEQUENCE_TRAIL_ITEM")
        \/ r \in EmitItem(e, "FLOW_SEQUENCE_ITEM")
    BY <1>4 DEF FlowSequenceItem
  <2>. QED
    BY <1>1, <1>2, <2>1, FailsWithin, ItemWithin
<1>. QED
  BY <1>3, <1>4

\* A node behind which a state is to be entered.
LEMMA PushWithin ==
  ASSUME NEW e, Enclosed(e), NEW st \in ReturnStates, NEW r \in EmitNode(PushState(e, st))
  PROVE  Within(e, r)
<1>. DEFINE p == PushState(e, st)
<1>1. Sane(e) /\ e.states # <<>>
  BY DEF Enclosed, Ready, Sane
<1>2. Ready(p) /\ Rooted(p) /\ p.events = e.events /\ p.state = e.state
  BY <1>1, PushFacts
<1>3. r \in EmitNode(p)
  OBVIOUS
<1>. HIDE DEF p
<1>4. Within(p, r)
  BY <1>2, <1>3, NodeWithin DEF Enclosed
<1>. QED
  BY <1>2, <1>4, SameWithin

\* A key, or the end of a flow mapping.
LEMMA FlowKeyWithin ==
  ASSUME NEW e, Enclosed(e), NEW r \in FlowMappingKey(e)
  PROVE  Within(e, r)
<1>1. e \in Emitters /\ e.state \notin Outside
  BY DEF Enclosed, Ready
<1>2. {"FLOW_MAPPING_SIMPLE_VALUE", "FLOW_MAPPING_VALUE"} \subseteq ReturnStates
  BY DEF ReturnStates, FlowStates
<1>3. CASE r = Fails(e)
  BY <1>1, <1>3, FailsWithin
<1>4. CASE Head(e.events).typ = "MAPPING_END" /\ r \in EmitFlowEnd(e)
  <2>1. Head(e.events).typ \notin Borders
    BY <1>4 DEF Borders, Edges
  <2>. QED
    BY <1>4, <2>1, FlowEndWithin DEF Within
<1>5. CASE \E st \in {"FLOW_MAPPING_SIMPLE_VALUE", "FLOW_MAPPING_VALUE"} : r \in EmitNode(PushState(e, st))
  BY <1>2, <1>5, PushWithin
<1>. QED
  BY <1>3, <1>4, <1>5 DEF FlowMappingKey

\* A value of a flow mapping.
LEMMA FlowValueWithin ==
  ASSUME NEW e, Enclosed(e), NEW r \in EmitFlowMappingValue(e)
  PROVE  Within(e, r)
<1>1. Sane(e) /\ e.states # <<>> /\ e \in Emitters /\ e.state \notin Outside
  BY DEF Enclosed, Ready, Sane
<1>2. \/ r = Fails(e)
      \/ r \in EmitItem(e, "FLOW_MAPPING_TRAIL_KEY") \/ r \in EmitItem(e, "FLOW_MAPPING_KEY")
  BY DEF EmitFlowMappingValue
<1>3. {"FLOW_MAPPING_TRAIL_KEY", "FLOW_MAPPING_KEY"} \subseteq ReturnStates
  BY DEF ReturnStates, FlowStates, Trails
<1>. QED
  BY <1>1, <1>2, <1>3, FailsWithin, ItemWithin

\* An item of a block sequence, or its end.
LEMMA BlockSequenceWithin ==
  ASSUME NEW e, Enclosed(e), NEW r \in BlockSequenceItem(e)
  PROVE  Within(e, r)
<1>1. Sane(e) /\ e.states # <<>> /\ e \in Emitters /\ e.state \notin Outside
  BY DEF Enclosed, Ready, Sane
<1>2. "BLOCK_SEQUENCE_ITEM" \in ReturnStates
  BY DEF ReturnStates, BlockStates
<1>3. CASE Head(e.events).typ = "SEQUENCE_END"
  <2>1. r \in EmitBlockEnd(e)
    BY <1>3 DEF BlockSequenceItem
  <2>2. Head(e.events).typ \notin Borders
    BY <1>3 DEF Borders, Edges
  <2>. QED
    BY <2>1, <2>2, BlockEndWithin DEF Within
<1>4. CASE Head(e.events).typ # "SEQUENCE_END"
  <2>1. r = Fails(e) \/ r \in EmitItem(e, "BLOCK_SEQUENCE_ITEM")
    BY <1>4 DEF BlockSequenceItem
  <2>. QED
    BY <1>1, <1>2, <2>1, FailsWithin, ItemWithin
<1>. QED
  BY <1>3, <1>4

\* A key, or the end of a block mapping.
LEMMA BlockKeyWithin ==
  ASSUME NEW e, Enclosed(e), NEW r \in BlockMappingKey(e)
  PROVE  Within(e, r)
<1>. DEFINE a == e.key_line_comment \/ e.line_comment
            saved == Pending(e, FALSE, a)
<1>1. Ready(e) /\ Rooted(e) /\ e \in Emitters /\ e.state \notin Outside
  BY DEF Enclosed, Ready
<1>2. saved = [e EXCEPT !.key_line_comment = @ \/ e.line_comment, !.line_comment = FALSE]
  BY <1>1 DEF Emitters, Pending
<1>3. a \in BOOLEAN
  OBVIOUS
<1>4. \/ Head(e.events).typ = "MAPPING_END" /\ r \in EmitBlockEnd(e)
      \/ r = Fails(e) \/ r = Fails(saved)
      \/ \E st \in {"BLOCK_MAPPING_SIMPLE_VALUE", "BLOCK_MAPPING_VALUE"} :
           r \in EmitNode(PushState(saved, st))
  BY <1>2 DEF BlockMappingKey
<1>5. /\ Enclosed(saved) /\ saved \in Emitters
      /\ saved.events = e.events /\ saved.state = e.state
  <2>. HIDE DEF a
  <2>1. /\ saved \in Emitters /\ saved.events = e.events /\ saved.state = e.state
        /\ Rooted(saved) /\ Ready(saved)
    BY <1>1, <1>3, CommentFacts
  <2>. HIDE DEF saved
  <2>. QED
    BY <1>1, <2>1 DEF Enclosed
<1>. HIDE DEF saved
<1>6. {"BLOCK_MAPPING_SIMPLE_VALUE", "BLOCK_MAPPING_VALUE"} \subseteq ReturnStates
  BY DEF ReturnStates, BlockStates
<1>7. CASE Head(e.events).typ = "MAPPING_END" /\ r \in EmitBlockEnd(e)
  <2>1. Head(e.events).typ \notin Borders
    BY <1>7 DEF Borders, Edges
  <2>. QED
    BY <1>7, <2>1, BlockEndWithin DEF Within
<1>8. CASE r = Fails(e)
  BY <1>1, <1>8, FailsWithin
<1>9. Within(saved, r) => Within(e, r)
  BY <1>5, SameWithin
<1>10. CASE r = Fails(saved)
  BY <1>1, <1>5, <1>9, <1>10, FailsWithin
<1>11. CASE \E st \in {"BLOCK_MAPPING_SIMPLE_VALUE", "BLOCK_MAPPING_VALUE"} :
              r \in EmitNode(PushState(saved, st))
  BY <1>5, <1>6, <1>9, <1>11, PushWithin
<1>. QED
  BY <1>4, <1>7, <1>8, <1>10, <1>11

\* A value of a block mapping.
LEMMA BlockValueWithin ==
  ASSUME NEW e, Enclosed(e), NEW r \in EmitBlockMappingValue(e)
  PROVE  Within(e, r)
<1>1. /\ Ready(e) /\ Rooted(e) /\ e \in Emitters /\ e.state \notin Outside
      /\ e.line_comment \in BOOLEAN /\ e.key_line_comment \in BOOLEAN
  BY Fields DEF Enclosed, Ready
<1>2. \/ r = Fails(e)
      \/ r = Fails(Pending(e, TRUE, e.line_comment))
      \/ \E a, b \in BOOLEAN : r \in EmitItem(Pending(e, a, b), "BLOCK_MAPPING_KEY")
  BY <1>1, ValueCases
<1>3. "BLOCK_MAPPING_KEY" \in ReturnStates
  BY DEF ReturnStates, BlockStates
<1>4. ASSUME NEW a \in BOOLEAN, NEW b \in BOOLEAN, NEW x, x = Pending(e, a, b)
      PROVE  /\ Sane(x) /\ x.states # <<>> /\ x \in Emitters /\ x.state \notin Outside
             /\ Within(x, r) => Within(e, r)
  <2>1. /\ Pending(e, a, b) \in Emitters /\ Pending(e, a, b).events = e.events
        /\ Pending(e, a, b).state = e.state
        /\ Rooted(Pending(e, a, b)) /\ Ready(Pending(e, a, b))
    BY <1>1, CommentFacts
  <2>2. x.events = e.events /\ x.state = e.state /\ Rooted(x) /\ Ready(x)
    BY <1>4, <2>1
  <2>3. Within(x, r) => Within(e, r)
    BY <2>2, SameWithin
  <2>. QED
    BY <1>1, <2>2, <2>3 DEF Sane, Ready
<1>5. ASSUME r = Fails(Pending(e, TRUE, e.line_comment)) PROVE Within(e, r)
  <2>. DEFINE x == Pending(e, TRUE, e.line_comment)
  <2>1. x \in Emitters /\ x.state \notin Outside /\ (Within(x, r) => Within(e, r))
    BY <1>1, <1>4
  <2>2. r = Fails(x)
    BY <1>5
  <2>. HIDE DEF x
  <2>. QED
    BY <2>1, <2>2, FailsWithin
<1>6. ASSUME NEW a \in BOOLEAN, NEW b \in BOOLEAN,
             r \in EmitItem(Pending(e, a, b), "BLOCK_MAPPING_KEY")
      PROVE  Within(e, r)
  <2>. DEFINE x == Pending(e, a, b)
  <2>1. Sane(x) /\ x.states # <<>> /\ x.state \notin Outside /\ (Within(x, r) => Within(e, r))
    BY <1>4
  <2>2. r \in EmitItem(x, "BLOCK_MAPPING_KEY")
    BY <1>6
  <2>. HIDE DEF x
  <2>. QED
    BY <1>3, <2>1, <2>2, ItemWithin
<1>. QED
  BY <1>1, <1>2, <1>5, <1>6, FailsWithin

\* An attempt inside a document, whatever the event: the end of the document alone
\* leads out of it, from the state that awaits it.
LEMMA AttemptWithin ==
  ASSUME NEW e, Sane(e), e.state \notin Outside, NEW r \in Attempt(e),
         ~(e.state = "DOCUMENT_END" /\ Head(e.events).typ = "DOCUMENT_END")
  PROVE  Within(e, r)
<1>1. e \in Emitters /\ e.state \in EmitterStates
  BY Fields DEF Sane
<1>2. CASE e.state = "DOCUMENT_CONTENT"
  <2>. DEFINE p == PushState(e, "DOCUMENT_END")
  <2>1. r = Fails(p) \/ r \in EmitItem(e, "DOCUMENT_END")
    BY <1>2 DEF Attempt, EmitDocumentContent
  <2>2. "DOCUMENT_END" \in ReturnStates
    BY DEF ReturnStates
  <2>3. Ready(p) /\ p.events = e.events /\ p.state = e.state
    BY <2>2, PushFacts
  <2>. HIDE DEF p
  <2>4. r = Fails(p) => Within(p, r)
    BY <2>3, FailsWithin DEF Ready
  <2>5. r = Fails(p) => Within(e, r)
    BY <2>3, <2>4, SameWithin
  <2>. QED
    BY <2>1, <2>2, <2>5, ItemWithin
<1>3. CASE e.state = "DOCUMENT_END"
  <2>1. r = Refused(e)
    BY <1>3 DEF Attempt, EmitDocumentEnd
  <2>. QED
    BY <2>1 DEF Refused, Result, Within
<1>4. CASE e.state \in CollectionStates
  <2>1. Enclosed(e) /\ Ready(e) /\ Rooted(e)
    BY <1>4 DEF Ready, Sane, Rooted, Enclosed
  <2>2. /\ IncreaseIndent(e) \in Emitters /\ IncreaseIndent(e).states = e.states
        /\ IncreaseIndent(e).state = e.state /\ IncreaseIndent(e).events = e.events
    BY <1>1, IndentFacts
  <2>3. Enclosed(IncreaseIndent(e))
    BY <2>1, <2>2 DEF Ready, Rooted, Enclosed
  <2>4. /\ FlowOpened(e) \in Emitters /\ FlowOpened(e).states = e.states
        /\ FlowOpened(e).state = e.state /\ FlowOpened(e).events = e.events
    BY <1>1, OpenedFacts
  <2>5. Enclosed(FlowOpened(e))
    BY <2>1, <2>4 DEF Ready, Rooted, Enclosed
  <2>6. /\ Within(IncreaseIndent(e), r) => Within(e, r)
        /\ Within(FlowOpened(e), r) => Within(e, r)
    BY <2>2, <2>4, SameWithin
  <2>7. \E x \in {e, IncreaseIndent(e), FlowOpened(e)} :
          \/ r = Fails(e) \/ r \in FlowSequenceItem(x) \/ r \in FlowMappingKey(x)
          \/ r \in EmitFlowMappingValue(x) \/ r \in BlockSequenceItem(x)
          \/ r \in BlockMappingKey(x) \/ r \in EmitBlockMappingValue(x)
    BY <1>4 DEF Attempt, CollectionStates, FirstStates, FlowFirst, BlockFirst, FlowStates, BlockStates, Trails
  <2>. QED
    BY <1>1, <2>1, <2>3, <2>5, <2>6, <2>7, FailsWithin, FlowSequenceWithin, FlowKeyWithin,
       FlowValueWithin, BlockSequenceWithin, BlockKeyWithin, BlockValueWithin
<1>. QED
  BY <1>1, <1>2, <1>3, <1>4 DEF EmitterStates, CollectionStates, FirstStates, Outside

-----------------------------------------------------------------------------
(* A stream that a failure has torn                                          *)

\* Where a document begins.
Starting == {"FIRST_DOCUMENT_START", "DOCUMENT_START"}
\* The event at the head will be refused for ever.
Dead(e) ==
  /\ e.events # <<>>
  /\ \/ e.state = "STREAM_START" /\ Head(e.events).typ # "STREAM_START"
     \/ e.state \in Starting /\ Head(e.events).typ \notin {"DOCUMENT_START", "STREAM_END"}
     \/ e.state = "END"
     \/ /\ e.state \notin Outside /\ Head(e.events).typ \in Borders
        /\ ~(e.state = "DOCUMENT_END" /\ Head(e.events).typ = "DOCUMENT_END")
\* A document waits for its start to be written.
Entering(e) == e.state \in Starting /\ e.events # <<>> /\ Head(e.events).typ = "DOCUMENT_START"
\* No end of a document comes before an event that would be refused inside of one.
Sealed(q) ==
  \A i \in 1..Len(q) : q[i].typ = "DOCUMENT_END" => \E j \in 1..i - 1 : q[j].typ \in Edges
\* The document that was torn never ends.
Torn(e) ==
  \/ Dead(e)
  \/ /\ Entering(e)
     /\ Sealed(Tail(e.events)) \/ (Len(e.events) >= 2 /\ e.events[2].typ = "DOCUMENT_END")
  \/ e.state \notin Outside /\ Sealed(e.events)

\* What a later call, with n nodes so far, has put into the queue: an event that is
\* refused at the latest, and the call's other events behind it.
Marked(e, w, n) ==
  \E j \in 1..Len(e.events) :
    /\ e.events[j].typ \in Edges /\ (Entering(e) => j >= 2)
    /\ Len(e.events) >= j + n
    /\ w = <<>> => \/ e.events[j].typ = "STREAM_END" /\ n = 0
                   \/ Len(e.events) >= j + 1 + n

\* The end of a document comes to an empty queue, or behind the document's start.
Alone(q) ==
  q # <<>> /\ q[Len(q)].typ = "DOCUMENT_END" =>
    Len(q) = 1 \/ (Len(q) = 2 /\ q[1].typ = "DOCUMENT_START")

\* What will be refused for ever is refused now.
LEMMA DeadStays ==
  ASSUME NEW e, Sane(e), Dead(e), NEW r \in Attempt(e)
  PROVE  r.how # "done" /\ Dead(r.emitter)
<1>1. r.emitter.events = e.events
  BY AttemptFit DEF Fit
<1>2. CASE e.state \in Outside
  <2>1. r = Refused(e)
    BY <1>2 DEF Attempt, EmitStreamStart, EmitDocumentStart, Outside, Dead, Starting
  <2>. QED
    BY <2>1 DEF Refused, Result
<1>3. CASE e.state \notin Outside
  <2>1. /\ Head(e.events).typ \in Borders
        /\ ~(e.state = "DOCUMENT_END" /\ Head(e.events).typ = "DOCUMENT_END")
    BY <1>3 DEF Dead, Outside, Starting
  <2>2. Within(e, r)
    BY <1>3, <2>1, AttemptWithin
  <2>3. r.how # "done" /\ r.emitter.state = e.state
    BY <2>1, <2>2 DEF Within
  <2>. QED
    BY <1>1, <2>3 DEF Dead
<1>. QED
  BY <1>2, <1>3

\* The start of a document is written, or not.
LEMMA EnteringOutcome ==
  ASSUME NEW e, Sane(e), Entering(e), NEW r \in Attempt(e)
  PROVE  /\ r.how = "done" => r.emitter.state = "DOCUMENT_CONTENT"
         /\ r.how # "done" => r.how = "failed" /\ r.emitter.state = e.state
<1>. DEFINE x == [e EXCEPT !.state = "DOCUMENT_CONTENT"]
<1>1. e \in Emitters
  BY DEF Sane
<1>2. r \in Writes(e, x)
  BY DEF Entering, Starting, Attempt, EmitDocumentStart
<1>3. "DOCUMENT_CONTENT" \in EmitterStates
  BY DEF EmitterStates
<1>4. x \in Emitters /\ x.state = "DOCUMENT_CONTENT"
  BY <1>1, <1>3, StateFacts
<1>. HIDE DEF x
<1>. QED
  BY <1>1, <1>2, <1>4, WritesState

\* The event at the head of a torn document that is not given up.
LEMMA SealedHead ==
  ASSUME NEW e, Sane(e), e.events # <<>>, e.state \notin Outside, Sealed(e.events), ~Dead(e)
  PROVE  Head(e.events).typ \notin Borders
<1>1. Head(e.events) = e.events[1] /\ Len(e.events) \in Nat \ {0}
  BY Fields, HeadFacts DEF Sane
<1>2. Head(e.events).typ # "DOCUMENT_END"
  <2>. SUFFICES ASSUME Head(e.events).typ = "DOCUMENT_END" PROVE FALSE
    OBVIOUS
  <2>1. 1 \in 1..Len(e.events)
    BY <1>1
  <2>2. \E j \in 1..1 - 1 : e.events[j].typ \in Edges
    BY <1>1, <2>1 DEF Sealed
  <2>. QED
    BY <2>2
<1>3. Head(e.events).typ \notin Edges
  BY <1>2 DEF Dead, Borders
<1>. QED
  BY <1>2, <1>3 DEF Borders

\* A torn document stays one when another attempt fails.
LEMMA TornFails ==
  ASSUME NEW e, Sane(e), e.events # <<>>, Torn(e), NEW r \in Attempt(e), r.how # "done"
  PROVE  Torn(r.emitter)
<1>1. r.emitter.events = e.events
  BY AttemptFit DEF Fit
<1>2. CASE Dead(e)
  BY <1>2, DeadStays DEF Torn
<1>3. CASE Entering(e)
  <2>1. r.emitter.state = e.state
    BY <1>3, EnteringOutcome
  <2>. QED
    BY <1>1, <2>1 DEF Torn, Dead, Entering
<1>4. CASE e.state \notin Outside /\ Sealed(e.events) /\ ~Dead(e)
  <2>1. Head(e.events).typ \notin Borders
    BY <1>4, SealedHead
  <2>2. Within(e, r)
    BY <1>4, <2>1, AttemptWithin DEF Borders
  <2>3. r.emitter.state \notin Outside
    BY <2>1, <2>2 DEF Within
  <2>. QED
    BY <1>1, <1>4, <2>3 DEF Torn
<1>. QED
  BY <1>2, <1>3, <1>4 DEF Torn

\* The seal is not at the head.
LEMMA SealedTail ==
  ASSUME NEW q \in Seq(Events), q # <<>>, Sealed(q), q[1].typ \notin Edges
  PROVE  Sealed(Tail(q))
<1>. DEFINE t == Tail(q)
            n == Len(q)
<1>1. /\ n \in Nat \ {0} /\ Len(t) = n - 1
      /\ \A i \in 1..Len(t) : t[i] = q[i + 1]
  BY HeadFacts
<1>2. \A i \in 1..n : q[i].typ = "DOCUMENT_END" => \E j \in 1..i - 1 : q[j].typ \in Edges
  BY DEF Sealed
<1>. HIDE DEF t, n
<1>3. ASSUME NEW i \in 1..Len(t), t[i].typ = "DOCUMENT_END"
      PROVE  \E j \in 1..i - 1 : t[j].typ \in Edges
  <2>1. i \in Nat /\ i + 1 \in 1..n /\ i + 1 - 1 = i
    BY <1>1
  <2>2. PICK j \in 1..i : q[j].typ \in Edges
    BY <1>1, <1>2, <1>3, <2>1
  <2>3. j # 1
    BY <2>2
  <2>4. j - 1 \in 1..i - 1 /\ j - 1 \in 1..Len(t) /\ j - 1 + 1 = j
    BY <1>1, <2>1, <2>3
  <2>5. t[j - 1].typ \in Edges
    BY <1>1, <2>2, <2>4
  <2>. QED
    BY <2>4, <2>5
<1>. QED
  BY <1>3 DEF Sealed, t

\* A torn document does not end when the state machine goes on, and what marks it
\* moves up in the queue.
LEMMA TornDone ==
  ASSUME NEW e, Sane(e), e.events # <<>>, Torn(e), NEW r \in Attempt(e), r.how = "done",
         NEW y, y.events = Tail(e.events), y.state = r.emitter.state,
         NEW w, NEW n \in Nat
  PROVE  Torn(y) /\ (Marked(e, w, n) => Marked(y, w, n))
<1>. DEFINE q == e.events
            t == Tail(e.events)
<1>1. /\ q \in Seq(Events) /\ Head(q) = q[1] /\ Len(q) \in Nat \ {0} /\ Len(t) = Len(q) - 1
      /\ \A i \in 1..Len(t) : t[i] = q[i + 1]
      /\ t \in Seq(Events)
  BY Fields, HeadFacts DEF Sane
<1>2. ~Dead(e)
  BY DeadStays
<1>3. /\ y.state \notin Outside /\ Torn(y)
      /\ Entering(e) \/ q[1].typ \notin Edges
  <2>1. CASE Entering(e)
    <3>1. y.state = "DOCUMENT_CONTENT"
      BY <2>1, EnteringOutcome
    <3>2. y.state \notin Outside /\ y.state # "DOCUMENT_END"
      BY <3>1 DEF Outside
    <3>3. Sealed(t) \/ (Len(q) >= 2 /\ q[2].typ = "DOCUMENT_END")
      BY <1>2, <2>1 DEF Torn, Entering, Starting, Outside
    <3>4. CASE Sealed(t)
      BY <2>1, <3>2, <3>4 DEF Torn
    <3>5. CASE Len(q) >= 2 /\ q[2].typ = "DOCUMENT_END"
      <4>1. Len(t) >= 1 /\ 1 \in 1..Len(t) /\ 1 + 1 = 2
        BY <1>1, <3>5
      <4>2. t # <<>>
        <5>. HIDE DEF t
        <5>. QED
          BY <4>1
      <4>3. Head(t).typ = "DOCUMENT_END"
        BY <1>1, <3>5, <4>1, <4>2, HeadFacts
      <4>. QED
        BY <2>1, <3>2, <4>2, <4>3 DEF Torn, Dead, Borders
    <3>. QED
      BY <3>3, <3>4, <3>5
  <2>2. CASE ~Entering(e)
    <3>1. e.state \notin Outside /\ Sealed(q)
      BY <1>2, <2>2 DEF Torn
    <3>2. Head(q).typ \notin Borders
      BY <1>2, <3>1, SealedHead
    <3>3. Within(e, r)
      BY <3>1, <3>2, AttemptWithin DEF Borders
    <3>4. y.state \notin Outside
      BY <3>2, <3>3 DEF Within
    <3>5. q[1].typ \notin Edges
      BY <1>1, <3>2 DEF Borders
    <3>6. Sealed(t)
      BY <1>1, <3>1, <3>5, SealedTail
    <3>. QED
      BY <3>4, <3>5, <3>6 DEF Torn
  <2>. QED
    BY <2>1, <2>2
<1>4. ~Entering(y)
  BY <1>3 DEF Entering, Starting, Outside
<1>5. ASSUME Marked(e, w, n) PROVE Marked(y, w, n)
  <2>1. PICK j \in 1..Len(q) :
          /\ q[j].typ \in Edges /\ (Entering(e) => j >= 2)
          /\ Len(q) >= j + n
          /\ w = <<>> => \/ q[j].typ = "STREAM_END" /\ n = 0
                         \/ Len(q) >= j + 1 + n
    BY <1>5 DEF Marked
  <2>. HIDE DEF q, t
  <2>2. j # 1
    BY <1>3, <2>1
  <2>. DEFINE k == j - 1
  <2>3. k \in 1..Len(t) /\ k + 1 = j /\ t[k] = q[j]
    BY <1>1, <2>1, <2>2
  <2>4. Len(t) >= k + n /\ (Len(q) >= j + 1 + n => Len(t) >= k + 1 + n)
    BY <1>1, <2>1, <2>2
  <2>. HIDE DEF k
  <2>5. y.events = t
    BY DEF t
  <2>. QED
    BY <1>4, <2>1, <2>3, <2>4, <2>5 DEF Marked
<1>. QED
  BY <1>3, <1>5

\* A torn document stays one when events are added: an end of a document comes
\* behind what marks the call.
LEMMA TornGrows ==
  ASSUME NEW e, Sane(e), Torn(e), NEW ev \in Events, NEW z, z.events = Append(e.events, ev),
         z.state = e.state, NEW w, NEW n \in Nat,
         ev.typ = "DOCUMENT_END" => Marked(e, w, n)
  PROVE  Torn(z)
<1>. DEFINE q == e.events
            t == Append(q, ev)
            m == Len(q)
<1>1. /\ q \in Seq(Events) /\ m \in Nat /\ Len(t) = m + 1 /\ t \in Seq(Events) /\ t # <<>>
      /\ \A i \in 1..m : t[i] = q[i]
      /\ t[m + 1] = ev
  BY Fields, AppendFacts DEF Sane
<1>2. q # <<>> => Head(t) = Head(q) /\ Head(q) = q[1] /\ m >= 1
  BY <1>1, AppendFacts, HeadFacts
<1>3. /\ ev.typ = "DOCUMENT_END" =>
           \E j \in 1..m : q[j].typ \in Edges /\ (Entering(e) => j >= 2)
  BY DEF Marked
<1>4. z.events = t
  OBVIOUS
<1>5. CASE Dead(e)
  BY <1>1, <1>2, <1>4, <1>5 DEF Dead, Torn
<1>6. CASE Entering(e) /\ Len(q) >= 2 /\ q[2].typ = "DOCUMENT_END"
  <2>1. Len(t) >= 2 /\ t[2] = q[2]
    BY <1>1, <1>6
  <2>. QED
    BY <1>1, <1>2, <1>4, <1>6, <2>1 DEF Entering, Torn
<1>7. CASE Entering(e) /\ Sealed(Tail(q))
  <2>. DEFINE a == Tail(q)
              b == Tail(t)
  <2>0. q # <<>>
    BY <1>7 DEF Entering
  <2>1. /\ Len(a) = m - 1 /\ \A i \in 1..Len(a) : a[i] = q[i + 1]
        /\ Len(b) = m /\ \A i \in 1..Len(b) : b[i] = t[i + 1]
    <3>1. Len(b) = m + 1 - 1 /\ \A i \in 1..Len(b) : b[i] = t[i + 1]
      <4>. HIDE DEF t, m, q
      <4>. QED
        BY <1>1, HeadFacts
    <3>. QED
      BY <1>1, <2>0, <3>1, HeadFacts
  <2>2. \A i \in 1..Len(a) : a[i].typ = "DOCUMENT_END" => \E j \in 1..i - 1 : a[j].typ \in Edges
    BY <1>7 DEF Sealed
  <2>. HIDE DEF a, b
  <2>3. \A i \in 1..m - 1 : i \in 1..m /\ i + 1 \in 1..m
    BY <1>1
  <2>4. \A i \in 1..m - 1 : b[i] = a[i]
    BY <1>1, <2>1, <2>3
  <2>5. ASSUME NEW i \in 1..Len(b), b[i].typ = "DOCUMENT_END"
        PROVE  \E j \in 1..i - 1 : b[j].typ \in Edges
    <3>1. CASE i \in 1..m - 1
      <4>1. PICK j \in 1..i - 1 : a[j].typ \in Edges
        BY <2>1, <2>2, <2>4, <2>5, <3>1
      <4>2. j \in 1..m - 1
        BY <1>1, <3>1, <4>1
      <4>. QED
        BY <2>4, <4>1, <4>2
    <3>2. CASE i = m
      <4>1. b[i] = ev /\ i \in Nat
        BY <1>1, <2>1, <2>5, <3>2
      <4>2. PICK j \in 1..m : q[j].typ \in Edges /\ j >= 2
        BY <1>3, <1>7, <2>5, <4>1
      <4>3. j - 1 \in 1..m - 1 /\ j - 1 + 1 = j
        BY <1>1, <4>2
      <4>4. a[j - 1] = q[j] /\ b[j - 1] = a[j - 1]
        BY <2>1, <2>4, <4>3
      <4>. QED
        BY <3>2, <4>2, <4>3, <4>4
    <3>. QED
      BY <1>1, <2>1, <3>1, <3>2
  <2>6. Sealed(b)
    BY <2>5 DEF Sealed
  <2>. QED
    BY <1>1, <1>2, <1>4, <1>7, <2>0, <2>6 DEF Entering, Torn, b
<1>8. CASE e.state \notin Outside /\ Sealed(q)
  <2>1. \A i \in 1..m : q[i].typ = "DOCUMENT_END" => \E j \in 1..i - 1 : q[j].typ \in Edges
    BY <1>8 DEF Sealed
  <2>. HIDE DEF q, t, m
  <2>2. ASSUME NEW i \in 1..Len(t), t[i].typ = "DOCUMENT_END"
        PROVE  \E j \in 1..i - 1 : t[j].typ \in Edges
    <3>1. CASE i \in 1..m
      <4>1. PICK j \in 1..i - 1 : q[j].typ \in Edges
        BY <1>1, <2>1, <2>2, <3>1
      <4>2. j \in 1..m
        BY <1>1, <3>1, <4>1
      <4>. QED
        BY <1>1, <4>1, <4>2
    <3>2. CASE i = m + 1
      <4>1. t[i] = ev /\ i - 1 = m
        BY <1>1, <3>2
      <4>2. PICK j \in 1..m : q[j].typ \in Edges
        BY <1>3, <2>2, <4>1
      <4>. QED
        BY <1>1, <4>1, <4>2
    <3>. QED
      BY <1>1, <3>1, <3>2
  <2>3. Sealed(t)
    BY <2>2 DEF Sealed
  <2>. QED
    BY <1>4, <1>8, <2>3 DEF Torn
<1>. QED
  BY <1>5, <1>6, <1>7, <1>8 DEF Torn

\* A queue without an end of a document is sealed, and so is what follows its head.
LEMMA NoEndSealed ==
  ASSUME NEW q \in Seq(Events), \A i \in 1..Len(q) : q[i].typ # "DOCUMENT_END"
  PROVE  Sealed(q) /\ (q # <<>> => Sealed(Tail(q)))
<1>1. ASSUME q # <<>> PROVE Sealed(Tail(q))
  <2>. DEFINE t == Tail(q)
              n == Len(q)
  <2>1. n \in Nat \ {0} /\ Len(t) = n - 1 /\ \A i \in 1..Len(t) : t[i] = q[i + 1]
    BY <1>1, HeadFacts
  <2>2. \A i \in 1..n : q[i].typ # "DOCUMENT_END"
    OBVIOUS
  <2>. HIDE DEF t, n
  <2>3. \A i \in 1..Len(t) : i + 1 \in 1..n
    BY <2>1
  <2>. QED
    BY <2>1, <2>2, <2>3 DEF Sealed, t
<1>. QED
  BY <1>1 DEF Sealed

\* The end of a document is the last event and stands alone, or is not there.
LEMMA EndAlone ==
  ASSUME NEW q \in Seq(Events), q # <<>>, Alone(q),
         \A i \in 1..Len(q) - 1 : q[i].typ # "DOCUMENT_END"
  PROVE  \/ \A i \in 1..Len(q) : q[i].typ # "DOCUMENT_END"
         \/ Len(q) = 1 /\ q[1].typ = "DOCUMENT_END"
         \/ Len(q) = 2 /\ q[1].typ = "DOCUMENT_START" /\ q[2].typ = "DOCUMENT_END"
<1>. DEFINE n == Len(q)
<1>1. n \in Nat \ {0}
  BY HeadFacts
<1>2. /\ \A i \in 1..n - 1 : q[i].typ # "DOCUMENT_END"
      /\ q[n].typ = "DOCUMENT_END" => n = 1 \/ (n = 2 /\ q[1].typ = "DOCUMENT_START")
  BY DEF Alone
<1>. HIDE DEF n
<1>3. \A i \in 1..n : i \in 1..n - 1 \/ i = n
  BY <1>1
<1>. QED
  BY <1>2, <1>3 DEF n

\* What an attempt tears when it fails, but for a failure behind a whole document.
LEMMA AttemptBreaks ==
  ASSUME NEW e, Sane(e), e.events # <<>>, NEW r \in Attempt(e), r.how # "done",
         r.how # "failed" \/ Head(e.events).typ \notin {"DOCUMENT_END", "STREAM_END"},
         \/ Dead(e)
         \/ /\ Alone(e.events)
            /\ \A i \in 1..Len(e.events) - 1 : e.events[i].typ # "DOCUMENT_END"
  PROVE  Torn(r.emitter)
<1>. DEFINE q == e.events
            head == Head(e.events).typ
<1>0. CASE Dead(e)
  BY <1>0, DeadStays DEF Torn
<1>. SUFFICES ASSUME ~Dead(e) PROVE Torn(r.emitter)
  BY <1>0
<1>1. /\ e \in Emitters /\ e.state \in EmitterStates
      /\ q \in Seq(Events) /\ Head(q) = q[1] /\ Len(q) \in Nat \ {0}
  BY Fields, HeadFacts DEF Sane
<1>2. r.emitter.events = q
  BY AttemptFit DEF Fit
<1>3. \/ \A i \in 1..Len(q) : q[i].typ # "DOCUMENT_END"
      \/ Len(q) = 1 /\ head = "DOCUMENT_END"
      \/ Len(q) = 2 /\ head = "DOCUMENT_START" /\ q[2].typ = "DOCUMENT_END"
  BY <1>1, EndAlone
<1>4. CASE e.state \notin Outside
  <2>1. ASSUME head \in Borders PROVE FALSE
    <3>1. e.state = "DOCUMENT_END" /\ head = "DOCUMENT_END"
      BY <1>4, <2>1 DEF Dead
    <3>2. r.how \in {"failed", "done"}
      BY <3>1 DEF Attempt, EmitDocumentEnd, Fails, Done, Result
    <3>. QED
      BY <3>1, <3>2
  <2>2. Within(e, r)
    BY <1>4, <2>1, AttemptWithin DEF Borders
  <2>3. r.emitter.state \notin Outside
    BY <2>1, <2>2 DEF Within
  <2>4. \A i \in 1..Len(q) : q[i].typ # "DOCUMENT_END"
    BY <1>3, <2>1 DEF Borders, Edges
  <2>5. Sealed(q)
    BY <1>1, <2>4, NoEndSealed
  <2>. QED
    BY <1>2, <2>3, <2>5 DEF Torn
<1>5. CASE e.state = "STREAM_START"
  <2>1. head = "STREAM_START"
    BY <1>5 DEF Dead
  <2>2. r.how = "done"
    BY <1>5, <2>1 DEF Attempt, EmitStreamStart, Done, Result
  <2>. QED
    BY <2>2
<1>6. CASE e.state \in Starting
  <2>1. head \in {"DOCUMENT_START", "STREAM_END"}
    BY <1>6 DEF Dead
  <2>2. head # "STREAM_END"
    <3>. SUFFICES ASSUME head = "STREAM_END" PROVE FALSE
      OBVIOUS
    <3>1. r.how \in {"failed", "done"}
      BY <1>6 DEF Attempt, EmitDocumentStart, Fails, Done, Result, Starting
    <3>. QED
      BY <3>1
  <2>3. Entering(e)
    BY <1>6, <2>1, <2>2 DEF Entering
  <2>4. r.emitter.state = e.state
    BY <2>3, EnteringOutcome
  <2>5. Entering(r.emitter)
    BY <1>2, <2>3, <2>4 DEF Entering
  <2>6. Sealed(Tail(q)) \/ (Len(q) >= 2 /\ q[2].typ = "DOCUMENT_END")
    <3>1. CASE \A i \in 1..Len(q) : q[i].typ # "DOCUMENT_END"
      BY <1>1, <3>1, NoEndSealed
    <3>2. head # "DOCUMENT_END"
      BY <2>1
    <3>. QED
      BY <1>3, <3>1, <3>2
  <2>. QED
    BY <1>2, <2>5, <2>6 DEF Torn
<1>7. e.state # "END"
  BY DEF Dead
<1>. QED
  BY <1>4, <1>5, <1>6, <1>7 DEF Outside, Starting

\* What is torn when the walk is cut off inside a document.
LEMMA WalkBreaks ==
  ASSUME NEW e, Sane(e), NEW w, WalkShape(w), WalkHeight(w) # 0, Queued(e.events, w),
         Path(Height(e), e.events, WalkHeight(w))
  PROVE  Torn(e)
<1>. DEFINE q == e.events
            n == Len(q)
            b == WalkHeight(w)
<1>1. q \in Seq(Events) /\ n \in Nat /\ b \in Nat \ {0} /\ e.state \in EmitterStates
  BY Fields, WalkKinds, LenProperties DEF Sane
<1>2. PICK P \in [1..n + 1 -> Nat] :
        P[1] = Height(e) /\ P[n + 1] = b /\ \A i \in 1..n : Follows(P[i], q[i].typ, P[i + 1])
  BY DEF Path
<1>3. \A i \in 1..n - 1 : q[i].typ \notin {"STREAM_START", "STREAM_END", "DOCUMENT_END"}
  BY DEF Queued
<1>. HIDE DEF b, n
<1>4. n # 0 => q[n].typ \notin {"STREAM_START", "STREAM_END", "DOCUMENT_END"}
  <2>1. n # 0 => Follows(P[n], q[n].typ, b)
    BY <1>1, <1>2
  <2>2. \A a, typ : typ \in {"STREAM_START", "STREAM_END", "DOCUMENT_END"} /\ Follows(a, typ, b) => b = 0
    BY DEF Follows, Openings, Closings
  <2>. QED
    BY <1>1, <2>1, <2>2
<1>5. \A i \in 1..n : q[i].typ \notin {"STREAM_START", "STREAM_END", "DOCUMENT_END"}
  <2>1. \A i \in 1..n : i \in 1..n - 1 \/ (i = n /\ n # 0)
    BY <1>1
  <2>. QED
    BY <1>3, <1>4, <2>1
<1>6. Sealed(q) /\ (q # <<>> => Sealed(Tail(q)))
  BY <1>1, <1>5, NoEndSealed DEF n
<1>7. CASE e.state \notin Outside
  BY <1>6, <1>7 DEF Torn
<1>8. CASE e.state \in Outside
  <2>1. Height(e) = 0
    BY <1>8 DEF Height
  <2>2. n # 0
    <3>1. n = 0 => n + 1 = 1
      OBVIOUS
    <3>. QED
      BY <1>1, <1>2, <2>1, <3>1
  <2>3. q # <<>>
    BY <1>1, <2>2 DEF n
  <2>4. 1 \in 1..n /\ Head(q) = q[1]
    BY <1>1, <2>2, <2>3, HeadFacts
  <2>5. Head(q).typ = "DOCUMENT_START"
    <3>1. Follows(0, Head(q).typ, P[1 + 1])
      BY <1>2, <2>1, <2>4
    <3>2. Head(q).typ \notin {"STREAM_START", "STREAM_END", "DOCUMENT_END"}
      BY <1>5, <2>4
    <3>. QED
      BY <3>1, <3>2 DEF Follows, Openings, Closings
  <2>. QED
    BY <1>6, <1>8, <2>3, <2>5 DEF Torn, Dead, Entering, Starting, Outside
<1>. QED
  BY <1>7, <1>8

\* One start at the head of the queue and one end cancel out.
LEMMA LevelZero ==
  ASSUME NEW q \in Seq(Events), NEW k \in 2..3, q[1].typ \in Starts, q[k].typ \in Ends,
         k = 3 => q[2].typ \notin Starts \cup Ends
  PROVE  Level(q, k) = 0
<1>. DEFINE A == {i \in 1..k : q[i].typ \in Starts}
            B == {i \in 1..k : q[i].typ \in Ends}
<1>1. Starts \cap Ends = {}
  BY DEF Starts, Ends
<1>2. A = {1} /\ B = {k}
  BY <1>1
<1>3. Level(q, k) = Cardinality(A) - Cardinality(B)
  BY DEF Level
<1>. HIDE DEF A, B
<1>4. Cardinality(A) = Cardinality({1}) /\ Cardinality(B) = Cardinality({k})
  BY <1>2, Zenon
<1>5. Cardinality(A) = 1 /\ Cardinality(B) = 1
  BY <1>4, FS_Singleton
<1>. QED
  BY <1>3, <1>5

\* The emitter that waits for more events, when the walk has come to the end of a
\* document, has at most its start in the queue.
LEMMA StartWaits ==
  ASSUME NEW q \in Seq(Events), NEW a \in Nat, Path(a, q, 1), NeedMoreEvents(q), q # <<>>
  PROVE  Len(q) = 1 /\ q[1].typ = "DOCUMENT_START"
<1>. DEFINE n == Len(q)
            typ == Head(q).typ
<1>1. n \in Nat \ {0} /\ Head(q) = q[1]
  BY HeadFacts
<1>2. PICK P \in [1..n + 1 -> Nat] :
        P[1] = a /\ P[n + 1] = 1 /\ \A i \in 1..n : Follows(P[i], q[i].typ, P[i + 1])
  BY DEF Path
<1>3. /\ typ \in DOMAIN Accumulate /\ n <= Accumulate[typ]
      /\ \A i \in 1..n : Level(q, i) # 0
  BY DEF NeedMoreEvents
<1>4. /\ typ = "DOCUMENT_START" => n <= 1
      /\ n <= 3
      /\ typ \in {"DOCUMENT_START", "SEQUENCE_START", "MAPPING_START"}
  BY <1>3 DEF Accumulate
<1>5. Follows(P[1], typ, P[2]) /\ P[1] \in Nat /\ P[2] \in Nat
  <2>1. 1 \in 1..n /\ 1 \in 1..n + 1 /\ 2 \in 1..n + 1 /\ 1 + 1 = 2
    BY <1>1
  <2>. QED
    BY <1>1, <1>2, <2>1
<1>6. n >= 2 => Follows(P[2], q[2].typ, P[3]) /\ P[3] \in Nat
  <2>1. n >= 2 => 2 \in 1..n /\ 3 \in 1..n + 1 /\ 2 + 1 = 3
    BY <1>1
  <2>. QED
    BY <1>2, <2>1
<1>7. n = 3 => Follows(P[3], q[3].typ, 1)
  <2>1. n = 3 => 3 \in 1..n /\ 3 + 1 = n + 1
    BY <1>1
  <2>. QED
    BY <1>2, <2>1
<1>. HIDE DEF n
<1>8. CASE typ = "DOCUMENT_START"
  <2>1. n = 1
    BY <1>1, <1>4, <1>8
  <2>. QED
    BY <1>1, <1>8, <2>1 DEF n
<1>9. CASE typ \in Openings
  <2>1. P[2] >= 2
    BY <1>5, <1>9, FollowsBounds
  <2>2. n # 1
    <3>1. n = 1 => n + 1 = 2
      OBVIOUS
    <3>. QED
      BY <1>2, <1>5, <2>1, <3>1
  <2>3. n \in 2..3 /\ q[1].typ \in Starts
    BY <1>1, <1>4, <1>9, <2>2 DEF Openings, Starts
  <2>4. q[2].typ \notin Ends
    BY <1>3, <2>3, LevelZero DEF n
  <2>5. q[2].typ \notin Closings
    BY <2>4 DEF Closings, Ends
  <2>6. P[3] >= 2
    BY <1>5, <1>6, <2>1, <2>3, <2>5, FollowsBounds
  <2>7. n = 3
    <3>1. n = 2 => n + 1 = 3
      OBVIOUS
    <3>. QED
      BY <1>2, <2>3, <2>6, <3>1
  <2>8. q[3].typ \in Closings /\ P[3] = 2
    <3>1. P[3] \in Nat /\ 1 \in Nat /\ Follows(P[3], q[3].typ, 1)
      BY <1>6, <1>7, <2>7
    <3>2. q[3].typ \in Closings
      BY <2>6, <3>1, FollowsBounds
    <3>. QED
      BY <3>1, <3>2, <2>6 DEF Follows, Openings, Closings
  <2>9. q[2].typ \in {"SCALAR", "ALIAS"}
    <3>1. Follows(P[2], q[2].typ, 2)
      BY <1>6, <2>7, <2>8
    <3>. QED
      BY <1>5, <2>1, <2>4, <3>1 DEF Follows, Ends, Openings, Closings
  <2>10. q[2].typ \notin Starts \cup Ends /\ q[3].typ \in Ends
    BY <2>8, <2>9 DEF Starts, Ends, Closings
  <2>. QED
    BY <1>3, <2>3, <2>7, <2>10, LevelZero DEF n
<1>. QED
  BY <1>4, <1>8, <1>9 DEF Openings

\* What becomes of a call once the stream is torn: the event it begins with is never
\* taken, so that the call fails, or is over before the emitter looks at it.
Lost ==
  /\ nodes \in Nat
  /\ walk \in Walks \ {<<>>} => nodes = 0
  /\ ~broken => Alone(emitter.events)
  /\ broken => Torn(emitter)
  /\ broken /\ Running => walk \in Walks \ {<<>>} \/ Marked(emitter, walk, nodes)
  /\ FailedForGood

\* Whether a document is torn depends on the queue and the state.
LEMMA SameTorn ==
  ASSUME NEW x, NEW y, y.events = x.events, y.state = x.state
  PROVE  /\ Torn(x) <=> Torn(y)
         /\ Dead(x) <=> Dead(y)
         /\ \A w, n : Marked(x, w, n) <=> Marked(y, w, n)
<1>1. (Dead(x) <=> Dead(y)) /\ (Entering(x) <=> Entering(y))
  BY DEF Dead, Entering
<1>2. Torn(x) <=> Torn(y)
  BY <1>1 DEF Torn
<1>3. ASSUME NEW w, NEW n PROVE Marked(x, w, n) <=> Marked(y, w, n)
  BY <1>1 DEF Marked
<1>. QED
  BY <1>1, <1>2, <1>3

\* The mark stays in its place when events are added.
LEMMA MarkGrows ==
  ASSUME NEW e, Sane(e), NEW ev \in Events, NEW z, z.events = Append(e.events, ev),
         z.state = e.state, NEW w, NEW w2, NEW n \in Nat, NEW m \in Nat, m <= n + 1,
         w2 = <<>> => m = n, Marked(e, w, n)
  PROVE  Marked(z, w2, m)
<1>. DEFINE q == e.events
            t == Append(q, ev)
<1>1. /\ q \in Seq(Events) /\ Len(q) \in Nat /\ Len(t) = Len(q) + 1 /\ t \in Seq(Events)
      /\ \A i \in 1..Len(q) : t[i] = q[i]
      /\ t # <<>>
  BY Fields, AppendFacts DEF Sane
<1>2. PICK j \in 1..Len(q) :
        q[j].typ \in Edges /\ (Entering(e) => j >= 2) /\ Len(q) >= j + n
  BY DEF Marked
<1>3. q # <<>>
  <2>. HIDE DEF q
  <2>1. Len(q) # 0
    BY <1>1, <1>2
  <2>. QED
    BY <1>1, <2>1
<1>4. Head(t) = Head(q)
  BY <1>1, <1>3, AppendFacts, HeadFacts
<1>5. z.events = t
  OBVIOUS
<1>6. Entering(z) => Entering(e)
  BY <1>3, <1>4, <1>5 DEF Entering
<1>. HIDE DEF q, t
<1>7. j \in 1..Len(t) /\ Len(t) >= j + m /\ (m = n => Len(t) >= j + 1 + m) /\ t[j] = q[j]
  BY <1>1, <1>2
<1>. QED
  BY <1>2, <1>5, <1>6, <1>7 DEF Marked

\* The first event of a call marks it.
LEMMA MarkBegins ==
  ASSUME NEW e, Sane(e), Torn(e), NEW ev \in Events, ev.typ \in Edges, NEW z,
         z.events = Append(e.events, ev), z.state = e.state,
         NEW w, w = <<>> => ev.typ = "STREAM_END"
  PROVE  Marked(z, w, 0)
<1>. DEFINE q == e.events
            t == Append(q, ev)
            n == Len(q)
<1>1. /\ q \in Seq(Events) /\ n \in Nat /\ Len(t) = n + 1 /\ t[n + 1] = ev
      /\ n = 0 => q = <<>>
  BY Fields, AppendFacts, EmptySeq DEF Sane
<1>2. q = <<>> => ~Entering(z)
  BY DEF Torn, Dead, Entering, Starting, Outside
<1>3. z.events = t
  OBVIOUS
<1>. HIDE DEF n, t, q
<1>4. n + 1 \in 1..Len(t) /\ Len(t) >= n + 1 + 0 /\ (n # 0 => n + 1 >= 2)
  BY <1>1
<1>. QED
  BY <1>1, <1>2, <1>3, <1>4 DEF Marked

\* A walk inside a document is none of the others.
LEMMA InnerWalks ==
  ASSUME NEW w, Inner(w)
  PROVE  w \notin Walks /\ WalkHeight(w) # 0
<1>1. WalkShape(w)
  BY DEF WalkShape
<1>2. WalkHeight(w) = Len(w) /\ Len(w) \in Nat \ {0} /\ (w \in Walks => WalkHeight(w) = 0)
  BY <1>1, WalkKinds
<1>. QED
  BY <1>2

\* An event that the walk emits.
LEMMA EmitLost ==
  ASSUME Inv, Lost, Running, NeedMoreEvents(emitter.events), walk # <<>>,
         NEW ev \in Events, NEW w, Emit(ev, w), nodes' \in Nat,
         \/ /\ walk \in Walks /\ ev.typ \in Edges /\ nodes' = nodes
            /\ w = <<>> => ev.typ = "STREAM_END"
         \/ /\ walk \notin Walks /\ ev.typ \notin Edges /\ nodes' <= nodes + 1
            /\ w \notin Walks \ {<<>>} /\ (w = <<>> => nodes' = nodes)
            /\ ev.typ = "DOCUMENT_END" => WalkHeight(walk) = 1
  PROVE  Lost'
<1>1. /\ emitter' = [emitter EXCEPT !.events = Append(@, ev)] /\ walk' = w
      /\ outcome' = outcome /\ broken' = broken
  BY DEF Emit
<1>2. Typed /\ Sane(emitter) /\ emitter.events \in Seq(Events) /\ nodes \in Nat
  BY Fields DEF Inv, Typed, Sane, Lost
<1>3. /\ emitter'.events = Append(emitter.events, ev) /\ emitter'.state = emitter.state
  BY <1>1, <1>2, EmittedFacts
<1>4. w \in Walks \ {<<>>} => nodes' = 0
  BY DEF Lost
<1>5. ASSUME ~broken PROVE Alone(emitter'.events)
  <2>. DEFINE q == emitter.events
              t == Append(q, ev)
  <2>1. Len(q) \in Nat /\ Len(t) = Len(q) + 1 /\ t[Len(q) + 1] = ev
        /\ \A i \in 1..Len(q) : t[i] = q[i]
    BY <1>2, AppendFacts
  <2>2. ASSUME ev.typ = "DOCUMENT_END"
        PROVE  q = <<>> \/ (Len(q) = 1 /\ q[1].typ = "DOCUMENT_START")
    <3>1. WalkHeight(walk) = 1
      BY <2>2 DEF Edges
    <3>2. ~Stuck(emitter)
      <4>1. "DOCUMENT_END" \notin DOMAIN Accumulate
        BY DEF Accumulate
      <4>. QED
        BY <4>1 DEF Stuck, NeedMoreEvents
    <3>3. Regular
      BY <1>5, <3>2 DEF Inv
    <3>4. Path(Height(emitter), q, 1)
      BY <3>1, <3>3 DEF Regular
    <3>5. Height(emitter) \in Nat
      BY <1>2, Heights DEF Sane, Height
    <3>. QED
      BY <1>2, <3>4, <3>5, StartWaits
  <2>3. q = <<>> => Len(q) = 0
    OBVIOUS
  <2>. HIDE DEF q, t
  <2>4. t[Len(t)] = ev
    BY <2>1
  <2>5. ASSUME ev.typ = "DOCUMENT_END"
        PROVE  Len(t) = 1 \/ (Len(t) = 2 /\ t[1].typ = "DOCUMENT_START")
    <3>1. CASE q = <<>>
      BY <2>1, <2>3, <3>1
    <3>2. CASE Len(q) = 1 /\ q[1].typ = "DOCUMENT_START"
      BY <2>1, <3>2
    <3>. QED
      BY <2>2, <2>5, <3>1, <3>2
  <2>6. Alone(t)
    BY <2>4, <2>5 DEF Alone
  <2>. QED
    BY <1>3, <2>6 DEF q, t
<1>6. ASSUME broken PROVE Torn(emitter') /\ Marked(emitter', w, nodes')
  <2>1. Torn(emitter)
    BY <1>6 DEF Lost
  <2>2. CASE walk \in Walks
    <3>1. /\ ev.typ \in Edges /\ nodes' = 0 /\ (w = <<>> => ev.typ = "STREAM_END")
      BY <2>2 DEF Lost
    <3>2. ev.typ # "DOCUMENT_END"
      BY <3>1 DEF Edges
    <3>3. Torn(emitter')
      BY <1>2, <1>3, <2>1, <3>2, TornGrows
    <3>4. Marked(emitter', w, 0)
      BY <1>2, <1>3, <2>1, <3>1, MarkBegins
    <3>. QED
      BY <3>1, <3>3, <3>4
  <2>3. CASE walk \notin Walks
    <3>1. Marked(emitter, walk, nodes)
      BY <1>6, <2>3 DEF Lost
    <3>2. Torn(emitter')
      BY <1>2, <1>3, <2>1, <3>1, TornGrows
    <3>3. nodes' <= nodes + 1 /\ (w = <<>> => nodes' = nodes)
      BY <2>3
    <3>4. Marked(emitter', w, nodes')
      BY <1>2, <1>3, <3>1, <3>3, MarkGrows
    <3>. QED
      BY <3>2, <3>4
  <2>. QED
    BY <2>2, <2>3
<1>7. FailedForGood'
  BY <1>1 DEF FailedForGood, Running
<1>. QED
  BY <1>1, <1>4, <1>5, <1>6, <1>7 DEF Lost

\* The steps of the walk.
LEMMA WalkLost ==
  ASSUME Inv, Lost, \/ MarshalInit \/ MarshalDocument \/ MarshalLeaf \/ MarshalCollection
                    \/ MarshalEnd \/ MarshalDocumentEnd \/ Finish
  PROVE  Lost'
<1>1. WalkShape(walk) /\ nodes \in Nat
  BY DEF Inv, Typed, Lost
<1>2. TRUE \in BOOLEAN /\ FALSE \in BOOLEAN
  OBVIOUS
<1>3. ASSUME NEW typ \in {"STREAM_START", "DOCUMENT_START", "DOCUMENT_END", "STREAM_END"}
      PROVE  Event(typ, FALSE, FALSE) \in Events /\ Event(typ, FALSE, FALSE).typ = typ
  BY <1>2, EventFacts DEF EventTypes, Starts, Ends
<1>4. CASE MarshalInit
  <2>. DEFINE ev == Event("STREAM_START", FALSE, FALSE)
  <2>1. Running /\ NeedMoreEvents(emitter.events) /\ walk # <<>> /\ walk[Len(walk)] = "init"
    BY <1>4 DEF MarshalInit, AtStep, Step
  <2>2. walk = <<"document", "init">> /\ Callers = <<"document">>
    BY <1>1, <2>1, WalkKinds DEF Callers
  <2>3. Emit(ev, <<"document">>) /\ nodes' = nodes
    BY <1>4, <2>2 DEF MarshalInit
  <2>4. ev \in Events /\ ev.typ \in Edges
    BY <1>3 DEF Edges
  <2>5. walk \in Walks /\ <<"document">> # <<>>
    BY <2>2 DEF Walks
  <2>. HIDE DEF ev
  <2>. QED
    BY <1>1, <2>1, <2>3, <2>4, <2>5, EmitLost
<1>5. CASE MarshalDocument
  <2>. DEFINE ev == Event("DOCUMENT_START", FALSE, FALSE)
  <2>1. Running /\ NeedMoreEvents(emitter.events) /\ walk # <<>> /\ walk[Len(walk)] = "document"
    BY <1>5 DEF MarshalDocument, AtStep, Step
  <2>2. walk = <<"document">>
    BY <1>1, <2>1, WalkKinds
  <2>3. Emit(ev, <<"root">>) /\ nodes' = nodes
    BY <1>5 DEF MarshalDocument
  <2>4. ev \in Events /\ ev.typ \in Edges
    BY <1>3 DEF Edges
  <2>5. walk \in Walks /\ <<"root">> # <<>>
    BY <2>2 DEF Walks
  <2>. HIDE DEF ev
  <2>. QED
    BY <1>1, <2>1, <2>3, <2>4, <2>5, EmitLost
<1>6. CASE Finish
  <2>. DEFINE ev == Event("STREAM_END", FALSE, FALSE)
  <2>1. Running /\ NeedMoreEvents(emitter.events) /\ walk # <<>> /\ walk[Len(walk)] = "finish"
    BY <1>6 DEF Finish, AtStep, Step
  <2>2. walk = <<"finish">> /\ Callers = <<>>
    BY <1>1, <2>1, WalkKinds DEF Callers
  <2>3. Emit(ev, <<>>) /\ nodes' = nodes
    BY <1>6, <2>2 DEF Finish
  <2>4. ev \in Events /\ ev.typ \in Edges /\ ev.typ = "STREAM_END"
    BY <1>3 DEF Edges
  <2>5. walk \in Walks
    BY <2>2 DEF Walks
  <2>. HIDE DEF ev
  <2>. QED
    BY <1>1, <2>1, <2>3, <2>4, <2>5, EmitLost
<1>7. ASSUME walk # <<>>, walk[Len(walk)] \in DOMAIN NextStep
      PROVE  /\ walk \notin Walks
             /\ Behind \notin Walks
             /\ \A s \in {"item", "key"} : Append(Behind, s) \notin Walks
             /\ walk[Len(walk)] \in {"item", "key"} => Callers \notin Walks
             /\ walk[Len(walk)] \in {"root", "end"} => WalkHeight(walk) = 1 /\ Callers = <<>>
             /\ <<>> \in Walks
  <2>1. Inner(walk)
    BY <1>1, <1>7, WalkKinds
  <2>2. Behind = Onward(walk) /\ Callers = Outer(walk)
    BY DEF Behind, Callers, Step, Onward, Outer
  <2>3. /\ Inner(Behind)
        /\ \A s \in {"item", "key"} : Inner(Append(Behind, s))
        /\ walk[Len(walk)] \in {"item", "key"} => Inner(Callers)
        /\ walk[Len(walk)] \in {"root", "end"} => WalkHeight(walk) = 1 /\ Callers = <<>>
    BY <2>1, <2>2, WalkOn
  <2>4. <<>> \in Walks
    BY DEF Walks
  <2>. QED
    BY <2>1, <2>3, <2>4, InnerWalks
<1>8. CASE MarshalLeaf
  <2>1. Running /\ NeedMoreEvents(emitter.events) /\ walk # <<>> /\ walk[Len(walk)] \in DOMAIN NextStep
    BY <1>8 DEF MarshalLeaf, AtStep, Step
  <2>2. PICK typ \in {"SCALAR", "ALIAS"}, inline \in BOOLEAN, comment \in BOOLEAN :
          Emit(Event(typ, inline, comment), Behind) /\ nodes' = nodes + 1
    BY <1>8 DEF MarshalLeaf
  <2>. DEFINE ev == Event(typ, inline, comment)
  <2>3. ev \in Events /\ ev.typ = typ
    BY EventFacts DEF Commented
  <2>4. typ \notin Edges /\ typ # "DOCUMENT_END"
    BY DEF Edges
  <2>5. Emit(ev, Behind)
    BY <2>2
  <2>6. nodes' \in Nat /\ nodes' <= nodes + 1
    BY <1>1, <2>2
  <2>7. walk \notin Walks /\ Behind \notin Walks \ {<<>>} /\ Behind # <<>>
    BY <1>7, <2>1
  <2>. HIDE DEF ev
  <2>. QED
    BY <2>1, <2>3, <2>4, <2>5, <2>6, <2>7, EmitLost
<1>9. CASE MarshalCollection
  <2>1. Running /\ NeedMoreEvents(emitter.events) /\ walk # <<>> /\ walk[Len(walk)] \in DOMAIN NextStep
    BY <1>9 DEF MarshalCollection, AtStep, Step
  <2>2. PICK inline \in BOOLEAN :
          \/ Emit(Event("SEQUENCE_START", inline, FALSE), Append(Behind, "item"))
          \/ Emit(Event("MAPPING_START", inline, FALSE), Append(Behind, "key"))
    BY <1>9 DEF MarshalCollection
  <2>3. PICK typ \in Openings, s \in {"item", "key"} : Emit(Event(typ, inline, FALSE), Append(Behind, s))
    BY <2>2 DEF Openings
  <2>. DEFINE ev == Event(typ, inline, FALSE)
              w == Append(Behind, s)
  <2>4. ev \in Events /\ ev.typ = typ
    BY EventFacts DEF EventTypes, Starts, Openings
  <2>5. walk \notin Walks /\ w \notin Walks \ {<<>>} /\ w # <<>>
    BY <1>7, <2>1
  <2>6. Emit(ev, w) /\ nodes' = nodes + 1
    BY <1>9, <2>3 DEF MarshalCollection
  <2>7. nodes' \in Nat /\ nodes' <= nodes + 1
    BY <1>1, <2>6
  <2>8. typ \notin Edges /\ typ # "DOCUMENT_END"
    BY DEF Edges, Openings
  <2>. HIDE DEF ev, w
  <2>. QED
    BY <2>1, <2>4, <2>5, <2>6, <2>7, <2>8, EmitLost
<1>10. CASE MarshalEnd
  <2>1. /\ Running /\ NeedMoreEvents(emitter.events) /\ walk # <<>>
        /\ walk[Len(walk)] \in {"item", "key"} /\ walk[Len(walk)] \in DOMAIN NextStep
    BY <1>10 DEF MarshalEnd, AtStep, Step, NextStep
  <2>. DEFINE typ == IF walk[Len(walk)] = "item" THEN "SEQUENCE_END" ELSE "MAPPING_END"
  <2>2. PICK comment \in BOOLEAN : Emit(Event(typ, FALSE, comment), Callers) /\ nodes' = nodes
    BY <1>10 DEF MarshalEnd, Step
  <2>. DEFINE ev == Event(typ, FALSE, comment)
  <2>3. typ \in Commented /\ typ \notin Edges /\ typ # "DOCUMENT_END"
    BY DEF Edges, Commented
  <2>. HIDE DEF typ
  <2>4. ev \in Events /\ ev.typ = typ
    BY <1>2, <2>3, EventFacts
  <2>5. Emit(ev, Callers)
    BY <2>2
  <2>6. walk \notin Walks /\ Callers \notin Walks \ {<<>>} /\ Callers # <<>>
    BY <1>7, <2>1
  <2>7. nodes' \in Nat /\ nodes' <= nodes + 1
    BY <1>1, <2>2
  <2>. HIDE DEF ev
  <2>. QED
    BY <2>1, <2>3, <2>4, <2>5, <2>6, <2>7, EmitLost
<1>11. CASE MarshalDocumentEnd
  <2>. DEFINE ev == Event("DOCUMENT_END", FALSE, FALSE)
  <2>1. /\ Running /\ NeedMoreEvents(emitter.events) /\ walk # <<>>
        /\ walk[Len(walk)] \in {"root", "end"} /\ walk[Len(walk)] \in DOMAIN NextStep
    BY <1>11 DEF MarshalDocumentEnd, AtStep, Step, NextStep
  <2>2. walk \notin Walks /\ WalkHeight(walk) = 1 /\ Callers = <<>> /\ <<>> \notin Walks \ {<<>>}
    BY <1>7, <2>1
  <2>3. ev \in Events /\ ev.typ \notin Edges
    BY <1>3 DEF Edges
  <2>4. Emit(ev, <<>>) /\ nodes' = nodes
    BY <1>11, <2>2 DEF MarshalDocumentEnd
  <2>5. nodes' \in Nat /\ nodes' <= nodes + 1
    BY <1>1, <2>4
  <2>. HIDE DEF ev
  <2>. QED
    BY <2>1, <2>2, <2>3, <2>4, <2>5, EmitLost
<1>. QED
  BY <1>4, <1>5, <1>6, <1>8, <1>9, <1>10, <1>11

\* A call that returns while the stream is torn.
LEMMA ReturnLost ==
  ASSUME Inv, Lost, Return
  PROVE  Lost'
<1>1. /\ Running /\ walk = <<>> /\ NeedMoreEvents(emitter.events)
      /\ outcome' = "ok" /\ walk' = <<>> /\ emitter' = emitter
      /\ broken' = broken /\ nodes' = nodes
  BY DEF Return, EndCall
<1>2. ASSUME broken
      PROVE  nodes = 0 /\ emitter.events # <<>> /\ Head(emitter.events).typ = "MAPPING_START"
  <2>. DEFINE q == emitter.events
              n == Len(q)
              typ == Head(q).typ
  <2>1. Marked(emitter, walk, nodes) /\ nodes \in Nat
    BY <1>1, <1>2 DEF Lost
  <2>2. PICK j \in 1..n :
          /\ q[j].typ \in Edges
          /\ (q[j].typ = "STREAM_END" /\ nodes = 0) \/ n >= j + 1 + nodes
    BY <1>1, <2>1 DEF Marked
  <2>3. q \in Seq(Events) /\ n \in Nat
    BY Fields, LenProperties DEF Inv, Typed, Sane
  <2>4. q # <<>>
    <3>. SUFFICES ASSUME q = <<>> PROVE FALSE
      OBVIOUS
    <3>1. n = 0
      OBVIOUS
    <3>. HIDE DEF n
    <3>. QED
      BY <2>2, <3>1
  <2>5. Head(q) = q[1]
    BY <2>3, <2>4, HeadFacts
  <2>6. typ \in DOMAIN Accumulate /\ n <= Accumulate[typ] /\ \A i \in 1..n : Level(q, i) # 0
    BY <1>1, <2>4 DEF NeedMoreEvents
  <2>7. /\ typ = "DOCUMENT_START" => n <= 1
        /\ typ = "SEQUENCE_START" => n <= 2
        /\ typ = "MAPPING_START" => n <= 3
        /\ typ \in {"DOCUMENT_START", "SEQUENCE_START", "MAPPING_START"}
    BY <2>6 DEF Accumulate
  <2>. HIDE DEF n, q
  <2>8. typ # "DOCUMENT_START"
    <3>. SUFFICES ASSUME typ = "DOCUMENT_START" PROVE FALSE
      OBVIOUS
    <3>1. n <= 1 /\ j = 1
      BY <2>2, <2>3, <2>7
    <3>. QED
      BY <2>1, <2>2, <2>3, <2>5, <3>1
  <2>9. j # 1
    BY <2>2, <2>5, <2>7, <2>8 DEF Edges
  <2>10. typ # "SEQUENCE_START"
    <3>. SUFFICES ASSUME typ = "SEQUENCE_START" PROVE FALSE
      OBVIOUS
    <3>1. n <= 2 /\ j = 2 /\ n = 2
      BY <2>2, <2>3, <2>7, <2>9
    <3>2. q[2].typ = "STREAM_END"
      BY <2>1, <2>2, <3>1
    <3>3. q[1].typ \in Starts /\ q[2].typ \in Ends /\ 2 \in 2..3
      BY <2>5, <3>2 DEF Starts, Ends
    <3>4. Level(q, 2) = 0
      BY <2>3, <3>3, LevelZero
    <3>. QED
      BY <2>6, <3>1, <3>4
  <2>11. typ = "MAPPING_START" /\ n <= 3
    BY <2>7, <2>8, <2>10
  <2>12. nodes = 0
    BY <2>1, <2>2, <2>3, <2>9, <2>11
  <2>. QED
    BY <2>4, <2>11, <2>12 DEF q
<1>3. FailedForGood'
  BY <1>1, <1>2 DEF FailedForGood
<1>. QED
  BY <1>1, <1>3 DEF Lost, Running

\* The end of a document still stands alone when the head leaves the queue.
LEMMA AloneTail ==
  ASSUME NEW q \in Seq(Events), q # <<>>, Alone(q)
  PROVE  Alone(Tail(q))
<1>. DEFINE t == Tail(q)
            n == Len(q)
<1>1. n \in Nat \ {0} /\ Len(t) = n - 1 /\ t \in Seq(Events) /\ \A i \in 1..Len(t) : t[i] = q[i + 1]
  BY HeadFacts
<1>2. q[n].typ = "DOCUMENT_END" => n = 1 \/ (n = 2 /\ q[1].typ = "DOCUMENT_START")
  BY DEF Alone
<1>. HIDE DEF n, t
<1>3. t # <<>> => Len(t) # 0
  BY <1>1, EmptySeq
<1>4. ASSUME t # <<>>, t[Len(t)].typ = "DOCUMENT_END" PROVE Len(t) = 1
  <2>1. Len(t) \in 1..Len(t) /\ Len(t) + 1 = n
    BY <1>1, <1>3, <1>4
  <2>2. q[n].typ = "DOCUMENT_END"
    BY <1>1, <1>4, <2>1
  <2>. QED
    BY <1>1, <1>2, <1>3, <1>4, <2>2
<1>. QED
  BY <1>4 DEF Alone, t

\* A turn of the emitter's loop.
LEMMA EmitNextLost ==
  ASSUME Inv, Lost, EmitNext
  PROVE  Lost'
<1>1. Running /\ ~NeedMoreEvents(emitter.events) /\ nodes' = nodes
  BY DEF EmitNext
<1>2. PICK r \in EmitHead(emitter) :
        /\ emitter' = r.emitter
        /\ IF r.how = "done" THEN UNCHANGED <<outcome, walk, broken>>
           ELSE /\ EndCall(IF r.how = "panic" THEN "panic" ELSE "error")
                /\ broken' = (broken \/ r.how # "failed"
                               \/ Head(emitter.events).typ \notin {"DOCUMENT_END", "STREAM_END"})
  BY DEF EmitNext
<1>. DEFINE e == Analyzed(emitter)
<1>3. PICK q \in Attempt(e) :
        /\ r.how = q.how
        /\ r.emitter = IF q.how = "done" THEN Consumed(q.emitter) ELSE q.emitter
  BY HeadCases
<1>4. Sane(emitter) /\ emitter.events # <<>> /\ emitter.events \in Seq(Events) /\ nodes \in Nat
  BY <1>1, Fields DEF Inv, Typed, NeedMoreEvents, Sane, Lost
<1>5. Sane(e) /\ e.events = emitter.events /\ e.state = emitter.state
  BY <1>4, AnalyzedFacts
<1>. HIDE DEF e
<1>6. /\ Torn(e) <=> Torn(emitter)
      /\ Dead(e) <=> Dead(emitter)
      /\ Marked(emitter, walk, nodes) <=> Marked(e, walk, nodes)
  BY <1>5, SameTorn
<1>7. Sane(q.emitter) /\ q.emitter.events = emitter.events
  BY <1>5, AttemptFit DEF Fit
<1>8. CASE q.how = "done"
  <2>1. /\ emitter' = Consumed(q.emitter) /\ outcome' = outcome /\ walk' = walk /\ broken' = broken
    BY <1>2, <1>3, <1>8
  <2>2. emitter'.events = Tail(e.events) /\ emitter'.state = q.emitter.state
    BY <1>4, <1>5, <1>7, <2>1, ConsumedFacts
  <2>3. ASSUME ~broken PROVE Alone(emitter'.events)
    BY <1>4, <1>5, <2>2, <2>3, AloneTail DEF Lost
  <2>4. ASSUME broken
        PROVE  Torn(emitter') /\ (Marked(emitter, walk, nodes) => Marked(emitter', walk, nodes))
    <3>1. Torn(e)
      BY <1>6, <2>4 DEF Lost
    <3>. QED
      BY <1>4, <1>5, <1>6, <1>8, <2>2, <3>1, TornDone
  <2>5. FailedForGood'
    BY <1>1, <2>1 DEF FailedForGood, Running
  <2>. QED
    BY <1>1, <2>1, <2>3, <2>4, <2>5 DEF Lost, Running
<1>9. CASE q.how # "done"
  <2>1. /\ emitter' = q.emitter /\ walk' = <<>>
        /\ outcome' \in {"panic", "error"}
        /\ broken' = (broken \/ q.how # "failed"
                       \/ Head(emitter.events).typ \notin {"DOCUMENT_END", "STREAM_END"})
    BY <1>2, <1>3, <1>9 DEF EndCall
  <2>2. ASSUME broken PROVE Torn(emitter')
    <3>1. Torn(e)
      BY <1>6, <2>2 DEF Lost
    <3>. QED
      BY <1>4, <1>5, <1>9, <2>1, <3>1, TornFails
  <2>3. ASSUME ~broken, broken' PROVE Torn(emitter')
    <3>1. q.how # "failed" \/ Head(e.events).typ \notin {"DOCUMENT_END", "STREAM_END"}
      BY <1>5, <2>1, <2>3
    <3>2. Regular \/ Stuck(emitter)
      BY <2>3 DEF Inv
    <3>3. Stuck(emitter) => Dead(e)
      BY <1>6 DEF Stuck, Dead, Outside, Borders
    <3>4. Regular => \A i \in 1..Len(e.events) - 1 : e.events[i].typ # "DOCUMENT_END"
      BY <1>5 DEF Regular, Queued
    <3>5. Alone(e.events)
      BY <1>5, <2>3 DEF Lost
    <3>. QED
      BY <1>4, <1>5, <1>9, <2>1, <3>1, <3>2, <3>3, <3>4, <3>5, AttemptBreaks
  <2>4. ~broken' => Alone(emitter'.events)
    BY <1>7, <2>1 DEF Lost
  <2>5. outcome' # "ok" /\ outcome' # "running"
    BY <2>1
  <2>6. FailedForGood'
    BY <2>5 DEF FailedForGood
  <2>7. broken' => Torn(emitter')
    BY <2>1, <2>2, <2>3
  <2>. QED
    BY <1>1, <1>4, <2>1, <2>4, <2>5, <2>6, <2>7 DEF Lost, Running
<1>. QED
  BY <1>8, <1>9

\* The walk is cut off.
LEMMA MarshalFailsLost ==
  ASSUME Inv, Lost, MarshalFails
  PROVE  Lost'
<1>1. /\ Running /\ NeedMoreEvents(emitter.events) /\ walk # <<>>
      /\ walk[Len(walk)] \in DOMAIN NextStep
      /\ outcome' = "error" /\ walk' = <<>> /\ broken' = TRUE /\ emitter' = emitter /\ nodes' = nodes
  BY DEF MarshalFails, AtStep, Step, NextStep, EndCall
<1>2. Typed /\ Sane(emitter) /\ WalkShape(walk)
  BY DEF Inv, Typed
<1>3. ASSUME ~broken PROVE Torn(emitter)
  <2>1. ~Stuck(emitter)
    <3>1. "DOCUMENT_END" \notin DOMAIN Accumulate
      BY DEF Accumulate
    <3>. QED
      BY <1>1, <3>1 DEF Stuck, NeedMoreEvents
  <2>2. Regular
    BY <1>3, <2>1 DEF Inv
  <2>3. WalkHeight(walk) # 0
    BY <1>1, <1>2, WalkKinds, InnerWalks
  <2>. QED
    BY <1>2, <2>2, <2>3, WalkBreaks DEF Regular
<1>4. Torn(emitter)
  BY <1>3 DEF Lost
<1>5. outcome' # "ok" /\ outcome' # "running"
  BY <1>1
<1>6. FailedForGood'
  BY <1>5 DEF FailedForGood
<1>. QED
  BY <1>1, <1>4, <1>5, <1>6 DEF Lost, Running

\* A call begins with nothing counted.
LEMMA CallLost ==
  ASSUME Lost, Encode \/ Close
  PROVE  Lost'
<1>1. PICK steps : Call(steps) /\ steps \in Walks /\ steps # <<>>
  BY DEF Encode, Close, Walks
<1>2. /\ outcome' = "running" /\ walk' = steps /\ nodes' = 0 /\ emitter' = emitter /\ broken' = broken
  BY <1>1 DEF Call
<1>3. FailedForGood'
  BY <1>2 DEF FailedForGood
<1>. QED
  BY <1>1, <1>2, <1>3 DEF Lost

\* The invariant of torn streams.
LEMMA SpecLost == Spec => []Lost
<1>1. Init => Lost
  <2>. SUFFICES ASSUME Init PROVE Lost
    OBVIOUS
  <2>1. emitter.events = <<>> /\ walk = <<>> /\ outcome = "none" /\ nodes = 0 /\ broken = FALSE
    BY DEF Init, NewEmitter
  <2>2. Alone(<<>>)
    BY DEF Alone
  <2>. QED
    BY <2>1, <2>2 DEF Lost, FailedForGood
<1>2. Inv /\ Lost /\ [Next]_vars => Lost'
  <2>. SUFFICES ASSUME Inv, Lost, [Next]_vars PROVE Lost'
    OBVIOUS
  <2>1. CASE Encode \/ Close
    BY <2>1, CallLost
  <2>2. CASE Return
    BY <2>2, ReturnLost
  <2>3. CASE MarshalFails
    BY <2>3, MarshalFailsLost
  <2>4. CASE \/ MarshalInit \/ MarshalDocument \/ MarshalLeaf \/ MarshalCollection
             \/ MarshalEnd \/ MarshalDocumentEnd \/ Finish
    BY <2>4, WalkLost
  <2>5. CASE EmitNext
    BY <2>5, EmitNextLost
  <2>6. CASE UNCHANGED vars
    BY <2>6 DEF vars, Lost, FailedForGood, Running
  <2>. QED
    BY <2>1, <2>2, <2>3, <2>4, <2>5, <2>6 DEF Next
<1>. QED
  BY <1>1, <1>2, SpecInv, PTL DEF Spec

-----------------------------------------------------------------------------
(* The properties                                                            *)

\* The fields of the encoder and the emitter, the queue, the stacks and the walk
\* are of their types in every state, behind any failure.
THEOREM EncoderTypes == Spec => []TypeOK
BY SpecInv, TypesFromInv, PTL

\* A call of Encode or Close that returns no error, in an encoder that no failure
\* has torn, has written everything it was given: the queue and the buffer are
\* empty and no collection is left open, however deep the value was.
THEOREM EncodeIsComplete == Spec => []EncodeComplete
BY SpecInv, SoundFromInv, PTL

\* The indents saved and the flow level are those of the collections that are
\* open, at any depth: each end restores what its start has saved.
THEOREM IndentsAlwaysMatch == Spec => []IndentsMatch
BY SpecInv, MatchFromInv, PTL

\* A collection that is written as a block has an item or a key.
THEOREM BlocksHoldSomething == Spec => []NoEmptyBlock
BY SpecInv, SoundFromInv, PTL

\* A key written without `?' that is a collection is an empty one in brackets,
\* whose end is the next event.
THEOREM SimpleKeysAreShort == Spec => []SimpleKeysFit
BY SpecInv, SoundFromInv, PTL

\* Inside of brackets no collection is written as a block, at any depth.
THEOREM FlowHoldsFlow == Spec => []FlowInsideFlow
BY SpecInv, FlowFromInv, PTL

\* Until a block collection has a line comment of its own, a line comment is
\* written behind the node it belongs to and moves no comma.
THEOREM CommentsStayInPlace == Spec => []CommentsInPlace
BY SpecInv, SoundFromInv, PTL

\* A torn stream is never continued as if nothing had happened: once an event was
\* refused, or the walk or a write was cut off inside a document, no later call of
\* Encode or Close reports success, unless the few events of a call without content
\* wait behind a MAPPING-START that the emitter has not looked at.
THEOREM TornForGood == Spec => []FailedForGood
<1>1. Lost => FailedForGood
  BY DEF Lost
<1>. QED
  BY <1>1, SpecLost, PTL

=============================================================================
