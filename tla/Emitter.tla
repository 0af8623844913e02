------------------------------- MODULE Emitter -------------------------------
(***************************************************************************)
(* The emitter of emitterc.go.  It queues the events it is given until it   *)
(* has seen enough of what follows them to choose between an empty, a flow  *)
(* and a block collection and between a simple and a complex key, and then  *)
(* writes them one by one, in the state its stacks say.                     *)
(*                                                                         *)
(* Any write may fail, since the buffer is small and a full one is flushed. *)
(* The event that met the failure stays at the head of the queue, and the   *)
(* next call of yaml_emitter_emit hands it to the state machine again, with *)
(* whatever the first attempt has done to the stacks.                       *)
(*                                                                         *)
(* Characters and columns are left out: a write is a place where the        *)
(* handler may fail.  An indent is named by the height the stack of states  *)
(* had when it was chosen.  Of the comments only line comments are kept,    *)
(* directives, anchors and tags that are refused, the canonical form and    *)
(* the choice of a scalar's style are left out.                             *)
(***************************************************************************)
EXTENDS Integers, Sequences, FiniteSets, SequencesExt

\* inline: the style of a collection is flow (its anchor and tag are short); a
\* scalar or an alias is neither multi-line nor too long for a simple key.
\* comment: the event has a line comment.
Event(typ, inline, comment) == [typ |-> typ, inline |-> inline, comment |-> comment]
Starts == {"STREAM_START", "DOCUMENT_START", "SEQUENCE_START", "MAPPING_START"}
Ends == {"STREAM_END", "DOCUMENT_END", "SEQUENCE_END", "MAPPING_END"}
EventTypes == Starts \cup Ends \cup {"SCALAR", "ALIAS"}

FlowFirst == {"FLOW_SEQUENCE_FIRST_ITEM", "FLOW_MAPPING_FIRST_KEY"}
BlockFirst == {"BLOCK_SEQUENCE_FIRST_ITEM", "BLOCK_MAPPING_FIRST_KEY"}
Trails == {"FLOW_SEQUENCE_TRAIL_ITEM", "FLOW_MAPPING_TRAIL_KEY"}
SimpleValues == {"FLOW_MAPPING_SIMPLE_VALUE", "BLOCK_MAPPING_SIMPLE_VALUE"}
\* States of a collection that has been opened: it owns an indent.
FlowStates == Trails \cup {"FLOW_SEQUENCE_ITEM", "FLOW_MAPPING_KEY", "FLOW_MAPPING_SIMPLE_VALUE",
                           "FLOW_MAPPING_VALUE"}
BlockStates == {"BLOCK_SEQUENCE_ITEM", "BLOCK_MAPPING_KEY", "BLOCK_MAPPING_SIMPLE_VALUE",
                "BLOCK_MAPPING_VALUE"}
EmitterStates ==
  {"STREAM_START", "FIRST_DOCUMENT_START", "DOCUMENT_START", "DOCUMENT_CONTENT",
   "DOCUMENT_END", "END"} \cup FlowFirst \cup BlockFirst \cup FlowStates \cup BlockStates

\* yaml_emitter_t: the queue from events_head on, the state and the stack of
\* states, the indents, the flow level, the pending comments; buffered: some
\* output has not been handed to the writer.
NewEmitter ==
  [events |-> <<>>, state |-> "STREAM_START", states |-> <<>>,
   indent |-> -1, indents |-> <<>>, flow_level |-> 0,
   line_comment |-> FALSE, key_line_comment |-> FALSE, buffered |-> FALSE]

\* How an attempt at the head of the queue ends.
Result(how, e) == [how |-> how, emitter |-> e]
Done(e) == Result("done", e)
Refused(e) == Result("refused", e)                    \* set_emitter_error
Panics(e) == Result("panic", e)                       \* index out of range
Fails(e) == Result("failed", [e EXCEPT !.buffered = TRUE])   \* the writer's error
Writes(before, after) == {Fails(before), Done([after EXCEPT !.buffered = TRUE])}

-----------------------------------------------------------------------------
(* The queue                                                                 *)

Accumulate == [DOCUMENT_START |-> 1, SEQUENCE_START |-> 2, MAPPING_START |-> 3]
Level(queue, n) ==
  Cardinality({i \in 1..n : queue[i].typ \in Starts}) -
  Cardinality({i \in 1..n : queue[i].typ \in Ends})

\* Mutant: a start does not wait.
NeedMoreEventsNone(queue) == queue = <<>>
\* yaml_emitter_need_more_events
NeedMoreEvents(queue) ==
  queue # <<>> =>
    /\ Head(queue).typ \in DOMAIN Accumulate
    /\ Len(queue) <= Accumulate[Head(queue).typ]
    /\ \A n \in 1..Len(queue) : Level(queue, n) # 0

\* yaml_emitter_check_empty_sequence and yaml_emitter_check_empty_mapping
EndOf == [SEQUENCE_START |-> "SEQUENCE_END", MAPPING_START |-> "MAPPING_END"]
Empty(queue) == Len(queue) >= 2 /\ queue[2].typ = EndOf[Head(queue).typ]

\* Mutant: any collection is short enough.
SimpleKeyUnchecked(queue) == Head(queue).typ \notin {"ALIAS", "SCALAR"} \/ Head(queue).inline
\* yaml_emitter_check_simple_key
SimpleKey(queue) ==
  CASE Head(queue).typ \in {"ALIAS", "SCALAR"} -> Head(queue).inline
    [] Head(queue).typ \in {"SEQUENCE_START", "MAPPING_START"} -> Empty(queue)
    [] OTHER -> FALSE

-----------------------------------------------------------------------------
(* The stacks                                                                *)

PushState(e, st) == [e EXCEPT !.states = Append(@, st)]
PopState(e) == [e EXCEPT !.state = Last(e.states), !.states = Front(@)]
IncreaseIndent(e) == [e EXCEPT !.indents = Append(@, e.indent), !.indent = Len(e.states)]
PopIndent(e) == [e EXCEPT !.indent = Last(e.indents), !.indents = Front(@)]

\* yaml_emitter_process_line_comment; in flow collections a comma goes before it.
LineComment(e) ==
  IF e.line_comment THEN Writes(e, [e EXCEPT !.line_comment = FALSE])
  ELSE {Done(e)}

-----------------------------------------------------------------------------
(* yaml_emitter_emit_node: the node at the head of the queue                 *)

\* Mutant: the indent of the scalar is left on.
EmitScalarKeepsIndent(e) ==
  {Fails(IncreaseIndent(e))} \cup Writes(e, PopState(IncreaseIndent(e)))

\* Anchor and tag are written, then the scalar with an indent of its own.
EmitScalar(e) ==
  {Fails(IncreaseIndent(e))} \cup Writes(e, PopState(e))

EmitAlias(e) == Writes(e, PopState(e))

\* Mutant: only the collection's own style counts.
EmitStartOwnStyle(e, flow, block) ==
  LET st == IF Head(e.events).inline \/ Empty(e.events) THEN flow ELSE block IN
  {Done([e EXCEPT !.state = st])} \cup Writes(e, [e EXCEPT !.state = st])

\* The opening bracket of a flow collection is left to its first state.
EmitStart(e, flow, block) ==
  LET inFlow == e.flow_level > 0 \/ Head(e.events).inline \/ Empty(e.events)
      st == IF inFlow THEN flow ELSE block
  IN {Done([e EXCEPT !.state = st])} \cup Writes(e, [e EXCEPT !.state = st])

EmitNode(e) ==
  CASE Head(e.events).typ = "SCALAR" -> EmitScalar(e)
    [] Head(e.events).typ = "ALIAS" -> EmitAlias(e)
    [] Head(e.events).typ = "SEQUENCE_START" ->
         EmitStart(e, "FLOW_SEQUENCE_FIRST_ITEM", "BLOCK_SEQUENCE_FIRST_ITEM")
    [] Head(e.events).typ = "MAPPING_START" ->
         EmitStart(e, "FLOW_MAPPING_FIRST_KEY", "BLOCK_MAPPING_FIRST_KEY")
    [] OTHER -> {Refused(e)}

\* Mutant: the comment behind the node is not written.
EmitItemBare(e, st) == EmitNode(PushState(e, st))
\* A node that returns to state st, and what is written behind it.
EmitItem(e, st) ==
  UNION {IF r.how = "done" THEN LineComment(r.emitter) ELSE {r} : r \in EmitNode(PushState(e, st))}

-----------------------------------------------------------------------------
(* The state handlers                                                        *)

EmitStreamStart(e) ==
  IF Head(e.events).typ # "STREAM_START" THEN {Refused(e)}
  ELSE {Done([e EXCEPT !.state = "FIRST_DOCUMENT_START", !.indent = -1])}

\* At the end of the stream nothing is written if the buffer is empty.
EmitDocumentStart(e) ==
  CASE Head(e.events).typ = "DOCUMENT_START" -> Writes(e, [e EXCEPT !.state = "DOCUMENT_CONTENT"])
    [] Head(e.events).typ = "STREAM_END" ->
         {Done([e EXCEPT !.state = "END", !.buffered = FALSE])}
           \cup {f \in {Fails(e)} : e.buffered}
    [] OTHER -> {Refused(e)}

EmitDocumentContent(e) ==
  {Fails(PushState(e, "DOCUMENT_END"))} \cup EmitItem(e, "DOCUMENT_END")

\* Mutant: the buffer is not flushed.
EmitDocumentEndNoFlush(e) ==
  IF Head(e.events).typ # "DOCUMENT_END" THEN {Refused(e)}
  ELSE Writes(e, [e EXCEPT !.state = "DOCUMENT_START"])

EmitDocumentEnd(e) ==
  IF Head(e.events).typ # "DOCUMENT_END" THEN {Refused(e)}
  ELSE {Fails(e), Done([e EXCEPT !.state = "DOCUMENT_START", !.buffered = FALSE])}

\* The end of a flow collection: its bracket, and the comment behind it, are
\* written when the indent and the level have been taken off.
EmitFlowEnd(e) ==
  LET left == [e EXCEPT !.flow_level = @ - 1] IN
  IF e.indents = <<>> THEN {Panics(left)}
  ELSE LET closed == [PopIndent(left) EXCEPT !.buffered = TRUE] IN
       {Fails(closed)} \cup
       {IF r.how = "done" THEN Done(PopState(r.emitter)) ELSE r : r \in LineComment(closed)}

\* What the first state of a flow collection does before anything else.
FlowOpened(e) ==
  [IncreaseIndent(e) EXCEPT !.flow_level = @ + 1, !.buffered = TRUE]

FlowSequenceItem(e) ==
  IF Head(e.events).typ = "SEQUENCE_END" THEN EmitFlowEnd(e)
  ELSE {Fails(e)} \cup
       EmitItem(e, IF e.line_comment THEN "FLOW_SEQUENCE_TRAIL_ITEM" ELSE "FLOW_SEQUENCE_ITEM")

\* A comma may be written in front of the comments at the end of a mapping.
FlowMappingKey(e) ==
  {Fails(e)} \cup
  IF Head(e.events).typ = "MAPPING_END" THEN EmitFlowEnd(e)
  ELSE EmitNode(PushState(e, IF SimpleKey(e.events) THEN "FLOW_MAPPING_SIMPLE_VALUE"
                                                    ELSE "FLOW_MAPPING_VALUE"))

EmitFlowMappingValue(e) ==
  {Fails(e)} \cup
  EmitItem(e, IF e.line_comment THEN "FLOW_MAPPING_TRAIL_KEY" ELSE "FLOW_MAPPING_KEY")

EmitBlockEnd(e) ==
  IF e.indents = <<>> THEN {Panics(e)} ELSE {Done(PopState(PopIndent(e)))}

BlockSequenceItem(e) ==
  IF Head(e.events).typ = "SEQUENCE_END" THEN EmitBlockEnd(e)
  ELSE {Fails(e)} \cup EmitItem(e, "BLOCK_SEQUENCE_ITEM")

\* The line comment of a key is saved for its value.
BlockMappingKey(e) ==
  LET saved == [e EXCEPT !.key_line_comment = @ \/ e.line_comment, !.line_comment = FALSE] IN
  {Fails(e)} \cup
  IF Head(e.events).typ = "MAPPING_END" THEN EmitBlockEnd(e)
  ELSE IF SimpleKey(e.events) THEN EmitNode(PushState(saved, "BLOCK_MAPPING_SIMPLE_VALUE"))
  ELSE {Fails(saved)} \cup EmitNode(PushState(saved, "BLOCK_MAPPING_VALUE"))

\* A scalar without a comment of its own takes the key's; in front of a block
\* collection it is written at once, the two comments swapped for that time.
EmitBlockMappingValue(e) ==
  LET head == Head(e.events)
      block == head.typ \in {"SEQUENCE_START", "MAPPING_START"} /\ ~head.inline
      swapped == [e EXCEPT !.line_comment = TRUE, !.key_line_comment = e.line_comment]
      given == IF head.typ = "SCALAR" /\ ~e.line_comment
                 THEN [e EXCEPT !.line_comment = @ \/ e.key_line_comment, !.key_line_comment = FALSE]
               ELSE IF block THEN [e EXCEPT !.key_line_comment = FALSE]
               ELSE e
  IN {Fails(e)} \cup {f \in {Fails(swapped)} : e.key_line_comment /\ block}
       \cup EmitItem(given, "BLOCK_MAPPING_KEY")

\* yaml_emitter_state_machine
Attempt(e) ==
  CASE e.state = "STREAM_START" -> EmitStreamStart(e)
    [] e.state \in {"FIRST_DOCUMENT_START", "DOCUMENT_START"} -> EmitDocumentStart(e)
    [] e.state = "DOCUMENT_CONTENT" -> EmitDocumentContent(e)
    [] e.state = "DOCUMENT_END" -> EmitDocumentEnd(e)
    [] e.state = "FLOW_SEQUENCE_FIRST_ITEM" -> {Fails(e)} \cup FlowSequenceItem(FlowOpened(e))
    [] e.state \in {"FLOW_SEQUENCE_ITEM", "FLOW_SEQUENCE_TRAIL_ITEM"} -> FlowSequenceItem(e)
    [] e.state = "FLOW_MAPPING_FIRST_KEY" -> {Fails(e)} \cup FlowMappingKey(FlowOpened(e))
    [] e.state \in {"FLOW_MAPPING_KEY", "FLOW_MAPPING_TRAIL_KEY"} -> FlowMappingKey(e)
    [] e.state \in {"FLOW_MAPPING_SIMPLE_VALUE", "FLOW_MAPPING_VALUE"} -> EmitFlowMappingValue(e)
    [] e.state = "BLOCK_SEQUENCE_FIRST_ITEM" -> BlockSequenceItem(IncreaseIndent(e))
    [] e.state = "BLOCK_SEQUENCE_ITEM" -> BlockSequenceItem(e)
    [] e.state = "BLOCK_MAPPING_FIRST_KEY" -> BlockMappingKey(IncreaseIndent(e))
    [] e.state = "BLOCK_MAPPING_KEY" -> BlockMappingKey(e)
    [] e.state \in {"BLOCK_MAPPING_SIMPLE_VALUE", "BLOCK_MAPPING_VALUE"} -> EmitBlockMappingValue(e)
    [] e.state = "END" -> {Refused(e)}

\* Mutant: an event that fails is dropped.
EmitHeadDrops(e) ==
  LET analyzed == [e EXCEPT !.line_comment = @ \/ Head(e.events).comment] IN
  {Result(r.how, [r.emitter EXCEPT !.events = Tail(@)]) : r \in Attempt(analyzed)}

\* One turn of the loop of yaml_emitter_emit: the event at the head is analyzed,
\* which makes its comment pending, and handed to the state machine; only
\* when that succeeds does it leave the queue.
EmitHead(e) ==
  LET analyzed == [e EXCEPT !.line_comment = @ \/ Head(e.events).comment] IN
  {IF r.how = "done" THEN Done([r.emitter EXCEPT !.events = Tail(@)]) ELSE r :
     r \in Attempt(analyzed)}
=============================================================================
