------------------------------- MODULE Encoder -------------------------------
(***************************************************************************)
(* The encoder of encode.go and the calls of Encode and Close of yaml.go.   *)
(* Encode walks over a value and hands one event after another to the       *)
(* emitter; a failure of a write, of a Marshaler or of the emitter panics   *)
(* out of the walk and is returned as an error.  Encoder and emitter stay   *)
(* as they are, and the caller may go on to call Encode or Close, as        *)
(* `defer enc.Close()' does.                                                *)
(*                                                                         *)
(* The value is the environment: any tree of nodes, with document nodes at  *)
(* the root only and of types that marshal knows (it panics at others).     *)
(* The recursion of marshal and node is an explicit stack.                  *)
(***************************************************************************)
EXTENDS Emitter

CONSTANTS
  MaxCalls,    \* bound: calls of Encode and Close
  MaxNodes     \* bound: nodes in the value of one call of Encode

ASSUME EncoderConstants == MaxCalls \in Nat /\ MaxNodes \in Nat

VARIABLES
  emitter,     \* e.emitter: see Emitter
  doneInit,    \* e.doneInit
  walk,        \* what the active calls of marshal or node do next, innermost last
  outcome,     \* of the current call, or of the last one
  calls,       \* history: calls so far
  nodes,       \* history: nodes of the current call
  broken,      \* history: a call has failed, other than by writing the end of a
               \* document or of the stream
  late         \* history: a block collection has had a line comment of its own

vars == <<emitter, doneInit, walk, outcome, calls, nodes, broken, late>>

\* What is emitted next: the start of the stream or of the document, its root,
\* an item, a key, a value, the end of the document or of the stream.
Steps == {"init", "document", "root", "item", "key", "value", "end", "finish"}
NextStep == [root |-> "end", item |-> "item", key |-> "value", value |-> "key", end |-> "end"]
Outcomes == {"none", "running", "ok", "error", "panic"}

Running == outcome = "running"
Step == walk[Len(walk)]
Callers == SubSeq(walk, 1, Len(walk) - 1)
\* The walk goes on when the emitter wants more events.
AtStep(steps) ==
  Running /\ NeedMoreEvents(emitter.events) /\ walk # <<>> /\ Step \in steps

-----------------------------------------------------------------------------
(* The calls                                                                 *)

Call(steps) ==
  /\ ~Running /\ calls < MaxCalls
  /\ outcome' = "running"
  /\ walk' = steps
  /\ calls' = calls + 1
  /\ nodes' = 0
  /\ UNCHANGED <<emitter, doneInit, broken, late>>

\* marshalDoc, which calls init first.
Encode == Call(IF doneInit THEN <<"document">> ELSE <<"document", "init">>)
\* finish
Close == Call(<<"finish">>)

\* Mutant: the walk is taken up by the next call.
EndCallKeepsWalk(how) ==
  /\ outcome' = how
  /\ UNCHANGED walk

\* The call returns what the walk has come to.
EndCall(how) ==
  /\ outcome' = how
  /\ walk' = <<>>

Return ==
  /\ Running /\ walk = <<>> /\ NeedMoreEvents(emitter.events)
  /\ EndCall("ok")
  /\ UNCHANGED <<emitter, doneInit, calls, nodes, broken, late>>

\* A Marshaler returns an error, or a node cannot be encoded.
MarshalFails ==
  /\ AtStep({"root", "item", "key", "value"})
  /\ EndCall("error")
  /\ broken' = TRUE
  /\ UNCHANGED <<emitter, doneInit, calls, nodes, late>>

-----------------------------------------------------------------------------
(* The walk                                                                  *)

\* emit: the event goes to the end of the queue.
Emit(event, steps) ==
  /\ emitter' = [emitter EXCEPT !.events = Append(@, event)]
  /\ walk' = steps
  /\ UNCHANGED <<outcome, calls, broken, late>>

Behind == Append(Callers, NextStep[Step])

\* init; doneInit is set when the event has been emitted.
MarshalInit ==
  /\ AtStep({"init"})
  /\ Emit(Event("STREAM_START", FALSE, FALSE), Callers)
  /\ UNCHANGED <<doneInit, nodes>>

MarshalDocument ==
  /\ AtStep({"document"})
  /\ Emit(Event("DOCUMENT_START", FALSE, FALSE), <<"root">>)
  /\ doneInit' = TRUE
  /\ UNCHANGED nodes

MarshalLeaf ==
  /\ AtStep(DOMAIN NextStep) /\ nodes < MaxNodes
  /\ nodes' = nodes + 1
  /\ UNCHANGED doneInit
  /\ \E typ \in {"SCALAR", "ALIAS"}, inline, comment \in BOOLEAN :
       Emit(Event(typ, inline, comment), Behind)

MarshalCollection ==
  /\ AtStep(DOMAIN NextStep) /\ nodes < MaxNodes
  /\ nodes' = nodes + 1
  /\ UNCHANGED doneInit
  /\ \E inline \in BOOLEAN :
       \/ Emit(Event("SEQUENCE_START", inline, FALSE), Append(Behind, "item"))
       \/ Emit(Event("MAPPING_START", inline, FALSE), Append(Behind, "key"))

MarshalEnd ==
  /\ AtStep({"item", "key"})
  /\ \E comment \in BOOLEAN :
       Emit(Event(IF Step = "item" THEN "SEQUENCE_END" ELSE "MAPPING_END", FALSE, comment), Callers)
  /\ UNCHANGED <<doneInit, nodes>>

\* A document node that the caller has built may have no child, or several.
MarshalDocumentEnd ==
  /\ AtStep({"root", "end"})
  /\ Emit(Event("DOCUMENT_END", FALSE, FALSE), Callers)
  /\ UNCHANGED <<doneInit, nodes>>

Finish ==
  /\ AtStep({"finish"})
  /\ Emit(Event("STREAM_END", FALSE, FALSE), Callers)
  /\ UNCHANGED <<doneInit, nodes>>

\* The loop of yaml_emitter_emit.  An index out of range is no yamlError:
\* handleErr lets it through to the caller.
EmitNext ==
  /\ Running /\ ~NeedMoreEvents(emitter.events)
  /\ late' = (late \/ /\ emitter.state \in BlockStates
                       /\ Head(emitter.events).typ \in Ends
                       /\ Head(emitter.events).comment)
  /\ \E r \in EmitHead(emitter) :
       /\ emitter' = r.emitter
       /\ IF r.how = "done" THEN UNCHANGED <<outcome, walk, broken>>
          ELSE /\ EndCall(IF r.how = "panic" THEN "panic" ELSE "error")
               /\ broken' = (broken \/ r.how # "failed"
                              \/ Head(emitter.events).typ \notin {"DOCUMENT_END", "STREAM_END"})
  /\ UNCHANGED <<doneInit, calls, nodes>>

-----------------------------------------------------------------------------
Init ==
  /\ emitter = NewEmitter
  /\ doneInit = FALSE
  /\ walk = <<>>
  /\ outcome = "none"
  /\ calls = 0 /\ nodes = 0
  /\ broken = FALSE
  /\ late = FALSE

Next ==
  \/ Encode \/ Close \/ Return \/ MarshalFails
  \/ MarshalInit \/ MarshalDocument \/ MarshalLeaf \/ MarshalCollection \/ MarshalEnd
  \/ MarshalDocumentEnd \/ Finish
  \/ EmitNext

Spec == Init /\ [][Next]_vars

-----------------------------------------------------------------------------
(* Properties                                                                *)

TypeOK ==
  /\ \A i \in DOMAIN emitter.events : emitter.events[i].typ \in EventTypes
  /\ emitter.state \in EmitterStates
  /\ \A l \in DOMAIN emitter.states : emitter.states[l] \in EmitterStates
  /\ emitter.indent \in Nat \cup {-1}
  /\ emitter.flow_level \in Int
  /\ {emitter.line_comment, emitter.key_line_comment, emitter.buffered, doneInit, broken, late}
       \subseteq BOOLEAN
  /\ \A l \in DOMAIN walk : walk[l] \in Steps
  /\ walk # <<>> => Running
  /\ outcome \in Outcomes

\* No call has failed: what the emitter does in regular use.
Sound == outcome \notin {"error", "panic"} /\ ~broken

\* The state at each level: the stack, and the current state above it.
Levels == Len(emitter.states) + 1
StateAt(l) == IF l < Levels THEN emitter.states[l] ELSE emitter.state

\* A call that returns no error has written everything it was given: nothing
\* waits in the queue for events that will never come or in the buffer for
\* more output, and no collection is left open that would swallow the next
\* document.
EncodeComplete ==
  outcome = "ok" /\ ~broken =>
    /\ emitter.events = <<>> /\ ~emitter.buffered
    /\ emitter.state \in {"DOCUMENT_START", "END"} /\ emitter.states = <<>>
    /\ emitter.indent = -1 /\ emitter.indents = <<>> /\ emitter.flow_level = 0

\* A stream that a failure has torn is never continued as if nothing had
\* happened: once an event was refused, or the walk or a write was cut off
\* inside a document, no later call of Encode or Close reports success.  (When
\* only the flush behind a whole document fails, the next call repeats it.  And a
\* document node without content, or Close, adds so few events to a MAPPING-START
\* that waits in the queue that the emitter may not look at them: the call succeeds.)
FailedForGood ==
  broken /\ outcome = "ok" =>
    nodes = 0 /\ emitter.events # <<>> /\ Head(emitter.events).typ = "MAPPING_START"

\* The indents saved are those of the collections around, and the flow level
\* counts the flow collections among the open ones, so that each end restores
\* what its start has saved.
IndentsMatch ==
  Sound =>
    LET open == {l \in 1..Levels : StateAt(l) \in FlowStates \cup BlockStates}
        all == Append(emitter.indents, emitter.indent)
    IN /\ emitter.flow_level = Cardinality({l \in open : StateAt(l) \in FlowStates})
       /\ {all[i] : i \in DOMAIN all} = {-1} \cup {l - 1 : l \in open}
       /\ \A i, j \in DOMAIN all : i < j => all[i] < all[j]

\* An empty collection is written in brackets: a block one would be written as
\* nothing at all, and read back as null.  The events needed to see that it is
\* empty have come by the time its start is written.
NoEmptyBlock ==
  Sound /\ emitter.state \in BlockFirst /\ emitter.events # <<>> =>
    Head(emitter.events).typ \notin Ends

\* A key written without `?' is one that fits on a line: if it is a collection,
\* it is in brackets and its end is the next event.
SimpleKeysFit ==
  Sound =>
    \A l \in DOMAIN emitter.states :
      emitter.states[l] \in SimpleValues =>
        /\ l = Len(emitter.states) /\ emitter.state \in FlowFirst
        /\ emitter.events # <<>> /\ Head(emitter.events).typ \in Ends

\* Inside brackets there is no block collection.
FlowInsideFlow ==
  Sound =>
    \A l, m \in 1..Levels :
      l < m /\ StateAt(l) \in FlowStates => StateAt(m) \notin BlockStates \cup BlockFirst

\* States in which the last node is complete.
Awaiting == Trails \cup {"DOCUMENT_END", "FLOW_SEQUENCE_ITEM", "FLOW_MAPPING_KEY",
                         "BLOCK_SEQUENCE_ITEM", "BLOCK_MAPPING_KEY"}

\* A line comment is written behind its node: when the next item or pair, or the
\* end, is awaited none is left that would go behind a later node.  And a comma
\* stands behind a complete item: in a flow sequence none is written because of a
\* comment that belongs to another node.  (The comment of a block collection does
\* stay, and in a flow mapping the comment of a key in front of a collection makes
\* the emitter write the comma first.)
CommentsInPlace ==
  Sound /\ ~late =>
    /\ emitter.state \in Awaiting => ~emitter.line_comment
    /\ \A l \in DOMAIN emitter.states : emitter.states[l] # "FLOW_SEQUENCE_TRAIL_ITEM"

\* Encode and Close report what goes wrong by their error.
NoPanic == outcome # "panic"
=============================================================================
