---------------------------- MODULE EventGrammar ----------------------------
(***************************************************************************)
(* What the event parser promises to whoever calls yaml_parser_parse: the   *)
(* events form a stream of documents, each with exactly one root node, in   *)
(* which every collection that starts ends before anything around it does,  *)
(* and the children of a mapping alternate between keys and values.  After  *)
(* a failure there are no further events; the event of the failing call     *)
(* itself may still be one.                                                 *)
(*                                                                         *)
(* The only state is the list of the constructs that are still open, the    *)
(* innermost last.  A construct is named by what may come next in it.       *)
(***************************************************************************)
EXTENDS Naturals, Sequences, YamlEvents

\* What may come next: a node, or the end of the construct.
\*   Seq                    a node or SEQUENCE-END
\*   Key, Value             a key or MAPPING-END, then its value
\*   PairKey .. PairEnd     the only pair of a mapping inside a flow sequence
Frames == {"StreamStart", "Doc", "Node", "DocEnd", "End",
           "Seq", "Key", "Value", "PairKey", "PairValue", "PairEnd"}
NodeFrames == {"Node", "Seq", "Key", "Value", "PairKey", "PairValue"}

VARIABLES
  frames,   \* the constructs still open; empty once parser.error is set
  event     \* the event of the last call

vars == <<frames, event>>

Inner == frames[Len(frames)]
Outer == SubSeq(frames, 1, Len(frames) - 1)
InA(set) == frames # <<>> /\ Inner \in set

\* The call returns event ev with the constructs fr open.  The parser may have
\* failed all the same, at a token it looked ahead at: then ev is the last event.
Emit(ev, fr) ==
  /\ event' = ev
  /\ frames' \in {fr, <<>>}

\* What is left of the innermost construct once its next node is complete.
Rest ==
  CASE Inner = "Node"      -> <<>>
    [] Inner = "Seq"       -> <<"Seq">>
    [] Inner = "Key"       -> <<"Value">>
    [] Inner = "Value"     -> <<"Key">>
    [] Inner = "PairKey"   -> <<"PairValue">>
    [] Inner = "PairValue" -> <<"PairEnd">>

StreamStart ==
  /\ frames = <<"StreamStart">>
  /\ Emit(Event("STREAM_START", None), <<"Doc">>)

DocumentStart ==
  /\ frames = <<"Doc">>
  /\ Emit(Event("DOCUMENT_START", None), <<"DocEnd", "Node">>)

DocumentEnd ==
  /\ frames = <<"DocEnd">>
  /\ Emit(Event("DOCUMENT_END", None), <<"Doc">>)

StreamEnd ==
  /\ frames = <<"Doc">>
  /\ frames' = <<"End">>
  /\ event' = Event("STREAM_END", None)

Leaf ==
  /\ InA(NodeFrames)
  /\ \/ \E a \in Anchors \cup {None} : Emit(Event("SCALAR", a), Outer \o Rest)
     \/ \E a \in Anchors : Emit(Event("ALIAS", a), Outer \o Rest)

Start ==
  /\ InA(NodeFrames)
  /\ \E a \in Anchors \cup {None} :
       \/ Emit(Event("SEQUENCE_START", a), Outer \o Rest \o <<"Seq">>)
       \/ Emit(Event("MAPPING_START", a), Outer \o Rest \o <<"Key">>)

SequenceEnd ==
  /\ InA({"Seq"})
  /\ Emit(Event("SEQUENCE_END", None), Outer)

MappingEnd ==
  /\ InA({"Key"})
  /\ Emit(Event("MAPPING_END", None), Outer)

\* [key: value] is a sequence whose entry is a mapping of one pair.
PairStart ==
  /\ InA({"Seq"})
  /\ Emit(Event("MAPPING_START", None), Append(Outer, "PairKey"))

PairEnd ==
  /\ InA({"PairEnd"})
  /\ Emit(Event("MAPPING_END", None), Append(Outer, "Seq"))

Over == frames \in {<<>>, <<"End">>}

\* A failure ends the stream of events for good.
Fail ==
  /\ ~Over
  /\ frames' = <<>>
  /\ event' = NoEvent

Nothing ==
  /\ Over
  /\ event' = NoEvent
  /\ UNCHANGED frames

Init ==
  /\ frames = <<"StreamStart">>
  /\ event = NoEvent

Next ==
  \/ StreamStart \/ DocumentStart \/ DocumentEnd \/ StreamEnd
  \/ Leaf \/ Start \/ SequenceEnd \/ MappingEnd
  \/ PairStart \/ PairEnd \/ Fail \/ Nothing

Spec == Init /\ [][Next]_vars
=============================================================================
