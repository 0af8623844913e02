----------------------------- MODULE YamlEvents -----------------------------
(***************************************************************************)
(* The events the parser hands to its caller (yaml_event_t of yamlh.go),    *)
(* reduced to their type and the anchor they define or, an ALIAS, refer to. *)
(***************************************************************************)
CONSTANTS Anchors        \* anchor names

None == "none"           \* no anchor

EventTypes == {"STREAM_START", "STREAM_END", "DOCUMENT_START", "DOCUMENT_END",
               "SCALAR", "ALIAS", "SEQUENCE_START", "SEQUENCE_END",
               "MAPPING_START", "MAPPING_END"}

Event(typ, anchor) == [typ |-> typ, anchor |-> anchor]
NoEvent == Event("NO_EVENT", None)

Events == [typ : EventTypes \cup {"NO_EVENT"}, anchor : Anchors \cup {None}]
=============================================================================
