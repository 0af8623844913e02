----------------------------- MODULE YamlParser -----------------------------
(***************************************************************************)
(* The event parser of parserc.go.  Each call of yaml_parser_parse is one   *)
(* action: the handler of the current state peeks and skips tokens, pushes  *)
(* and pops the stack of return states, and produces at most one event.     *)
(*                                                                         *)
(* The scanner is the environment here: whenever the token queue must       *)
(* produce a token that has not been peeked at yet, any token may come, and *)
(* so may a scanner or reader failure.  The parser is therefore checked     *)
(* against every token sequence, a superset of what the scanner delivers.   *)
(* A failure need not stop the call that meets it: the scanner looks for a  *)
(* line comment behind each token and ignores a failed read there (so does  *)
(* the parser at its look for a stem comment), and the call goes on to      *)
(* return an event with parser.error already set.                           *)
(*                                                                         *)
(* Abstractions.  Scalar values, styles, tag suffixes and positions are     *)
(* left out.  A mark (the position of a collection's first token, used in   *)
(* error messages) is named by the collection it belongs to: the level the  *)
(* collection has in the stack.  The comment slots influence no transition  *)
(* (tail_comment is never set, so TAIL-COMMENT events never occur) and are  *)
(* not modelled here.                                                       *)
(***************************************************************************)
EXTENDS Naturals, Sequences, YamlEvents

CONSTANTS
  NamedHandles,   \* tag handles besides the two default ones
  MaxDepth,       \* bound: no collection opens above this many return states
  MaxDirectives   \* bound: directives in front of one document

DefaultHandles == {"!", "!!"}          \* default_tag_directives
Handles == DefaultHandles \cup NamedHandles

ASSUME ParserConstants ==
  /\ MaxDepth \in Nat
  /\ MaxDirectives \in Nat \ {0}
  /\ None \notin Anchors
  /\ NamedHandles \cap {None, "", "!", "!!"} = {}

-----------------------------------------------------------------------------
(* Tokens                                                                    *)

DirectiveTypes == {"VERSION_DIRECTIVE", "TAG_DIRECTIVE"}
CollectionStarts == {"FLOW_SEQUENCE_START", "FLOW_MAPPING_START",
                     "BLOCK_SEQUENCE_START", "BLOCK_MAPPING_START"}
PlainTypes ==
  CollectionStarts \cup
  {"STREAM_START", "STREAM_END", "DOCUMENT_START", "DOCUMENT_END", "BLOCK_END",
   "FLOW_SEQUENCE_END", "FLOW_MAPPING_END", "BLOCK_ENTRY", "FLOW_ENTRY",
   "KEY", "VALUE", "SCALAR"}

\* A TAG token without a handle ("") is verbatim or non-specific: its suffix is the tag.
Token ==
  [typ : PlainTypes, arg : {None}]
    \cup [typ : {"ANCHOR", "ALIAS"}, arg : Anchors]
    \cup [typ : {"TAG"}, arg : Handles \cup {""}]
    \cup [typ : {"TAG_DIRECTIVE"}, arg : Handles]
    \cup [typ : {"VERSION_DIRECTIVE"}, arg : {"1.1", "other"}]

TokenTypes == PlainTypes \cup DirectiveTypes \cup {"ANCHOR", "ALIAS", "TAG"}
\* Tokens each of which an event stands for.
Reportable == {"STREAM_START", "STREAM_END", "DOCUMENT_START", "DOCUMENT_END", "SCALAR",
               "ALIAS", "BLOCK_END", "FLOW_SEQUENCE_END", "FLOW_MAPPING_END"}

NoToken == [typ |-> "NO_TOKEN", arg |-> None]       \* token_available = false
ScanError == [typ |-> "ERROR", arg |-> None]        \* peek_token returned nil

-----------------------------------------------------------------------------
(* Parser states                                                             *)

FirstStates == {"BLOCK_SEQUENCE_FIRST_ENTRY", "BLOCK_MAPPING_FIRST_KEY",
                "FLOW_SEQUENCE_FIRST_ENTRY", "FLOW_MAPPING_FIRST_KEY"}
\* States of a collection whose start token has been skipped: it owns a mark.
MarkedStates == {"BLOCK_SEQUENCE_ENTRY", "BLOCK_MAPPING_KEY", "BLOCK_MAPPING_VALUE",
                 "FLOW_SEQUENCE_ENTRY", "FLOW_SEQUENCE_ENTRY_MAPPING_KEY",
                 "FLOW_SEQUENCE_ENTRY_MAPPING_VALUE", "FLOW_SEQUENCE_ENTRY_MAPPING_END",
                 "FLOW_MAPPING_KEY", "FLOW_MAPPING_VALUE", "FLOW_MAPPING_EMPTY_VALUE"}
\* States that are only current while no node is being parsed.
OutsideStates == {"STREAM_START", "IMPLICIT_DOCUMENT_START", "DOCUMENT_START",
                  "DOCUMENT_END", "END"}
ParserStates ==
  OutsideStates \cup FirstStates \cup MarkedStates \cup
  {"DOCUMENT_CONTENT", "BLOCK_NODE", "INDENTLESS_SEQUENCE_ENTRY"}

VARIABLES
  state,          \* parser.state
  states,         \* parser.states, the stack of return states
  marks,          \* parser.marks, each the level of its collection
  token,          \* the token at the head of the queue if it was peeked at
  tag_directives, \* parser.tag_directives: handle -> "declared" or "default"
  error,          \* parser.error
  event,          \* the event of the last call
  read,           \* history: types of the tokens the last call skipped (not the
                  \* further DOCUMENT-ENDs behind a document)
  declared        \* history: handles the current document's directives declare

vars == <<state, states, marks, token, tag_directives, error, event, read, declared>>

\* States a node returns to inside a document.
ReturnStates == MarkedStates \cup {"INDENTLESS_SEQUENCE_ENTRY"}

Top(s) == s[Len(s)]
Pop(s) == SubSeq(s, 1, Len(s) - 1)
Level == Len(states) + 1

\* yaml_parser_fetch_more_tokens: the next token is any, within MaxDepth.
Fetch ==
  {ScanError} \cup
  {t \in Token : t.typ \in CollectionStarts => Len(states) < MaxDepth}

\* peek_token
Peek == IF token = NoToken THEN Fetch ELSE {token}

\* Some peek of a call that skips rd and leaves tok at the head was a fetch.
Seen(rd, tok) == Len(rd) + (IF tok = NoToken THEN 0 ELSE 1)
Fetched(rd, tok) == Seen(rd, tok) > Seen(<<>>, token)

\* yaml_parser_scan_line_comment and yaml_parser_split_stem_comment: a fetch may
\* have set parser.error without failing.  Not behind the end of the stream,
\* where no line comment is looked for.
MayFailLate(ev, rd, tok) ==
  IF Fetched(rd, tok) /\ ev.typ # "STREAM_END" THEN {"NONE", "SCANNER"} ELSE {"NONE"}

\* A handler returns an event ...
Return(st, stk, mk, tok, ev, rd) ==
  /\ state' = st
  /\ states' = stk
  /\ marks' = mk
  /\ token' = tok
  /\ event' = ev
  /\ read' = rd
  /\ error' \in MayFailLate(ev, rd, tok)

\* ... or fails: the error is sticky and the event stays erased.
Raise(err, stk, mk, tok, rd) ==
  /\ error' = err
  /\ states' = stk
  /\ marks' = mk
  /\ token' = tok
  /\ event' = NoEvent
  /\ read' = rd
  /\ UNCHANGED state

\* Mutant: the failed peek leaves its nil token at the head of the queue.
ScanFailsKeepsToken(t, stk, mk, rd) == t = ScanError /\ Raise("SCANNER", stk, mk, t, rd)
ScanFails(t, stk, mk, rd) == t = ScanError /\ Raise("SCANNER", stk, mk, NoToken, rd)

\* yaml_parser_process_empty_scalar, with the state its caller has set.
EmptyScalar(st, stk, mk, tok, rd) == Return(st, stk, mk, tok, Event("SCALAR", None), rd)

-----------------------------------------------------------------------------
(* yaml_parser_parse_node                                                    *)

\* The token that opens a collection, the state that parses it, its event.
FirstState(typ) ==
  CASE typ = "FLOW_SEQUENCE_START"  -> "FLOW_SEQUENCE_FIRST_ENTRY"
    [] typ = "FLOW_MAPPING_START"   -> "FLOW_MAPPING_FIRST_KEY"
    [] typ = "BLOCK_SEQUENCE_START" -> "BLOCK_SEQUENCE_FIRST_ENTRY"
    [] typ = "BLOCK_MAPPING_START"  -> "BLOCK_MAPPING_FIRST_KEY"
    [] typ = "BLOCK_ENTRY"          -> "INDENTLESS_SEQUENCE_ENTRY"
StartEvent(typ) ==
  IF typ \in {"FLOW_MAPPING_START", "BLOCK_MAPPING_START"} THEN "MAPPING_START"
                                                           ELSE "SEQUENCE_START"
Openers(block, indentless) ==
  {"FLOW_SEQUENCE_START", "FLOW_MAPPING_START"}
    \cup (IF block THEN {"BLOCK_SEQUENCE_START", "BLOCK_MAPPING_START"} ELSE {})
    \cup (IF indentless THEN {"BLOCK_ENTRY"} ELSE {})

UndefinedTag(tag) == tag \in Handles \ DOMAIN tag_directives

\* Mutant: the opening token is skipped like the other tokens of a node.
OpenCollectionSkips(tok, anchor, stk, mk, rd) ==
  Return(FirstState(tok.typ), stk, mk, NoToken, Event(StartEvent(tok.typ), anchor),
         Append(rd, tok.typ))
\* The start of a collection; its first state skips the opening token.
OpenCollection(tok, anchor, stk, mk, rd) ==
  Return(FirstState(tok.typ), stk, mk, tok, Event(StartEvent(tok.typ), anchor), rd)

\* The content of a node, from the token tok behind its properties on.
NodeContent(tok, anchor, tag, stk, mk, rd, block, indentless) ==
  LET openers == Openers(block, indentless) IN
  \/ ScanFails(tok, stk, mk, rd)
  \/ /\ tok # ScanError
     /\ UndefinedTag(tag)
     /\ Raise("PARSER", stk, mk, tok, rd)
  \/ /\ tok # ScanError
     /\ ~UndefinedTag(tag)
     /\ \/ /\ tok.typ = "SCALAR"
           /\ Return(Top(stk), Pop(stk), mk, NoToken, Event("SCALAR", anchor),
                     Append(rd, "SCALAR"))
        \/ /\ tok.typ \in openers
           /\ OpenCollection(tok, anchor, stk, mk, rd)
        \/ /\ tok.typ \notin openers \cup {"SCALAR"}
           /\ anchor # None \/ tag # None
           /\ Return(Top(stk), Pop(stk), mk, tok, Event("SCALAR", anchor), rd)
        \/ /\ tok.typ \notin openers \cup {"SCALAR"}
           /\ anchor = None /\ tag = None
           /\ Raise("PARSER", stk, mk, tok, rd)

\* Mutant: the anchor behind a tag is skipped and forgotten.
ParseNodeLosesAnchor(t, stk, mk, rd, block, indentless) ==
  LET Content(tok, anchor, tag, props) ==
        NodeContent(tok, anchor, tag, stk, mk, rd \o props, block, indentless)
  IN
  \/ /\ t.typ = "ALIAS"
     /\ Return(Top(stk), Pop(stk), mk, NoToken, Event("ALIAS", t.arg), Append(rd, "ALIAS"))
  \/ /\ t.typ = "ANCHOR"
     /\ \E u \in Fetch :
          \/ u.typ # "TAG" /\ Content(u, t.arg, None, <<"ANCHOR">>)
          \/ u.typ = "TAG" /\ \E v \in Fetch : Content(v, t.arg, u.arg, <<"ANCHOR", "TAG">>)
  \/ /\ t.typ = "TAG"
     /\ \E u \in Fetch :
          \/ u.typ # "ANCHOR" /\ Content(u, None, t.arg, <<"TAG">>)
          \/ u.typ = "ANCHOR" /\ \E v \in Fetch : Content(v, None, t.arg, <<"TAG", "ANCHOR">>)
  \/ t.typ \notin {"ALIAS", "ANCHOR", "TAG"} /\ Content(t, None, None, <<>>)

\* t is the token at the head, stk the stack with the caller's return state
\* already pushed, rd what the call has skipped so far.  The properties are
\* TAG ANCHOR? | ANCHOR TAG?
ParseNode(t, stk, mk, rd, block, indentless) ==
  LET Content(tok, anchor, tag, props) ==
        NodeContent(tok, anchor, tag, stk, mk, rd \o props, block, indentless)
  IN
  \/ /\ t.typ = "ALIAS"
     /\ Return(Top(stk), Pop(stk), mk, NoToken, Event("ALIAS", t.arg), Append(rd, "ALIAS"))
  \/ /\ t.typ = "ANCHOR"
     /\ \E u \in Fetch :
          \/ u.typ # "TAG" /\ Content(u, t.arg, None, <<"ANCHOR">>)
          \/ u.typ = "TAG" /\ \E v \in Fetch : Content(v, t.arg, u.arg, <<"ANCHOR", "TAG">>)
  \/ /\ t.typ = "TAG"
     /\ \E u \in Fetch :
          \/ u.typ # "ANCHOR" /\ Content(u, None, t.arg, <<"TAG">>)
          \/ u.typ = "ANCHOR" /\ \E v \in Fetch : Content(v, u.arg, t.arg, <<"TAG", "ANCHOR">>)
  \/ t.typ \notin {"ALIAS", "ANCHOR", "TAG"} /\ Content(t, None, None, <<>>)

\* What follows an indicator (BLOCK-ENTRY, KEY or VALUE) just skipped: a token
\* of Absent stands for an empty node, any other starts the node.
IndicatedNode(Absent, next, mk, rd, block, indentless) ==
  \E u \in Fetch :
    \/ ScanFails(u, states, mk, rd)
    \/ u.typ \in Absent /\ EmptyScalar(next, states, mk, u, rd)
    \/ /\ u.typ \notin Absent \cup {"ERROR"}
       /\ ParseNode(u, Append(states, next), mk, rd, block, indentless)

-----------------------------------------------------------------------------
(* Stream and documents                                                      *)

\* yaml_parser_parse: no events after an error or the end of the stream.
Running == error = "NONE" /\ state # "END"

ParseStreamStart ==
  /\ Running /\ state = "STREAM_START"
  /\ \E t \in Peek :
       \/ ScanFails(t, states, marks, <<>>)
       \/ /\ t.typ = "STREAM_START"
          /\ Return("IMPLICIT_DOCUMENT_START", states, marks, NoToken,
                    Event("STREAM_START", None), <<"STREAM_START">>)
       \/ /\ t.typ \notin {"ERROR", "STREAM_START"}
          /\ Raise("PARSER", states, marks, t, <<>>)
  /\ UNCHANGED <<tag_directives, declared>>

DirectiveRuns ==
  UNION {[1..n -> {t \in Token : t.typ \in DirectiveTypes}] : n \in 0..MaxDirectives}
DeclaredHandles(ds) ==
  {ds[i].arg : i \in {j \in DOMAIN ds : ds[j].typ = "TAG_DIRECTIVE"}}

\* yaml_parser_append_tag_directive, for the %TAG directives and the defaults.
Declare(ds) ==
  [h \in DOMAIN tag_directives \cup DeclaredHandles(ds) |->
     IF h \in DOMAIN tag_directives THEN tag_directives[h] ELSE "declared"]
\* Mutant: the defaults overwrite the document's own directives.
WithDefaultsOverwrite(td) ==
  [h \in DOMAIN td \cup DefaultHandles |-> IF h \in DefaultHandles THEN "default" ELSE td[h]]
WithDefaults(td) ==
  [h \in DOMAIN td \cup DefaultHandles |-> IF h \in DOMAIN td THEN td[h] ELSE "default"]

\* The last directive of ds is refused, given the ones before it.
Refused(ds) ==
  LET d == Top(ds)
      before == {Pop(ds)[i] : i \in DOMAIN Pop(ds)}
  IN \/ /\ d.typ = "VERSION_DIRECTIVE"
        /\ d.arg # "1.1" \/ \E e \in before : e.typ = d.typ
     \/ /\ d.typ = "TAG_DIRECTIVE"
        /\ d.arg \in DOMAIN tag_directives \cup DeclaredHandles(Pop(ds))
AnyRefused(ds) == \E n \in DOMAIN ds : Refused(SubSeq(ds, 1, n))

\* The explicit branch of yaml_parser_parse_document_start, from token t on,
\* with yaml_parser_process_directives.
ExplicitDocument(t) ==
  \E ds \in DirectiveRuns :
    LET rd == [i \in DOMAIN ds |-> ds[i].typ] IN
    /\ ds # <<>> => ds[1] = t
    /\ \/ /\ ds # <<>> /\ Refused(ds) /\ ~AnyRefused(Pop(ds))
          /\ Raise("PARSER", states, marks, Top(ds), Pop(rd))
          /\ tag_directives' = Declare(Pop(ds))
          /\ UNCHANGED declared
       \/ /\ ~AnyRefused(ds)
          /\ \E u \in {v \in IF ds = <<>> THEN {t} ELSE Fetch : v.typ \notin DirectiveTypes} :
               \/ /\ ScanFails(u, states, marks, rd)
                  /\ tag_directives' = Declare(ds)
                  /\ UNCHANGED declared
               \/ /\ u.typ \notin {"ERROR", "DOCUMENT_START"}
                  /\ Raise("PARSER", states, marks, u, rd)
                  /\ tag_directives' = WithDefaults(Declare(ds))
                  /\ UNCHANGED declared
               \/ /\ u.typ = "DOCUMENT_START"
                  /\ Return("DOCUMENT_CONTENT", Append(states, "DOCUMENT_END"), marks, NoToken,
                            Event("DOCUMENT_START", None), Append(rd, "DOCUMENT_START"))
                  /\ tag_directives' = WithDefaults(Declare(ds))
                  /\ declared' = DeclaredHandles(ds)

\* Behind a document any number of DOCUMENT-END tokens is skipped.
BehindDocumentEnds ==
  {t \in Peek : t.typ # "DOCUMENT_END"} \cup
  {t \in Fetch : t.typ # "DOCUMENT_END" /\ \E s \in Peek : s.typ = "DOCUMENT_END"}

ParseDocumentStart(implicit) ==
  /\ Running
  /\ state = IF implicit THEN "IMPLICIT_DOCUMENT_START" ELSE "DOCUMENT_START"
  /\ \E t \in IF implicit THEN Peek ELSE BehindDocumentEnds :
       \/ /\ ScanFails(t, states, marks, <<>>)
          /\ UNCHANGED <<tag_directives, declared>>
       \/ /\ t.typ = "STREAM_END"
          /\ Return("END", states, marks, NoToken, Event("STREAM_END", None), <<"STREAM_END">>)
          /\ UNCHANGED <<tag_directives, declared>>
       \/ /\ implicit
          /\ t.typ \notin DirectiveTypes \cup {"DOCUMENT_START", "STREAM_END", "ERROR"}
          /\ Return("BLOCK_NODE", Append(states, "DOCUMENT_END"), marks, t,
                    Event("DOCUMENT_START", None), <<>>)
          /\ tag_directives' = WithDefaults(tag_directives)
          /\ declared' = {}
       \/ /\ ~implicit \/ t.typ \in DirectiveTypes \cup {"DOCUMENT_START"}
          /\ t.typ \notin {"STREAM_END", "ERROR"}
          /\ ExplicitDocument(t)

ParseDocumentContent ==
  /\ Running /\ state = "DOCUMENT_CONTENT"
  /\ \E t \in Peek :
       LET absent == DirectiveTypes \cup {"DOCUMENT_START", "DOCUMENT_END", "STREAM_END"} IN
       \/ ScanFails(t, states, marks, <<>>)
       \/ t.typ \in absent /\ EmptyScalar(Top(states), Pop(states), marks, t, <<>>)
       \/ t.typ \notin absent \cup {"ERROR"} /\ ParseNode(t, states, marks, <<>>, TRUE, FALSE)
  /\ UNCHANGED <<tag_directives, declared>>

\* State BLOCK_NODE: the root of an implicit document.
ParseBlockNode ==
  /\ Running /\ state = "BLOCK_NODE"
  /\ \E t \in Peek :
       \/ ScanFails(t, states, marks, <<>>)
       \/ t # ScanError /\ ParseNode(t, states, marks, <<>>, TRUE, FALSE)
  /\ UNCHANGED <<tag_directives, declared>>

ParseDocumentEnd ==
  /\ Running /\ state = "DOCUMENT_END"
  /\ \E t \in Peek :
       \/ ScanFails(t, states, marks, <<>>) /\ UNCHANGED tag_directives
       \/ /\ t # ScanError
          /\ IF t.typ = "DOCUMENT_END"
               THEN Return("DOCUMENT_START", states, marks, NoToken,
                           Event("DOCUMENT_END", None), <<"DOCUMENT_END">>)
               ELSE Return("DOCUMENT_START", states, marks, t, Event("DOCUMENT_END", None), <<>>)
          /\ tag_directives' = <<>>
  /\ UNCHANGED declared

-----------------------------------------------------------------------------
(* Collections                                                               *)

\* Entering a collection for the first time pushes its mark and skips its
\* start token, which parse_node has left at the head of the queue.
OpenMarks(first) == IF first THEN Append(marks, Level) ELSE marks
OpenRead(first) == IF first THEN <<token.typ>> ELSE <<>>
OpenPeek(first) == IF first THEN Fetch ELSE Peek

\* Mutants: the end of a collection pops its return state, or its mark, alone.
CloseCollectionKeepsMark(typ, mk, rd, t) ==
  Return(Top(states), Pop(states), mk, NoToken, Event(typ, None), Append(rd, t.typ))
CloseCollectionKeepsState(typ, mk, rd, t) ==
  Return(Top(states), states, Pop(mk), NoToken, Event(typ, None), Append(rd, t.typ))
CloseCollection(typ, mk, rd, t) ==
  Return(Top(states), Pop(states), Pop(mk), NoToken, Event(typ, None), Append(rd, t.typ))

ParseBlockSequenceEntry(first) ==
  LET mk == OpenMarks(first)
      rd == OpenRead(first)
  IN
  /\ Running
  /\ state = IF first THEN "BLOCK_SEQUENCE_FIRST_ENTRY" ELSE "BLOCK_SEQUENCE_ENTRY"
  /\ \E t \in OpenPeek(first) :
       \/ ScanFails(t, states, mk, rd)
       \/ /\ t.typ = "BLOCK_ENTRY"
          /\ IndicatedNode({"BLOCK_ENTRY", "BLOCK_END"}, "BLOCK_SEQUENCE_ENTRY",
                           mk, Append(rd, t.typ), TRUE, FALSE)
       \/ t.typ = "BLOCK_END" /\ CloseCollection("SEQUENCE_END", mk, rd, t)
       \/ /\ t.typ \notin {"BLOCK_ENTRY", "BLOCK_END", "ERROR"}
          /\ Raise("PARSER", states, Pop(mk), t, rd)
  /\ UNCHANGED <<tag_directives, declared>>

\* Mutant: the end of an indentless sequence is seen but not acted on.
ParseIndentlessSequenceEntryStays ==
  /\ Running /\ state = "INDENTLESS_SEQUENCE_ENTRY"
  /\ \E t \in Peek :
       \/ ScanFails(t, states, marks, <<>>)
       \/ /\ t # ScanError
          /\ Return(state, states, marks, t, Event("SEQUENCE_END", None), <<>>)
  /\ UNCHANGED <<tag_directives, declared>>

ParseIndentlessSequenceEntry ==
  /\ Running /\ state = "INDENTLESS_SEQUENCE_ENTRY"
  /\ \E t \in Peek :
       \/ ScanFails(t, states, marks, <<>>)
       \/ /\ t.typ = "BLOCK_ENTRY"
          /\ IndicatedNode({"BLOCK_ENTRY", "KEY", "VALUE", "BLOCK_END"},
                           "INDENTLESS_SEQUENCE_ENTRY", marks, <<t.typ>>, TRUE, FALSE)
       \/ /\ t.typ \notin {"BLOCK_ENTRY", "ERROR"}
          /\ Return(Top(states), Pop(states), marks, t, Event("SEQUENCE_END", None), <<>>)
  /\ UNCHANGED <<tag_directives, declared>>

NoBlockNode == {"KEY", "VALUE", "BLOCK_END"}

ParseBlockMappingKey(first) ==
  LET mk == OpenMarks(first)
      rd == OpenRead(first)
  IN
  /\ Running
  /\ state = IF first THEN "BLOCK_MAPPING_FIRST_KEY" ELSE "BLOCK_MAPPING_KEY"
  /\ \E t \in OpenPeek(first) :
       \/ ScanFails(t, states, mk, rd)
       \/ /\ t.typ = "KEY"
          /\ IndicatedNode(NoBlockNode, "BLOCK_MAPPING_VALUE", mk, Append(rd, t.typ), TRUE, TRUE)
       \/ t.typ = "BLOCK_END" /\ CloseCollection("MAPPING_END", mk, rd, t)
       \/ /\ t.typ \notin {"KEY", "BLOCK_END", "ERROR"}
          /\ Raise("PARSER", states, Pop(mk), t, rd)
  /\ UNCHANGED <<tag_directives, declared>>

ParseBlockMappingValue ==
  /\ Running /\ state = "BLOCK_MAPPING_VALUE"
  /\ \E t \in Peek :
       \/ ScanFails(t, states, marks, <<>>)
       \/ /\ t.typ = "VALUE"
          /\ IndicatedNode(NoBlockNode, "BLOCK_MAPPING_KEY", marks, <<t.typ>>, TRUE, TRUE)
       \/ /\ t.typ \notin {"VALUE", "ERROR"}
          /\ EmptyScalar("BLOCK_MAPPING_KEY", states, marks, t, <<>>)
  /\ UNCHANGED <<tag_directives, declared>>

\* An entry of a flow collection, from its first token t on.
FlowSequenceEntry(t, mk, rd) ==
  \/ /\ t.typ = "KEY"
     /\ Return("FLOW_SEQUENCE_ENTRY_MAPPING_KEY", states, mk, NoToken,
               Event("MAPPING_START", None), Append(rd, t.typ))
  \/ /\ t.typ # "KEY"
     /\ ParseNode(t, Append(states, "FLOW_SEQUENCE_ENTRY"), mk, rd, FALSE, FALSE)

FlowMappingEntry(t, mk, rd) ==
  \/ /\ t.typ = "KEY"
     /\ IndicatedNode({"VALUE", "FLOW_ENTRY", "FLOW_MAPPING_END"}, "FLOW_MAPPING_VALUE",
                      mk, Append(rd, t.typ), FALSE, FALSE)
  \/ /\ t.typ # "KEY"
     /\ ParseNode(t, Append(states, "FLOW_MAPPING_EMPTY_VALUE"), mk, rd, FALSE, FALSE)

\* What the two share: an entry, unless t closes the collection.
FlowEntryOrEnd(closer, t, mk, rd) ==
  \/ ScanFails(t, states, mk, rd)
  \/ /\ t.typ = closer
     /\ CloseCollection(IF closer = "FLOW_SEQUENCE_END" THEN "SEQUENCE_END" ELSE "MAPPING_END",
                        mk, rd, t)
  \/ /\ t.typ \notin {closer, "ERROR"}
     /\ IF closer = "FLOW_SEQUENCE_END" THEN FlowSequenceEntry(t, mk, rd)
                                        ELSE FlowMappingEntry(t, mk, rd)

\* Every entry but the first needs a separator in front of it.
FlowCollection(first, closer) ==
  LET mk == OpenMarks(first)
      rd == OpenRead(first)
  IN
  \E t \in OpenPeek(first) :
    \/ /\ first \/ t.typ \in {closer, "ERROR"}
       /\ FlowEntryOrEnd(closer, t, mk, rd)
    \/ /\ ~first /\ t.typ = "FLOW_ENTRY"
       /\ \E u \in Fetch : FlowEntryOrEnd(closer, u, mk, Append(rd, t.typ))
    \/ /\ ~first /\ t.typ \notin {closer, "FLOW_ENTRY", "ERROR"}
       /\ Raise("PARSER", states, Pop(mk), t, rd)

ParseFlowSequenceEntry(first) ==
  /\ Running
  /\ state = IF first THEN "FLOW_SEQUENCE_FIRST_ENTRY" ELSE "FLOW_SEQUENCE_ENTRY"
  /\ FlowCollection(first, "FLOW_SEQUENCE_END")
  /\ UNCHANGED <<tag_directives, declared>>

\* A single-pair mapping inside a flow sequence.  An absent key is reported by
\* an empty scalar *and* skips the token that shows its absence.
ParseFlowSequenceEntryMappingKey ==
  /\ Running /\ state = "FLOW_SEQUENCE_ENTRY_MAPPING_KEY"
  /\ \E t \in Peek :
       LET absent == {"VALUE", "FLOW_ENTRY", "FLOW_SEQUENCE_END"}
           next == "FLOW_SEQUENCE_ENTRY_MAPPING_VALUE"
       IN
       \/ ScanFails(t, states, marks, <<>>)
       \/ /\ t.typ \notin absent \cup {"ERROR"}
          /\ ParseNode(t, Append(states, next), marks, <<>>, FALSE, FALSE)
       \/ t.typ \in absent /\ EmptyScalar(next, states, marks, NoToken, <<t.typ>>)
  /\ UNCHANGED <<tag_directives, declared>>

\* A value, in a single pair or in a flow mapping: absent before closer.
FlowValue(closer, next) ==
  \E t \in Peek :
    \/ ScanFails(t, states, marks, <<>>)
    \/ /\ t.typ = "VALUE"
       /\ IndicatedNode({"FLOW_ENTRY", closer}, next, marks, <<t.typ>>, FALSE, FALSE)
    \/ t.typ \notin {"VALUE", "ERROR"} /\ EmptyScalar(next, states, marks, t, <<>>)

\* Mutant: the pair is not closed by a state of its own.
ParseFlowSequenceEntryMappingValueNoEnd ==
  /\ Running /\ state = "FLOW_SEQUENCE_ENTRY_MAPPING_VALUE"
  /\ FlowValue("FLOW_SEQUENCE_END", "FLOW_SEQUENCE_ENTRY")
  /\ UNCHANGED <<tag_directives, declared>>

ParseFlowSequenceEntryMappingValue ==
  /\ Running /\ state = "FLOW_SEQUENCE_ENTRY_MAPPING_VALUE"
  /\ FlowValue("FLOW_SEQUENCE_END", "FLOW_SEQUENCE_ENTRY_MAPPING_END")
  /\ UNCHANGED <<tag_directives, declared>>

\* Mutant: the end of the pair skips the token that shows it.
ParseFlowSequenceEntryMappingEndSkips ==
  /\ Running /\ state = "FLOW_SEQUENCE_ENTRY_MAPPING_END"
  /\ \E t \in Peek :
       \/ ScanFails(t, states, marks, <<>>)
       \/ /\ t # ScanError
          /\ Return("FLOW_SEQUENCE_ENTRY", states, marks, NoToken,
                    Event("MAPPING_END", None), <<t.typ>>)
  /\ UNCHANGED <<tag_directives, declared>>

ParseFlowSequenceEntryMappingEnd ==
  /\ Running /\ state = "FLOW_SEQUENCE_ENTRY_MAPPING_END"
  /\ \E t \in Peek :
       \/ ScanFails(t, states, marks, <<>>)
       \/ /\ t # ScanError
          /\ Return("FLOW_SEQUENCE_ENTRY", states, marks, t, Event("MAPPING_END", None), <<>>)
  /\ UNCHANGED <<tag_directives, declared>>

ParseFlowMappingKey(first) ==
  /\ Running
  /\ state = IF first THEN "FLOW_MAPPING_FIRST_KEY" ELSE "FLOW_MAPPING_KEY"
  /\ FlowCollection(first, "FLOW_MAPPING_END")
  /\ UNCHANGED <<tag_directives, declared>>

ParseFlowMappingValue ==
  /\ Running /\ state = "FLOW_MAPPING_VALUE"
  /\ FlowValue("FLOW_MAPPING_END", "FLOW_MAPPING_KEY")
  /\ UNCHANGED <<tag_directives, declared>>

ParseFlowMappingEmptyValue ==
  /\ Running /\ state = "FLOW_MAPPING_EMPTY_VALUE"
  /\ \E t \in Peek :
       \/ ScanFails(t, states, marks, <<>>)
       \/ t # ScanError /\ EmptyScalar("FLOW_MAPPING_KEY", states, marks, t, <<>>)
  /\ UNCHANGED <<tag_directives, declared>>

\* A call after an error or after STREAM-END succeeds with an empty event.
ParseNothing ==
  /\ ~Running
  /\ event' = NoEvent
  /\ read' = <<>>
  /\ UNCHANGED <<state, states, marks, token, tag_directives, error, declared>>

-----------------------------------------------------------------------------
Init ==
  /\ state = "STREAM_START"
  /\ states = <<>>
  /\ marks = <<>>
  /\ token = NoToken
  /\ tag_directives = <<>>
  /\ error = "NONE"
  /\ event = NoEvent
  /\ read = <<>>
  /\ declared = {}

\* yaml_parser_state_machine
Next ==
  \/ ParseStreamStart
  \/ \E implicit \in BOOLEAN : ParseDocumentStart(implicit)
  \/ ParseDocumentContent
  \/ ParseBlockNode
  \/ ParseDocumentEnd
  \/ \E first \in BOOLEAN : ParseBlockSequenceEntry(first)
  \/ ParseIndentlessSequenceEntry
  \/ \E first \in BOOLEAN : ParseBlockMappingKey(first)
  \/ ParseBlockMappingValue
  \/ \E first \in BOOLEAN : ParseFlowSequenceEntry(first)
  \/ ParseFlowSequenceEntryMappingKey
  \/ ParseFlowSequenceEntryMappingValue
  \/ ParseFlowSequenceEntryMappingEnd
  \/ \E first \in BOOLEAN : ParseFlowMappingKey(first)
  \/ ParseFlowMappingValue
  \/ ParseFlowMappingEmptyValue
  \/ ParseNothing

Spec == Init /\ [][Next]_vars

-----------------------------------------------------------------------------
(* Properties                                                                *)

\* Every field of the parser and the event it returns stay well-typed; a
\* failed peek leaves no token at the head of the queue.
TypeOK ==
  /\ state \in ParserStates
  /\ states \in Seq(ParserStates)
  /\ marks \in Seq(Nat)
  /\ token \in Token \cup {NoToken}
  /\ DOMAIN tag_directives \subseteq Handles
  /\ \A h \in DOMAIN tag_directives : tag_directives[h] \in {"declared", "default"}
  /\ error \in {"NONE", "SCANNER", "PARSER"}
  /\ event \in Events
  /\ read \in Seq(TokenTypes)
  /\ declared \subseteq Handles

\* The unchecked pop states[len(states)-1] at the end of every node finds a
\* return state: between documents the stack is empty, inside one it holds the
\* document's DOCUMENT-END state at the bottom and above it only states that
\* can follow a node.
StackSafe ==
  error = "NONE" =>
    /\ state \in OutsideStates => states = <<>>
    /\ state \notin OutsideStates => states # <<>> /\ states[1] = "DOCUMENT_END"
    /\ \A l \in 2..Len(states) : states[l] \in ReturnStates

\* The state at each level: the stack, and the current state above it.
StateAt(l) == IF l <= Len(states) THEN states[l] ELSE state

\* The marks are those of the collections now open, innermost last: the pop of
\* parser.marks when a collection ends or fails finds the mark of that very
\* collection, so "while parsing a ..." names the place where it started.
\* Collections without a mark (indentless sequences, single pairs) leave no
\* mark behind and take none from the collection around them.
MarksMatch ==
  error = "NONE" =>
    /\ \A i, j \in DOMAIN marks : i < j => marks[i] < marks[j]
    /\ {marks[i] : i \in DOMAIN marks} = {l \in 1..Level : StateAt(l) \in MarkedStates}

\* When a collection's first state runs, its start token is still at the head
\* of the queue: the peek whose result is not tested there
\* (yaml_parser_parse_flow_mapping_key and its siblings) cannot return nil.
FirstTokenAvailable ==
  error = "NONE" /\ state \in FirstStates =>
    token.typ \in CollectionStarts /\ state = FirstState(token.typ)

\* Tags resolve in the scope of their document: inside it, exactly its own
\* %TAG handles and the defaults it did not redefine; between documents, none.
TagScope ==
  error = "NONE" =>
    IF state \in OutsideStates \ {"DOCUMENT_END"}
      THEN tag_directives = <<>>
      ELSE tag_directives =
             [h \in declared \cup DefaultHandles |->
                IF h \in declared THEN "declared" ELSE "default"]

Reported ==
  [typ \in Reportable |->
     CASE typ = "BLOCK_END" -> {"SEQUENCE_END", "MAPPING_END"}
       [] typ = "FLOW_SEQUENCE_END" -> {"SEQUENCE_END"}
       [] typ = "FLOW_MAPPING_END" -> {"MAPPING_END"}
       [] OTHER -> {typ}]

\* A token that stands for an event is never swallowed: the call that skips it
\* returns its event, so no call skips two of them.  (A single pair whose key
\* is absent is the exception: the token that shows the absence, the end of the
\* sequence in `[? ]', is skipped with it.)
TokensReported ==
  error = "NONE" /\ state # "FLOW_SEQUENCE_ENTRY_MAPPING_VALUE" =>
    \A i \in DOMAIN read : read[i] \in Reportable => event.typ \in Reported[read[i]]

\* An anchor that was read is defined by an event, even when the node it stands
\* in front of is empty or the tag comes between the two.
AnchorsReported ==
  error = "NONE" =>
    (event.anchor # None <=> \E i \in DOMAIN read : read[i] \in {"ANCHOR", "ALIAS"})

Rank(st) ==
  CASE st = "IMPLICIT_DOCUMENT_START" -> 3
    [] st \in {"DOCUMENT_CONTENT", "BLOCK_NODE", "INDENTLESS_SEQUENCE_ENTRY",
               "FLOW_SEQUENCE_ENTRY_MAPPING_VALUE"} -> 2
    [] st \in {"DOCUMENT_END", "BLOCK_MAPPING_VALUE", "FLOW_MAPPING_VALUE",
               "FLOW_MAPPING_EMPTY_VALUE", "FLOW_SEQUENCE_ENTRY_MAPPING_KEY",
               "FLOW_SEQUENCE_ENTRY_MAPPING_END"} -> 1
    [] OTHER -> 0

\* The caller's loop advances: a call that reads no token leaves the parser in
\* a state of lower rank, so at most three calls in a row return events
\* without reading, whatever the tokens are.
Progress ==
  [][Running /\ error' = "NONE" /\ read' = <<>> => Rank(state') < Rank(state)]_vars

\* What each state of the stack means to the caller: see EventGrammar.
FrameOf(st) ==
  CASE st = "STREAM_START" -> "StreamStart"
    [] st \in {"IMPLICIT_DOCUMENT_START", "DOCUMENT_START"} -> "Doc"
    [] st \in {"DOCUMENT_CONTENT", "BLOCK_NODE"} -> "Node"
    [] st = "DOCUMENT_END" -> "DocEnd"
    [] st = "END" -> "End"
    [] st \in {"BLOCK_SEQUENCE_FIRST_ENTRY", "BLOCK_SEQUENCE_ENTRY",
               "FLOW_SEQUENCE_FIRST_ENTRY", "FLOW_SEQUENCE_ENTRY",
               "INDENTLESS_SEQUENCE_ENTRY"} -> "Seq"
    [] st \in {"BLOCK_MAPPING_FIRST_KEY", "BLOCK_MAPPING_KEY",
               "FLOW_MAPPING_FIRST_KEY", "FLOW_MAPPING_KEY"} -> "Key"
    [] st \in {"BLOCK_MAPPING_VALUE", "FLOW_MAPPING_VALUE",
               "FLOW_MAPPING_EMPTY_VALUE"} -> "Value"
    [] st = "FLOW_SEQUENCE_ENTRY_MAPPING_KEY" -> "PairKey"
    [] st = "FLOW_SEQUENCE_ENTRY_MAPPING_VALUE" -> "PairValue"
    [] st = "FLOW_SEQUENCE_ENTRY_MAPPING_END" -> "PairEnd"

\* The constructs that are open, the innermost last; none after a failure.
OpenConstructs ==
  IF error = "NONE" THEN [l \in 1..Level |-> FrameOf(StateAt(l))] ELSE <<>>

Grammar == INSTANCE EventGrammar WITH frames <- OpenConstructs

\* The parser's events form well-nested documents with whole mapping pairs.
ImplementsEventGrammar == Grammar!Spec
=============================================================================
