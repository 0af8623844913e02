------------------------------ MODULE Composer ------------------------------
(***************************************************************************)
(* The composer of decode.go (type parser): recursive descent over the      *)
(* events, building the Node tree of one document per Decoder.Decode.  It   *)
(* looks one event ahead, keeps its anchors for the life of the Decoder,    *)
(* and reports a failure by a panic that unwinds the recursion and that     *)
(* Decode recovers, so that the caller may call Decode again on the same    *)
(* parser.                                                                 *)
(*                                                                         *)
(* The events come from EventGrammar, which YamlParser implements.  The     *)
(* recursion is an explicit stack.  Scalar values, tags, styles, comments   *)
(* and positions are left out.                                             *)
(***************************************************************************)
EXTENDS Naturals, Sequences, YamlEvents

CONSTANTS MaxNodes       \* bound: nodes the stream makes the composer create

ASSUME ComposerConstants == MaxNodes \in Nat

VARIABLES
  frames,     \* the parser: see EventGrammar
  event,      \* p.event, which yaml_parser_parse fills and expect erases
  doneInit,   \* p.doneInit
  anchors,    \* p.anchors: name -> node
  nodes,      \* every Node created so far, in order
  stack,      \* the active calls of document, sequence and mapping
  outcome,    \* of the current call of Decode
  last,       \* history: the outcome of the call before it
  root        \* the first node of the current call

vars == <<frames, event, doneInit, anchors, nodes, stack, outcome, last, root>>

Parser == INSTANCE EventGrammar

\* late: an error that leaves an event of the failed parser in p.event.
Outcomes == {"none", "running", "value", "eof", "error", "late", "panic"}
Kinds == {"document", "sequence", "mapping", "scalar", "alias"}
NoNode == 0

Node(kind, anchor, target) ==
  [kind |-> kind, anchor |-> anchor, target |-> target, content |-> <<>>]

\* What an active call waits for: its only child, an entry or the end, a key
\* or the end, the value of a key, the end of the document.
Steps == {"root", "entry", "key", "value", "end"}
Call(node, step) == [node |-> node, step |-> step]
FirstStep == [document |-> "root", sequence |-> "entry", mapping |-> "key"]
\* Mutant: the key behind a value is not looked for.
NextStepNoKey == [root |-> "end", entry |-> "entry", key |-> "value", value |-> "value"]
NextStep == [root |-> "end", entry |-> "entry", key |-> "value", value |-> "key"]
EndOf == [entry |-> "SEQUENCE_END", key |-> "MAPPING_END", end |-> "DOCUMENT_END"]

Fresh == Len(nodes) + 1
Running == outcome = "running"
Peeked == Running /\ event # NoEvent
TopCall == stack[Len(stack)]
Callers == SubSeq(stack, 1, Len(stack) - 1)

-----------------------------------------------------------------------------
\* Mutant: the nodes of the call before are dropped, but not the anchors.
DecodeDropsNodes ==
  /\ ~Running
  /\ outcome' = "running"
  /\ last' = outcome
  /\ stack' = <<>>
  /\ root' = 1
  /\ nodes' = <<>>
  /\ UNCHANGED <<frames, event, doneInit, anchors>>

\* Decoder.Decode calls parser.parse.  The caller may try again after any outcome,
\* a panic it has recovered included.
Decode ==
  /\ ~Running
  /\ outcome' = "running"
  /\ last' = outcome
  /\ stack' = <<>>
  /\ root' = Fresh
  /\ UNCHANGED <<frames, event, doneInit, anchors, nodes>>

\* The panic of fail and failf: the recursion unwinds, Decode recovers and
\* returns the error.  The lookahead stays.
Fail(how) ==
  /\ outcome' = how
  /\ stack' = <<>>
  /\ UNCHANGED <<doneInit, anchors, nodes, last, root>>

\* peek and the first half of expect: the call of yaml_parser_parse.  It
\* reports a failure by its result, by parser.error alone, or, on a later call,
\* by no event.  peek tests the first two; expect, here the one of init, the
\* first and the type of the event.  An event that comes with an error stays
\* in p.event.
Peek ==
  /\ Running /\ event = NoEvent
  /\ Parser!Next
  /\ event'.typ \in {"DOCUMENT_START", "SCALAR", "ALIAS", "SEQUENCE_START", "MAPPING_START"}
       => Len(nodes) < MaxNodes
  /\ IF event' = NoEvent THEN Fail("error")
     ELSE IF doneInit /\ frames' = <<>> THEN Fail("late")
     ELSE UNCHANGED <<doneInit, anchors, nodes, stack, outcome, last, root>>

\* The second half of expect: the event is erased.
Consume == event' = NoEvent /\ UNCHANGED frames
Keep == UNCHANGED <<event, frames>>

\* init, which parse calls first.
InitStream ==
  /\ Peeked /\ ~doneInit
  /\ \/ /\ event.typ = "STREAM_START"
        /\ Consume
        /\ doneInit' = TRUE
        /\ anchors' = <<>>
        /\ UNCHANGED <<nodes, stack, outcome, last, root>>
     \/ event.typ # "STREAM_START" /\ Keep /\ Fail("error")

-----------------------------------------------------------------------------
(* parse                                                                     *)

\* parse runs at the start of Decode and wherever a child is due.
ChildDue ==
  stack # <<>> =>
    /\ TopCall.step # "end"
    /\ TopCall.step \in DOMAIN EndOf => event.typ # EndOf[TopCall.step]

\* Mutant: the children are collected in reverse.
DeliverReversed(id, ns, stk) ==
  IF stk = <<>>
    THEN /\ nodes' = ns
         /\ stack' = <<>>
         /\ outcome' = "value"
    ELSE LET caller == stk[Len(stk)] IN
         /\ nodes' = [ns EXCEPT ![caller.node].content = <<id>> \o @]
         /\ stack' = [stk EXCEPT ![Len(stk)].step = NextStep[@]]
         /\ UNCHANGED outcome

\* parse returns node id to its caller: parseChild appends it, Decode has its
\* document.  ns are the nodes and stk the calls still active.
Deliver(id, ns, stk) ==
  IF stk = <<>>
    THEN /\ nodes' = ns
         /\ stack' = <<>>
         /\ outcome' = "value"
    ELSE LET caller == stk[Len(stk)] IN
         /\ nodes' = [ns EXCEPT ![caller.node].content = Append(@, id)]
         /\ stack' = [stk EXCEPT ![Len(stk)].step = NextStep[@]]
         /\ UNCHANGED outcome

\* Mutant: the first definition of an anchor stays.
DefineOnce(anchor, id) ==
  IF anchor = None \/ anchor \in DOMAIN anchors THEN UNCHANGED anchors
  ELSE anchors' = [a \in DOMAIN anchors \cup {anchor} |->
                     IF a = anchor THEN id ELSE anchors[a]]

\* p.anchor
Define(anchor, id) ==
  IF anchor = None THEN UNCHANGED anchors
  ELSE anchors' = [a \in DOMAIN anchors \cup {anchor} |->
                     IF a = anchor THEN id ELSE anchors[a]]

ParseScalar ==
  /\ Peeked /\ doneInit /\ ChildDue
  /\ event.typ = "SCALAR"
  /\ Define(event.anchor, Fresh)
  /\ Consume
  /\ Deliver(Fresh, Append(nodes, Node("scalar", event.anchor, NoNode)), stack)
  /\ UNCHANGED <<doneInit, last, root>>

\* Mutant: the alias is consumed before its anchor is looked up.
ParseAliasConsumesFirst ==
  /\ Peeked /\ doneInit /\ ChildDue
  /\ event.typ = "ALIAS"
  /\ Consume
  /\ IF event.anchor \in DOMAIN anchors
       THEN /\ Deliver(Fresh, Append(nodes, Node("alias", event.anchor, anchors[event.anchor])),
                       stack)
            /\ UNCHANGED <<doneInit, anchors, last, root>>
       ELSE Fail("error")

ParseAlias ==
  /\ Peeked /\ doneInit /\ ChildDue
  /\ event.typ = "ALIAS"
  /\ \/ /\ event.anchor \in DOMAIN anchors
        /\ Consume
        /\ Deliver(Fresh, Append(nodes, Node("alias", event.anchor, anchors[event.anchor])), stack)
        /\ UNCHANGED <<doneInit, anchors, last, root>>
     \/ /\ event.anchor \notin DOMAIN anchors
        /\ Keep
        /\ Fail("error")

\* The first half of document, sequence and mapping.
Opened == [DOCUMENT_START |-> "document", SEQUENCE_START |-> "sequence",
           MAPPING_START |-> "mapping"]
ParseOpen ==
  /\ Peeked /\ doneInit /\ ChildDue
  /\ event.typ \in DOMAIN Opened
  /\ LET kind == Opened[event.typ] IN
     /\ Define(event.anchor, Fresh)
     /\ nodes' = Append(nodes, Node(kind, event.anchor, NoNode))
     /\ stack' = Append(stack, Call(Fresh, FirstStep[kind]))
  /\ Consume
  /\ UNCHANGED <<doneInit, outcome, last, root>>

\* parse meets an event that starts no node.  At the end of the stream it
\* returns nil: Decode returns io.EOF, parseChild would append it.  Otherwise it
\* panics, and handleErr, which recovers yamlErrors only, lets the panic through.
ParseNoNode ==
  /\ Peeked /\ doneInit /\ ChildDue
  /\ Keep
  /\ \/ /\ event.typ = "STREAM_END"
        /\ IF stack = <<>>
             THEN outcome' = "eof" /\ UNCHANGED <<nodes, stack>>
             ELSE Deliver(NoNode, nodes, stack)
        /\ UNCHANGED <<doneInit, anchors, last, root>>
     \/ /\ event.typ \in {"STREAM_START", "DOCUMENT_END", "SEQUENCE_END", "MAPPING_END"}
        /\ Fail("panic")

\* The second half of document, sequence and mapping: the closing event is
\* expected and the node is returned.
Close ==
  /\ Peeked /\ doneInit /\ ~ChildDue
  /\ \/ /\ event.typ = EndOf[TopCall.step]
        /\ Consume
        /\ Deliver(TopCall.node, nodes, Callers)
        /\ UNCHANGED <<doneInit, anchors, last, root>>
     \/ /\ event.typ # EndOf[TopCall.step]
        /\ Keep
        /\ Fail("error")

-----------------------------------------------------------------------------
Init ==
  /\ Parser!Init
  /\ doneInit = FALSE
  /\ anchors = <<>>
  /\ nodes = <<>>
  /\ stack = <<>>
  /\ outcome = "none"
  /\ last = "none"
  /\ root = NoNode

Next ==
  \/ Decode \/ Peek \/ InitStream
  \/ ParseScalar \/ ParseAlias \/ ParseOpen \/ ParseNoNode
  \/ Close

Spec == Init /\ [][Next]_vars

-----------------------------------------------------------------------------
(* Properties                                                                *)

TypeOK ==
  /\ event \in Events
  /\ doneInit \in BOOLEAN
  /\ \A a \in DOMAIN anchors : a \in Anchors /\ anchors[a] \in 1..Len(nodes)
  /\ \A i \in DOMAIN nodes :
       /\ nodes[i].kind \in Kinds
       /\ nodes[i].anchor \in Anchors \cup {None}
       /\ nodes[i].target \in 0..Len(nodes)
       /\ nodes[i].content \in Seq(1..Len(nodes))
  /\ \A l \in DOMAIN stack : stack[l].node \in 1..Len(nodes) /\ stack[l].step \in Steps
  /\ outcome \in Outcomes /\ last \in Outcomes
  /\ root \in 0..Fresh

\* The recursion follows the open constructs of the event stream: the next
\* event is always one the composer's position allows, so parse never panics
\* with "attempted to parse unknown event" and expect never fails with
\* "expected X event but got Y" or appends the nil of the end of the stream.
EventsExpected ==
  Peeked =>
    IF ~doneInit THEN event.typ = "STREAM_START"
    ELSE IF stack = <<>> THEN event.typ \in {"DOCUMENT_START", "STREAM_END"}
                                  \/ last \in {"error", "late", "panic"}
    ELSE IF TopCall.step = "end" THEN event.typ = "DOCUMENT_END"
    ELSE \/ event.typ \in {"SCALAR", "ALIAS", "SEQUENCE_START", "MAPPING_START"}
         \/ TopCall.step \in DOMAIN EndOf /\ event.typ = EndOf[TopCall.step]

\* A Decoder that has failed stays failed: calling Decode again after a syntax
\* error or an unknown anchor never returns the rest of the document as a value
\* of its own, and never panics; one that is at the end stays at the end.  An
\* error that came with an event is the exception: see NoPanic.
OutcomeFinal ==
  last \in {"error", "eof"} => outcome \in {last, "running"}

\* What handleErr and the message "internal error: attempted to parse unknown
\* event (please report)" say: Decode reports what it finds by its error, no
\* input and no order of calls makes it panic.  (After an error that left an
\* event in p.event, the next call starts at that event.)
NoPanic == outcome # "panic"

\* The descendants of the node a call returns are all the nodes created by it.
Parents(i) == {p \in root..Len(nodes) : \E k \in DOMAIN nodes[p].content : nodes[p].content[k] = i}
Times(p, i) == {k \in DOMAIN nodes[p].content : nodes[p].content[k] = i}
\* A value is a whole document: a document node with one child, in which every
\* node read since has exactly one place, behind its parent and in the order
\* of the text, and every mapping has a value for each key.  (Not the value of
\* a call behind an error that left an event in p.event.)
WholeDocument ==
  outcome = "value" /\ last # "late" =>
    /\ nodes[root].kind = "document" /\ Len(nodes[root].content) = 1
    /\ \A i \in root + 1..Len(nodes) :
         \E p \in root..i - 1 : Parents(i) = {p} /\ \E k \in DOMAIN nodes[p].content : Times(p, i) = {k}
    /\ \A i \in root..Len(nodes) :
         /\ nodes[i].kind = "mapping" => Len(nodes[i].content) % 2 = 0
         /\ \A j, k \in DOMAIN nodes[i].content :
              j < k => nodes[i].content[j] < nodes[i].content[k]

\* An alias stands for the node most recently given its anchor, in the order of
\* the text: one that contains the alias, or one of an earlier document of the
\* same Decoder, counts.
AliasTarget ==
  \A i \in DOMAIN nodes :
    nodes[i].kind = "alias" =>
      LET t == nodes[i].target IN
      /\ t \in 1..i - 1 /\ nodes[t].kind # "alias" /\ nodes[t].anchor = nodes[i].anchor
      /\ \A j \in t + 1..i - 1 :
           nodes[j].kind # "alias" => nodes[j].anchor # nodes[i].anchor
=============================================================================
