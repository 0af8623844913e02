------------------------------- MODULE Scanner -------------------------------
(***************************************************************************)
(* The scanner of scannerc.go: it turns the text into tokens and puts them  *)
(* into a queue from which the parser takes them.  Two things make it more  *)
(* than a lexer.  A token may turn out to start a simple key only when a    *)
(* ':' is found behind it, perhaps many tokens later, and KEY and           *)
(* BLOCK-MAPPING-START are then inserted in front of it, so it must not     *)
(* have left the queue.  And block collections have no closing character:   *)
(* they end when a token stands further left.                               *)
(*                                                                         *)
(* The text is the environment: any lexeme may come next, on the same line  *)
(* or on a later one.  A position is reduced to its column; a line break,   *)
(* and a distance of more than 1024 characters on one line, to its effect:  *)
(* the simple keys that start before it are far away.  The columns that     *)
(* indents are compared with are 0..MaxColumn; Beyond is to the right of    *)
(* them.  The contents of tokens, the comments, and a scanner that is asked *)
(* again after it has failed are left out.                                  *)
(***************************************************************************)
EXTENDS Integers, Sequences, FiniteSets, SequencesExt

CONSTANTS
  MaxColumn,      \* bound: columns at which block nodes start
  MaxFlowLevel,   \* bound: nested flow collections
  MaxFetches      \* bound: fetches in front of the end of the text; the start of the stream is one

ASSUME ScannerConstants ==
  MaxColumn \in Nat /\ MaxFlowLevel \in Nat /\ MaxFetches \in Nat \ {0}

Beyond == MaxColumn + 1

\* Types that the scanner treats alike share a name: NODE is a scalar, an alias,
\* an anchor or a tag, DOCUMENT either document indicator, DIRECTIVE either
\* directive, FLOW_START and FLOW_END a bracket or a brace.
TokenTypes ==
  {"STREAM_START", "STREAM_END", "DIRECTIVE", "DOCUMENT", "NODE",
   "FLOW_START", "FLOW_END", "FLOW_ENTRY", "BLOCK_ENTRY", "KEY", "VALUE",
   "BLOCK_SEQUENCE_START", "BLOCK_MAPPING_START", "BLOCK_END"}

\* mark stands for start_mark: it numbers the fetches.
Token(typ, mark) == [typ |-> typ, mark |-> mark]

\* far: the key starts on an earlier line, or more than 1024 characters before.
Key(possible, required, token_number, column, mark) ==
  [possible |-> possible, required |-> required, token_number |-> token_number,
   column |-> column, mark |-> mark, far |-> FALSE]

VARIABLE
  scanner   \* the scanner's half of yaml_parser_t:
            \*   tokens               the queue, from tokens_head on
            \*   tokens_parsed        tokens taken from it before
            \*   token_available      its head may be handed out
            \*   simple_keys          one for the block context, one per flow level
            \*   simple_keys_by_tok   token number -> index into simple_keys
            \*   simple_key_allowed, flow_level, indent, indents
            \*   column, mark         the position: least column, fetches so far
            \*   at_end               the end of the text has been met
            \*   stream_end_produced, error
            \*   open                 history: block collections that the tokens taken
            \*                        from the queue have started and not ended

vars == <<scanner>>

NumberOf(s) == s.tokens_parsed + Len(s.tokens)      \* of the next token
InFlow(s) == s.flow_level > 0
Error(s) == [s EXCEPT !.error = TRUE]

-----------------------------------------------------------------------------
(* Simple keys                                                               *)

\* yaml_simple_key_is_valid, and its failure.
Valid(key) == key.possible /\ ~key.far
Missed(key) == key.possible /\ key.far /\ key.required

Unindexed(s, number) ==
  [n \in DOMAIN s.simple_keys_by_tok \ {number} |-> s.simple_keys_by_tok[n]]

\* yaml_parser_remove_simple_key fails if the key is required.
MustBeKey(s) == Last(s.simple_keys).possible /\ Last(s.simple_keys).required
Removed(s) ==
  IF Last(s.simple_keys).possible
    THEN [s EXCEPT !.simple_keys[Len(s.simple_keys)].possible = FALSE,
                   !.simple_keys_by_tok = Unindexed(s, Last(s.simple_keys).token_number)]
    ELSE s

\* Mutant: a required key is replaced.
SaveNeverFails(s) == FALSE
\* yaml_parser_save_simple_key
SaveFails(s) == s.simple_key_allowed /\ MustBeKey(s)
Saved(s) ==
  IF ~s.simple_key_allowed THEN s
  ELSE LET r == Removed(s)
           number == NumberOf(s)
           key == Key(TRUE, ~InFlow(s) /\ s.indent = s.column, number, s.column, s.mark)
       IN [r EXCEPT !.simple_keys[Len(s.simple_keys)] = key,
                    !.simple_keys_by_tok =
                      [n \in DOMAIN r.simple_keys_by_tok \cup {number} |->
                         IF n = number THEN Len(s.simple_keys) ELSE r.simple_keys_by_tok[n]]]

\* Mutants: the index of the key is left behind; the level is not tested.
FlowLeftKeepsIndex(s) ==
  IF ~InFlow(s) THEN s
  ELSE [s EXCEPT !.flow_level = @ - 1, !.simple_keys = Front(@)]
FlowLeftUntested(s) ==
  [s EXCEPT !.flow_level = @ - 1,
            !.simple_keys = Front(@),
            !.simple_keys_by_tok = Unindexed(s, Last(s.simple_keys).token_number)]

\* yaml_parser_increase_flow_level and yaml_parser_decrease_flow_level
FlowEntered(s) ==
  [s EXCEPT !.simple_keys = Append(@, Key(FALSE, FALSE, NumberOf(s), s.column, s.mark)),
            !.flow_level = @ + 1]
FlowLeft(s) ==
  IF ~InFlow(s) THEN s
  ELSE [s EXCEPT !.flow_level = @ - 1,
                 !.simple_keys = Front(@),
                 !.simple_keys_by_tok = Unindexed(s, Last(s.simple_keys).token_number)]

-----------------------------------------------------------------------------
(* The queue and the indents                                                 *)

\* yaml_insert_token: a position in front of the queue means its end.
Inserted(s, pos, token) ==
  [s EXCEPT !.tokens = IF pos < 0 THEN Append(@, token) ELSE InsertAt(@, pos + 1, token)]
Appended(s, typ) == Inserted(s, -1, Token(typ, s.mark))

\* Mutant: every entry opens a collection of its own.
RolledAgain(s, column, pos, typ, mark) ==
  IF InFlow(s) \/ s.indent > column THEN s
  ELSE Inserted([s EXCEPT !.indents = Append(@, s.indent), !.indent = column],
                pos, Token(typ, mark))
\* yaml_parser_roll_indent; pos is number - tokens_parsed, or negative.
Rolled(s, column, pos, typ, mark) ==
  IF InFlow(s) \/ s.indent >= column THEN s
  ELSE Inserted([s EXCEPT !.indents = Append(@, s.indent), !.indent = column],
                pos, Token(typ, mark))

\* yaml_parser_unroll_indent: one BLOCK-END for each indent right of column.
Unrolled(s, column) ==
  LET all == Append(s.indents, s.indent)
      kept == CHOOSE k \in DOMAIN all :
                all[k] <= column /\ \A j \in k + 1..Len(all) : all[j] > column
      ends == [j \in 1..Len(all) - kept |-> Token("BLOCK_END", s.mark)]
  IN IF InFlow(s) THEN s
     ELSE [s EXCEPT !.indent = all[kept], !.indents = SubSeq(all, 1, kept - 1),
                    !.tokens = @ \o ends]

-----------------------------------------------------------------------------
(* The text                                                                  *)

\* The keys 1..n become far, the older ones first.
Away(s, n) ==
  [s EXCEPT !.simple_keys =
     LET keys == s.simple_keys IN
     [i \in DOMAIN keys |-> [keys[i] EXCEPT !.far = @ \/ (i <= n /\ keys[i].possible)]]]
AllAway(s) == Away(s, Len(s.simple_keys))

\* yaml_parser_scan_to_next_token: the possible positions of the next lexeme.
\* On one line, a column is only repeated by lexemes that start no block node.
SameLine(s) ==
  {[Away(s, n) EXCEPT !.column = c] :
     n \in 0..Len(s.simple_keys),
     c \in s.column..(IF InFlow(s) \/ ~s.simple_key_allowed THEN Beyond ELSE MaxColumn)}
LaterLine(s) ==
  {[AllAway(s) EXCEPT !.column = c, !.simple_key_allowed = @ \/ ~InFlow(s)] :
     c \in 0..MaxColumn}

\* The scanner at the start of the next lexeme, its indents unrolled.
Positions ==
  {Unrolled([r EXCEPT !.mark = @ + 1], r.column) : r \in SameLine(scanner) \cup LaterLine(scanner)}

\* The scanner behind a lexeme that starts at its column: on the same line; or
\* at the start of a later one.
Behind(s) == [s EXCEPT !.column = IF @ < Beyond THEN @ + 1 ELSE @]
BelowIt(s) == [AllAway(s) EXCEPT !.column = 0]
\* A scalar may be long or end further down.
BehindScalar(s) ==
  {Away(Behind(s), n) : n \in 0..Len(s.simple_keys)}
    \cup {[AllAway(s) EXCEPT !.column = c] : c \in 1..Beyond}

-----------------------------------------------------------------------------
(* yaml_parser_fetch_next_token                                              *)

HeadKey(s) == s.simple_keys[s.simple_keys_by_tok[s.tokens_parsed]]

\* Mutant: a key at the head is not waited for.
NeedsMoreTokensOnly(s) == Len(s.tokens) < 3
\* The loop of yaml_parser_fetch_more_tokens goes on.
NeedsMore(s) ==
  \/ Len(s.tokens) < 3
  \/ s.tokens_parsed \in DOMAIN s.simple_keys_by_tok /\ Valid(HeadKey(s))

Fetching ==
  /\ ~scanner.error /\ ~scanner.stream_end_produced /\ ~scanner.token_available
  /\ NeedsMore(scanner)
\* A lexeme is fetched.
InText == Fetching /\ scanner.mark > 0 /\ ~scanner.at_end /\ scanner.mark < MaxFetches

FetchStreamStart ==
  /\ Fetching /\ scanner.mark = 0
  /\ scanner' = Appended([scanner EXCEPT !.mark = 1, !.simple_key_allowed = TRUE], "STREAM_START")

\* What ends all block collections: the keys must be resolved.
Outermost(s, typ) ==
  LET r == Unrolled(s, -1) IN
  IF MustBeKey(r) THEN Error(r)
  ELSE Appended([Removed(r) EXCEPT !.simple_key_allowed = FALSE], typ)

\* Mutant: the end of the text does not count as a new line.
FetchStreamEndOnLine ==
  /\ Fetching /\ scanner.mark > 0
  /\ LET s == IF scanner.at_end THEN scanner
              ELSE [scanner EXCEPT !.mark = @ + 1, !.column = 0, !.at_end = TRUE]
     IN scanner' = Outermost(s, "STREAM_END")

\* The end of the text; it is met again by every further fetch.
FetchStreamEnd ==
  /\ Fetching /\ scanner.mark > 0
  /\ LET s == IF scanner.at_end THEN scanner
              ELSE [AllAway(scanner) EXCEPT !.mark = @ + 1, !.column = 0, !.at_end = TRUE]
     IN scanner' = Outermost(s, "STREAM_END")

FetchDirective ==
  /\ InText
  /\ \E s \in Positions :
       /\ s.column = 0
       /\ scanner' = BelowIt(Outermost(s, "DIRECTIVE"))

FetchDocumentIndicator ==
  /\ InText
  /\ \E s \in Positions :
       /\ s.column = 0
       /\ scanner' = Behind(Outermost(s, "DOCUMENT"))

FetchFlowCollectionStart ==
  /\ InText
  /\ \E s \in Positions :
       /\ s.flow_level < MaxFlowLevel
       /\ scanner' = IF SaveFails(s) THEN Error(s)
                     ELSE Behind(Appended([FlowEntered(Saved(s)) EXCEPT !.simple_key_allowed = TRUE],
                                          "FLOW_START"))

FetchFlowCollectionEnd ==
  /\ InText
  /\ \E s \in Positions :
       scanner' = IF MustBeKey(s) THEN Error(s)
                  ELSE Behind(Appended([FlowLeft(Removed(s)) EXCEPT !.simple_key_allowed = FALSE],
                                       "FLOW_END"))

FetchFlowEntry ==
  /\ InText
  /\ \E s \in Positions :
       scanner' = IF MustBeKey(s) THEN Error(s)
                  ELSE Behind(Appended([Removed(s) EXCEPT !.simple_key_allowed = TRUE], "FLOW_ENTRY"))

\* An indicator that opens a block collection where its column is a new indent.
Indicator(s, typ, start, allowed) ==
  LET r == Rolled(s, s.column, -1, start, s.mark) IN
  IF (~InFlow(s) /\ ~s.simple_key_allowed) \/ MustBeKey(r) THEN Error(s)
  ELSE Behind(Appended([Removed(r) EXCEPT !.simple_key_allowed = allowed], typ))

FetchBlockEntry ==
  /\ InText
  /\ \E s \in Positions :
       scanner' = Indicator(s, "BLOCK_ENTRY", "BLOCK_SEQUENCE_START", TRUE)

FetchKey ==
  /\ InText
  /\ \E s \in Positions :
       scanner' = Indicator(s, "KEY", "BLOCK_MAPPING_START", ~InFlow(s))

\* The ':' behind a simple key: KEY goes in front of the key's first token and
\* BLOCK-MAPPING-START in front of KEY.
ValueOfSimpleKey(s) ==
  LET key == Last(s.simple_keys)
      pos == key.token_number - s.tokens_parsed
      r == Rolled(Inserted(s, pos, Token("KEY", key.mark)), key.column, pos,
                  "BLOCK_MAPPING_START", key.mark)
  IN [r EXCEPT !.simple_keys[Len(s.simple_keys)].possible = FALSE,
               !.simple_keys_by_tok = Unindexed(s, key.token_number),
               !.simple_key_allowed = FALSE]

\* The ':' of a key that is not simple.  The test has struck the key off the
\* list, but not off the index.
ValueOfComplexKey(s) ==
  LET r == [s EXCEPT !.simple_keys[Len(s.simple_keys)].possible = FALSE] IN
  [Rolled(r, s.column, -1, "BLOCK_MAPPING_START", s.mark) EXCEPT !.simple_key_allowed = ~InFlow(s)]

FetchValue ==
  /\ InText
  /\ \E s \in Positions :
       LET key == Last(s.simple_keys) IN
       scanner' =
         IF Missed(key) \/ (~Valid(key) /\ ~InFlow(s) /\ ~s.simple_key_allowed) THEN Error(s)
         ELSE Behind(Appended(IF Valid(key) THEN ValueOfSimpleKey(s) ELSE ValueOfComplexKey(s),
                              "VALUE"))

\* Anchors, aliases and tags; quoted and plain scalars.
Node(s) == Appended([Saved(s) EXCEPT !.simple_key_allowed = FALSE], "NODE")

FetchNode ==
  /\ InText
  /\ \E s \in Positions :
       IF SaveFails(s) THEN scanner' = Error(s)
       ELSE \E r \in BehindScalar(Node(s)) : scanner' = r

\* A plain scalar that is followed by a line break has read it.
FetchPlainScalarAndBreak ==
  /\ InText
  /\ \E s \in Positions :
       /\ ~SaveFails(s)
       /\ scanner' = [BelowIt(Node(s)) EXCEPT !.simple_key_allowed = TRUE]

FetchBlockScalar ==
  /\ InText
  /\ \E s \in Positions :
       /\ ~InFlow(s)
       /\ scanner' = IF MustBeKey(s) THEN Error(s)
                     ELSE BelowIt(Appended([Removed(s) EXCEPT !.simple_key_allowed = TRUE], "NODE"))

\* No lexeme can be read.
FetchFails == Fetching /\ scanner' = Error(scanner)

-----------------------------------------------------------------------------
(* The queue and the parser                                                  *)

\* The end of yaml_parser_fetch_more_tokens.  Of a key at the head the test leaves
\* only a valid one possible.
FetchMoreTokens ==
  /\ ~scanner.error /\ ~scanner.stream_end_produced /\ ~scanner.token_available
  /\ ~NeedsMore(scanner)
  /\ scanner' =
       IF scanner.tokens_parsed \notin DOMAIN scanner.simple_keys_by_tok
         THEN [scanner EXCEPT !.token_available = TRUE]
       ELSE IF Missed(HeadKey(scanner)) THEN Error(scanner)
       ELSE [scanner EXCEPT
               !.simple_keys[scanner.simple_keys_by_tok[scanner.tokens_parsed]].possible =
                 Valid(HeadKey(scanner)),
               !.token_available = TRUE]

Opening(token) ==
  CASE token.typ \in {"BLOCK_SEQUENCE_START", "BLOCK_MAPPING_START"} -> 1
    [] token.typ = "BLOCK_END" -> -1
    [] OTHER -> 0

\* skip_token
SkipToken ==
  /\ scanner.token_available
  /\ scanner' = [scanner EXCEPT !.token_available = FALSE,
                                !.tokens_parsed = @ + 1,
                                !.open = @ + Opening(scanner.tokens[1]),
                                !.stream_end_produced = scanner.tokens[1].typ = "STREAM_END",
                                !.tokens = Tail(@)]

Init ==
  scanner = [tokens |-> <<>>, tokens_parsed |-> 0, token_available |-> FALSE,
             simple_keys |-> <<Key(FALSE, FALSE, 0, 0, 0)>>, simple_keys_by_tok |-> <<>>,
             simple_key_allowed |-> FALSE, flow_level |-> 0, indent |-> -1, indents |-> <<>>,
             column |-> 0, mark |-> 0, at_end |-> FALSE,
             stream_end_produced |-> FALSE, error |-> FALSE, open |-> 0]

Next ==
  \/ FetchStreamStart \/ FetchStreamEnd \/ FetchDirective \/ FetchDocumentIndicator
  \/ FetchFlowCollectionStart \/ FetchFlowCollectionEnd \/ FetchFlowEntry
  \/ FetchBlockEntry \/ FetchKey \/ FetchValue
  \/ FetchNode \/ FetchPlainScalarAndBreak \/ FetchBlockScalar \/ FetchFails
  \/ FetchMoreTokens \/ SkipToken

Spec == Init /\ [][Next]_vars

-----------------------------------------------------------------------------
(* Properties                                                                *)

Ascending(seq) == \A i, j \in DOMAIN seq : i < j => seq[i] < seq[j]
Count(n, seq, typ) == Cardinality({i \in 1..n : seq[i].typ = typ})

\* The fields are well-typed; there is one simple key per flow level and one for
\* the block context, also after closing brackets that nothing has opened, so
\* that simple_keys[len(simple_keys)-1] exists.
TypeOK ==
  /\ \A i \in DOMAIN scanner.tokens :
       scanner.tokens[i].typ \in TokenTypes /\ scanner.tokens[i].mark \in 1..scanner.mark
  /\ scanner.flow_level \in 0..MaxFlowLevel
  /\ Len(scanner.simple_keys) = scanner.flow_level + 1
  /\ \A i \in DOMAIN scanner.simple_keys :
       /\ scanner.simple_keys[i].column \in 0..Beyond
       /\ scanner.simple_keys[i].token_number \in 0..NumberOf(scanner)
  /\ DOMAIN scanner.simple_keys_by_tok \subseteq 0..NumberOf(scanner)
  /\ scanner.column \in 0..Beyond /\ scanner.indent \in -1..MaxColumn
  /\ scanner.mark \in 0..MaxFetches + 1
  /\ {scanner.simple_key_allowed, scanner.token_available, scanner.at_end,
      scanner.stream_end_produced, scanner.error} \subseteq BOOLEAN

\* The unchecked simple_keys[head_tok_idx] of yaml_parser_fetch_more_tokens stays
\* in range: no entry of the index outlives the flow level of its key for as
\* long as the key's token can still get to the head.
HeadIndexInRange ==
  scanner.tokens_parsed \in DOMAIN scanner.simple_keys_by_tok =>
    scanner.simple_keys_by_tok[scanner.tokens_parsed] \in DOMAIN scanner.simple_keys

\* While an indexed key can still become one, the token it starts with is in the
\* queue, at the place where its ':' will put KEY and BLOCK-MAPPING-START; the
\* index leads back to it, whatever keys have been inserted meanwhile.
IndexedKeyWaits ==
  \A i \in DOMAIN scanner.simple_keys :
    LET key == scanner.simple_keys[i]
        place == key.token_number - scanner.tokens_parsed + 1
    IN ~scanner.error /\ Valid(key) /\ key.token_number \in DOMAIN scanner.simple_keys_by_tok =>
         /\ scanner.simple_keys_by_tok[key.token_number] = i
         /\ place \in DOMAIN scanner.tokens
         /\ scanner.tokens[place].mark = key.mark

\* The comment in yaml_parser_fetch_more_tokens: "If a potential simple key is at
\* the head position, we need to fetch the next token to disambiguate it."
HeadIsNoKey ==
  scanner.token_available =>
    \A i \in DOMAIN scanner.simple_keys :
      Valid(scanner.simple_keys[i]) => scanner.simple_keys[i].token_number # scanner.tokens_parsed

\* Where only a key can stand, in the column of a block mapping, what stands
\* there becomes a key or the scanner fails: it is never just forgotten.
RequiredKeyResolved ==
  [][LET key == scanner.simple_keys[1] IN
     key.possible /\ key.required /\ ~scanner'.error =>
       \/ scanner'.simple_keys[1].possible /\ scanner'.simple_keys[1].mark = key.mark
       \/ \E i \in DOMAIN scanner'.tokens : scanner'.tokens[i] = Token("KEY", key.mark)]_vars

\* The parser sees block collections begin and end in pairs: no BLOCK-END before
\* its start, as many collections unclosed as there are indents, which ascend,
\* and none at all behind the end of the stream (unless a bracket is open).
BlocksNest ==
  ~scanner.error =>
    /\ Ascending(Append(scanner.indents, scanner.indent))
    /\ LET depth(n) == scanner.open
                         + Count(n, scanner.tokens, "BLOCK_SEQUENCE_START")
                         + Count(n, scanner.tokens, "BLOCK_MAPPING_START")
                         - Count(n, scanner.tokens, "BLOCK_END")
       IN /\ \A n \in 0..Len(scanner.tokens) : depth(n) >= 0
          /\ depth(Len(scanner.tokens)) = Len(scanner.indents)
          /\ scanner.stream_end_produced /\ ~InFlow(scanner) => depth(0) = 0

\* The loop of yaml_parser_fetch_more_tokens ends at the end of the text, where
\* every fetch adds one more STREAM-END: no key keeps it waiting there, not even
\* one in front of a bracket that is never closed.
LookaheadEnds ==
  Count(Len(scanner.tokens), scanner.tokens, "STREAM_END") <= 3
=============================================================================
