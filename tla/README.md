# Verification of yaml3 (oasdiff/yaml3)

## 1. The system

`yaml3` is a Go YAML library (a fork of go-yaml v3 that adds `__origin__`
metadata and end positions). It is sequential: no goroutines, one mutex around a
type cache. Its difficulty is not concurrency but *coroutine-like layering*: each
layer is a state machine with its own stack, pulls input from the layer below
through a queue with lookahead, mutates its stacks before it knows whether the
rest of the step will succeed, and reports failure by a sticky error or by a
panic that the API recovers.

    bytes --reader--> characters --scanner--> tokens --parser--> events
          --composer--> Node tree --decoder--> Go values
    Go values / Node tree --encoder--> events --emitter--> characters --writer--> bytes

| Component | Source | State it keeps | Operations |
|---|---|---|---|
| Reader | `readerc.go`, `apic.go` input handlers | `raw_buffer`, `buffer`, `buffer_pos`, `unread`, `eof`, `encoding` | `update_buffer(length)`: determine the encoding, refill, decode UTF-8/16, move |
| Scanner | `scannerc.go`, `yaml_insert_token` | `tokens` queue, `tokens_head/parsed`, `indent(s)`, `flow_level`, `simple_keys`, `simple_keys_by_tok`, `simple_key_allowed`, `comments` | `fetch_more_tokens`, the fetchers, simple keys, roll/unroll of indents |
| Parser | `parserc.go` | `state`, `states`, `marks`, `tag_directives`, sticky `error`, comment slots | `yaml_parser_parse`: one event per call |
| Composer | `decode.go` (`parser`) | one-event lookahead `event`, `anchors`, the recursion of `parse()` | `init/peek/expect/parse`, node constructors |
| Decoder | `decode.go` (`decoder`) | `aliases`, `aliasDepth`, `decodeCount`, `aliasCount`, `mergedFields`, `terrors` | `unmarshal` and its per-kind methods, `merge` |
| Origin | `origin.go` | appends `__origin__` entries to `Node.Content` | `addOrigin...` |
| Resolver | `resolve.go` | none | `resolve`, `shortTag`, `longTag` |
| Encoder | `encode.go`, `sorter.go` | `doneInit`, current `event`, emitter | `marshalDoc`, `node`, key order |
| Emitter | `emitterc.go`, `writerc.go` | `state(s)`, event queue, `indent(s)`, `flow_level`, buffer | `emit`, `need_more_events`, the state handlers, `flush` |
| API | `yaml.go` | per-`Decoder`/`Encoder` objects, struct cache | `Decode`, `Encode`, `Close`, `handleErr` |

How they interact:

- *Calls downwards, data upwards.* `Decode` calls the composer's `parse`, that
  calls `peek`/`expect`, those call `yaml_parser_parse` for one event, its
  handlers call `peek_token`/`skip_token`, `peek_token` calls
  `yaml_parser_fetch_more_tokens`, the fetchers call `update_buffer`, which calls
  the input handler. There are no callbacks except unmarshalers (`Unmarshaler`,
  `obsoleteUnmarshaler`, `TextUnmarshaler`) and marshalers, which may call back
  into the decoder, and the `io.Reader` and `io.Writer`, which may fail.
- *One shared object.* Reader, scanner and parser keep their state in one
  `yaml_parser_t`, with one `error` field. A layer reports a failure by `false`
  and by that field, and the layers above do not all look at both.
- *Failure.* The C-style layers return `false` and stay failed; composer, decoder
  and encoder panic with a `yamlError`, which `handleErr` turns into an error at
  the API or, for obsolete unmarshalers, half-way up the recursion. The objects
  survive, and the caller may call them again.
- *The write side mirrors it.* The encoder emits events, the emitter queues them
  until it has looked far enough ahead, and a failed write is sticky only in part.

Behaviours that are hard, and hard to test:

1. Lookahead: the scanner inserts tokens in front of tokens that are already
   queued; which of them the parser may take depends on an index of keys.
2. Stacks kept in step: `states` with `marks` (parser), `simple_keys` with
   `flow_level` and `indents` with BLOCK tokens (scanner), the Go call stack with
   the event stream (composer), `states` with `indents` (emitter).
3. Failure in the middle of a step, and the calls that come after it.
4. Scopes: tag handles per document, anchors per Decoder, merged fields and
   alias sets per recursion.
5. Termination: steps that read nothing, lookahead that waits for more.

What makes each component correct:

| Component | Properties |
|---|---|
| Reader | no character lost or read twice, whatever the sizes of the reads; at least `length` characters or the end after a call |
| Scanner | the key index and the key list agree and never lead out of range; KEY and BLOCK-MAPPING-START go in front of the key's first token; block collections nest; required keys are resolved; the lookahead ends |
| Parser | the stacks are never popped empty, marks match their collections, no token lost, progress, tag scope, events form well-nested documents |
| Composer | every value is one whole document, aliases get the latest anchor before them, failures are final, no panic whatever the order of calls |
| Decoder | cycles are found and only cycles, merge precedence, counters and sets are restored on every path but a swallowed failure, one origin entry per mapping |
| Encoder, Emitter | every event accepted is written once and in order, none is left in the queue at the end, indents and flow levels are balanced, errors are final |
| Key order | a strict weak order, so that sorting ends and is deterministic |

## 2. The modules

| Module | Models | State |
|---|---|---|
| `YamlEvents` | `yaml_event_t` as far as parser and composer tell events apart | none |
| `EventGrammar` | abstract: what `yaml_parser_parse` promises its caller | the open constructs, the last event |
| `YamlParser` | `parserc.go`: every state handler, directives, anchors and tags | `state`, `states`, `marks`, `tag_directives`, `error`, the peeked token |
| `YamlParser_proofs` | theorems about `YamlParser`: types, stacks, progress; that it implements `EventGrammar` and accounts for the tokens it reads | |
| `Composer` | `decode.go`, type `parser`, and repeated calls of `Decoder.Decode` | `event`, `doneInit`, `anchors`, the nodes, the call stack |
| `Composer_proofs` | theorems about `Composer` | |
| `MCComposer` | `Composer` for TLC: symmetry of anchor names | |
| `Scanner` | `scannerc.go`: token queue, simple keys, indents, flow levels, lookahead | one record, the scanner's half of `yaml_parser_t` |
| `Scanner_proofs` | theorems about `Scanner` | |
| `Emitter` | `emitterc.go`: event queue and its lookahead, the state handlers, stacks, line comments; operators only | a record, the part of `yaml_emitter_t` named in `NewEmitter` |
| `Encoder` | `encode.go` and `Encode`, `Close` of `yaml.go`: the walk over a value, calls after failures | `emitter`, `doneInit`, the walk |
| `Encoder_proofs` | theorems about `Encoder` and `Emitter` | |
| `Decoder` | `decode.go`, type `decoder`, and `origin.go`: values from trees, aliases, merges, origins, unmarshalers | `aliases`, `aliasDepth`, `mergedFields`, `terrors`, the tree, the call stack |
| `Decoder_proofs` | theorems about `Decoder`: its aliases, its types, its origins | |
| `DecoderMerge_proofs` | theorems about `Decoder`: its merges | |
| `Reader` | `readerc.go`: raw and decoded buffer, encoding, end of the stream, reads that fail | the reader's half of `yaml_parser_t`, the locals of `update_buffer` |
| `Reader_proofs` | theorems about `Reader` | |
| `KeyOrder` | `sorter.go` and the loop of `mapv`: the order of a map's keys | the keys |
| `MCKeyOrder` | `KeyOrder` for TLC: the numbers among the keys | |
| `KeyOrder_proofs` | theorems about `KeyOrder` | |

`YamlParser` implements `EventGrammar` (checked by refinement: each level of
`states`, and `state` above it, maps to the construct it continues).
`Composer` takes its events from `EventGrammar` instead of the parser, so it is
checked against every event sequence the parser may produce. `Scanner` and
`YamlParser` are not composed yet: the parser is checked against *any* token
sequence, which includes what the scanner delivers, and the scanner against a
parser that takes tokens one by one. `Encoder` extends `Emitter` and runs it on the
events its walk emits. `Decoder`, `Reader` and `KeyOrder` stand alone: the tree that
`Decoder` is given is any that `Composer` may build, the scanner's calls of `Reader`
are any, and `KeyOrder` fixes the order in which the walk of `Encoder` finds a map's
keys.

### YamlParser

One call of `yaml_parser_parse` is one action, named after the handler that runs.
A handler peeks (`Peek`: the token at the head if one was peeked at, otherwise any
token or a failed fetch) and skips (the tokens skipped are recorded in `read`), and
either returns an event (`Return`) or fails (`Raise`). `state` and `states` are the
Go fields, with the enum's names. Where the code calls another handler
(`parse_node`) the action uses the operator of that name.

What is abstracted: scalar values, styles, suffixes and positions. A mark is named
by the level of its collection. Comments change no transition. Errors do not
always stop the call that meets them: `yaml_parser_scan_line_comment` ignores a
failed read, and so does `yaml_parser_split_stem_comment` a failed peek; then
`error` is set and the call still returns an event (`MayFailLate`). What a call
does *after* a failed first peek whose second succeeds (`split_stem_comment`) is
treated as such a late error.

The history variables are `read` (what the last call skipped) and `declared` (the
handles the current document declares); no guard reads either.

### EventGrammar and Composer

The state of `EventGrammar` is the list of open constructs, each named by what may
come next. `Composer` makes the recursion of `parse`, `document`, `sequence` and
`mapping` an explicit `stack` of calls and the step each of them waits at. `Peek` is
the call of `yaml_parser_parse` in `peek` or `expect`, `Consume` the second half of
`expect`. A `yamlError` unwinds the stack and keeps the lookahead (`Fail`); `Decode`
may be called again after every outcome, a recovered panic included. `root`, `last`
and `nodes` record what was created when.

### Scanner

The text is the environment: any lexeme may come next, at any column that does not
lie left of the last one or on a later line. `scan_to_next_token`, the unrolling of
indents and the fetcher it dispatches to are one action per kind of lexeme. A fetch
is one action, `FetchMoreTokens` is the end of the loop, when `token_available` is
set, and `SkipToken` is the parser's `skip_token`. Line and index are reduced to
what they decide: a simple key that starts on an earlier line, or more than 1024
characters before, is `far`. Which keys on one line become far is nondeterministic,
the older ones first. `tokens` is the queue from `tokens_head` on; token types that
the scanner treats alike share a name. Left out: comments, token contents, the limits
of 10000 levels, and a second call after a failure.

### Emitter and Encoder

The value that `Encode` is given is the environment: any tree of nodes, each with
any style. The recursion of `marshal` and `node` is the explicit `walk` of steps;
`emit` appends an event to the queue (`Emit`), and `EmitNext` is one turn of the loop
of `yaml_emitter_emit`, which runs while `NeedMoreEvents` says no. A handler of the
emitter is an operator from the emitter to the set of its outcomes: done, refused
(`set_emitter_error`), failed (the writer's error), or an index out of range. A
write is a place where the handler may fail, since the buffer of 128 bytes may be
full at any character. What the handler has done to the stacks by then stays, and
the event stays at the head of the queue. After any outcome the caller may call
`Encode` or `Close` again.

What is abstracted: characters and columns (an indent is named by the height `states`
had when it was chosen), and the choice of a scalar's style. Left out: head, foot
and tail comments, which change no transition except by the commas around them;
directives, the canonical form, anchors and tags the emitter refuses, empty
collections whose anchor and tag are too long for a simple key, document nodes
below the root, and types that `marshal` panics at.

History variables: `calls` and `nodes`, which the bounds need, `broken`, whether a
call has failed inside a document, and `late`, whether a block collection has had a line
comment of its own.

### Decoder

The recursion of `unmarshal` is the explicit `stack` of calls; the operation of a call
is the method that runs, and `ret` is what the call that has just ended gave. The
tree is the environment: a node is `unknown` until the decoder looks at it, and any
kind of node may then be found, with as many children as there is room for. The
type of a value is chosen where it begins to matter: a scalar, a `Node`, an
`Unmarshaler`, one of the obsolete kind, a slice, an interface or map, or a struct. A value is
named by the mapping it was found in, so a filled map (`out`) says for each key who
gave it. Origins are switched on.

A failure (`Fail`) unwinds to the function an obsolete unmarshaler was given, or to
Decode, and restores nothing. The unmarshaler may then return nil, its error, or
call its function again.

An origin entry of a map is one step, with three results: the value is stored
(`MappingOrigin`), the key or the value does not fit (`OriginMismatch`), or one of them
fails (`OriginFails`). The code makes two calls of `unmarshal` for it, but origins hold
scalars and sequences of scalars only: the calls meet neither an alias nor a mapping, so
nothing of the decoder's state is read or changed in between, and what they leave is how
they end and type errors. Below an alias (`Bypass`) the code sets `aliasDepth` to 0 for the
two calls and puts it back behind them, without a `defer`. So a failure there leaves 0. If an
unmarshaler swallows it, the aliases around that unmarshaler still take their one off when
they return, and the depth falls below 0.

What is abstracted: the conversion of scalars (it may succeed, give a type error, or
fail), and the ratio that decides about excessive aliasing: once an alias has been
followed any decode may be refused. A set of merged fields is forgotten when no
call refers to it, which keeps equal states equal. Left out: null, keys that are
not scalars, duplicate keys in the text, inlined fields, and maps with entries
from before; keys of the text that do not fit the type of a map's keys. History
variables: `unmarshalers`, for the bound, and `departed`, which says whether an
unmarshaler has been given an error (`recovered`), whether that error came from an origin
entry below an alias (`zeroed`), and whether one has called its function twice
(`repeated`).

### Reader

A call of `yaml_parser_update_buffer` is a run of steps from `Call` to a return; `pc`
says where it is. A read (`Reads`) delivers any number of bytes that fit, with or
without the end, or an error. A byte of the buffer is named by its character and its
place in it, a byte of the stream by its offset, so a byte that is lost, repeated or
moved shows. `opened` is `len(parser.buffer)`, which the code sets to the capacity
during a call; what lies behind it stays in memory, as in Go. The scanner
calls with any length up to the bound, at any time, and skips any character
that is not NUL. It may go on after a failure, since `yaml_parser_scan_line_comment`
does.

A text has characters of any width, one of the byte order marks or none, and may
be malformed or cut at its end. Left out: which rule a malformed character
breaks, `offset` and the texts of the problems.

### KeyOrder

`Less` is translated case by case; `Take` hands out the keys of the map in any order,
and `Swap` and `Placed` sort them as `sort.Sort` does with so few. A string is a
sequence of codes, and a number one of Go's kinds with a value in halves.

## 3. The runs

`tlc -workers 2 -config <cfg> <module>`; each takes less than three minutes.

| Run | Configuration | States | Shows |
|---|---|---|---|
| `parser_documents` | `YamlParser_documents.cfg` | 258,813 | `TypeOK`, `TagScope`, `AnchorsReported`, `StackSafe`, `MarksMatch`, `FirstTokenAvailable`, `TokensReported`, `Progress`, and refinement of `EventGrammar`: collections two levels deep, two directives per document, one anchor and one named handle |
| `composer_decode` | `MCComposer.cfg` | 326,872 | `TypeOK`, `EventsExpected`, `OutcomeFinal`, `WholeDocument`, `AliasTarget`: streams of up to five nodes, two anchors, any number of calls |
| `scanner_queue` | `Scanner_queue.cfg` | 692,818 | `TypeOK`, `HeadIndexInRange`, `IndexedKeyWaits`, `RequiredKeyResolved`, `BlocksNest`, `LookaheadEnds`: five lexemes, two columns, two flow levels |
| `encoder_calls` | `Encoder_calls.cfg` | 1,727,522 | `TypeOK`, `EncodeComplete`, `FailedForGood`, `IndentsMatch`, `NoEmptyBlock`, `SimpleKeysFit`, `FlowInsideFlow`, `CommentsInPlace`: three calls, three nodes in each value, a failure at any write |
| `decoder_values` | `Decoder_values.cfg` | 1,817,309 | `TypeOK`, `AliasEnteredOnce`, `AliasesExact`, `MergePrecedence`, `OriginOnce`: four collections and aliases, or three and an unmarshaler that calls twice |
| `decoder_returns` | `Decoder_returns.cfg` | 759,110 | `Returns`: the same with sequences of one item |
| `reader_stream` | `Reader_stream.cfg` | 199,770 | `TypeOK`, `WindowIsText`, `LengthAvailable`, `RefusedForFlaw`, `CallReturns`: three characters of up to four bytes, reads of any size, one that fails |
| `key_order` | `MCKeyOrder.cfg` | 1,050,899 | `Ordered`: any three keys, strings of up to three characters |
| `composer_retry` | `MCComposer_retry.cfg` | | violates `NoPanic` |
| `scanner_lost_key` | `Scanner_lost_key.cfg` | | violates `HeadIsNoKey` |
| `encoder_panic` | `Encoder_panic.cfg` | | violates `NoPanic` of `Encoder` |
| `decoder_origin` | `Decoder_origin.cfg` | | violates `OwnOrigin` |

**Bounds.**

- `MaxDepth` limits the height of `states` above which no collection opens. A
  handler reads the top of the stack only; at depth two every kind of collection
  occurs in, and returns to, every other. Depth three was run once and holds too, without
  anchors and named handles (249,292 states). The proofs hold for every depth.
- `MaxDirectives = 2` is the least number with a duplicate and with two different
  directives. Documents follow each other without a bound: the state of the parser
  between two documents is the same as before the first.
- `MaxNodes = 5` allows two documents of a root with a child, or one with a mapping
  in a sequence, an anchor and its alias twice. Without a bound `nodes` grows for
  ever.
- `MaxFetches = 6` (the start of the stream and five lexemes) fits a key that spans
  a flow collection with content in front of its `:`. Seven fetches, and eight in
  one column, were run once and hold too (3.4 million states each, 90 s). A queue
  of three tokens, the lookahead the code asks for, is exceeded in all of them.
- `MaxColumn = 1`: two indents and everything to the right of them (`Beyond`).
- `MaxCalls = 3`: a call that fails, the next, which meets what it left, and one more.
- `MaxNodes = 3` in `Encoder`: a collection, its key and a collection as value, or three
  levels; the lookahead of three events behind a MAPPING-START is filled and
  exceeded. Two calls with four nodes and one with five were run once and hold too.

- `Decoder`: `MaxNodes = 4` fits a mapping that merges a sequence of two aliases or
  mappings, a merge in a merge, an alias below an alias, and a cycle through a merge; one
  key is enough for own, merged and nested values to compete. An unmarshaler takes the
  place of a node. Two calls of its function are the least after which one can find
  what the other has left. `decoder_returns` has `MaxItems = 1`, since the search for cycles
  takes longer: what `Returns` is about, aliases that lead back, needs no second item.
- `Reader`: `RawSize = 4` holds the widest character and nothing else, so that every
  character can be split over reads; `BufferSize = 11` is the least that
  `ReaderConstants` allows, and with 10 `TypeOK` fails. `MaxLength = 2`: a call may find
  one of two characters there. `MaxLength = 3` with `BufferSize = 15` was run once and
  holds too (421,604 states).
- `KeyOrder`: three keys for transitivity; the codes are a character that is neither
  letter nor digit, zero, another digit and a letter, and three of them fit a
  digit in front of a zero in front of another. A second digit other than zero was
  added once and holds too (5.5 million states). `MaxDigits` admits every string of that
  length, and `IntLimit` is small but larger than any run.

**Deadlock** is checked except in `Scanner`, which stops at the end of the stream
and after an error, in `Encoder`, whose caller stops after its last call, in `Decoder`, which
has returned, and in `KeyOrder`, which has sorted all keys. The parser answers every
call, and `Decode` and `update_buffer` may always be called again.

**Fairness.** The library is sequential and does nothing unless it is called, so its
liveness is that each call returns.

- `Decoder` assumes `WF_vars(Next)`: one call of `Decode` is sequential code that goes
  on while it can, and unmarshalers return. Nothing is assumed of the tree; `Returns`
  depends on the decoder's own test for values that contain themselves.
- `Reader` assumes `WF_vars(Update)`, that a call of `update_buffer` goes on, and
  `SF_vars(Productive)`: the `io.Reader` does not return zero bytes without an error for
  ever, which `io.Reader` discourages and the code does not guard against. Calls
  and skips of the scanner are under no fairness.
- Parser, composer, scanner and encoder assume none. `Progress` gives a rank that falls
  with each event that reads no token, so at most three such events come in a row;
  `LookaheadEnds` bounds the number of STREAM-END tokens in the queue, so the lookahead
  loop cannot go on behind the text.

**The violated properties.** Each states what a comment or a document of the code says.

- `NoPanic` (`Composer`): a failed read in `yaml_parser_scan_line_comment` sets `error`
  without failing the call, so `yaml_parser_parse` returns an event with the error set
  (its comment says there are none), and the event stays in the composer's lookahead
  when `peek` fails. A second `Decode` starts at it: at a DOCUMENT-END it panics, at a
  SCALAR it returns it as a value. Without an error of that kind no call panics and
  failures are final (`EventsExpected`, `OutcomeFinal`).
- `HeadIsNoKey`: `yaml_parser_decrease_flow_level` deletes the index entry of the
  level's last key. If the level saved none, its number is that of the opening
  bracket, whose own entry, on the outer level, is deleted. In `{? a}: x` the bracket
  leaves the queue early and the KEY is appended behind the mapping.
- `NoPanic` (`Encoder`): the end of a flow collection pops its indent before it writes
  the bracket. When the write fails, the next call of `Encode` or `Close` pops again,
  and at the root there is nothing left to pop. Failures of other writes are
  final (`FailedForGood`).
- `OwnOrigin`: below an alias, `mapping` decodes origin entries before it looks at the
  merged fields, so the origin of a mapping that is merged through an alias overwrites
  that of the mapping that merges it. In `{a: &x {}, <<: *x}` the root gets the key, line
  and column of `a`.

More differences, which no run states:

- The grammar above the parser lets a block mapping's pair begin with VALUE
  (`parserc.go:54-57`), the code wants KEY.
- `yaml_parser_parse_flow_sequence_entry_mapping_key` skips the token that shows that
  a key is absent, also where that is the end of the sequence: `[? ]`, which the
  grammar allows, is a syntax error (the exception in `TokensReported`).
- The anchors live as long as the Decoder, so an alias may name an anchor of an earlier
  document (`AliasTarget` says so).
- A document node without content, or `Close`, adds so few events to a MAPPING-START that
  a failed call left in the queue that the call returns no error and writes nothing (the
  exception in `FailedForGood`).
- The comment of a key that "is lost" when its value has its own stays in
  `key_line_comment` for a later value. The line comment of a block collection comes with its
  end, which writes none, and goes behind a later node; and in a flow mapping the
  comment of a key in front of a collection makes the emitter write the comma first
  (the exceptions in `CommentsInPlace`).
- An obsolete unmarshaler that swallows an error goes on with a decoder whose alias
  set, alias depth and merged fields are those of the failed call: a later use of an
  alias may be reported to contain itself, and keys may be taken for merged (the
  premises of `AliasesExact` and `MergePrecedence`). One that calls its function twice has
  the origins below its value added twice, which makes the second call fail with
  duplicate keys (the first premise of `OriginOnce`).
- A failure in an origin entry below an alias that an unmarshaler swallows leaves the
  depth too low, down to -1 when the alias around it has returned (`decode.go:627`). The next
  alias then runs at depth 0, and what is below it gets its origins although it is not
  decoded where it stands: a mapping whose origin the first pass has added gets a
  second. Hence the second premise of `OriginOnce`, `zeroed`. TLC finds the property violated
  without it, in 21 steps, with `Keys = {}`, `Structs = {}`, `MaxNodes = 6`, `MaxCalls = 1`
  and one unmarshaler (a sequence of a mapping and a sequence of two aliases, of which one
  leads to the mapping and one to the root); four nodes are too few.
- Runs of digits that overflow an int64 and digits outside ASCII leave keys without a
  consistent order; NaN keys have none.

## 4. The proofs

`tlapm <module>.tla` proves each of the modules below, for all values of the constants
that satisfy the module's assumption (`ParserConstants`, `ScannerConstants`, ...;
`None` is not an anchor): any anchors, handles, keys and types, any bound on depth,
calls, nodes and lexemes. So the bounds of section 3 limit what TLC explores, not what
the theorems say.

| Module | Theorem | Statement |
|---|---|---|
| `YamlParser_proofs` | `TypeCorrect` | `Spec => []TypeOK` |
| | `StackIsSafe` | `Spec => []StackSafe` |
| | `FirstTokenIsAvailable` | `Spec => []FirstTokenAvailable` |
| | `MarksAreMatched` | `Spec => []MarksMatch` |
| | `ParserAdvances` | `Spec => Progress`, an action property |
| | `EventsFollowGrammar` | `Spec => ImplementsEventGrammar` |
| | `TokensAreReported` | `Spec => []TokensReported` |
| | `AnchorsAreReported` | `Spec => []AnchorsReported` |
| | `TagsAreScoped` | `Spec => []TagScope` |
| `Composer_proofs` | `TypeCorrect` | `Spec => []TypeOK` |
| | `EventsAlwaysExpected` | `Spec => []EventsExpected` |
| | `OutcomesAreFinal` | `Spec => []OutcomeFinal` |
| | `AliasesFindTargets` | `Spec => []AliasTarget` |
| | `ValuesAreWhole` | `Spec => []WholeDocument` |
| `Scanner_proofs` | `TypeCorrect` | `Spec => []TypeOK` |
| | `HeadIndexStaysInRange` | `Spec => []HeadIndexInRange` |
| | `IndexedKeysWait` | `Spec => []IndexedKeyWaits` |
| | `BlocksAreNested` | `Spec => []BlocksNest` |
| | `LookaheadIsBounded` | `Spec => []LookaheadEnds` |
| | `RequiredKeysResolved` | `Spec => RequiredKeyResolved`, an action property |
| `Encoder_proofs` | `EncoderTypes` | `Spec => []TypeOK` |
| | `EncodeIsComplete` | `Spec => []EncodeComplete` |
| | `IndentsAlwaysMatch` | `Spec => []IndentsMatch` |
| | `BlocksHoldSomething` | `Spec => []NoEmptyBlock` |
| | `SimpleKeysAreShort` | `Spec => []SimpleKeysFit` |
| | `FlowHoldsFlow` | `Spec => []FlowInsideFlow` |
| | `CommentsStayInPlace` | `Spec => []CommentsInPlace` |
| | `TornForGood` | `Spec => []FailedForGood` |
| `Decoder_proofs` | `AliasesAreEnteredOnce` | `Spec => []AliasEnteredOnce` |
| | `AliasesAreExact` | `Spec => []AliasesExact` |
| | `DecoderTypes` | `Spec => []TypeOK` |
| | `OneOrigin` | `Spec => []OriginOnce` |
| `DecoderMerge_proofs` | `MergesHavePrecedence` | `Spec => []MergePrecedence` |
| `Reader_proofs` | `TypeCorrect` | `Spec => []TypeOK` |
| | `WindowTrue` | `Spec => []WindowIsText` |
| | `LookaheadAvailable` | `Spec => []LengthAvailable` |
| | `OnlyFlawsRefused` | `Spec => []RefusedForFlaw` |
| `KeyOrder_proofs` | `KeysAreOrdered` | `Spec => []Ordered` |

None of the properties is inductive as it stands; for each module the inductive
invariant and the reason for it follow.

**The parser.** `StackSafe` and `MarksMatch` speak of the current state only, and a
handler that pops needs to know what the popped state is and whether its mark is
there; a first state needs its token. The inductive invariant `Core` is the types
together with, while no error is set, `Good(state, states, marks, token)`:

- `Inside(stk)`: the document's DOCUMENT-END at the bottom, return states above;
- `Fits(s, mk)`: `mk` ascends and lists the levels of `s` that own a mark, for the
  stack with the current state on top;
- a first state has its collection's start token at the head.

The lemmas go from the data up. `FitsOpen`, `FitsReplace`, `FitsUnmarked` and
`FitsClose` say what each way of changing the stack does to `Fits`; `InsidePush` and
`InsidePop` the same for `Inside`; `TokenFacts`, `FetchFacts` and `PeekFacts` what
may stand at the head. `ReturnCore` and `RaiseCore` reduce a step to these; one
lemma per handler (`ParseNodeCore`, `CloseCollectionCore`, ...) uses them;
`NextCore` combines the handlers and `SpecCore` concludes. `TagsOK` is a second,
independent invariant for the tag directives and the history variables, used by
`TypeCorrect`.

`Progress` needs to know what lies below: the root of a document and an indentless sequence
may return to the state under them without reading a token, so that state must be of lower
rank. `Grounded` says so of the whole stack; the other states that return unread go to
a fixed state of lower rank, and a node that reads nothing starts a collection, whose first
state has the lowest.

**The refinement of the event grammar.** `Constructs(s)` maps each state of the stack,
with the current one on top, to the construct it continues. `ReturnEmits` says that a
handler that returns is `Emit` of the grammar if it replaces the innermost construct by
what the grammar allows; `LeafFollows` and `StartFollows` reduce nodes to
that, and one lemma per handler shows that, in a state of `Core`, a call is a step of
the grammar. The same lemmas carry `Accounted` and `Anchored`, what a call's event says
of the tokens in `read`, which is why the two reporting properties are proved here.
`TagScope` needs, besides `TagsOK`, that the handles do not change while a document is
open (`Stays`).

**The composer.** The grammar's open constructs (`frames`) and the composer's active
calls (`stack`) describe one position in the text in two ways. `Coupled` relates them:
`Placed` gives each construct the call that parses it, where a pair in a flow sequence
is one construct but two calls (the mapping, and the sequence it is an entry of). The
event that was peeked at and not consumed lies between the two: `Expected` says that the
calls can consume it, and `Synced` lists where a call of Decode, or what the last one left
behind, can stand. `Final` says what each outcome leaves. `InStep`, their conjunction with
the types, gives `EventsExpected` and `OutcomeFinal`. `AliasTarget` follows from the
invariant `AnchorTable`, that each anchor is known with its latest node. `WholeDocument`
needs `Building`, about the tree under construction: the nodes since the start of the
document are numbered in the order of the text, each is a child of exactly one
node or is being parsed, and a mapping whose call waits for a key has an even number of
children.

**The scanner.** The properties speak of keys the scanner can still use; what keeps them
true is what happens to those it cannot. `Inv` consists of the types and

- `KeysInOrder`: one key per level, numbered upwards, far ones first, none ahead of the queue;
- `IndexLeads`: an entry of the index leads to an existing level, and inside brackets to a
  key of that number; a possible key is led back to;
- `KeyInQueue`: an indexed key that is possible and not far is still in the queue, and its
  number names its token;
- `StaleKeysPass`: an entry of a key that was struck off its level stays in the index.
  Such a key is far, and no other key takes its level before there are enough tokens behind
  its own to hand that one out, after which the entry is never looked at;
- `Within`, `Nesting`, `AtEnd`: positions, the balance of block collections at every
  place of the queue (`Depth`) and what follows the end of the text.

`BlocksNest` is about a queue into which BLOCK-MAPPING-START is inserted far from its end;
`DepthInsert` says what this does to the balance at every later place. A lemma per
part of a fetch (stale keys, unrolling, saving a key, flow levels, the insertion of a key)
says what it leaves of `Inv`, and one per kind of lexeme combines them.
`RequiredKeyResolved`, an action property, is carried along as `Resolved`.

**The encoder.** `Inv` is the types, which hold behind any failure, and `Regular`, which
holds while `broken` is false. `Regular` says that the stacks, the queue and the walk
belong together:

- `Framed`: the indents and the flow level are those of the levels of `states`, and the flow
  collections are the innermost (`Stacked`); between a start and its first item the
  collection's own indent is still missing (`Awaits`);
- `Path`: the events in the queue lead from the height of the emitter to the height of
  the walk, each changing it by what it opens or closes. So the head of the queue is an event
  the state expects, and when the walk is over and the emitter waits for more, nothing is
  left in the queue (`NothingWaits`, the heart of `EncodeComplete`);
- `Queued`: behind a start, an end is its own, and only the last event lies outside
  of a document. If the last event is a start, the walk has come to its first item (`Fresh`);
- `Simple`, `Filled`, `Tidy`: the three properties about lookahead and comments.
  They are inductive because of the lookahead: a start is handed out only when the event
  behind it is there (`StartLooksAhead`);
- `Stage`: the start of the stream precedes everything, and the buffer is empty between
  documents.

One failure that is not counted as `broken` leaves a state that is not `Regular`: a
document without content whose DOCUMENT-END fails in the state that expects the content.
The handler pushes DOCUMENT-END again at each attempt; `Stuck` describes it, and
`ContentFails` shows that the emitter never gets past it. Three layers of lemmas lead to
the invariant: `...Fit` (every outcome of a handler is well-typed and keeps the queue),
`...Done` (what a handler that succeeds does to the stacks), and `FlowMoved`, `BlockMoved`,
`PlainNext`, `OutsideDone` (what that does to the parts of `Regular`).

`FailedForGood` is about everything else that a failed call may leave, where nothing of
`Regular` need hold. What holds instead, `Lost`, is about the end of the torn document: the
emitter never gets past it. `Torn` says of the emitter that

- its state refuses the event at the head of the queue, for ever (`Dead`), or
- the start of the document has not been written yet (`Entering`), or
- it is inside of a document, and every DOCUMENT-END in the queue is `Sealed`: an event
  stands before it that is refused inside of a document.

From inside, no attempt at an event leads out but by DOCUMENT-END (`AttemptWithin`, with a
lemma `...Within` per handler, which must hold for any stacks). A DOCUMENT-END that
was added before the failure does not get through either: it comes to an empty queue or
directly behind the document's start (`Alone`), so it cannot wait behind an event that has
failed. A later call begins with an event that is refused there, DOCUMENT-START or
STREAM-END, and adds its others behind it (`Marked`). It therefore fails when that
event gets to the head, if not before; `nodes` counts the events behind it, and they are
too few only in the case that the property excepts. One failure does no harm, that
of the flush behind a whole document, and `broken` does not count it.

**The decoder.** `AliasEnteredOnce` is not inductive: an alias that is being decoded must
be known to be in `aliases`, which a failure that an unmarshaler has swallowed might
have changed. The inductive invariant `AliasInv` adds `AliasesKnown` (the aliases being
decoded are in the set, which may hold more), `Covered` (the depth counts them, and may
count more, unless an origin entry has left it `zeroed`), `Idle` (nothing is being decoded outside a call) and `Calls` (the shape of the stack; in particular the call of `merge` lies on that
of its mapping, so that the two return together without passing over an alias). Each step
either leaves the aliases of the stack as they are (`Same`, by `SameStep`), enters one
(`EnterStep`), leaves the innermost (`LeaveStep`), or unwinds to a prefix (`FailStep`).

The decoder's `TypeOK` says that `aliases` holds nodes that exist and `mergedFields` a set
that exists; of the depth, which may fall below 0, it says no more than that it is a number.
Behind it is `TypeInv`: whatever a node names
is in the tree (`Tree`), and what a call names exists and is of the kind the call was made
for (`FrameOK`). The tree only grows, and the kind of a node stays once it is known
(`Grows`). The sets of merged fields do not only grow: a merge that made its set drops it,
and with it those that unwound merges have left behind. So `FramesOK` says of
such a merge that the calls around it name earlier sets only; they were there before it.
`MappingOK`, about a mapping built entry by entry, is an induction over the slots (`Induction`).

`OriginOnce` is about the whole of a call of Decode: a mapping gets its origin when it is
decoded where it stands, not when it is decoded again through an alias, and is decoded
there once. The code keeps no record of that. The invariant `OriginInv` claims that there
is a set of nodes, those that nobody has decoded where they stand, which satisfies `Good`:

- `OnePlace`: a node stands in one place of the tree;
- `Origins`: no mapping has two origins;
- `Fresh`: the nodes of the set have no origin and hold only nodes of the set; what the calls
  outside any alias (`Direct`) still wait for (`Waits`) is in the set, and no place is
  waited for by two of them, which matters where a call of `merge` lies on the call of
  its mapping and both are about the same node.

A node that is looked at for the first time joins the set (`KnownGood`), a call made on
a node in no alias takes it out (`VisitGood`, `HandGood`), and the others wait for less
(`FreshGoesOn`), for nothing new behind a return or a failure (`FreshUnwinds`), or are
inside an alias (`FreshIndirect`), where no origin is added. That an unmarshaler calls its
function once is what the first premise of `OriginOnce` says, and where the proof needs it.
The second is needed where an origin is added at depth 0: `Covered` must tell that no alias
is being decoded then, so that the call stands in no alias (`Direct`).

`MergePrecedence` compares a map that has been filled with `Lineage`, the flattened chain of
merges. The code never computes that chain: it fills the map on the way through it, in a tree
that is still being met, and each call knows only its node, the map's owner and one set of
keys. The invariant `MergeInv` claims that there are two things the code does not store,
`Merging(b, c)`:

- a book `b` of the mappings whose merges have all been looked at, with the line of mappings
  each of them merges. `Settled` says that a line is the mapping followed by the lines of its
  sources, and that every source has a lower rank. That is what makes the chain finite
  (a merge that led back to itself would be an alias entered twice, and never gets into the
  book), and by induction over the rank the line is `Lineage` (`LineageBook`);
- a context `c` for each call on the stack: the map it fills, the set it uses, the mapping it
  is made for, and the line of the mappings that have been filled in before it.

`Done` says of a map what it holds so far (`Filling`: each key comes from the first mapping
of the line that has it, and, without an error that stays, none is missing), and of the set
of merged fields that it has the keys of the line (`Marks`). It holds for the innermost call
(`TopTip`) and for each call that waits for a value (`Callers`); the calls in
between are merges into the same map (`Inner`), and no two maps share a set (`Nested`), so that
what is remembered of a key disturbs no call around (`RememberFacts`). What
has been merged stays when the tree grows (`MergeGrown`), because a mapping that is learned
keeps its entries and gets at most an origin (`Extends`). A lemma per action follows: a key adds
itself to what is done (`FillingPuts`), the end of a merged mapping enters it into the
book (`MergeBooked`) and adds its line to the map's (`LineMore`), and a failure that no
unmarshaler is told of ends the decode (`FailMerges`). One that an unmarshaler is told of
may come from the middle of a merge, and the code does not put `mergedFields` back then:
hence the premise `departed = {}` of the property and of the invariant.

**The reader.** `Inv` follows a byte from the stream to the window the scanner looks at:

- `Position`: the raw buffer is a stretch of the stream behind which nothing was read, and
  what is not decoded of it begins where the next character does. So no byte is lost or
  read twice, and the next character is the one after those that have `Arrived`;
- `Window` and `Fits`: the unread part of the buffer, whose length is a local variable
  during a call (`Length`), is the arrived characters that were not skipped, then NULs;
- `Room`: the buffer is large enough. Two bytes of the stream become three at most, so
  `2 * buffer_len + 3 * RawUnread` does not grow while characters are decoded; it is
  bounded by what a call may find unread, `MaxLength - 1` characters, and a full raw
  buffer. This is where the assumption about `BufferSize` is needed, which is why that
  assumption is as it is;
- `Stuck`: a flawed character of which enough has arrived stays flawed. Behind a
  failure of that kind the length of the buffer means nothing, since the code does not
  cut it; the invariant says so instead of claiming otherwise, and every later call that
  needs another character fails again;
- `Fresh` and `Answer`: what holds before the encoding is known and behind a call.

Offsets are sums of widths. `Sums` is a recursive function, and the lemmas about it
(`SumsDef`, `SumsStep`, `SumsSpread`) are proved by induction in the form `Induction`: a
*set* that holds 0 and the successors of its members holds all numbers, which follows
from the minimum of a well-founded relation and needs no operator as a parameter.
`PositionStep` and `WindowStep` say what a step that decodes nothing leaves alone, `AtNext`
and `BeforeFlaw` what the next character is, and one lemma per action combines them.

**The order of keys.** That `Less` is an order is shown place by place. `Before` compares two
strings at one place by what is there: the end, then letters or other characters, then the
run of digits by value, length and first character (`RunBefore`). The value counts what
stands in front of the run (`Start`), although the code counts it only where one of the
characters is zero: `CarryAgrees` shows that this makes no difference, since of two runs
that begin with another digit the longer is greater either way. `SplitLess` says that
`Less` is `Before` at the first place in which two strings differ, and
`LaterDifference` that a later difference never turns an earlier place around:
where the place is inside a run of digits, the rest of the run is compared as the run
is, with what stands in front multiplied by a power of ten (`ValuesSplit`, `RunsGoOn`). From
these follows `StringsTransitive`, by where the first of three strings leaves the other two.
`ValuesStep` shows that the variables for the values do not overflow, which is where
the assumption about `MaxDigits` is needed: a digit that counts in front belongs to the same
run, so there is one digit less behind it. `MaxChars` bounds nothing here: the keys may have any
length. The invariant of sorting, `SortInv`, is then short.

**Only model-checked:** liveness (`Returns`, `CallReturns`), which is out of the prover's
reach.

## 5. Not modelled

Head and foot comments, on both sides, are planned (section 6). The conversion of
scalars into Go's types, tag resolution and inlined struct fields are case tables over
characters and types, without state. The struct field cache stores a function
of the type under a lock. The object constructors only initialise records.

## 6. Plan

In this order; the most important behaviour comes first.

1. `ScannerParser`: `Scanner` as the token source of `YamlParser`, with `EventGrammar`
   as the promise of both; does a lost key ever reach the composer as a document?
2. `Comments`: head, line and foot comments from the queue to the nodes; each comment
   at most once, none lost; the same on the emitter's side, with head, foot and tail
   comments.
3. `Composer` as the source of `Decoder`'s trees, with a Decoder called again.

Each with its theorems; of the properties above, all but liveness are proved.
