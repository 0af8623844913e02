------------------------------- MODULE Reader -------------------------------
(***************************************************************************)
(* The reader of readerc.go: the bytes of an io.Reader are read into the    *)
(* raw buffer, decoded character by character into the buffer the scanner   *)
(* looks at, and marked by unread.                                         *)
(*                                                                         *)
(* The environment is the reader, which may deliver any number of bytes a   *)
(* call, with data and the end together or apart, and fail and go on; and   *)
(* the scanner, which asks for characters, skips them, and may ask again    *)
(* after a failure, as the search for a line comment does.                  *)
(*                                                                         *)
(* A byte of the stream is its offset, a byte of the buffer is <<c, k>>,    *)
(* byte k of character c.  A character is its width in UTF-8.  Only the     *)
(* last character of a text can be flawed: nothing behind it is decoded.    *)
(* Left out: the test of the read handler, offset and problem, and which of *)
(* the rules of the encoding a malformed character breaks.                  *)
(***************************************************************************)
EXTENDS Integers, Sequences

CONSTANTS
  RawSize,      \* input_raw_buffer_size
  BufferSize,   \* input_buffer_size
  Widths,       \* widths of the characters of a text, in UTF-8
  MaxChars,     \* bound: characters of a text
  MaxLength,    \* bound: characters the scanner asks for
  MaxFailures   \* bound: reads that fail

\* The sizes are 512 and 3 * 512.  The scanner asks for 8 characters at most where
\* they may be wide (the digits of an escape), and for up to 512 when all that is
\* unread is blanks and line breaks.
ASSUME ReaderConstants ==
  /\ Widths \subseteq 1..4
  /\ {MaxChars, MaxLength, MaxFailures} \subseteq Nat
  /\ RawSize \in Nat /\ RawSize >= 4
  /\ BufferSize \in Nat
  /\ BufferSize >= 4 * (MaxLength - 1) + RawSize + RawSize \div 2 + 1

VARIABLES
  source,      \* the stream: [bom, widths, flaw]
  delivered,   \* bytes the io.Reader has handed out
  failures,    \* reads that have failed
  raw,         \* parser.raw_buffer
  raw_buffer_pos,
  eof,
  encoding,    \* "any" until it is determined
  buffer,      \* the array below parser.buffer
  opened,      \* len(parser.buffer)
  buffer_pos,
  unread,
  error,       \* "none", "input" or "decode"
  pc,          \* "idle", or where in update_buffer: "encoding", "fill" or "decode"
  requested,   \* length of the last call
  first,
  buffer_len,  \* the local variable of a call
  result,      \* of the last call, until the scanner skips: "none", "ok" or "failed"
  taken        \* history: characters skipped

vars == <<source, delivered, failures, raw, raw_buffer_pos, eof, encoding, buffer, opened,
          buffer_pos, unread, error, pc, requested, first, buffer_len, result, taken>>
rawSide == <<delivered, failures, raw, raw_buffer_pos, eof, encoding>>
bufferSide == <<buffer, opened, buffer_pos, unread>>
locals == <<first, buffer_len>>
caller == <<source, requested, taken>>

-----------------------------------------------------------------------------
(* The stream                                                                *)

\* What the first n of some sizes come to.
Sums(sizes) ==
  LET sum[n \in 0..Len(sizes)] == IF n = 0 THEN 0 ELSE sum[n - 1] + sizes[n] IN sum

BomWidth == CASE source.bom = "none" -> 0 [] source.bom = "utf8" -> 3 [] source.bom = "utf16" -> 2
Encoding == IF source.bom = "utf16" THEN "utf16" ELSE "utf8"
Chars == DOMAIN source.widths

\* Bytes of a character in the stream; its first one.
RawWidth(c, enc) ==
  IF enc = "utf8" THEN source.widths[c] ELSE IF source.widths[c] = 4 THEN 4 ELSE 2
StartOf(c) == BomWidth + 1 + Sums([b \in Chars |-> RawWidth(b, Encoding)])[c - 1]
\* A cut text ends inside its last character.
StreamSize == StartOf(Len(source.widths) + 1) - 1 - (IF source.flaw = "cut" THEN 1 ELSE 0)

CharAt(byte) == CHOOSE c \in Chars : StartOf(c) <= byte /\ byte < StartOf(c) + RawWidth(c, Encoding)
Malformed(c) == source.flaw = "malformed" /\ c = Len(source.widths)

\* Bytes of the first c characters in UTF-8.
Offset(c) == Sums(source.widths)[c]

Nul == <<0, 0>>
BytesOf(c) == [k \in 1..source.widths[c] |-> <<c, k>>]

-----------------------------------------------------------------------------
(* yaml_parser_update_raw_buffer                                             *)

RawUnread == Len(raw) - raw_buffer_pos
NothingToRead == eof \/ (raw_buffer_pos = 0 /\ Len(raw) = RawSize)

\* Mutant: what is left in the raw buffer is dropped.
RemainingNone(bytes) == <<>>
\* The bytes not decoded yet are moved to the beginning.
Remaining(bytes) == SubSeq(bytes, raw_buffer_pos + 1, Len(bytes))

\* A call of the read handler that ends with err.
Reads(err) ==
  \E n \in 0..RawSize - RawUnread :
    /\ delivered + n <= StreamSize
    /\ err = "EOF" => delivered + n = StreamSize
    /\ raw' = Remaining(raw) \o [i \in 1..n |-> delivered + i]
    /\ raw_buffer_pos' = 0
    /\ delivered' = delivered + n
    /\ eof' = (err = "EOF")

-----------------------------------------------------------------------------
(* yaml_parser_update_buffer                                                 *)

Return(r) ==
  /\ pc' = "idle"
  /\ result' = r
  /\ first' = TRUE /\ buffer_len' = 0

\* Mutant: buffer_pos keeps its value.
MovedKeepsPos ==
  /\ buffer' = [i \in 1..BufferSize |->
                  IF i + buffer_pos <= opened THEN buffer[i + buffer_pos] ELSE buffer[i]]
  /\ buffer_len' = opened - buffer_pos
  /\ UNCHANGED buffer_pos
\* The unread characters go to the beginning of the buffer, which is then opened.
Moved ==
  IF 0 < buffer_pos /\ buffer_pos < opened
    THEN /\ buffer' = [i \in 1..BufferSize |->
                         IF i + buffer_pos <= opened THEN buffer[i + buffer_pos] ELSE buffer[i]]
         /\ buffer_len' = opened - buffer_pos
         /\ buffer_pos' = 0
    ELSE /\ buffer_len' = IF buffer_pos = opened THEN 0 ELSE opened
         /\ buffer_pos' = IF buffer_pos = opened THEN 0 ELSE buffer_pos
         /\ UNCHANGED buffer
Opens ==
  /\ Moved
  /\ opened' = BufferSize
  /\ pc' = "fill"
  /\ UNCHANGED <<unread, first>>

Call ==
  /\ pc = "idle"
  /\ \E length \in 1..MaxLength :
       /\ requested' = length
       /\ \/ unread >= length /\ Return("ok") /\ UNCHANGED bufferSide
          \/ /\ unread < length /\ encoding = "any"
             /\ pc' = "encoding"
             /\ result' = "none"
             /\ UNCHANGED <<bufferSide, locals>>
          \/ unread < length /\ encoding # "any" /\ Opens /\ result' = "none"
  /\ UNCHANGED <<source, rawSide, error, taken>>

\* yaml_parser_determine_encoding
EnoughForBom == eof \/ RawUnread >= 3

ReadForEncoding ==
  /\ pc = "encoding" /\ ~EnoughForBom
  /\ Reads("nil") \/ Reads("EOF")
  /\ UNCHANGED <<caller, failures, encoding, bufferSide, locals, error, pc, result>>

DetermineEncoding ==
  /\ pc = "encoding" /\ EnoughForBom
  /\ LET bom == IF RawUnread >= BomWidth THEN BomWidth ELSE 0 IN
     /\ encoding' = IF bom = 0 THEN "utf8" ELSE Encoding
     /\ raw_buffer_pos' = raw_buffer_pos + bom
  /\ Opens
  /\ UNCHANGED <<caller, delivered, failures, raw, eof, error, result>>

\* The outer loop
Fills == pc = "fill" /\ unread < requested
Full == first /\ RawUnread > 0

ReadMore ==
  /\ Fills /\ ~Full /\ ~NothingToRead
  /\ Reads("nil") \/ Reads("EOF")
  /\ first' = FALSE
  /\ pc' = "decode"
  /\ UNCHANGED <<caller, failures, encoding, bufferSide, buffer_len, error, result>>

ReadNothing ==
  /\ Fills /\ (Full \/ NothingToRead)
  /\ first' = FALSE
  /\ pc' = "decode"
  /\ UNCHANGED <<caller, rawSide, bufferSide, buffer_len, error, result>>

\* In the outer loop the buffer is cut to what has been decoded.
ReadFails ==
  /\ (pc = "encoding" /\ ~EnoughForBom) \/ (Fills /\ ~Full /\ ~NothingToRead)
  /\ failures < MaxFailures
  /\ failures' = failures + 1
  /\ Reads("failed")
  /\ error' = "input"
  /\ opened' = IF pc = "fill" THEN buffer_len ELSE opened
  /\ Return("failed")
  /\ UNCHANGED <<caller, encoding, buffer, buffer_pos, unread>>

\* The inner loop
NextChar == CharAt(raw[raw_buffer_pos + 1])
AtChar == pc = "decode" /\ RawUnread > 0

\* Mutant: a character split over two reads is an error.
IncompleteIsError(whole) == TRUE
\* Whether an incomplete character is an error: only at the end.
IncompleteFails(whole) == eof

DecodeChar ==
  /\ AtChar /\ RawUnread >= RawWidth(NextChar, encoding) /\ ~Malformed(NextChar)
  /\ raw_buffer_pos' = raw_buffer_pos + RawWidth(NextChar, encoding)
  /\ buffer' = [i \in 1..BufferSize |->
                  IF i - buffer_len \in DOMAIN BytesOf(NextChar) THEN BytesOf(NextChar)[i - buffer_len] ELSE buffer[i]]
  /\ buffer_len' = buffer_len + source.widths[NextChar]
  /\ unread' = unread + 1
  /\ UNCHANGED <<caller, delivered, failures, raw, eof, encoding, opened, buffer_pos, error, pc, first, result>>

\* The buffer is not cut.
DecodeFails ==
  /\ AtChar
  /\ IF RawUnread < RawWidth(NextChar, encoding) THEN IncompleteFails(RawUnread) ELSE Malformed(NextChar)
  /\ error' = "decode"
  /\ Return("failed")
  /\ UNCHANGED <<caller, rawSide, bufferSide>>

\* The inner loop ends; at the end of the stream the outer one as well, behind a NUL.
Decoded == pc = "decode" /\ (RawUnread > 0 =>
             RawUnread < RawWidth(NextChar, encoding) /\ ~IncompleteFails(RawUnread))

DecodeMore ==
  /\ Decoded /\ ~eof
  /\ pc' = "fill"
  /\ UNCHANGED <<caller, rawSide, bufferSide, locals, error, result>>

\* Mutant: the buffer is not filled up.
PaddedNot(length) == length
\* The length of the buffer when it is filled up with NULs.
Padded(length) == IF length < requested THEN requested ELSE length

\* nuls: put at the end of the stream.
ReturnsOk(nuls) ==
  /\ buffer' = [i \in 1..BufferSize |->
                  IF i \in buffer_len + 1..Padded(buffer_len + nuls) THEN Nul ELSE buffer[i]]
  /\ opened' = Padded(buffer_len + nuls)
  /\ unread' = unread + nuls
  /\ Return("ok")
  /\ UNCHANGED <<caller, rawSide, buffer_pos, error>>

Finish == pc = "fill" /\ unread >= requested /\ ReturnsOk(0)

\* Mutant: the outer loop goes on.
FinishAtEndLoops ==
  /\ Decoded /\ eof
  /\ pc' = "fill"
  /\ UNCHANGED <<caller, rawSide, bufferSide, locals, error, result>>
FinishAtEnd == Decoded /\ eof /\ ReturnsOk(1)

-----------------------------------------------------------------------------
\* skip and read of scannerc.go: the scanner never skips the NUL.
Skip ==
  /\ pc = "idle" /\ unread > 0 /\ buffer[buffer_pos + 1] # Nul
  /\ buffer_pos' = buffer_pos + source.widths[buffer[buffer_pos + 1][1]]
  /\ unread' = unread - 1
  /\ taken' = taken + 1
  /\ result' = "none"
  /\ UNCHANGED <<source, rawSide, buffer, opened, locals, error, pc, requested>>

Sources ==
  LET texts == UNION {[1..n -> Widths] : n \in 0..MaxChars}
      flaws(text, bom) ==
        {"none"} \cup (IF text = <<>> THEN {} ELSE {"malformed"})
                 \cup (IF text # <<>> /\ (bom = "utf16" \/ text[Len(text)] > 1) THEN {"cut"} ELSE {})
  IN UNION {{[bom |-> bom, widths |-> text, flaw |-> flaw] : flaw \in flaws(text, bom)} :
            text \in texts, bom \in {"none", "utf8", "utf16"}}

Init ==
  /\ source \in Sources
  /\ delivered = 0 /\ failures = 0
  /\ raw = <<>> /\ raw_buffer_pos = 0 /\ eof = FALSE /\ encoding = "any"
  /\ buffer = [i \in 1..BufferSize |-> Nul]
  /\ opened = 0 /\ buffer_pos = 0 /\ unread = 0 /\ buffer_len = 0
  /\ error = "none" /\ pc = "idle" /\ requested = 0 /\ first = TRUE
  /\ result = "none" /\ taken = 0

\* The steps of update_buffer.
Update ==
  \/ ReadForEncoding \/ DetermineEncoding
  \/ ReadMore \/ ReadNothing \/ ReadFails
  \/ DecodeChar \/ DecodeFails \/ DecodeMore
  \/ Finish \/ FinishAtEnd

Next == Call \/ Skip \/ Update

\* A read that brings something.
Productive == (ReadForEncoding \/ ReadMore) /\ (delivered' > delivered \/ eof')

\* update_buffer is sequential code, and an io.Reader does not return nothing and no
\* error for ever.
Fairness == WF_vars(Update) /\ SF_vars(Productive)
Spec == Init /\ [][Next]_vars /\ Fairness

-----------------------------------------------------------------------------
(* Properties                                                                *)

\* In particular, what is decoded fits into the buffers.
TypeOK ==
  /\ delivered \in 0..StreamSize /\ failures \in 0..MaxFailures
  /\ raw \in Seq(1..StreamSize) /\ Len(raw) <= RawSize
  /\ raw_buffer_pos \in 0..Len(raw)
  /\ eof \in BOOLEAN /\ encoding \in {"any", "utf8", "utf16"}
  /\ opened \in 0..BufferSize /\ buffer_len \in 0..BufferSize
  /\ buffer_pos \in 0..opened
  /\ unread \in Nat /\ requested \in 0..MaxLength
  /\ error \in {"none", "input", "decode"}
  /\ pc \in {"idle", "encoding", "fill", "decode"} /\ first \in BOOLEAN
  /\ result \in {"none", "ok", "failed"}
  /\ taken \in Nat

\* The characters before a flaw.
WellFormed == IF source.flaw = "none" THEN Len(source.widths) ELSE Len(source.widths) - 1
\* The last character of them that is unread, or has been skipped; the others that
\* are unread are NULs.
Arrived == IF taken + unread <= WellFormed THEN taken + unread ELSE WellFormed
\* Bytes of the characters from the first unread one to c.
BytesTo(c) == Offset(c) - Offset(taken)

\* What the scanner sees is the text: however the bytes arrive, across reads that
\* split a character or a byte order mark and reads that fail, the unread part of
\* the buffer is what follows the characters skipped, none lost, none twice; NULs
\* stand behind the last character, and behind a text that is well-formed only.
WindowIsText ==
  /\ \A c \in taken + 1..Arrived : \A k \in DOMAIN BytesOf(c) :
       buffer[buffer_pos + BytesTo(c - 1) + k] = BytesOf(c)[k]
  /\ \A i \in 1..taken + unread - Arrived :
       buffer[buffer_pos + BytesTo(WellFormed) + i] = Nul /\ source.flaw = "none"

\* "To return true, we need to have the given length in the buffer": after a call
\* that succeeds the scanner may look at length bytes without reading past the
\* buffer, and those behind the text are NUL.
LengthAvailable ==
  result = "ok" =>
    /\ buffer_pos + requested <= opened
    /\ \A i \in BytesTo(WellFormed) + 1..requested : buffer[buffer_pos + i] = Nul

\* A text is refused for a flaw it has, once all before the flaw has been handed
\* out or waits to be, and for no other reason: a character that has not arrived
\* yet, in whatever pieces it comes, is none.
RefusedForFlaw ==
  error = "decode" => source.flaw # "none" /\ taken + unread = WellFormed

\* A call returns, at the end of the stream too.
CallReturns == pc # "idle" ~> pc = "idle"
=============================================================================
