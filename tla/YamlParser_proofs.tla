-------------------------- MODULE YamlParser_proofs --------------------------
(***************************************************************************)
(* Proofs about YamlParser, for any anchors, tag handles and bounds.        *)
(*                                                                         *)
(* The stack and the current state are read as one sequence, the innermost  *)
(* construct last: every handler replaces its last element, pushes one more *)
(* behind it, or drops it.  The inductive invariant says what that sequence *)
(* looks like and that the marks are those of its marked levels.            *)
(*                                                                         *)
(* The same sequence is the list of open constructs of EventGrammar: a      *)
(* handler that returns an event replaces the innermost construct, as a     *)
(* step of the grammar does, and one that fails takes them all away.        *)
(***************************************************************************)
EXTENDS YamlParser, SequenceTheorems, TLAPS

-----------------------------------------------------------------------------
(* Sequences                                                                 *)

\* What the top and the rest of a non-empty stack are.
LEMMA PopProperties ==
  ASSUME NEW S, NEW s \in Seq(S), s # <<>>
  PROVE  /\ Pop(s) \in Seq(S) /\ Len(Pop(s)) = Len(s) - 1 /\ Len(s) \in Nat \ {0}
         /\ \A i \in 1..Len(s) - 1 : Pop(s)[i] = s[i]
         /\ Top(s) \in S
         /\ s = Append(Pop(s), Top(s))
<1>1. Len(s) \in Nat \ {0}
  OBVIOUS
<1>2. Top(s) \in S
  BY <1>1 DEF Top
<1>3. /\ Pop(s) \in Seq(S) /\ Len(Pop(s)) = Len(s) - 1
      /\ \A i \in 1..Len(s) - 1 : Pop(s)[i] = s[i]
  <2>1. \A i \in 1..Len(s) - 1 : s[i] \in S
    BY <1>1
  <2>2. /\ SubSeq(s, 1, Len(s) - 1) \in Seq(S)
        /\ Len(SubSeq(s, 1, Len(s) - 1)) = Len(s) - 1
    <3> DEFINE n == Len(s) - 1
    <3>1. 1 \in Int /\ n \in Int /\ n \in Nat
      BY <1>1
    <3>2. \A i \in 1..n : s[i] \in S
      BY <2>1
    <3>. HIDE DEF n
    <3>3. /\ SubSeq(s, 1, n) \in Seq(S)
          /\ Len(SubSeq(s, 1, n)) = IF 1 <= n THEN n - 1 + 1 ELSE 0
      BY <3>1, <3>2, SubSeqProperties
    <3>4. Len(SubSeq(s, 1, n)) = n
      BY <3>1, <3>3
    <3>. QED
      BY <3>3, <3>4 DEF n
  <2>3. \A i \in 1..Len(s) - 1 : SubSeq(s, 1, Len(s) - 1)[i] = s[i]
    BY <1>1, <2>1
  <2>. QED
    BY <2>2, <2>3 DEF Pop
<1>4. s = Append(Pop(s), Top(s))
  <2>1. Append(Pop(s), Top(s)) \in Seq(S) /\ Len(Append(Pop(s), Top(s))) = Len(s)
    BY <1>1, <1>2, <1>3
  <2>2. \A i \in 1..Len(s) : Append(Pop(s), Top(s))[i] = s[i]
    BY <1>1, <1>2, <1>3 DEF Top
  <2>. QED
    BY <2>1, <2>2
<1>. QED
  BY <1>1, <1>2, <1>3, <1>4

\* Popping undoes pushing.
LEMMA PushPop ==
  ASSUME NEW S, NEW s \in Seq(S), NEW x \in S
  PROVE  /\ Append(s, x) \in Seq(S) /\ Append(s, x) # <<>>
         /\ Top(Append(s, x)) = x /\ Pop(Append(s, x)) = s
         /\ Len(Append(s, x)) = Len(s) + 1 /\ Len(s) \in Nat
         /\ \A i \in 1..Len(s) : Append(s, x)[i] = s[i]
         /\ Append(s, x)[Len(s) + 1] = x
BY DEF Pop, Top

-----------------------------------------------------------------------------
(* Marks                                                                     *)

\* mk holds the levels of the marked states of s, in order.
Fits(s, mk) ==
  /\ mk \in Seq(Nat)
  /\ \A i, j \in DOMAIN mk : i < j => mk[i] < mk[j]
  /\ \A i \in DOMAIN mk : mk[i] \in 1..Len(s) /\ s[mk[i]] \in MarkedStates
  /\ \A l \in 1..Len(s) : s[l] \in MarkedStates => \E i \in DOMAIN mk : mk[i] = l

\* A state without a mark comes and goes without one.
LEMMA FitsUnmarked ==
  ASSUME NEW s \in Seq(ParserStates), NEW x \in ParserStates, x \notin MarkedStates, NEW mk
  PROVE  Fits(Append(s, x), mk) <=> Fits(s, mk)
BY DEF Fits

\* A marked state is entered with its level as its mark.
LEMMA FitsOpen ==
  ASSUME NEW s \in Seq(ParserStates), NEW x \in MarkedStates, NEW mk, Fits(s, mk)
  PROVE  Fits(Append(s, x), Append(mk, Len(s) + 1))
<1> DEFINE t == Append(s, x)
           nk == Append(mk, Len(s) + 1)
<1>1. /\ mk \in Seq(Nat) /\ Len(mk) \in Nat /\ Len(s) \in Nat
      /\ nk \in Seq(Nat) /\ Len(nk) = Len(mk) + 1
      /\ nk[Len(mk) + 1] = Len(s) + 1
      /\ \A i \in 1..Len(mk) : nk[i] = mk[i]
  BY AppendProperties DEF Fits
<1>2. /\ Len(t) = Len(s) + 1 /\ t[Len(s) + 1] = x
      /\ \A l \in 1..Len(s) : t[l] = s[l]
  BY DEF Fits
<1>3. /\ \A i, j \in 1..Len(mk) : i < j => mk[i] < mk[j]
      /\ \A i \in 1..Len(mk) : mk[i] \in 1..Len(s) /\ s[mk[i]] \in MarkedStates
      /\ \A l \in 1..Len(s) : s[l] \in MarkedStates => \E i \in 1..Len(mk) : mk[i] = l
  BY DEF Fits
<1>. HIDE DEF t, nk
<1>4. ASSUME NEW i \in 1..Len(nk), NEW j \in 1..Len(nk), i < j
      PROVE  nk[i] < nk[j]
  <2>1. i \in 1..Len(mk) /\ (j \in 1..Len(mk) \/ j = Len(mk) + 1)
    <3>1. Len(mk) \in Nat /\ Len(nk) = Len(mk) + 1
      BY <1>1
    <3>. QED
      BY <1>4, <3>1
  <2>2. CASE j \in 1..Len(mk)
    BY <1>1, <1>3, <1>4, <2>1, <2>2
  <2>3. CASE j = Len(mk) + 1
    <3>1. nk[j] = Len(s) + 1 /\ nk[i] = mk[i] /\ mk[i] \in 1..Len(s)
      BY <1>1, <1>3, <2>1, <2>3
    <3>. QED
      BY <1>1, <3>1
  <2>. QED
    BY <2>1, <2>2, <2>3
<1>5. ASSUME NEW i \in 1..Len(nk)
      PROVE  nk[i] \in 1..Len(t) /\ t[nk[i]] \in MarkedStates
  <2>1. CASE i \in 1..Len(mk)
    <3>1. nk[i] = mk[i] /\ mk[i] \in 1..Len(s) /\ s[mk[i]] \in MarkedStates
      BY <1>1, <1>3, <2>1
    <3>. QED
      BY <1>1, <1>2, <3>1
  <2>2. CASE i = Len(mk) + 1
    <3>1. nk[i] = Len(s) + 1
      BY <1>1, <2>2
    <3>. QED
      BY <1>1, <1>2, <3>1
  <2>3. i \in 1..Len(mk) \/ i = Len(mk) + 1
    <3>1. Len(mk) \in Nat /\ Len(nk) = Len(mk) + 1
      BY <1>1
    <3>. QED
      BY <3>1
  <2>. QED
    BY <1>5, <2>1, <2>2, <2>3
<1>6. ASSUME NEW l \in 1..Len(t), t[l] \in MarkedStates
      PROVE  \E i \in 1..Len(nk) : nk[i] = l
  <2>1. CASE l = Len(s) + 1
    <3>1. Len(mk) + 1 \in 1..Len(nk) /\ nk[Len(mk) + 1] = l
      BY <1>1, <2>1
    <3>. QED
      BY <3>1
  <2>2. CASE l \in 1..Len(s)
    <3>1. PICK i \in 1..Len(mk) : mk[i] = l
      BY <1>2, <1>3, <1>6, <2>2
    <3>2. i \in 1..Len(nk)
      <4>1. Len(mk) \in Nat /\ Len(nk) = Len(mk) + 1
        BY <1>1
      <4>. QED
        BY <4>1
    <3>3. nk[i] = l
      <4>1. nk[i] = mk[i]
        BY <1>1
      <4>. QED
        BY <3>1, <4>1
    <3>. QED
      BY <3>2, <3>3
  <2>3. l = Len(s) + 1 \/ l \in 1..Len(s)
    <3>1. Len(s) \in Nat /\ Len(t) = Len(s) + 1
      BY <1>2
    <3>. QED
      BY <3>1
  <2>. QED
    BY <1>6, <2>1, <2>2, <2>3
<1>7. DOMAIN nk = 1..Len(nk)
  BY <1>1
<1>8. Fits(t, nk)
  BY <1>1, <1>4, <1>5, <1>6, <1>7 DEF Fits
<1>. QED
  BY <1>8 DEF t, nk

\* One marked state follows another of the same collection.
LEMMA FitsReplace ==
  ASSUME NEW s \in Seq(ParserStates), NEW x \in MarkedStates, NEW y \in MarkedStates,
         NEW mk, Fits(Append(s, x), mk)
  PROVE  Fits(Append(s, y), mk)
BY DEF Fits

\* The innermost marked state owns the last mark.
LEMMA FitsClose ==
  ASSUME NEW s \in Seq(ParserStates), NEW x \in MarkedStates, NEW mk, Fits(Append(s, x), mk)
  PROVE  mk # <<>> /\ Fits(s, Pop(mk))
<1> DEFINE t == Append(s, x)
           n == Len(mk)
<1>1. /\ Len(t) = Len(s) + 1 /\ t[Len(s) + 1] = x /\ Len(s) \in Nat
      /\ \A l \in 1..Len(s) : t[l] = s[l]
  OBVIOUS
<1>2. /\ mk \in Seq(Nat) /\ n \in Nat /\ \A i \in 1..n : mk[i] \in Nat
      /\ \A i, j \in 1..n : i < j => mk[i] < mk[j]
      /\ \A i \in 1..n : mk[i] \in 1..Len(t) /\ t[mk[i]] \in MarkedStates
      /\ \A l \in 1..Len(t) : t[l] \in MarkedStates => \E i \in 1..n : mk[i] = l
  BY DEF Fits
<1>. HIDE DEF t
<1>3. PICK k \in 1..n : mk[k] = Len(s) + 1
  <2>1. Len(s) + 1 \in 1..Len(t)
    BY <1>1
  <2>. QED
    BY <1>1, <1>2, <2>1
<1>4. k = n /\ n \in 1..n
  <2>1. n \in 1..n
    BY <1>2, <1>3
  <2>2. mk[n] <= Len(s) + 1 /\ mk[n] \in Nat
    <3>1. mk[n] \in 1..Len(s) + 1
      BY <1>1, <1>2, <2>1
    <3>. QED
      BY <1>1, <3>1
  <2>3. ~(k < n)
    <3>1. k < n => mk[k] < mk[n]
      BY <1>2, <1>3, <2>1
    <3>. QED
      BY <1>1, <1>3, <2>2, <3>1
  <2>. QED
    BY <1>2, <1>3, <2>1, <2>3
<1>5. mk # <<>>
  BY <1>2, <1>4
<1>6. /\ Pop(mk) \in Seq(Nat) /\ Len(Pop(mk)) = n - 1
      /\ \A i \in 1..n - 1 : Pop(mk)[i] = mk[i]
  BY <1>2, <1>5, PopProperties
<1> DEFINE q == Pop(mk)
<1>. HIDE DEF n
<1>7. \A i \in 1..n - 1 : i \in 1..n /\ i < n /\ q[i] = mk[i]
  <2>1. n \in Nat
    BY <1>2
  <2>2. \A i \in 1..n - 1 : i \in 1..n /\ i < n
    BY <2>1
  <2>. QED
    BY <1>6, <2>2
<1>. HIDE DEF q
<1>8. \A i, j \in 1..n - 1 : i < j => q[i] < q[j]
  BY <1>2, <1>7
<1>9. ASSUME NEW i \in 1..n - 1
      PROVE  q[i] \in 1..Len(s) /\ s[q[i]] \in MarkedStates
  <2>1. mk[i] < Len(s) + 1 /\ mk[i] \in 1..Len(t) /\ t[mk[i]] \in MarkedStates
    BY <1>2, <1>3, <1>4, <1>7
  <2>2. mk[i] \in 1..Len(s)
    BY <1>1, <2>1
  <2>. QED
    BY <1>1, <1>7, <2>1, <2>2
<1>10. ASSUME NEW l \in 1..Len(s), s[l] \in MarkedStates
       PROVE  \E i \in 1..n - 1 : q[i] = l
  <2>1. l \in 1..Len(t) /\ t[l] \in MarkedStates /\ l # Len(s) + 1
    BY <1>1, <1>10
  <2>2. PICK i \in 1..n : mk[i] = l
    BY <1>2, <2>1
  <2>3. i \in 1..n - 1
    BY <1>2, <1>3, <1>4, <2>1, <2>2
  <2>. QED
    BY <1>7, <2>2, <2>3
<1>11. DOMAIN q = 1..n - 1 /\ q \in Seq(Nat)
  BY <1>2, <1>6 DEF q
<1>12. Fits(s, q)
  BY <1>8, <1>9, <1>10, <1>11 DEF Fits
<1>. QED
  BY <1>5, <1>12 DEF q

-----------------------------------------------------------------------------
(* Tokens                                                                    *)

\* What a token of the scanner can be.
LEMMA TokenFacts ==
  ASSUME NEW t \in Token
  PROVE  /\ t.typ \in TokenTypes /\ t.typ # "ERROR" /\ t # ScanError /\ t # NoToken
         /\ t.typ \in {"ANCHOR", "ALIAS"} => t.arg \in Anchors
<1>1. t.typ \in TokenTypes
  BY DEF Token, TokenTypes, DirectiveTypes
<1>2. t.typ # "ERROR" /\ t.typ # "NO_TOKEN"
  BY <1>1 DEF TokenTypes, PlainTypes, CollectionStarts, DirectiveTypes
<1>3. t.typ \in {"ANCHOR", "ALIAS"} => t.arg \in Anchors
  BY DEF Token, PlainTypes, CollectionStarts
<1>. QED
  BY <1>1, <1>2, <1>3 DEF ScanError, NoToken

\* The token fetched is a token or the failure.
LEMMA FetchFacts ==
  ASSUME NEW t \in Fetch
  PROVE  /\ t \in Token \cup {ScanError}
         /\ t = ScanError <=> t.typ = "ERROR"
BY TokenFacts DEF Fetch, ScanError

\* So is the token peeked at.
LEMMA PeekFacts ==
  ASSUME NEW t \in Peek, token \in Token \cup {NoToken}
  PROVE  /\ t \in Token \cup {ScanError}
         /\ t = ScanError <=> t.typ = "ERROR"
BY TokenFacts, FetchFacts DEF Peek

-----------------------------------------------------------------------------
(* The inductive invariant                                                   *)

\* A stack inside a document.
Inside(stk) ==
  /\ stk \in Seq(ParserStates)
  /\ stk # <<>> /\ stk[1] = "DOCUMENT_END"
  /\ \A l \in 2..Len(stk) : stk[l] \in ReturnStates

Good(st, stk, mk, tok) ==
  /\ st \in ParserStates
  /\ st \in OutsideStates => stk = <<>>
  /\ st \notin OutsideStates => Inside(stk)
  /\ Fits(Append(stk, st), mk)
  /\ st \in FirstStates => tok.typ \in CollectionStarts /\ st = FirstState(tok.typ)

\* The invariant of everything but the tag directives.
Core ==
  /\ state \in ParserStates
  /\ states \in Seq(ParserStates)
  /\ marks \in Seq(Nat)
  /\ token \in Token \cup {NoToken}
  /\ error \in {"NONE", "SCANNER", "PARSER"}
  /\ event \in Events
  /\ read \in Seq(TokenTypes)
  /\ error = "NONE" => Good(state, states, marks, token)

\* A handler that returns an event leaves the invariant true ...
LEMMA ReturnCore ==
  ASSUME NEW st, NEW stk, NEW mk, NEW tok \in Token \cup {NoToken},
         NEW ev \in Events, NEW rd \in Seq(TokenTypes),
         Core, Good(st, stk, mk, tok), Return(st, stk, mk, tok, ev, rd)
  PROVE  Core'
<1>1. stk \in Seq(ParserStates)
  <2>1. CASE stk = <<>>
    BY <2>1
  <2>2. CASE Inside(stk)
    BY <2>2 DEF Inside
  <2>. QED
    BY <2>1, <2>2 DEF Good
<1>2. st \in ParserStates /\ mk \in Seq(Nat)
  BY DEF Good, Fits
<1>3. error' \in {"NONE", "SCANNER"}
  BY DEF Return, MayFailLate
<1>. QED
  BY <1>1, <1>2, <1>3 DEF Core, Return

\* ... and so does one that fails, whatever it has pushed or popped before.
LEMMA RaiseCore ==
  ASSUME NEW err \in {"SCANNER", "PARSER"}, NEW stk \in Seq(ParserStates), NEW mk \in Seq(Nat),
         NEW tok \in Token \cup {NoToken}, NEW rd \in Seq(TokenTypes),
         Core, Raise(err, stk, mk, tok, rd)
  PROVE  Core'
BY DEF Core, Raise, Events, NoEvent, Event

\* A stack inside a document can be popped, and pushed on by any return state.
LEMMA InsidePop ==
  ASSUME NEW stk, Inside(stk), NEW mk, Fits(stk, mk), NEW tok
  PROVE  Good(Top(stk), Pop(stk), mk, tok)
<1>1. /\ Pop(stk) \in Seq(ParserStates) /\ Len(Pop(stk)) = Len(stk) - 1
      /\ Len(stk) \in Nat \ {0}
      /\ \A i \in 1..Len(stk) - 1 : Pop(stk)[i] = stk[i]
      /\ Top(stk) \in ParserStates
      /\ stk = Append(Pop(stk), Top(stk))
  BY PopProperties DEF Inside
<1>2. CASE Len(stk) = 1
  <2>1. Top(stk) = "DOCUMENT_END" /\ Pop(stk) = <<>>
    BY <1>1, <1>2 DEF Inside, Top
  <2>. QED
    BY <1>1, <2>1 DEF Good, OutsideStates, FirstStates
<1>3. CASE Len(stk) > 1
  <2>1. Top(stk) \in ReturnStates
    BY <1>1, <1>3 DEF Inside, Top
  <2>2. Inside(Pop(stk))
    BY <1>1, <1>3 DEF Inside
  <2>3. Top(stk) \notin OutsideStates \cup FirstStates
    BY <2>1 DEF ReturnStates, MarkedStates, OutsideStates, FirstStates
  <2>. QED
    BY <1>1, <2>2, <2>3 DEF Good
<1>. QED
  BY <1>1, <1>2, <1>3

\* A return state may be pushed on a stack inside a document.
LEMMA InsidePush ==
  ASSUME NEW stk, Inside(stk), NEW st \in ReturnStates
  PROVE  Inside(Append(stk, st))
<1>1. st \in ParserStates
  BY DEF ReturnStates, MarkedStates, ParserStates
<1>. QED
  BY <1>1 DEF Inside

\* So is a state that runs on top of it, which owns no mark yet.
LEMMA InsideUnmarked ==
  ASSUME NEW stk, Inside(stk), NEW mk, Fits(stk, mk), NEW tok,
         NEW st \in FirstStates \cup {"DOCUMENT_CONTENT", "BLOCK_NODE", "INDENTLESS_SEQUENCE_ENTRY"},
         st \in FirstStates => tok.typ \in CollectionStarts /\ st = FirstState(tok.typ)
  PROVE  Good(st, stk, mk, tok)
<1>1. st \in ParserStates /\ st \notin OutsideStates /\ st \notin MarkedStates
  BY DEF FirstStates, ParserStates, OutsideStates, MarkedStates
<1>2. Fits(Append(stk, st), mk)
  BY <1>1, FitsUnmarked DEF Inside
<1>. QED
  BY <1>1, <1>2 DEF Good

-----------------------------------------------------------------------------
(* Nodes                                                                     *)

\* The events of the grammar are well-typed.
LEMMA EventFacts ==
  ASSUME NEW typ \in EventTypes, NEW a \in Anchors \cup {None}
  PROVE  Event(typ, a) \in Events
BY DEF Event, Events

\* The state that opens a collection.
LEMMA FirstStateFacts ==
  /\ \A typ \in CollectionStarts : FirstState(typ) \in FirstStates
  /\ FirstState("BLOCK_ENTRY") = "INDENTLESS_SEQUENCE_ENTRY"
  /\ "INDENTLESS_SEQUENCE_ENTRY" \notin FirstStates
BY DEF FirstState, FirstStates, CollectionStarts

\* Only the four start tokens and a bare BLOCK-ENTRY open a collection.
LEMMA OpenersFacts ==
  ASSUME NEW block \in BOOLEAN, NEW indentless \in BOOLEAN
  PROVE  Openers(block, indentless) \subseteq CollectionStarts \cup {"BLOCK_ENTRY"}
BY DEF Openers, CollectionStarts

\* Parsing the content of a node leaves the invariant true, whoever asks for it.
LEMMA NodeContentCore ==
  ASSUME Core, NEW tok \in Token \cup {ScanError}, NEW anchor \in Anchors \cup {None}, NEW tag,
         NEW stk, Inside(stk), NEW mk, Fits(stk, mk), NEW rd \in Seq(TokenTypes),
         NEW block \in BOOLEAN, NEW indentless \in BOOLEAN,
         NodeContent(tok, anchor, tag, stk, mk, rd, block, indentless)
  PROVE  Core'
<1> DEFINE openers == Openers(block, indentless)
<1>1. stk \in Seq(ParserStates) /\ mk \in Seq(Nat) /\ NoToken \in Token \cup {NoToken}
  BY DEF Inside, Fits
<1>2. Event("SCALAR", anchor) \in Events
  BY EventFacts DEF EventTypes
<1>3. CASE ScanFails(tok, stk, mk, rd)
  BY <1>1, <1>3, RaiseCore DEF ScanFails
<1>4. CASE tok # ScanError /\ Raise("PARSER", stk, mk, tok, rd)
  <2>1. tok \in Token \cup {NoToken}
    BY <1>4
  <2>. QED
    BY <1>1, <1>4, <2>1, RaiseCore
<1>5. CASE /\ tok.typ = "SCALAR"
           /\ Return(Top(stk), Pop(stk), mk, NoToken, Event("SCALAR", anchor),
                     Append(rd, "SCALAR"))
  <2>1. Good(Top(stk), Pop(stk), mk, NoToken)
    BY InsidePop
  <2>2. Append(rd, "SCALAR") \in Seq(TokenTypes)
    BY DEF TokenTypes, PlainTypes
  <2>. QED
    BY <1>1, <1>2, <1>5, <2>1, <2>2, ReturnCore
<1>6. CASE /\ tok # ScanError /\ tok.typ \in openers
           /\ Return(FirstState(tok.typ), stk, mk, tok, Event(StartEvent(tok.typ), anchor), rd)
  <2>1. Good(FirstState(tok.typ), stk, mk, tok)
    <3>1. tok.typ \in CollectionStarts \cup {"BLOCK_ENTRY"}
      BY <1>6, OpenersFacts
    <3>. QED
      BY <3>1, InsideUnmarked, FirstStateFacts
  <2>2. Event(StartEvent(tok.typ), anchor) \in Events
    BY EventFacts DEF StartEvent, EventTypes
  <2>. QED
    BY <1>6, <2>1, <2>2, ReturnCore
<1>7. CASE tok # ScanError /\ Return(Top(stk), Pop(stk), mk, tok, Event("SCALAR", anchor), rd)
  <2>1. Good(Top(stk), Pop(stk), mk, tok)
    BY InsidePop
  <2>. QED
    BY <1>2, <1>7, <2>1, ReturnCore
<1>. QED
  BY <1>3, <1>4, <1>5, <1>6, <1>7 DEF NodeContent, OpenCollection

\* So does parsing a node with its properties.
LEMMA ParseNodeCore ==
  ASSUME Core, NEW t \in Token,
         NEW stk, Inside(stk), NEW mk, Fits(stk, mk), NEW rd \in Seq(TokenTypes),
         NEW block \in BOOLEAN, NEW indentless \in BOOLEAN,
         ParseNode(t, stk, mk, rd, block, indentless)
  PROVE  Core'
<1> DEFINE Content(tok, anchor, tag, props) ==
             NodeContent(tok, anchor, tag, stk, mk, rd \o props, block, indentless)
<1>1. /\ \A props \in {<<>>, <<"ANCHOR">>, <<"TAG">>, <<"ANCHOR", "TAG">>, <<"TAG", "ANCHOR">>} :
           rd \o props \in Seq(TokenTypes)
      /\ Append(rd, "ALIAS") \in Seq(TokenTypes)
  BY DEF TokenTypes
<1>2. ASSUME NEW tok \in Token \cup {ScanError}, NEW a \in Anchors \cup {None}, NEW tag,
             NEW props \in {<<>>, <<"ANCHOR">>, <<"TAG">>, <<"ANCHOR", "TAG">>, <<"TAG", "ANCHOR">>},
             Content(tok, a, tag, props)
      PROVE  Core'
  BY <1>1, <1>2, NodeContentCore
<1>3. CASE /\ t.typ = "ALIAS"
           /\ Return(Top(stk), Pop(stk), mk, NoToken, Event("ALIAS", t.arg), Append(rd, "ALIAS"))
  <2>1. Good(Top(stk), Pop(stk), mk, NoToken)
    BY InsidePop
  <2>2. Event("ALIAS", t.arg) \in Events
    BY <1>3, TokenFacts, EventFacts DEF EventTypes
  <2>. QED
    BY <1>1, <1>3, <2>1, <2>2, ReturnCore
<1>4. CASE /\ t.typ = "ANCHOR"
           /\ \E u \in Fetch :
                \/ u.typ # "TAG" /\ Content(u, t.arg, None, <<"ANCHOR">>)
                \/ u.typ = "TAG" /\ \E v \in Fetch : Content(v, t.arg, u.arg, <<"ANCHOR", "TAG">>)
  <2>1. t.arg \in Anchors
    BY <1>4, TokenFacts
  <2>. HIDE DEF Content
  <2>. QED
    BY <1>2, <1>4, <2>1, FetchFacts
<1>5. CASE /\ t.typ = "TAG"
           /\ \E u \in Fetch :
                \/ u.typ # "ANCHOR" /\ Content(u, None, t.arg, <<"TAG">>)
                \/ u.typ = "ANCHOR" /\ \E v \in Fetch : Content(v, u.arg, t.arg, <<"TAG", "ANCHOR">>)
  <2>1. \A u \in Fetch : u.typ = "ANCHOR" => u.arg \in Anchors
    BY FetchFacts, TokenFacts DEF ScanError
  <2>. HIDE DEF Content
  <2>. QED
    BY <1>2, <1>5, <2>1, FetchFacts
<1>6. CASE Content(t, None, None, <<>>)
  <2>. HIDE DEF Content
  <2>. QED
    BY <1>2, <1>6
<1>. QED
  BY <1>3, <1>4, <1>5, <1>6 DEF ParseNode

\* What follows a BLOCK-ENTRY, KEY or VALUE: the state next, marked or that of
\* an indentless sequence, either stays current or is what the node returns to.
LEMMA IndicatedNodeCore ==
  ASSUME Core, Inside(states), NEW next \in ReturnStates,
         NEW mk, Fits(Append(states, next), mk), NEW rd \in Seq(TokenTypes),
         NEW block \in BOOLEAN, NEW indentless \in BOOLEAN, NEW Absent, "ERROR" \notin Absent,
         IndicatedNode(Absent, next, mk, rd, block, indentless)
  PROVE  Core'
<1>1. Inside(Append(states, next)) /\ mk \in Seq(Nat) /\ states \in Seq(ParserStates)
  BY InsidePush DEF Inside, Fits
<1>2. next \in ParserStates /\ next \notin OutsideStates \cup FirstStates
  BY DEF ReturnStates, MarkedStates, ParserStates, OutsideStates, FirstStates
<1>3. PICK u \in Fetch :
        \/ ScanFails(u, states, mk, rd)
        \/ u.typ \in Absent /\ EmptyScalar(next, states, mk, u, rd)
        \/ /\ u.typ \notin Absent \cup {"ERROR"}
           /\ ParseNode(u, Append(states, next), mk, rd, block, indentless)
  BY DEF IndicatedNode
<1>4. CASE ScanFails(u, states, mk, rd)
  BY <1>1, <1>4, RaiseCore DEF ScanFails
<1>5. CASE u # ScanError /\ EmptyScalar(next, states, mk, u, rd)
  <2>1. u \in Token \cup {NoToken}
    BY <1>5, FetchFacts
  <2>2. Good(next, states, mk, u)
    BY <1>2 DEF Good
  <2>3. Event("SCALAR", None) \in Events
    BY EventFacts DEF EventTypes
  <2>. QED
    BY <1>5, <2>1, <2>2, <2>3, ReturnCore DEF EmptyScalar
<1>6. CASE u # ScanError /\ ParseNode(u, Append(states, next), mk, rd, block, indentless)
  BY <1>1, <1>6, FetchFacts, ParseNodeCore
<1>7. u = ScanError <=> u.typ = "ERROR"
  BY FetchFacts
<1>. QED
  <2>1. CASE u.typ \in Absent /\ EmptyScalar(next, states, mk, u, rd)
    BY <1>5, <1>7, <2>1
  <2>2. CASE /\ u.typ \notin Absent \cup {"ERROR"}
             /\ ParseNode(u, Append(states, next), mk, rd, block, indentless)
    BY <1>6, <1>7, <2>2
  <2>. QED
    BY <1>3, <1>4, <2>1, <2>2

-----------------------------------------------------------------------------
(* Stream and documents                                                      *)

\* The stack of a running parser, and its marks, whatever the state.
LEMMA CoreFacts ==
  ASSUME Core, error = "NONE"
  PROVE  /\ state \in ParserStates /\ states \in Seq(ParserStates) /\ marks \in Seq(Nat)
         /\ token \in Token \cup {NoToken}
         /\ NoToken \in Token \cup {NoToken}
         /\ <<>> \in Seq(TokenTypes)
         /\ Good(state, states, marks, token)
         /\ state \in OutsideStates => states = <<>>
         /\ state \notin OutsideStates => Inside(states)
         /\ Fits(Append(states, state), marks)
         /\ state \notin MarkedStates => Fits(states, marks)
BY FitsUnmarked DEF Core, Good

\* A failed peek leaves the invariant true.
LEMMA ScanFailsCore ==
  ASSUME Core, NEW t, NEW stk \in Seq(ParserStates), NEW mk \in Seq(Nat),
         NEW rd \in Seq(TokenTypes), ScanFails(t, stk, mk, rd)
  PROVE  Core'
BY RaiseCore DEF ScanFails

\* Between documents nothing is open.
LEMMA OutsideGood ==
  ASSUME NEW st \in OutsideStates, NEW mk, Fits(<<>>, mk), NEW tok
  PROVE  Good(st, <<>>, mk, tok)
<1>1. st \in ParserStates /\ st \notin MarkedStates \cup FirstStates
  BY DEF OutsideStates, ParserStates, MarkedStates, FirstStates
<1>2. Fits(Append(<<>>, st), mk)
  <2>1. \A s \in Seq(ParserStates) : Fits(s, mk) => Fits(Append(s, st), mk)
    BY <1>1, FitsUnmarked
  <2>2. <<>> \in Seq(ParserStates)
    OBVIOUS
  <2>. QED
    BY <2>1, <2>2
<1>. QED
  BY <1>1, <1>2 DEF Good

\* yaml_parser_parse_stream_start leaves the invariant true.
LEMMA ParseStreamStartCore ==
  ASSUME Core, ParseStreamStart
  PROVE  Core'
<1>1. /\ error = "NONE" /\ state = "STREAM_START"
      /\ state \in OutsideStates /\ state \notin MarkedStates
      /\ "IMPLICIT_DOCUMENT_START" \in OutsideStates
  BY DEF ParseStreamStart, Running, OutsideStates, MarkedStates
<1>2. /\ states = <<>> /\ Fits(<<>>, marks) /\ marks \in Seq(Nat)
      /\ token \in Token \cup {NoToken} /\ <<>> \in Seq(TokenTypes)
      /\ states \in Seq(ParserStates)
  BY <1>1, CoreFacts
<1>3. PICK t \in Peek :
       \/ ScanFails(t, states, marks, <<>>)
       \/ /\ t.typ = "STREAM_START"
          /\ Return("IMPLICIT_DOCUMENT_START", states, marks, NoToken,
                    Event("STREAM_START", None), <<"STREAM_START">>)
       \/ /\ t.typ \notin {"ERROR", "STREAM_START"}
          /\ Raise("PARSER", states, marks, t, <<>>)
  BY DEF ParseStreamStart
<1>4. CASE ScanFails(t, states, marks, <<>>)
  BY <1>2, <1>4, ScanFailsCore
<1>5. CASE Return("IMPLICIT_DOCUMENT_START", states, marks, NoToken,
                  Event("STREAM_START", None), <<"STREAM_START">>)
  <2>1. Good("IMPLICIT_DOCUMENT_START", states, marks, NoToken)
    BY <1>1, <1>2, OutsideGood
  <2>2. Event("STREAM_START", None) \in Events
    BY EventFacts DEF EventTypes
  <2>3. <<"STREAM_START">> \in Seq(TokenTypes) /\ NoToken \in Token \cup {NoToken}
    BY DEF TokenTypes, PlainTypes
  <2>. QED
    BY <1>5, <2>1, <2>2, <2>3, ReturnCore
<1>6. CASE t.typ # "ERROR" /\ Raise("PARSER", states, marks, t, <<>>)
  <2>1. t \in Token \cup {NoToken}
    BY <1>2, <1>6, PeekFacts
  <2>. QED
    BY <1>2, <1>6, <2>1, RaiseCore
<1>. QED
  BY <1>3, <1>4, <1>5, <1>6

\* The types of a run of directives, all of it or all but the last.
LEMMA DirectiveFacts ==
  ASSUME NEW ds \in DirectiveRuns
  PROVE  LET rd == [i \in DOMAIN ds |-> ds[i].typ] IN
         /\ rd \in Seq(TokenTypes)
         /\ ds # <<>> => Pop(rd) \in Seq(TokenTypes) /\ Top(ds) \in Token
<1> DEFINE rd == [i \in DOMAIN ds |-> ds[i].typ]
<1>1. PICK n \in 0..MaxDirectives : ds \in [1..n -> {t \in Token : t.typ \in DirectiveTypes}]
  BY DEF DirectiveRuns
<1>2. n \in Nat
  OBVIOUS
<1>3. ds \in Seq(Token) /\ DOMAIN ds = 1..n /\ \A i \in 1..n : ds[i] \in Token
  BY <1>1, <1>2
<1>4. \A i \in 1..n : ds[i].typ \in TokenTypes
  BY <1>3, TokenFacts
<1>5. rd \in [1..n -> TokenTypes]
  BY <1>3, <1>4
<1>6. rd \in Seq(TokenTypes) /\ Len(rd) = n /\ Len(ds) = n
  BY <1>2, <1>3, <1>5
<1>. HIDE DEF rd
<1>7. ASSUME ds # <<>>
      PROVE  Pop(rd) \in Seq(TokenTypes) /\ Top(ds) \in Token
  <2>1. Top(ds) \in Token
    BY <1>3, <1>7, PopProperties
  <2>2. n # 0
    BY <1>3, <1>6, <1>7
  <2>3. rd # <<>>
    BY <1>6, <2>2
  <2>. QED
    BY <1>6, <2>1, <2>3, PopProperties
<1>. QED
  BY <1>6, <1>7 DEF rd

\* A document opens with DOCUMENT-END at the bottom of its stack.
LEMMA OpenDocument ==
  ASSUME NEW stk, stk = <<>>, NEW mk, Fits(stk, mk), NEW tok,
         NEW st \in {"DOCUMENT_CONTENT", "BLOCK_NODE"}
  PROVE  Good(st, Append(stk, "DOCUMENT_END"), mk, tok)
<1> DEFINE new == Append(stk, "DOCUMENT_END")
<1>1. /\ "DOCUMENT_END" \in ParserStates /\ "DOCUMENT_END" \notin MarkedStates
      /\ st \notin FirstStates
  BY DEF ParserStates, OutsideStates, MarkedStates, FirstStates
<1>2. Inside(new)
  BY <1>1 DEF Inside
<1>3. Fits(new, mk)
  <2>1. \A s \in Seq(ParserStates) : Fits(s, mk) => Fits(Append(s, "DOCUMENT_END"), mk)
    BY <1>1, FitsUnmarked
  <2>2. stk \in Seq(ParserStates)
    OBVIOUS
  <2>. QED
    BY <2>1, <2>2
<1>. HIDE DEF new
<1>4. Good(st, new, mk, tok)
  BY <1>1, <1>2, <1>3, InsideUnmarked
<1>. QED
  BY <1>4 DEF new

\* An explicit document opens, or its directives are refused.
LEMMA ExplicitDocumentCore ==
  ASSUME Core, error = "NONE", state \in OutsideStates, state \notin MarkedStates,
         NEW t \in Token, ExplicitDocument(t)
  PROVE  Core'
<1>1. /\ states = <<>> /\ Fits(states, marks) /\ marks \in Seq(Nat)
      /\ states \in Seq(ParserStates)
  BY CoreFacts
<1>2. PICK ds \in DirectiveRuns :
        LET rd == [i \in DOMAIN ds |-> ds[i].typ] IN
        \/ ds # <<>> /\ Raise("PARSER", states, marks, Top(ds), Pop(rd))
        \/ \E u \in IF ds = <<>> THEN {t} ELSE Fetch :
             \/ ScanFails(u, states, marks, rd)
             \/ u.typ # "ERROR" /\ Raise("PARSER", states, marks, u, rd)
             \/ Return("DOCUMENT_CONTENT", Append(states, "DOCUMENT_END"), marks, NoToken,
                       Event("DOCUMENT_START", None), Append(rd, "DOCUMENT_START"))
  BY DEF ExplicitDocument
<1> DEFINE rd == [i \in DOMAIN ds |-> ds[i].typ]
<1>3. rd \in Seq(TokenTypes) /\ (ds # <<>> => Pop(rd) \in Seq(TokenTypes) /\ Top(ds) \in Token)
  BY DirectiveFacts
<1>. HIDE DEF rd
<1>4. CASE ds # <<>> /\ Raise("PARSER", states, marks, Top(ds), Pop(rd))
  BY <1>1, <1>3, <1>4, RaiseCore
<1>5. CASE \E u \in IF ds = <<>> THEN {t} ELSE Fetch :
             \/ ScanFails(u, states, marks, rd)
             \/ u.typ # "ERROR" /\ Raise("PARSER", states, marks, u, rd)
             \/ Return("DOCUMENT_CONTENT", Append(states, "DOCUMENT_END"), marks, NoToken,
                       Event("DOCUMENT_START", None), Append(rd, "DOCUMENT_START"))
  <2>1. PICK u \in IF ds = <<>> THEN {t} ELSE Fetch :
             \/ ScanFails(u, states, marks, rd)
             \/ u.typ # "ERROR" /\ Raise("PARSER", states, marks, u, rd)
             \/ Return("DOCUMENT_CONTENT", Append(states, "DOCUMENT_END"), marks, NoToken,
                       Event("DOCUMENT_START", None), Append(rd, "DOCUMENT_START"))
    BY <1>5
  <2>2. u.typ # "ERROR" => u \in Token \cup {NoToken}
    BY FetchFacts
  <2>3. CASE ScanFails(u, states, marks, rd)
    BY <1>1, <1>3, <2>3, ScanFailsCore
  <2>4. CASE u.typ # "ERROR" /\ Raise("PARSER", states, marks, u, rd)
    BY <1>1, <1>3, <2>2, <2>4, RaiseCore
  <2>5. CASE Return("DOCUMENT_CONTENT", Append(states, "DOCUMENT_END"), marks, NoToken,
                    Event("DOCUMENT_START", None), Append(rd, "DOCUMENT_START"))
    <3>1. Good("DOCUMENT_CONTENT", Append(states, "DOCUMENT_END"), marks, NoToken)
      BY <1>1, OpenDocument
    <3>2. Event("DOCUMENT_START", None) \in Events
      BY EventFacts DEF EventTypes
    <3>3. Append(rd, "DOCUMENT_START") \in Seq(TokenTypes) /\ NoToken \in Token \cup {NoToken}
      BY <1>3 DEF TokenTypes, PlainTypes
    <3>. QED
      BY <2>5, <3>1, <3>2, <3>3, ReturnCore
  <2>. QED
    BY <2>1, <2>3, <2>4, <2>5
<1>. QED
  BY <1>2, <1>4, <1>5 DEF rd

\* ParseDocumentStart leaves the invariant true.
LEMMA ParseDocumentStartCore ==
  ASSUME Core, NEW implicit \in BOOLEAN, ParseDocumentStart(implicit)
  PROVE  Core'
<1>1. /\ error = "NONE" /\ state \in OutsideStates /\ state \notin MarkedStates
      /\ "END" \in OutsideStates
  BY DEF ParseDocumentStart, Running, OutsideStates, MarkedStates
<1>2. /\ states = <<>> /\ Fits(states, marks) /\ marks \in Seq(Nat)
      /\ token \in Token \cup {NoToken} /\ <<>> \in Seq(TokenTypes)
      /\ states \in Seq(ParserStates)
  BY <1>1, CoreFacts
<1>3. PICK t \in IF implicit THEN Peek ELSE BehindDocumentEnds :
       \/ ScanFails(t, states, marks, <<>>)
       \/ Return("END", states, marks, NoToken, Event("STREAM_END", None), <<"STREAM_END">>)
       \/ /\ t.typ # "ERROR"
          /\ Return("BLOCK_NODE", Append(states, "DOCUMENT_END"), marks, t,
                    Event("DOCUMENT_START", None), <<>>)
       \/ t.typ # "ERROR" /\ ExplicitDocument(t)
  BY DEF ParseDocumentStart
<1>4. t \in Token \cup {ScanError} /\ (t = ScanError <=> t.typ = "ERROR")
  <2>1. t \in Peek \/ t \in Fetch
    BY DEF BehindDocumentEnds
  <2>. QED
    BY <1>2, <2>1, PeekFacts, FetchFacts
<1>5. CASE ScanFails(t, states, marks, <<>>)
  BY <1>2, <1>5, ScanFailsCore
<1>6. CASE Return("END", states, marks, NoToken, Event("STREAM_END", None), <<"STREAM_END">>)
  <2>1. Good("END", states, marks, NoToken)
    BY <1>1, <1>2, OutsideGood
  <2>2. Event("STREAM_END", None) \in Events
    BY EventFacts DEF EventTypes
  <2>3. <<"STREAM_END">> \in Seq(TokenTypes) /\ NoToken \in Token \cup {NoToken}
    BY DEF TokenTypes, PlainTypes
  <2>. QED
    BY <1>6, <2>1, <2>2, <2>3, ReturnCore
<1>7. CASE /\ t.typ # "ERROR"
           /\ Return("BLOCK_NODE", Append(states, "DOCUMENT_END"), marks, t,
                     Event("DOCUMENT_START", None), <<>>)
  <2>1. Good("BLOCK_NODE", Append(states, "DOCUMENT_END"), marks, t)
    BY <1>2, OpenDocument
  <2>2. Event("DOCUMENT_START", None) \in Events
    BY EventFacts DEF EventTypes
  <2>3. t \in Token \cup {NoToken}
    BY <1>4, <1>7
  <2>. QED
    BY <1>2, <1>7, <2>1, <2>2, <2>3, ReturnCore
<1>8. CASE t.typ # "ERROR" /\ ExplicitDocument(t)
  <2>1. t \in Token
    BY <1>4, <1>8
  <2>. QED
    BY <1>1, <1>8, <2>1, ExplicitDocumentCore
<1>. QED
  BY <1>3, <1>5, <1>6, <1>7, <1>8

\* ParseDocumentContent leaves the invariant true.
LEMMA ParseDocumentContentCore ==
  ASSUME Core, ParseDocumentContent
  PROVE  Core'
<1>1. error = "NONE" /\ state \notin OutsideStates /\ state \notin MarkedStates
  BY DEF ParseDocumentContent, Running, OutsideStates, MarkedStates
<1>2. /\ Inside(states) /\ Fits(states, marks) /\ marks \in Seq(Nat)
      /\ states \in Seq(ParserStates)
      /\ token \in Token \cup {NoToken} /\ <<>> \in Seq(TokenTypes)
  BY <1>1, CoreFacts
<1>3. PICK t \in Peek :
       \/ ScanFails(t, states, marks, <<>>)
       \/ /\ t.typ # "ERROR"
          /\ EmptyScalar(Top(states), Pop(states), marks, t, <<>>)
       \/ t.typ # "ERROR" /\ ParseNode(t, states, marks, <<>>, TRUE, FALSE)
  <2>1. "ERROR" \notin DirectiveTypes \cup {"DOCUMENT_START", "DOCUMENT_END", "STREAM_END"}
    BY DEF DirectiveTypes
  <2>. QED
    BY <2>1 DEF ParseDocumentContent
<1>4. t.typ # "ERROR" => t \in Token
  BY <1>2, PeekFacts
<1>5. CASE ScanFails(t, states, marks, <<>>)
  BY <1>2, <1>5, ScanFailsCore
<1>6. CASE t.typ # "ERROR" /\ EmptyScalar(Top(states), Pop(states), marks, t, <<>>)
  <2>1. Good(Top(states), Pop(states), marks, t)
    BY <1>2, InsidePop
  <2>2. Event("SCALAR", None) \in Events
    BY EventFacts DEF EventTypes
  <2>. QED
    BY <1>2, <1>4, <1>6, <2>1, <2>2, ReturnCore DEF EmptyScalar
<1>7. CASE t.typ # "ERROR" /\ ParseNode(t, states, marks, <<>>, TRUE, FALSE)
  BY <1>2, <1>4, <1>7, ParseNodeCore
<1>. QED
  BY <1>3, <1>5, <1>6, <1>7

\* ParseBlockNode leaves the invariant true.
LEMMA ParseBlockNodeCore ==
  ASSUME Core, ParseBlockNode
  PROVE  Core'
<1>1. error = "NONE" /\ state \notin OutsideStates /\ state \notin MarkedStates
  BY DEF ParseBlockNode, Running, OutsideStates, MarkedStates
<1>2. /\ Inside(states) /\ Fits(states, marks) /\ marks \in Seq(Nat)
      /\ states \in Seq(ParserStates)
      /\ token \in Token \cup {NoToken} /\ <<>> \in Seq(TokenTypes)
  BY <1>1, CoreFacts
<1>3. PICK t \in Peek :
       \/ ScanFails(t, states, marks, <<>>)
       \/ t # ScanError /\ ParseNode(t, states, marks, <<>>, TRUE, FALSE)
  BY DEF ParseBlockNode
<1>4. CASE ScanFails(t, states, marks, <<>>)
  BY <1>2, <1>4, ScanFailsCore
<1>5. CASE t # ScanError /\ ParseNode(t, states, marks, <<>>, TRUE, FALSE)
  BY <1>2, <1>5, PeekFacts, ParseNodeCore
<1>. QED
  BY <1>3, <1>4, <1>5

\* ParseDocumentEnd leaves the invariant true.
LEMMA ParseDocumentEndCore ==
  ASSUME Core, ParseDocumentEnd
  PROVE  Core'
<1>1. /\ error = "NONE" /\ state \in OutsideStates /\ state \notin MarkedStates
      /\ "DOCUMENT_START" \in OutsideStates
  BY DEF ParseDocumentEnd, Running, OutsideStates, MarkedStates
<1>2. /\ states = <<>> /\ Fits(states, marks) /\ marks \in Seq(Nat)
      /\ token \in Token \cup {NoToken} /\ <<>> \in Seq(TokenTypes)
      /\ states \in Seq(ParserStates)
  BY <1>1, CoreFacts
<1>3. PICK t \in Peek :
       \/ ScanFails(t, states, marks, <<>>)
       \/ Return("DOCUMENT_START", states, marks, NoToken, Event("DOCUMENT_END", None),
                 <<"DOCUMENT_END">>)
       \/ /\ t # ScanError
          /\ Return("DOCUMENT_START", states, marks, t, Event("DOCUMENT_END", None), <<>>)
  BY DEF ParseDocumentEnd
<1>4. /\ Event("DOCUMENT_END", None) \in Events
      /\ <<"DOCUMENT_END">> \in Seq(TokenTypes) /\ NoToken \in Token \cup {NoToken}
  BY EventFacts DEF EventTypes, TokenTypes, PlainTypes
<1>5. \A tok : Good("DOCUMENT_START", states, marks, tok)
  BY <1>1, <1>2, OutsideGood
<1>6. CASE ScanFails(t, states, marks, <<>>)
  BY <1>2, <1>6, ScanFailsCore
<1>7. CASE Return("DOCUMENT_START", states, marks, NoToken, Event("DOCUMENT_END", None),
                  <<"DOCUMENT_END">>)
  BY <1>4, <1>5, <1>7, ReturnCore
<1>8. CASE /\ t # ScanError
           /\ Return("DOCUMENT_START", states, marks, t, Event("DOCUMENT_END", None), <<>>)
  <2>1. t \in Token \cup {NoToken}
    BY <1>2, <1>8, PeekFacts
  <2>. QED
    BY <1>2, <1>4, <1>5, <1>8, <2>1, ReturnCore
<1>. QED
  BY <1>3, <1>6, <1>7, <1>8

-----------------------------------------------------------------------------
(* Collections                                                               *)

\* Inside a collection that owns a mark, its next state owns the same one.
LEMMA MarkedFacts ==
  ASSUME Core, error = "NONE", state \in MarkedStates
  PROVE  /\ Inside(states) /\ states \in Seq(ParserStates) /\ marks \in Seq(Nat)
         /\ marks # <<>> /\ Fits(states, Pop(marks)) /\ Pop(marks) \in Seq(Nat)
         /\ \A next \in MarkedStates : Fits(Append(states, next), marks)
         /\ token \in Token \cup {NoToken}
<1>1. state \notin OutsideStates
  BY DEF MarkedStates, OutsideStates
<1>2. /\ Inside(states) /\ states \in Seq(ParserStates) /\ marks \in Seq(Nat)
      /\ Fits(Append(states, state), marks) /\ token \in Token \cup {NoToken}
  BY <1>1, CoreFacts
<1>3. marks # <<>> /\ Fits(states, Pop(marks))
  BY <1>2, FitsClose
<1>4. Pop(marks) \in Seq(Nat)
  BY <1>3 DEF Fits
<1>5. \A next \in MarkedStates : Fits(Append(states, next), marks)
  BY <1>2, FitsReplace
<1>. QED
  BY <1>2, <1>3, <1>4, <1>5

\* A collection at its first or at a later entry: its mark is the last one.
LEMMA CollectionFacts ==
  ASSUME Core, error = "NONE", NEW first \in BOOLEAN,
         state \in (IF first THEN FirstStates ELSE MarkedStates)
  PROVE  LET mk == OpenMarks(first) IN
         /\ Inside(states) /\ states \in Seq(ParserStates) /\ mk \in Seq(Nat)
         /\ Fits(states, Pop(mk)) /\ Pop(mk) \in Seq(Nat)
         /\ \A next \in MarkedStates : Fits(Append(states, next), mk)
         /\ OpenRead(first) \in Seq(TokenTypes)
         /\ \A t \in OpenPeek(first) :
              t \in Token \cup {ScanError} /\ (t = ScanError <=> t.typ = "ERROR")
<1>1. CASE first
  <2>1. state \in FirstStates /\ state \notin OutsideStates /\ state \notin MarkedStates
    BY <1>1 DEF FirstStates, OutsideStates, MarkedStates
  <2>2. /\ Inside(states) /\ Fits(states, marks) /\ states \in Seq(ParserStates)
        /\ Good(state, states, marks, token)
    BY <2>1, CoreFacts
  <2>3. OpenMarks(first) = Append(marks, Len(states) + 1)
    BY <1>1 DEF OpenMarks, Level
  <2>4. \A next \in MarkedStates : Fits(Append(states, next), OpenMarks(first))
    BY <2>2, <2>3, FitsOpen
  <2>5. OpenMarks(first) \in Seq(Nat) /\ Fits(states, Pop(OpenMarks(first)))
    <3>1. "FLOW_MAPPING_KEY" \in MarkedStates
      BY DEF MarkedStates
    <3>2. Fits(Append(states, "FLOW_MAPPING_KEY"), OpenMarks(first))
      BY <2>4, <3>1
    <3>3. Fits(states, Pop(OpenMarks(first)))
      BY <2>2, <3>1, <3>2, FitsClose
    <3>. QED
      BY <3>2, <3>3 DEF Fits
  <2>6. Pop(OpenMarks(first)) \in Seq(Nat)
    BY <2>5 DEF Fits
  <2>7. OpenRead(first) \in Seq(TokenTypes)
    <3>1. token.typ \in TokenTypes
      BY <2>1, <2>2 DEF Good, TokenTypes, PlainTypes
    <3>. QED
      BY <1>1, <3>1 DEF OpenRead
  <2>8. \A t \in OpenPeek(first) :
          t \in Token \cup {ScanError} /\ (t = ScanError <=> t.typ = "ERROR")
    BY <1>1, FetchFacts DEF OpenPeek
  <2>. QED
    BY <2>2, <2>4, <2>5, <2>6, <2>7, <2>8
<1>2. CASE ~first
  <2>1. OpenMarks(first) = marks /\ OpenRead(first) = <<>> /\ state \in MarkedStates
    BY <1>2 DEF OpenMarks, OpenRead
  <2>2. /\ Inside(states) /\ states \in Seq(ParserStates) /\ marks \in Seq(Nat)
        /\ Fits(states, Pop(marks)) /\ Pop(marks) \in Seq(Nat)
        /\ \A next \in MarkedStates : Fits(Append(states, next), marks)
        /\ token \in Token \cup {NoToken}
    BY <2>1, MarkedFacts
  <2>3. \A t \in OpenPeek(first) :
          t \in Token \cup {ScanError} /\ (t = ScanError <=> t.typ = "ERROR")
    BY <1>2, <2>2, PeekFacts DEF OpenPeek
  <2>. QED
    BY <2>1, <2>2, <2>3
<1>. QED
  BY <1>1, <1>2

\* The end of a collection takes its mark and returns to what is around it.
LEMMA CloseCollectionCore ==
  ASSUME Core, Inside(states), NEW mk, Fits(states, Pop(mk)), NEW rd \in Seq(TokenTypes),
         NEW typ \in {"SEQUENCE_END", "MAPPING_END"}, NEW t \in Token,
         CloseCollection(typ, mk, rd, t)
  PROVE  Core'
<1>1. Good(Top(states), Pop(states), Pop(mk), NoToken)
  BY InsidePop
<1>2. Event(typ, None) \in Events
  BY EventFacts DEF EventTypes
<1>3. Append(rd, t.typ) \in Seq(TokenTypes) /\ NoToken \in Token \cup {NoToken}
  BY TokenFacts
<1>. QED
  BY <1>1, <1>2, <1>3, ReturnCore DEF CloseCollection

\* ParseBlockSequenceEntry leaves the invariant true.
LEMMA ParseBlockSequenceEntryCore ==
  ASSUME Core, NEW first \in BOOLEAN, ParseBlockSequenceEntry(first)
  PROVE  Core'
<1> DEFINE mk == OpenMarks(first)
           rd == OpenRead(first)
<1>1. /\ error = "NONE" /\ state \in (IF first THEN FirstStates ELSE MarkedStates)
      /\ "BLOCK_SEQUENCE_ENTRY" \in MarkedStates /\ "BLOCK_SEQUENCE_ENTRY" \in ReturnStates
  BY DEF ParseBlockSequenceEntry, Running, FirstStates, MarkedStates, ReturnStates
<1>2. PICK t \in OpenPeek(first) :
       \/ ScanFails(t, states, mk, rd)
       \/ /\ t.typ = "BLOCK_ENTRY"
          /\ IndicatedNode({"BLOCK_ENTRY", "BLOCK_END"}, "BLOCK_SEQUENCE_ENTRY",
                           mk, Append(rd, t.typ), TRUE, FALSE)
       \/ t.typ = "BLOCK_END" /\ CloseCollection("SEQUENCE_END", mk, rd, t)
       \/ /\ t.typ \notin {"BLOCK_ENTRY", "BLOCK_END", "ERROR"}
          /\ Raise("PARSER", states, Pop(mk), t, rd)
  BY DEF ParseBlockSequenceEntry
<1>. HIDE DEF mk, rd
<1>3. /\ Inside(states) /\ states \in Seq(ParserStates) /\ mk \in Seq(Nat)
      /\ Fits(states, Pop(mk)) /\ Pop(mk) \in Seq(Nat)
      /\ Fits(Append(states, "BLOCK_SEQUENCE_ENTRY"), mk)
      /\ rd \in Seq(TokenTypes)
      /\ t \in Token \cup {ScanError} /\ (t = ScanError <=> t.typ = "ERROR")
  BY <1>1, CollectionFacts DEF mk, rd
<1>4. CASE ScanFails(t, states, mk, rd)
  BY <1>3, <1>4, ScanFailsCore
<1>5. CASE /\ t.typ = "BLOCK_ENTRY"
           /\ IndicatedNode({"BLOCK_ENTRY", "BLOCK_END"}, "BLOCK_SEQUENCE_ENTRY",
                            mk, Append(rd, t.typ), TRUE, FALSE)
  <2>1. Append(rd, t.typ) \in Seq(TokenTypes)
    BY <1>3, <1>5 DEF TokenTypes, PlainTypes
  <2>. QED
    BY <1>1, <1>3, <1>5, <2>1, IndicatedNodeCore
<1>6. CASE t.typ = "BLOCK_END" /\ CloseCollection("SEQUENCE_END", mk, rd, t)
  BY <1>3, <1>6, CloseCollectionCore
<1>7. CASE t.typ # "ERROR" /\ Raise("PARSER", states, Pop(mk), t, rd)
  <2>1. t \in Token \cup {NoToken}
    BY <1>3, <1>7
  <2>. QED
    BY <1>3, <1>7, <2>1, RaiseCore
<1>. QED
  BY <1>2, <1>4, <1>5, <1>6, <1>7

\* A collection without a mark takes none from the one around it.
LEMMA ParseIndentlessSequenceEntryCore ==
  ASSUME Core, ParseIndentlessSequenceEntry
  PROVE  Core'
<1>1. /\ error = "NONE" /\ state = "INDENTLESS_SEQUENCE_ENTRY"
      /\ state \notin OutsideStates /\ state \notin MarkedStates /\ state \in ReturnStates
  BY DEF ParseIndentlessSequenceEntry, Running, OutsideStates, MarkedStates, ReturnStates
<1>2. /\ Inside(states) /\ Fits(states, marks) /\ marks \in Seq(Nat)
      /\ states \in Seq(ParserStates) /\ Fits(Append(states, state), marks)
      /\ token \in Token \cup {NoToken} /\ <<>> \in Seq(TokenTypes)
  BY <1>1, CoreFacts
<1>3. PICK t \in Peek :
       \/ ScanFails(t, states, marks, <<>>)
       \/ /\ t.typ = "BLOCK_ENTRY"
          /\ IndicatedNode({"BLOCK_ENTRY", "KEY", "VALUE", "BLOCK_END"},
                           state, marks, <<t.typ>>, TRUE, FALSE)
       \/ /\ t.typ # "ERROR"
          /\ Return(Top(states), Pop(states), marks, t, Event("SEQUENCE_END", None), <<>>)
  BY <1>1 DEF ParseIndentlessSequenceEntry
<1>4. CASE ScanFails(t, states, marks, <<>>)
  BY <1>2, <1>4, ScanFailsCore
<1>5. CASE /\ t.typ = "BLOCK_ENTRY"
           /\ IndicatedNode({"BLOCK_ENTRY", "KEY", "VALUE", "BLOCK_END"},
                            state, marks, <<t.typ>>, TRUE, FALSE)
  <2>1. <<t.typ>> \in Seq(TokenTypes)
    BY <1>5 DEF TokenTypes, PlainTypes
  <2>. QED
    BY <1>1, <1>2, <1>5, <2>1, IndicatedNodeCore
<1>6. CASE /\ t.typ # "ERROR"
           /\ Return(Top(states), Pop(states), marks, t, Event("SEQUENCE_END", None), <<>>)
  <2>1. Good(Top(states), Pop(states), marks, t)
    BY <1>2, InsidePop
  <2>2. Event("SEQUENCE_END", None) \in Events
    BY EventFacts DEF EventTypes
  <2>3. t \in Token \cup {NoToken}
    BY <1>2, <1>6, PeekFacts
  <2>. QED
    BY <1>2, <1>6, <2>1, <2>2, <2>3, ReturnCore
<1>. QED
  BY <1>3, <1>4, <1>5, <1>6

\* ParseBlockMappingKey leaves the invariant true.
LEMMA ParseBlockMappingKeyCore ==
  ASSUME Core, NEW first \in BOOLEAN, ParseBlockMappingKey(first)
  PROVE  Core'
<1> DEFINE mk == OpenMarks(first)
           rd == OpenRead(first)
<1>1. /\ error = "NONE" /\ state \in (IF first THEN FirstStates ELSE MarkedStates)
      /\ "BLOCK_MAPPING_VALUE" \in MarkedStates /\ "BLOCK_MAPPING_VALUE" \in ReturnStates
  BY DEF ParseBlockMappingKey, Running, FirstStates, MarkedStates, ReturnStates
<1>2. PICK t \in OpenPeek(first) :
       \/ ScanFails(t, states, mk, rd)
       \/ /\ t.typ = "KEY"
          /\ IndicatedNode(NoBlockNode, "BLOCK_MAPPING_VALUE", mk, Append(rd, t.typ), TRUE, TRUE)
       \/ t.typ = "BLOCK_END" /\ CloseCollection("MAPPING_END", mk, rd, t)
       \/ /\ t.typ \notin {"KEY", "BLOCK_END", "ERROR"}
          /\ Raise("PARSER", states, Pop(mk), t, rd)
  BY DEF ParseBlockMappingKey
<1>. HIDE DEF mk, rd
<1>3. /\ Inside(states) /\ states \in Seq(ParserStates) /\ mk \in Seq(Nat)
      /\ Fits(states, Pop(mk)) /\ Pop(mk) \in Seq(Nat)
      /\ Fits(Append(states, "BLOCK_MAPPING_VALUE"), mk)
      /\ rd \in Seq(TokenTypes)
      /\ t \in Token \cup {ScanError} /\ (t = ScanError <=> t.typ = "ERROR")
  BY <1>1, CollectionFacts DEF mk, rd
<1>4. CASE ScanFails(t, states, mk, rd)
  BY <1>3, <1>4, ScanFailsCore
<1>5. CASE /\ t.typ = "KEY"
           /\ IndicatedNode(NoBlockNode, "BLOCK_MAPPING_VALUE", mk, Append(rd, t.typ), TRUE, TRUE)
  <2>1. Append(rd, t.typ) \in Seq(TokenTypes) /\ "ERROR" \notin NoBlockNode
    BY <1>3, <1>5 DEF TokenTypes, PlainTypes, NoBlockNode
  <2>. QED
    BY <1>1, <1>3, <1>5, <2>1, IndicatedNodeCore
<1>6. CASE t.typ = "BLOCK_END" /\ CloseCollection("MAPPING_END", mk, rd, t)
  BY <1>3, <1>6, CloseCollectionCore
<1>7. CASE t.typ # "ERROR" /\ Raise("PARSER", states, Pop(mk), t, rd)
  <2>1. t \in Token \cup {NoToken}
    BY <1>3, <1>7
  <2>. QED
    BY <1>3, <1>7, <2>1, RaiseCore
<1>. QED
  BY <1>2, <1>4, <1>5, <1>6, <1>7

\* An empty node keeps the collection's mark and moves it to its next state.
LEMMA EmptyScalarCore ==
  ASSUME Core, error = "NONE", state \in MarkedStates, NEW next \in MarkedStates,
         NEW tok \in Token \cup {NoToken}, NEW rd \in Seq(TokenTypes),
         EmptyScalar(next, states, marks, tok, rd)
  PROVE  Core'
<1>1. /\ next \in ParserStates /\ next \notin OutsideStates /\ next \notin FirstStates
  BY DEF MarkedStates, ParserStates, OutsideStates, FirstStates
<1>2. Good(next, states, marks, tok)
  BY <1>1, MarkedFacts DEF Good
<1>3. Event("SCALAR", None) \in Events
  BY EventFacts DEF EventTypes
<1>. QED
  BY <1>2, <1>3, ReturnCore DEF EmptyScalar

\* ParseBlockMappingValue leaves the invariant true.
LEMMA ParseBlockMappingValueCore ==
  ASSUME Core, ParseBlockMappingValue
  PROVE  Core'
<1>1. /\ error = "NONE" /\ state \in MarkedStates
      /\ "BLOCK_MAPPING_KEY" \in MarkedStates /\ "BLOCK_MAPPING_KEY" \in ReturnStates
  BY DEF ParseBlockMappingValue, Running, MarkedStates, ReturnStates
<1>2. /\ Inside(states) /\ states \in Seq(ParserStates) /\ marks \in Seq(Nat)
      /\ Fits(Append(states, "BLOCK_MAPPING_KEY"), marks)
      /\ token \in Token \cup {NoToken} /\ <<>> \in Seq(TokenTypes)
  BY <1>1, MarkedFacts
<1>3. PICK t \in Peek :
       \/ ScanFails(t, states, marks, <<>>)
       \/ /\ t.typ = "VALUE"
          /\ IndicatedNode(NoBlockNode, "BLOCK_MAPPING_KEY", marks, <<t.typ>>, TRUE, TRUE)
       \/ /\ t.typ \notin {"VALUE", "ERROR"}
          /\ EmptyScalar("BLOCK_MAPPING_KEY", states, marks, t, <<>>)
  BY DEF ParseBlockMappingValue
<1>4. CASE ScanFails(t, states, marks, <<>>)
  BY <1>2, <1>4, ScanFailsCore
<1>5. CASE /\ t.typ = "VALUE"
           /\ IndicatedNode(NoBlockNode, "BLOCK_MAPPING_KEY", marks, <<t.typ>>, TRUE, TRUE)
  <2>1. <<t.typ>> \in Seq(TokenTypes) /\ "ERROR" \notin NoBlockNode
    BY <1>5 DEF TokenTypes, PlainTypes, NoBlockNode
  <2>. QED
    BY <1>1, <1>2, <1>5, <2>1, IndicatedNodeCore
<1>6. CASE t.typ # "ERROR" /\ EmptyScalar("BLOCK_MAPPING_KEY", states, marks, t, <<>>)
  <2>1. t \in Token \cup {NoToken}
    BY <1>2, <1>6, PeekFacts
  <2>. QED
    BY <1>1, <1>2, <1>6, <2>1, EmptyScalarCore
<1>. QED
  BY <1>3, <1>4, <1>5, <1>6

\* The value of a flow pair, present or empty, moves the collection on.
LEMMA FlowValueCore ==
  ASSUME Core, error = "NONE", state \in MarkedStates,
         NEW closer \in {"FLOW_SEQUENCE_END", "FLOW_MAPPING_END"},
         NEW next \in MarkedStates, FlowValue(closer, next)
  PROVE  Core'
<1>1. next \in ReturnStates
  BY DEF ReturnStates
<1>2. /\ Inside(states) /\ states \in Seq(ParserStates) /\ marks \in Seq(Nat)
      /\ Fits(Append(states, next), marks)
      /\ token \in Token \cup {NoToken} /\ <<>> \in Seq(TokenTypes)
  BY MarkedFacts
<1>3. PICK t \in Peek :
        \/ ScanFails(t, states, marks, <<>>)
        \/ /\ t.typ = "VALUE"
           /\ IndicatedNode({"FLOW_ENTRY", closer}, next, marks, <<t.typ>>, FALSE, FALSE)
        \/ t.typ \notin {"VALUE", "ERROR"} /\ EmptyScalar(next, states, marks, t, <<>>)
  BY DEF FlowValue
<1>4. CASE ScanFails(t, states, marks, <<>>)
  BY <1>2, <1>4, ScanFailsCore
<1>5. CASE /\ t.typ = "VALUE"
           /\ IndicatedNode({"FLOW_ENTRY", closer}, next, marks, <<t.typ>>, FALSE, FALSE)
  <2>1. <<t.typ>> \in Seq(TokenTypes) /\ "ERROR" \notin {"FLOW_ENTRY", closer}
    BY <1>5 DEF TokenTypes, PlainTypes
  <2>. QED
    BY <1>1, <1>2, <1>5, <2>1, IndicatedNodeCore
<1>6. CASE t.typ # "ERROR" /\ EmptyScalar(next, states, marks, t, <<>>)
  <2>1. t \in Token \cup {NoToken}
    BY <1>2, <1>6, PeekFacts
  <2>. QED
    BY <1>2, <1>6, <2>1, EmptyScalarCore
<1>. QED
  BY <1>3, <1>4, <1>5, <1>6

\* An entry of a flow collection leaves the invariant true.
LEMMA FlowEntryCore ==
  ASSUME Core, Inside(states),
         NEW mk, \A next \in MarkedStates : Fits(Append(states, next), mk),
         NEW t \in Token, NEW rd \in Seq(TokenTypes),
         FlowSequenceEntry(t, mk, rd) \/ FlowMappingEntry(t, mk, rd)
  PROVE  Core'
<1>1. /\ "FLOW_SEQUENCE_ENTRY" \in MarkedStates /\ "FLOW_MAPPING_VALUE" \in MarkedStates
      /\ "FLOW_MAPPING_EMPTY_VALUE" \in MarkedStates
      /\ "FLOW_SEQUENCE_ENTRY_MAPPING_KEY" \in MarkedStates
      /\ MarkedStates \subseteq ReturnStates
  BY DEF MarkedStates, ReturnStates
<1>2. Append(rd, t.typ) \in Seq(TokenTypes)
  BY TokenFacts
<1>3. CASE /\ t.typ = "KEY"
           /\ Return("FLOW_SEQUENCE_ENTRY_MAPPING_KEY", states, mk, NoToken,
                     Event("MAPPING_START", None), Append(rd, t.typ))
  <2>1. /\ "FLOW_SEQUENCE_ENTRY_MAPPING_KEY" \in ParserStates
        /\ "FLOW_SEQUENCE_ENTRY_MAPPING_KEY" \notin OutsideStates \cup FirstStates
    BY DEF ParserStates, MarkedStates, OutsideStates, FirstStates
  <2>2. Good("FLOW_SEQUENCE_ENTRY_MAPPING_KEY", states, mk, NoToken)
    BY <1>1, <2>1 DEF Good
  <2>3. Event("MAPPING_START", None) \in Events
    BY EventFacts DEF EventTypes
  <2>4. NoToken \in Token \cup {NoToken}
    OBVIOUS
  <2>. QED
    BY <1>2, <1>3, <2>2, <2>3, <2>4, ReturnCore
<1>4. ASSUME NEW next \in MarkedStates, ParseNode(t, Append(states, next), mk, rd, FALSE, FALSE)
      PROVE  Core'
  <2>1. Inside(Append(states, next))
    BY <1>1, InsidePush
  <2>. QED
    BY <1>4, <2>1, ParseNodeCore
<1>5. CASE IndicatedNode({"VALUE", "FLOW_ENTRY", "FLOW_MAPPING_END"}, "FLOW_MAPPING_VALUE",
                         mk, Append(rd, t.typ), FALSE, FALSE)
  <2>1. "FLOW_MAPPING_VALUE" \in ReturnStates /\ Fits(Append(states, "FLOW_MAPPING_VALUE"), mk)
    BY <1>1
  <2>. QED
    BY <1>2, <1>5, <2>1, IndicatedNodeCore
<1>. QED
  BY <1>1, <1>3, <1>4, <1>5 DEF FlowSequenceEntry, FlowMappingEntry

\* So does any call in a flow collection.
LEMMA FlowCollectionCore ==
  ASSUME Core, error = "NONE", NEW first \in BOOLEAN,
         state \in (IF first THEN FirstStates ELSE MarkedStates),
         NEW closer \in {"FLOW_SEQUENCE_END", "FLOW_MAPPING_END"},
         FlowCollection(first, closer)
  PROVE  Core'
<1> DEFINE mk == OpenMarks(first)
           opened == OpenRead(first)
<1>1. PICK t \in OpenPeek(first) :
        \/ FlowEntryOrEnd(closer, t, mk, opened)
        \/ /\ t.typ = "FLOW_ENTRY"
           /\ \E u \in Fetch : FlowEntryOrEnd(closer, u, mk, Append(opened, t.typ))
        \/ t.typ # "ERROR" /\ Raise("PARSER", states, Pop(mk), t, opened)
  BY DEF FlowCollection
<1>. HIDE DEF mk, opened
<1>2. /\ Inside(states) /\ states \in Seq(ParserStates) /\ mk \in Seq(Nat)
      /\ Fits(states, Pop(mk)) /\ Pop(mk) \in Seq(Nat)
      /\ \A next \in MarkedStates : Fits(Append(states, next), mk)
      /\ opened \in Seq(TokenTypes)
      /\ t \in Token \cup {ScanError} /\ (t = ScanError <=> t.typ = "ERROR")
  BY CollectionFacts DEF mk, opened
<1>3. ASSUME NEW u \in Token \cup {ScanError}, u = ScanError <=> u.typ = "ERROR",
             NEW rd \in Seq(TokenTypes), FlowEntryOrEnd(closer, u, mk, rd)
      PROVE  Core'
  <2>1. CASE ScanFails(u, states, mk, rd)
    BY <1>2, <2>1, ScanFailsCore
  <2>2. ASSUME u.typ = closer,
               NEW typ \in {"SEQUENCE_END", "MAPPING_END"}, CloseCollection(typ, mk, rd, u)
        PROVE  Core'
    <3>1. u \in Token
      BY <1>3, <2>2
    <3>. QED
      BY <1>2, <2>2, <3>1, CloseCollectionCore
  <2>3. CASE /\ u.typ # "ERROR"
             /\ FlowSequenceEntry(u, mk, rd) \/ FlowMappingEntry(u, mk, rd)
    <3>1. u \in Token
      BY <1>3, <2>3
    <3>. QED
      BY <1>2, <2>3, <3>1, FlowEntryCore
  <2>. QED
    BY <1>3, <2>1, <2>2, <2>3 DEF FlowEntryOrEnd
<1>4. CASE FlowEntryOrEnd(closer, t, mk, opened)
  BY <1>2, <1>3, <1>4
<1>5. CASE /\ t.typ = "FLOW_ENTRY"
           /\ \E u \in Fetch : FlowEntryOrEnd(closer, u, mk, Append(opened, t.typ))
  <2>1. Append(opened, t.typ) \in Seq(TokenTypes)
    BY <1>2, <1>5 DEF TokenTypes, PlainTypes
  <2>. QED
    BY <1>3, <1>5, <2>1, FetchFacts
<1>6. CASE t.typ # "ERROR" /\ Raise("PARSER", states, Pop(mk), t, opened)
  <2>1. t \in Token \cup {NoToken}
    BY <1>2, <1>6
  <2>. QED
    BY <1>2, <1>6, <2>1, RaiseCore
<1>. QED
  BY <1>1, <1>4, <1>5, <1>6

\* ParseFlowSequenceEntry leaves the invariant true.
LEMMA ParseFlowSequenceEntryCore ==
  ASSUME Core, NEW first \in BOOLEAN, ParseFlowSequenceEntry(first)
  PROVE  Core'
<1>1. /\ error = "NONE" /\ state \in (IF first THEN FirstStates ELSE MarkedStates)
      /\ FlowCollection(first, "FLOW_SEQUENCE_END")
  BY DEF ParseFlowSequenceEntry, Running, FirstStates, MarkedStates
<1>. QED
  BY <1>1, FlowCollectionCore

\* ParseFlowMappingKey leaves the invariant true.
LEMMA ParseFlowMappingKeyCore ==
  ASSUME Core, NEW first \in BOOLEAN, ParseFlowMappingKey(first)
  PROVE  Core'
<1>1. /\ error = "NONE" /\ state \in (IF first THEN FirstStates ELSE MarkedStates)
      /\ FlowCollection(first, "FLOW_MAPPING_END")
  BY DEF ParseFlowMappingKey, Running, FirstStates, MarkedStates
<1>. QED
  BY <1>1, FlowCollectionCore

\* ParseFlowSequenceEntryMappingKey leaves the invariant true.
LEMMA ParseFlowSequenceEntryMappingKeyCore ==
  ASSUME Core, ParseFlowSequenceEntryMappingKey
  PROVE  Core'
<1> DEFINE next == "FLOW_SEQUENCE_ENTRY_MAPPING_VALUE"
<1>1. /\ error = "NONE" /\ state \in MarkedStates
      /\ next \in MarkedStates /\ next \in ReturnStates
  BY DEF ParseFlowSequenceEntryMappingKey, Running, MarkedStates, ReturnStates
<1>2. /\ Inside(states) /\ states \in Seq(ParserStates) /\ marks \in Seq(Nat)
      /\ Fits(Append(states, next), marks)
      /\ token \in Token \cup {NoToken} /\ <<>> \in Seq(TokenTypes)
  BY <1>1, MarkedFacts
<1>3. PICK t \in Peek :
       \/ ScanFails(t, states, marks, <<>>)
       \/ /\ t.typ # "ERROR"
          /\ ParseNode(t, Append(states, next), marks, <<>>, FALSE, FALSE)
       \/ /\ t.typ \in {"VALUE", "FLOW_ENTRY", "FLOW_SEQUENCE_END"}
          /\ EmptyScalar(next, states, marks, NoToken, <<t.typ>>)
  BY DEF ParseFlowSequenceEntryMappingKey
<1>4. Inside(Append(states, next))
  BY <1>1, <1>2, InsidePush
<1>. HIDE DEF next
<1>5. CASE ScanFails(t, states, marks, <<>>)
  BY <1>2, <1>5, ScanFailsCore
<1>6. CASE /\ t.typ # "ERROR"
           /\ ParseNode(t, Append(states, next), marks, <<>>, FALSE, FALSE)
  <2>1. t \in Token
    BY <1>2, <1>6, PeekFacts
  <2>. QED
    BY <1>2, <1>4, <1>6, <2>1, ParseNodeCore
<1>7. CASE /\ t.typ \in {"VALUE", "FLOW_ENTRY", "FLOW_SEQUENCE_END"}
           /\ EmptyScalar(next, states, marks, NoToken, <<t.typ>>)
  <2>1. <<t.typ>> \in Seq(TokenTypes) /\ NoToken \in Token \cup {NoToken}
    BY <1>7 DEF TokenTypes, PlainTypes
  <2>. QED
    BY <1>1, <1>7, <2>1, EmptyScalarCore
<1>. QED
  BY <1>3, <1>5, <1>6, <1>7

\* ParseFlowSequenceEntryMappingValue leaves the invariant true.
LEMMA ParseFlowSequenceEntryMappingValueCore ==
  ASSUME Core, ParseFlowSequenceEntryMappingValue
  PROVE  Core'
<1>1. /\ error = "NONE" /\ state \in MarkedStates
      /\ "FLOW_SEQUENCE_ENTRY_MAPPING_END" \in MarkedStates
      /\ FlowValue("FLOW_SEQUENCE_END", "FLOW_SEQUENCE_ENTRY_MAPPING_END")
  BY DEF ParseFlowSequenceEntryMappingValue, Running, MarkedStates
<1>. QED
  BY <1>1, FlowValueCore

\* ParseFlowSequenceEntryMappingEnd leaves the invariant true.
LEMMA ParseFlowSequenceEntryMappingEndCore ==
  ASSUME Core, ParseFlowSequenceEntryMappingEnd
  PROVE  Core'
<1>1. /\ error = "NONE" /\ state \in MarkedStates
      /\ "FLOW_SEQUENCE_ENTRY" \in MarkedStates /\ "FLOW_SEQUENCE_ENTRY" \in ParserStates
      /\ "FLOW_SEQUENCE_ENTRY" \notin OutsideStates \cup FirstStates
  BY DEF ParseFlowSequenceEntryMappingEnd, Running, MarkedStates, ParserStates,
         OutsideStates, FirstStates
<1>2. /\ Inside(states) /\ states \in Seq(ParserStates) /\ marks \in Seq(Nat)
      /\ Fits(Append(states, "FLOW_SEQUENCE_ENTRY"), marks)
      /\ token \in Token \cup {NoToken} /\ <<>> \in Seq(TokenTypes)
  BY <1>1, MarkedFacts
<1>3. PICK t \in Peek :
       \/ ScanFails(t, states, marks, <<>>)
       \/ /\ t # ScanError
          /\ Return("FLOW_SEQUENCE_ENTRY", states, marks, t, Event("MAPPING_END", None), <<>>)
  BY DEF ParseFlowSequenceEntryMappingEnd
<1>4. CASE ScanFails(t, states, marks, <<>>)
  BY <1>2, <1>4, ScanFailsCore
<1>5. CASE /\ t # ScanError
           /\ Return("FLOW_SEQUENCE_ENTRY", states, marks, t, Event("MAPPING_END", None), <<>>)
  <2>1. Good("FLOW_SEQUENCE_ENTRY", states, marks, t)
    BY <1>1, <1>2 DEF Good
  <2>2. Event("MAPPING_END", None) \in Events
    BY EventFacts DEF EventTypes
  <2>3. t \in Token \cup {NoToken}
    BY <1>2, <1>5, PeekFacts
  <2>. QED
    BY <1>2, <1>5, <2>1, <2>2, <2>3, ReturnCore
<1>. QED
  BY <1>3, <1>4, <1>5

\* ParseFlowMappingValue leaves the invariant true.
LEMMA ParseFlowMappingValueCore ==
  ASSUME Core, ParseFlowMappingValue
  PROVE  Core'
<1>1. /\ error = "NONE" /\ state \in MarkedStates /\ "FLOW_MAPPING_KEY" \in MarkedStates
      /\ FlowValue("FLOW_MAPPING_END", "FLOW_MAPPING_KEY")
  BY DEF ParseFlowMappingValue, Running, MarkedStates
<1>. QED
  BY <1>1, FlowValueCore

\* ParseFlowMappingEmptyValue leaves the invariant true.
LEMMA ParseFlowMappingEmptyValueCore ==
  ASSUME Core, ParseFlowMappingEmptyValue
  PROVE  Core'
<1>1. error = "NONE" /\ state \in MarkedStates /\ "FLOW_MAPPING_KEY" \in MarkedStates
  BY DEF ParseFlowMappingEmptyValue, Running, MarkedStates
<1>2. /\ states \in Seq(ParserStates) /\ marks \in Seq(Nat)
      /\ token \in Token \cup {NoToken} /\ <<>> \in Seq(TokenTypes)
  BY <1>1, MarkedFacts
<1>3. PICK t \in Peek :
       \/ ScanFails(t, states, marks, <<>>)
       \/ t # ScanError /\ EmptyScalar("FLOW_MAPPING_KEY", states, marks, t, <<>>)
  BY DEF ParseFlowMappingEmptyValue
<1>4. CASE ScanFails(t, states, marks, <<>>)
  BY <1>2, <1>4, ScanFailsCore
<1>5. CASE t # ScanError /\ EmptyScalar("FLOW_MAPPING_KEY", states, marks, t, <<>>)
  <2>1. t \in Token \cup {NoToken}
    BY <1>2, <1>5, PeekFacts
  <2>. QED
    BY <1>1, <1>2, <1>5, <2>1, EmptyScalarCore
<1>. QED
  BY <1>3, <1>4, <1>5

-----------------------------------------------------------------------------
(* The specification                                                         *)

\* Nothing is open at the start.
LEMMA InitCore ==
  ASSUME Init
  PROVE  Core
<1>1. /\ state = "STREAM_START" /\ states = <<>> /\ marks = <<>> /\ token = NoToken
      /\ error = "NONE" /\ event = NoEvent /\ read = <<>>
  BY DEF Init
<1>2. state \in OutsideStates /\ state \in ParserStates
  BY <1>1 DEF OutsideStates, ParserStates
<1>3. Fits(<<>>, <<>>)
  BY DEF Fits
<1>4. Good(state, states, marks, token)
  BY <1>1, <1>2, <1>3, OutsideGood
<1>5. NoEvent \in Events
  BY DEF NoEvent, Event, Events
<1>6. /\ states \in Seq(ParserStates) /\ marks \in Seq(Nat) /\ read \in Seq(TokenTypes)
      /\ token \in Token \cup {NoToken}
  BY <1>1
<1>. QED
  BY <1>1, <1>2, <1>4, <1>5, <1>6 DEF Core

\* Every call of yaml_parser_parse leaves the invariant true.
LEMMA NextCore ==
  ASSUME Core, [Next]_vars
  PROVE  Core'
<1>1. CASE ParseStreamStart
  BY <1>1, ParseStreamStartCore
<1>2. CASE \E implicit \in BOOLEAN : ParseDocumentStart(implicit)
  BY <1>2, ParseDocumentStartCore
<1>3. CASE ParseDocumentContent
  BY <1>3, ParseDocumentContentCore
<1>4. CASE ParseBlockNode
  BY <1>4, ParseBlockNodeCore
<1>5. CASE ParseDocumentEnd
  BY <1>5, ParseDocumentEndCore
<1>6. CASE \E first \in BOOLEAN : ParseBlockSequenceEntry(first)
  BY <1>6, ParseBlockSequenceEntryCore
<1>7. CASE ParseIndentlessSequenceEntry
  BY <1>7, ParseIndentlessSequenceEntryCore
<1>8. CASE \E first \in BOOLEAN : ParseBlockMappingKey(first)
  BY <1>8, ParseBlockMappingKeyCore
<1>9. CASE ParseBlockMappingValue
  BY <1>9, ParseBlockMappingValueCore
<1>10. CASE \E first \in BOOLEAN : ParseFlowSequenceEntry(first)
  BY <1>10, ParseFlowSequenceEntryCore
<1>11. CASE ParseFlowSequenceEntryMappingKey
  BY <1>11, ParseFlowSequenceEntryMappingKeyCore
<1>12. CASE ParseFlowSequenceEntryMappingValue
  BY <1>12, ParseFlowSequenceEntryMappingValueCore
<1>13. CASE ParseFlowSequenceEntryMappingEnd
  BY <1>13, ParseFlowSequenceEntryMappingEndCore
<1>14. CASE \E first \in BOOLEAN : ParseFlowMappingKey(first)
  BY <1>14, ParseFlowMappingKeyCore
<1>15. CASE ParseFlowMappingValue
  BY <1>15, ParseFlowMappingValueCore
<1>16. CASE ParseFlowMappingEmptyValue
  BY <1>16, ParseFlowMappingEmptyValueCore
<1>17. CASE ParseNothing
  <2>1. event' \in Events /\ read' \in Seq(TokenTypes)
    BY <1>17 DEF ParseNothing, NoEvent, Event, Events
  <2>. QED
    BY <1>17, <2>1 DEF ParseNothing, Core
<1>18. CASE UNCHANGED vars
  BY <1>18 DEF vars, Core
<1>. QED
  BY <1>1, <1>2, <1>3, <1>4, <1>5, <1>6, <1>7, <1>8, <1>9, <1>10, <1>11, <1>12, <1>13, <1>14,
     <1>15, <1>16, <1>17, <1>18 DEF Next

\* The invariant of the stack, the marks and the head token holds.
LEMMA SpecCore == Spec => []Core
BY InitCore, NextCore, PTL DEF Spec

-----------------------------------------------------------------------------
(* The tag directives                                                        *)

TagsOK ==
  /\ DOMAIN tag_directives \subseteq Handles
  /\ \A h \in DOMAIN tag_directives : tag_directives[h] \in {"declared", "default"}
  /\ declared \subseteq Handles

\* Only handles are declared.
LEMMA DeclaredFacts ==
  ASSUME NEW ds \in DirectiveRuns
  PROVE  /\ DeclaredHandles(ds) \subseteq Handles
         /\ ds # <<>> => DeclaredHandles(Pop(ds)) \subseteq Handles
<1>1. PICK n \in 0..MaxDirectives : ds \in [1..n -> {t \in Token : t.typ \in DirectiveTypes}]
  BY DEF DirectiveRuns
<1>2. \A t \in Token : t.typ = "TAG_DIRECTIVE" => t.arg \in Handles
  BY DEF Token, PlainTypes, CollectionStarts
<1>3. ds \in Seq(Token)
  BY <1>1
<1>4. \A s \in Seq(Token) : DeclaredHandles(s) \subseteq Handles
  BY <1>2 DEF DeclaredHandles
<1>5. ds # <<>> => Pop(ds) \in Seq(Token)
  BY <1>3, PopProperties
<1>. QED
  BY <1>3, <1>4, <1>5

\* Declaring handles keeps the directives well-typed.
LEMMA DeclareFacts ==
  ASSUME TagsOK, NEW ds, DeclaredHandles(ds) \subseteq Handles
  PROVE  /\ DOMAIN Declare(ds) \subseteq Handles
         /\ \A h \in DOMAIN Declare(ds) : Declare(ds)[h] \in {"declared", "default"}
BY DEF TagsOK, Declare

\* So does adding the default handles behind the document's own.
LEMMA WithDefaultsFacts ==
  ASSUME NEW td, DOMAIN td \subseteq Handles,
         \A h \in DOMAIN td : td[h] \in {"declared", "default"}
  PROVE  /\ DOMAIN WithDefaults(td) \subseteq Handles
         /\ \A h \in DOMAIN WithDefaults(td) : WithDefaults(td)[h] \in {"declared", "default"}
BY DEF WithDefaults, Handles

\* The directives in front of a document.
LEMMA ExplicitDocumentTags ==
  ASSUME TagsOK, NEW t, ExplicitDocument(t)
  PROVE  TagsOK'
<1>1. PICK ds \in DirectiveRuns :
        \/ ds # <<>> /\ tag_directives' = Declare(Pop(ds)) /\ UNCHANGED declared
        \/ tag_directives' = Declare(ds) /\ UNCHANGED declared
        \/ tag_directives' = WithDefaults(Declare(ds)) /\ UNCHANGED declared
        \/ tag_directives' = WithDefaults(Declare(ds)) /\ declared' = DeclaredHandles(ds)
  BY DEF ExplicitDocument
<1>2. /\ DeclaredHandles(ds) \subseteq Handles
      /\ ds # <<>> => DeclaredHandles(Pop(ds)) \subseteq Handles
  BY DeclaredFacts
<1>3. /\ DOMAIN tag_directives' \subseteq Handles
      /\ \A h \in DOMAIN tag_directives' : tag_directives'[h] \in {"declared", "default"}
  BY <1>1, <1>2, DeclareFacts, WithDefaultsFacts
<1>4. declared' \subseteq Handles
  BY <1>1, <1>2 DEF TagsOK
<1>. QED
  BY <1>3, <1>4 DEF TagsOK

\* No call of yaml_parser_parse leaves a tag directive that is no handle's.
LEMMA NextTags ==
  ASSUME TagsOK, [Next]_vars
  PROVE  TagsOK'
<1>1. CASE UNCHANGED <<tag_directives, declared>>
  BY <1>1 DEF TagsOK
<1>2. ASSUME NEW implicit \in BOOLEAN, ParseDocumentStart(implicit)
      PROVE  TagsOK'
  <2>1. CASE tag_directives' = WithDefaults(tag_directives) /\ declared' = {}
    BY <2>1, WithDefaultsFacts DEF TagsOK
  <2>2. CASE \E t : ExplicitDocument(t)
    BY <2>2, ExplicitDocumentTags
  <2>. QED
    BY <1>1, <1>2, <2>1, <2>2 DEF ParseDocumentStart
<1>3. CASE ParseDocumentEnd
  <2>1. CASE tag_directives' = <<>> /\ declared' = declared
    <3>1. DOMAIN tag_directives' = {}
      BY <2>1
    <3>. QED
      BY <2>1, <3>1 DEF TagsOK
  <2>. QED
    BY <1>1, <1>3, <2>1 DEF ParseDocumentEnd
<1>. QED
  BY <1>1, <1>2, <1>3 DEF Next, vars, ParseStreamStart, ParseDocumentContent, ParseBlockNode,
     ParseBlockSequenceEntry, ParseIndentlessSequenceEntry, ParseBlockMappingKey,
     ParseBlockMappingValue, ParseFlowSequenceEntry, ParseFlowSequenceEntryMappingKey,
     ParseFlowSequenceEntryMappingValue, ParseFlowSequenceEntryMappingEnd, ParseFlowMappingKey,
     ParseFlowMappingValue, ParseFlowMappingEmptyValue, ParseNothing

\* The tag directives are well-typed in every behaviour.
LEMMA SpecTags == Spec => []TagsOK
<1>1. Init => TagsOK
  BY DEF Init, TagsOK
<1>. QED
  BY <1>1, NextTags, PTL DEF Spec

-----------------------------------------------------------------------------
(* Progress                                                                  *)

\* The states that may return to the state below them without reading a token.
Silent == {"DOCUMENT_CONTENT", "BLOCK_NODE", "INDENTLESS_SEQUENCE_ENTRY"}

\* Below each of them is a state of lower rank.
Grounded(s) == \A l \in 2..Len(s) : s[l] \in Silent => Rank(s[l - 1]) < 2

\* What a call that does not fail does for Progress.
Advances ==
  error' = "NONE" =>
    /\ Grounded(Append(states', state'))
    /\ read' = <<>> => Rank(state') < Rank(state)

\* The ranks of the states a node starts from or returns to.
LEMMA RankFacts ==
  /\ \A st : Rank(st) \in 0..3
  /\ \A st \in FirstStates : Rank(st) = 0 /\ st \notin Silent
  /\ MarkedStates \cap Silent = {}
  /\ OutsideStates \cap Silent = {}
BY DEF Rank, FirstStates, Silent, MarkedStates, OutsideStates

\* A grounded stack stays grounded when its top is dropped ...
LEMMA GroundedPop ==
  ASSUME NEW s \in Seq(ParserStates), NEW x \in ParserStates, Grounded(Append(s, x))
  PROVE  Grounded(s) /\ (s # <<>> /\ x \in Silent => Rank(Top(s)) < 2)
<1>1. /\ Len(Append(s, x)) = Len(s) + 1 /\ Len(s) \in Nat
      /\ \A i \in 1..Len(s) : Append(s, x)[i] = s[i]
      /\ Append(s, x)[Len(s) + 1] = x
  BY PushPop
<1>2. Grounded(s)
  <2>. SUFFICES ASSUME NEW l \in 2..Len(s), s[l] \in Silent
                PROVE  Rank(s[l - 1]) < 2
    BY DEF Grounded
  <2>1. l \in 2..Len(s) + 1 /\ l \in 1..Len(s) /\ l - 1 \in 1..Len(s)
    BY <1>1
  <2>. QED
    BY <1>1, <2>1 DEF Grounded
<1>3. ASSUME s # <<>>, x \in Silent
      PROVE  Rank(Top(s)) < 2
  <2>1. Len(s) \in 1..Len(s) /\ Len(s) + 1 \in 2..Len(s) + 1 /\ (Len(s) + 1) - 1 = Len(s)
    BY <1>1, <1>3
  <2>2. Rank(Append(s, x)[Len(s)]) < 2
    BY <1>1, <1>3, <2>1 DEF Grounded
  <2>. QED
    BY <1>1, <2>1, <2>2 DEF Top
<1>. QED
  BY <1>2, <1>3

\* ... and when a state is pushed, a silent one above a lower rank.
LEMMA GroundedPush ==
  ASSUME NEW s \in Seq(ParserStates), Grounded(s), NEW x \in ParserStates,
         x \in Silent /\ s # <<>> => Rank(Top(s)) < 2
  PROVE  Grounded(Append(s, x))
<1>1. /\ Len(Append(s, x)) = Len(s) + 1 /\ Len(s) \in Nat
      /\ \A i \in 1..Len(s) : Append(s, x)[i] = s[i]
      /\ Append(s, x)[Len(s) + 1] = x
  BY PushPop
<1>. SUFFICES ASSUME NEW l \in 2..Len(s) + 1, Append(s, x)[l] \in Silent
              PROVE  Rank(Append(s, x)[l - 1]) < 2
  BY <1>1 DEF Grounded
<1>2. CASE l \in 2..Len(s)
  <2>1. l \in 1..Len(s) /\ l - 1 \in 1..Len(s)
    BY <1>1, <1>2
  <2>. QED
    BY <1>1, <1>2, <2>1 DEF Grounded
<1>3. CASE l = Len(s) + 1
  <2>1. Len(s) \in 1..Len(s) /\ l - 1 = Len(s) /\ s # <<>>
    BY <1>1, <1>3
  <2>2. Append(s, x)[l - 1] = Top(s) /\ x \in Silent
    BY <1>1, <1>3, <2>1 DEF Top
  <2>. QED
    BY <2>1, <2>2
<1>. QED
  BY <1>1, <1>2, <1>3

\* The state a stack inside a document returns to: nothing moves.
LEMMA GroundedReturn ==
  ASSUME NEW stk, Inside(stk), Grounded(stk)
  PROVE  Grounded(Append(Pop(stk), Top(stk)))
<1>1. stk = Append(Pop(stk), Top(stk))
  BY PopProperties DEF Inside
<1>. QED
  BY <1>1

\* A call that returns an event: it reads, or leaves the parser lower.
LEMMA ReturnAdvances ==
  ASSUME NEW st, NEW stk, NEW mk, NEW tok, NEW ev, NEW rd,
         Return(st, stk, mk, tok, ev, rd), Grounded(Append(stk, st)),
         rd = <<>> => Rank(st) < Rank(state)
  PROVE  Advances
BY DEF Return, Advances

\* A call that fails promises nothing.
LEMMA RaiseAdvances ==
  ASSUME NEW err \in {"SCANNER", "PARSER"}, NEW stk, NEW mk, NEW tok, NEW rd,
         Raise(err, stk, mk, tok, rd)
  PROVE  Advances
BY DEF Raise, Advances

\* Nor does one that finds no token.
LEMMA ScanFailsAdvances ==
  ASSUME NEW t, NEW stk, NEW mk, NEW rd, ScanFails(t, stk, mk, rd)
  PROVE  Advances
BY RaiseAdvances DEF ScanFails

\* The content of a node: a node that reads nothing is a collection, whose
\* first state is of the lowest rank.
LEMMA NodeContentAdvances ==
  ASSUME NEW tok \in Token \cup {ScanError}, NEW anchor, NEW tag,
         NEW stk, Inside(stk), Grounded(stk), NEW mk, NEW rd \in Seq(TokenTypes),
         NEW block \in BOOLEAN, NEW indentless \in BOOLEAN,
         indentless => Rank(Top(stk)) < 2,
         rd = <<>> => anchor = None /\ tag = None /\ ~indentless /\ Rank(state) > 0,
         NodeContent(tok, anchor, tag, stk, mk, rd, block, indentless)
  PROVE  Advances
<1> DEFINE openers == Openers(block, indentless)
<1>1. Grounded(Append(Pop(stk), Top(stk)))
  BY GroundedReturn
<1>2. CASE ScanFails(tok, stk, mk, rd)
  BY <1>2, ScanFailsAdvances
<1>3. CASE Raise("PARSER", stk, mk, tok, rd)
  BY <1>3, RaiseAdvances
<1>4. CASE Return(Top(stk), Pop(stk), mk, NoToken, Event("SCALAR", anchor), Append(rd, "SCALAR"))
  <2>1. Append(rd, "SCALAR") # <<>>
    OBVIOUS
  <2>. QED
    BY <1>1, <1>4, <2>1, ReturnAdvances
<1>5. CASE /\ tok.typ \in openers
           /\ Return(FirstState(tok.typ), stk, mk, tok, Event(StartEvent(tok.typ), anchor), rd)
  <2>1. CASE tok.typ \in CollectionStarts
    <3>1. FirstState(tok.typ) \in FirstStates
      BY <2>1, FirstStateFacts
    <3>2. FirstState(tok.typ) \in ParserStates \ Silent /\ Rank(FirstState(tok.typ)) = 0
      BY <3>1, RankFacts DEF FirstStates, ParserStates
    <3>3. Grounded(Append(stk, FirstState(tok.typ)))
      BY <3>2, GroundedPush DEF Inside
    <3>. QED
      BY <1>5, <3>2, <3>3, ReturnAdvances
  <2>2. CASE tok.typ \notin CollectionStarts
    <3>1. tok.typ = "BLOCK_ENTRY" /\ indentless
      BY <1>5, <2>2 DEF Openers, CollectionStarts
    <3>2. FirstState(tok.typ) = "INDENTLESS_SEQUENCE_ENTRY"
      BY <3>1, FirstStateFacts
    <3>3. "INDENTLESS_SEQUENCE_ENTRY" \in ParserStates
      BY DEF ParserStates
    <3>4. Grounded(Append(stk, "INDENTLESS_SEQUENCE_ENTRY"))
      BY <3>1, <3>3, GroundedPush DEF Inside
    <3>. QED
      BY <1>5, <3>1, <3>2, <3>4, ReturnAdvances
  <2>. QED
    BY <2>1, <2>2
<1>6. CASE /\ anchor # None \/ tag # None
           /\ Return(Top(stk), Pop(stk), mk, tok, Event("SCALAR", anchor), rd)
  BY <1>1, <1>6, ReturnAdvances
<1>. QED
  BY <1>2, <1>3, <1>4, <1>5, <1>6 DEF NodeContent, OpenCollection

\* A node with its properties.
LEMMA ParseNodeAdvances ==
  ASSUME NEW t \in Token,
         NEW stk, Inside(stk), Grounded(stk), NEW mk, NEW rd \in Seq(TokenTypes),
         NEW block \in BOOLEAN, NEW indentless \in BOOLEAN,
         indentless => Rank(Top(stk)) < 2,
         rd = <<>> => ~indentless /\ Rank(state) > 0,
         ParseNode(t, stk, mk, rd, block, indentless)
  PROVE  Advances
<1> DEFINE Content(tok, anchor, tag, props) ==
             NodeContent(tok, anchor, tag, stk, mk, rd \o props, block, indentless)
           Properties == {<<"ANCHOR">>, <<"TAG">>, <<"ANCHOR", "TAG">>, <<"TAG", "ANCHOR">>}
<1>1. /\ \A props \in Properties : rd \o props \in Seq(TokenTypes) /\ rd \o props # <<>>
      /\ rd \o <<>> = rd
      /\ Append(rd, "ALIAS") # <<>>
  <2>1. ASSUME NEW props \in Seq(TokenTypes), props # <<>>
        PROVE  rd \o props \in Seq(TokenTypes) /\ rd \o props # <<>>
    BY <2>1
  <2>2. \A props \in Properties : props \in Seq(TokenTypes) /\ props # <<>>
    <3>1. "ANCHOR" \in TokenTypes /\ "TAG" \in TokenTypes
      BY DEF TokenTypes
    <3>2. /\ <<"ANCHOR">> \in Seq(TokenTypes) /\ <<"TAG">> \in Seq(TokenTypes)
          /\ <<"ANCHOR", "TAG">> \in Seq(TokenTypes) /\ <<"TAG", "ANCHOR">> \in Seq(TokenTypes)
      BY <3>1
    <3>3. /\ <<"ANCHOR">> # <<>> /\ <<"TAG">> # <<>>
          /\ <<"ANCHOR", "TAG">> # <<>> /\ <<"TAG", "ANCHOR">> # <<>>
      OBVIOUS
    <3>. QED
      BY <3>2, <3>3
  <2>. QED
    BY <2>1, <2>2
<1>2. ASSUME NEW tok \in Token \cup {ScanError}, NEW anchor, NEW tag, NEW props \in Properties,
             Content(tok, anchor, tag, props)
      PROVE  Advances
  BY <1>1, <1>2, NodeContentAdvances
<1>3. ASSUME Content(t, None, None, <<>>)
      PROVE  Advances
  BY <1>1, <1>3, NodeContentAdvances
<1>4. CASE Return(Top(stk), Pop(stk), mk, NoToken, Event("ALIAS", t.arg), Append(rd, "ALIAS"))
  BY <1>1, <1>4, GroundedReturn, ReturnAdvances
<1>. HIDE DEF Content
<1>5. CASE \E u \in Fetch :
             \/ u.typ # "TAG" /\ Content(u, t.arg, None, <<"ANCHOR">>)
             \/ u.typ = "TAG" /\ \E v \in Fetch : Content(v, t.arg, u.arg, <<"ANCHOR", "TAG">>)
  BY <1>2, <1>5, FetchFacts
<1>6. CASE \E u \in Fetch :
             \/ u.typ # "ANCHOR" /\ Content(u, None, t.arg, <<"TAG">>)
             \/ u.typ = "ANCHOR" /\ \E v \in Fetch : Content(v, u.arg, t.arg, <<"TAG", "ANCHOR">>)
  BY <1>2, <1>6, FetchFacts
<1>. QED
  BY <1>3, <1>4, <1>5, <1>6 DEF ParseNode, Content

\* A node behind an indicator: the indicator has been read.
LEMMA IndicatedNodeAdvances ==
  ASSUME Inside(states), NEW next \in ReturnStates, Grounded(Append(states, next)),
         NEW mk, NEW rd \in Seq(TokenTypes), rd # <<>>,
         NEW block \in BOOLEAN, NEW indentless \in BOOLEAN, NEW Absent,
         indentless => Rank(next) < 2,
         IndicatedNode(Absent, next, mk, rd, block, indentless)
  PROVE  Advances
<1>1. /\ Inside(Append(states, next)) /\ Top(Append(states, next)) = next
  <2>1. next \in ParserStates
    BY DEF ReturnStates, MarkedStates, ParserStates
  <2>. QED
    BY <2>1, InsidePush, PushPop DEF Inside
<1>2. PICK u \in Fetch :
        \/ ScanFails(u, states, mk, rd)
        \/ EmptyScalar(next, states, mk, u, rd)
        \/ u.typ # "ERROR" /\ ParseNode(u, Append(states, next), mk, rd, block, indentless)
  BY DEF IndicatedNode
<1>3. CASE ScanFails(u, states, mk, rd)
  BY <1>3, ScanFailsAdvances
<1>4. CASE EmptyScalar(next, states, mk, u, rd)
  BY <1>4, ReturnAdvances DEF EmptyScalar
<1>5. CASE u.typ # "ERROR" /\ ParseNode(u, Append(states, next), mk, rd, block, indentless)
  <2>1. u \in Token
    BY <1>5, FetchFacts
  <2>. QED
    BY <1>1, <1>5, <2>1, ParseNodeAdvances
<1>. QED
  BY <1>2, <1>3, <1>4, <1>5

\* What a running parser inside a document may push.
LEMMA StatesGrounded ==
  ASSUME Core, error = "NONE", Grounded(Append(states, state))
  PROVE  /\ Grounded(states) /\ states \in Seq(ParserStates)
         /\ states # <<>> /\ state \in Silent => Rank(Top(states)) < 2
         /\ \A next \in MarkedStates \cup OutsideStates : Grounded(Append(states, next))
<1>1. states \in Seq(ParserStates) /\ state \in ParserStates
  BY CoreFacts
<1>2. Grounded(states) /\ (states # <<>> /\ state \in Silent => Rank(Top(states)) < 2)
  BY <1>1, GroundedPop
<1>3. \A next \in MarkedStates \cup OutsideStates : next \in ParserStates \ Silent
  BY RankFacts DEF MarkedStates, OutsideStates, ParserStates
<1>4. \A next \in MarkedStates \cup OutsideStates : Grounded(Append(states, next))
  BY <1>1, <1>2, <1>3, GroundedPush
<1>. QED
  BY <1>1, <1>2, <1>4

\* The start of the stream is read.
LEMMA ParseStreamStartAdvances ==
  ASSUME Core, Grounded(Append(states, state)), ParseStreamStart
  PROVE  Advances
<1>1. error = "NONE" /\ "IMPLICIT_DOCUMENT_START" \in OutsideStates
  BY DEF ParseStreamStart, Running, OutsideStates
<1>2. Grounded(Append(states, "IMPLICIT_DOCUMENT_START"))
  BY <1>1, StatesGrounded
<1>3. <<"STREAM_START">> # <<>>
  OBVIOUS
<1>. QED
  BY <1>2, <1>3, ReturnAdvances, RaiseAdvances, ScanFailsAdvances DEF ParseStreamStart

\* A document's root is silent, above the state of the document's end.
LEMMA RootGrounded ==
  ASSUME Core, Running, state \in OutsideStates, NEW root \in {"DOCUMENT_CONTENT", "BLOCK_NODE"}
  PROVE  Grounded(Append(Append(states, "DOCUMENT_END"), root))
<1> DEFINE stk == Append(states, "DOCUMENT_END")
<1>1. states \in Seq(ParserStates)
  BY CoreFacts DEF Running
<1>2. Grounded(states)
  <2>1. states = <<>>
    BY CoreFacts DEF Running
  <2>. QED
    BY <2>1 DEF Grounded
<1>3. /\ "DOCUMENT_END" \in ParserStates /\ "DOCUMENT_END" \notin Silent
      /\ root \in ParserStates
  BY DEF ParserStates, OutsideStates, Silent
<1>4. Rank("DOCUMENT_END") = 1
  BY DEF Rank
<1>5. stk \in Seq(ParserStates) /\ Top(stk) = "DOCUMENT_END"
  <2>1. \A x \in ParserStates : /\ Append(states, x) \in Seq(ParserStates)
                                /\ Top(Append(states, x)) = x
    BY <1>1, PushPop
  <2>. QED
    BY <1>3, <2>1
<1>6. Grounded(stk)
  BY <1>1, <1>2, <1>3, GroundedPush
<1>. HIDE DEF stk
<1>7. Grounded(Append(stk, root))
  BY <1>3, <1>4, <1>5, <1>6, GroundedPush
<1>. QED
  BY <1>7 DEF stk

\* An explicit document reads its directives and its DOCUMENT-START.
LEMMA ExplicitDocumentAdvances ==
  ASSUME Core, Running, state \in OutsideStates, NEW t, ExplicitDocument(t)
  PROVE  Advances
<1>1. PICK ds \in DirectiveRuns :
        LET rd == [i \in DOMAIN ds |-> ds[i].typ] IN
        \/ Raise("PARSER", states, marks, Top(ds), Pop(rd))
        \/ \E u \in Token \cup {ScanError, t} :
             \/ ScanFails(u, states, marks, rd)
             \/ Raise("PARSER", states, marks, u, rd)
             \/ Return("DOCUMENT_CONTENT", Append(states, "DOCUMENT_END"), marks, NoToken,
                       Event("DOCUMENT_START", None), Append(rd, "DOCUMENT_START"))
  BY FetchFacts DEF ExplicitDocument
<1> DEFINE rd == [i \in DOMAIN ds |-> ds[i].typ]
<1>2. CASE Return("DOCUMENT_CONTENT", Append(states, "DOCUMENT_END"), marks, NoToken,
                  Event("DOCUMENT_START", None), Append(rd, "DOCUMENT_START"))
  <2>1. Append(rd, "DOCUMENT_START") # <<>>
    BY DEF DirectiveRuns
  <2>2. Grounded(Append(Append(states, "DOCUMENT_END"), "DOCUMENT_CONTENT"))
    BY RootGrounded
  <2>. QED
    BY <1>2, <2>1, <2>2, ReturnAdvances
<1>. QED
  BY <1>1, <1>2, RaiseAdvances, ScanFailsAdvances

\* An implicit document starts from a higher rank than its root has.
LEMMA ParseDocumentStartAdvances ==
  ASSUME Core, Grounded(Append(states, state)), NEW implicit \in BOOLEAN,
         ParseDocumentStart(implicit)
  PROVE  Advances
<1>1. /\ Running /\ error = "NONE" /\ state \in OutsideStates /\ "END" \in OutsideStates
      /\ state = IF implicit THEN "IMPLICIT_DOCUMENT_START" ELSE "DOCUMENT_START"
  BY DEF ParseDocumentStart, Running, OutsideStates
<1>2. PICK t :
        \/ ScanFails(t, states, marks, <<>>)
        \/ Return("END", states, marks, NoToken, Event("STREAM_END", None), <<"STREAM_END">>)
        \/ /\ implicit
           /\ Return("BLOCK_NODE", Append(states, "DOCUMENT_END"), marks, t,
                     Event("DOCUMENT_START", None), <<>>)
        \/ ExplicitDocument(t)
  BY DEF ParseDocumentStart
<1>3. CASE ScanFails(t, states, marks, <<>>)
  BY <1>3, ScanFailsAdvances
<1>4. CASE Return("END", states, marks, NoToken, Event("STREAM_END", None), <<"STREAM_END">>)
  <2>1. Grounded(Append(states, "END"))
    BY <1>1, StatesGrounded
  <2>2. <<"STREAM_END">> # <<>>
    OBVIOUS
  <2>. QED
    BY <1>4, <2>1, <2>2, ReturnAdvances
<1>5. CASE /\ implicit
           /\ Return("BLOCK_NODE", Append(states, "DOCUMENT_END"), marks, t,
                     Event("DOCUMENT_START", None), <<>>)
  <2>1. Rank("BLOCK_NODE") = 2 /\ Rank("IMPLICIT_DOCUMENT_START") = 3
    BY DEF Rank
  <2>2. Grounded(Append(Append(states, "DOCUMENT_END"), "BLOCK_NODE"))
    BY <1>1, RootGrounded
  <2>. QED
    BY <1>1, <1>5, <2>1, <2>2, ReturnAdvances
<1>6. CASE ExplicitDocument(t)
  BY <1>1, <1>6, ExplicitDocumentAdvances
<1>. QED
  BY <1>2, <1>3, <1>4, <1>5, <1>6

\* The root of a document, empty or not.
LEMMA ParseRootAdvances ==
  ASSUME Core, Grounded(Append(states, state)), ParseDocumentContent \/ ParseBlockNode
  PROVE  Advances
<1>1. /\ error = "NONE" /\ state \in Silent /\ state \notin OutsideStates
      /\ Rank(state) = 2
  BY DEF ParseDocumentContent, ParseBlockNode, Running, Silent, OutsideStates, Rank
<1>2. /\ Inside(states) /\ <<>> \in Seq(TokenTypes) /\ states # <<>>
      /\ token \in Token \cup {NoToken}
  BY <1>1, CoreFacts DEF Inside
<1>3. Grounded(states) /\ Rank(Top(states)) < 2
  BY <1>1, <1>2, StatesGrounded
<1>4. PICK t \in Peek :
       \/ ScanFails(t, states, marks, <<>>)
       \/ EmptyScalar(Top(states), Pop(states), marks, t, <<>>)
       \/ t # ScanError /\ ParseNode(t, states, marks, <<>>, TRUE, FALSE)
  BY <1>2, PeekFacts DEF ParseDocumentContent, ParseBlockNode
<1>5. CASE ScanFails(t, states, marks, <<>>)
  BY <1>5, ScanFailsAdvances
<1>6. CASE EmptyScalar(Top(states), Pop(states), marks, t, <<>>)
  BY <1>1, <1>2, <1>3, <1>6, GroundedReturn, ReturnAdvances DEF EmptyScalar
<1>7. CASE t # ScanError /\ ParseNode(t, states, marks, <<>>, TRUE, FALSE)
  <2>1. t \in Token /\ Rank(state) > 0
    BY <1>1, <1>2, <1>7, PeekFacts
  <2>. QED
    BY <1>2, <1>3, <1>7, <2>1, ParseNodeAdvances
<1>. QED
  BY <1>4, <1>5, <1>6, <1>7

\* The end of a document falls to the state between documents.
LEMMA ParseDocumentEndAdvances ==
  ASSUME Core, Grounded(Append(states, state)), ParseDocumentEnd
  PROVE  Advances
<1>1. /\ error = "NONE" /\ "DOCUMENT_START" \in OutsideStates
      /\ Rank("DOCUMENT_START") < Rank(state)
  BY DEF ParseDocumentEnd, Running, OutsideStates, Rank
<1>2. Grounded(Append(states, "DOCUMENT_START"))
  BY <1>1, StatesGrounded
<1>3. PICK t :
       \/ ScanFails(t, states, marks, <<>>)
       \/ \E tok, rd : Return("DOCUMENT_START", states, marks, tok, Event("DOCUMENT_END", None), rd)
  BY DEF ParseDocumentEnd
<1>. QED
  BY <1>1, <1>2, <1>3, ScanFailsAdvances, ReturnAdvances

\* Any entry of a collection, the first or a later one.
LEMMA EntryGrounded ==
  ASSUME Core, error = "NONE", Grounded(Append(states, state)), NEW first \in BOOLEAN,
         state \in (IF first THEN FirstStates ELSE MarkedStates)
  PROVE  /\ Inside(states) /\ OpenRead(first) \in Seq(TokenTypes)
         /\ first => OpenRead(first) # <<>>
         /\ \A typ \in TokenTypes : /\ Append(OpenRead(first), typ) \in Seq(TokenTypes)
                                  /\ Append(OpenRead(first), typ) # <<>>
         /\ \A t \in OpenPeek(first) :
              t \in Token \cup {ScanError} /\ (t = ScanError <=> t.typ = "ERROR")
         /\ \A next \in MarkedStates : Grounded(Append(states, next))
<1>1. /\ Inside(states) /\ OpenRead(first) \in Seq(TokenTypes)
      /\ \A t \in OpenPeek(first) :
           t \in Token \cup {ScanError} /\ (t = ScanError <=> t.typ = "ERROR")
  BY CollectionFacts
<1>2. \A next \in MarkedStates : Grounded(Append(states, next))
  BY StatesGrounded
<1>3. first => OpenRead(first) # <<>>
  BY DEF OpenRead
<1>4. \A typ \in TokenTypes : /\ Append(OpenRead(first), typ) \in Seq(TokenTypes)
                              /\ Append(OpenRead(first), typ) # <<>>
  <2>1. ASSUME NEW s \in Seq(TokenTypes), NEW typ \in TokenTypes
        PROVE  Append(s, typ) \in Seq(TokenTypes) /\ Append(s, typ) # <<>>
    OBVIOUS
  <2>. QED
    BY <1>1, <2>1
<1>. QED
  BY <1>1, <1>2, <1>3, <1>4

\* The end of a collection is read.
LEMMA CloseAdvances ==
  ASSUME Core, error = "NONE", Grounded(Append(states, state)), Inside(states),
         NEW typ, NEW mk, NEW rd \in Seq(TokenTypes), NEW t, t.typ \in TokenTypes,
         CloseCollection(typ, mk, rd, t)
  PROVE  Advances
<1>1. Grounded(Append(Pop(states), Top(states)))
  BY StatesGrounded, GroundedReturn
<1>2. Append(rd, t.typ) # <<>>
  OBVIOUS
<1>. QED
  BY <1>1, <1>2, ReturnAdvances DEF CloseCollection

\* An entry of a block sequence is behind its indicator.
LEMMA ParseBlockSequenceEntryAdvances ==
  ASSUME Core, Grounded(Append(states, state)), NEW first \in BOOLEAN,
         ParseBlockSequenceEntry(first)
  PROVE  Advances
<1> DEFINE mk == OpenMarks(first)
           rd == OpenRead(first)
<1>1. /\ error = "NONE" /\ state \in (IF first THEN FirstStates ELSE MarkedStates)
      /\ "BLOCK_SEQUENCE_ENTRY" \in MarkedStates /\ "BLOCK_SEQUENCE_ENTRY" \in ReturnStates
      /\ "BLOCK_ENTRY" \in TokenTypes /\ "BLOCK_END" \in TokenTypes
  BY DEF ParseBlockSequenceEntry, Running, FirstStates, MarkedStates, ReturnStates,
         TokenTypes, PlainTypes
<1>2. PICK t \in OpenPeek(first) :
       \/ ScanFails(t, states, mk, rd)
       \/ /\ t.typ = "BLOCK_ENTRY"
          /\ IndicatedNode({"BLOCK_ENTRY", "BLOCK_END"}, "BLOCK_SEQUENCE_ENTRY",
                           mk, Append(rd, t.typ), TRUE, FALSE)
       \/ t.typ = "BLOCK_END" /\ CloseCollection("SEQUENCE_END", mk, rd, t)
       \/ Raise("PARSER", states, Pop(mk), t, rd)
  BY DEF ParseBlockSequenceEntry
<1>3. /\ Inside(states) /\ rd \in Seq(TokenTypes)
      /\ Grounded(Append(states, "BLOCK_SEQUENCE_ENTRY"))
      /\ Append(rd, "BLOCK_ENTRY") \in Seq(TokenTypes) /\ Append(rd, "BLOCK_ENTRY") # <<>>
  BY <1>1, EntryGrounded
<1>. HIDE DEF mk, rd
<1>4. CASE ScanFails(t, states, mk, rd)
  BY <1>4, ScanFailsAdvances
<1>5. CASE /\ t.typ = "BLOCK_ENTRY"
           /\ IndicatedNode({"BLOCK_ENTRY", "BLOCK_END"}, "BLOCK_SEQUENCE_ENTRY",
                            mk, Append(rd, t.typ), TRUE, FALSE)
  BY <1>1, <1>3, <1>5, IndicatedNodeAdvances
<1>6. CASE t.typ = "BLOCK_END" /\ CloseCollection("SEQUENCE_END", mk, rd, t)
  BY <1>1, <1>3, <1>6, CloseAdvances
<1>7. CASE Raise("PARSER", states, Pop(mk), t, rd)
  BY <1>7, RaiseAdvances
<1>. QED
  BY <1>2, <1>4, <1>5, <1>6, <1>7

\* An indentless sequence that ends unread returns to a lower rank.
LEMMA ParseIndentlessSequenceEntryAdvances ==
  ASSUME Core, Grounded(Append(states, state)), ParseIndentlessSequenceEntry
  PROVE  Advances
<1>1. /\ error = "NONE" /\ state = "INDENTLESS_SEQUENCE_ENTRY" /\ state \in Silent
      /\ state \notin OutsideStates /\ state \in ReturnStates /\ Rank(state) = 2
      /\ "BLOCK_ENTRY" \in TokenTypes
  BY DEF ParseIndentlessSequenceEntry, Running, Silent, OutsideStates, ReturnStates, Rank,
         TokenTypes, PlainTypes
<1>2. Inside(states) /\ states # <<>>
  BY <1>1, CoreFacts DEF Inside
<1>3. Grounded(states) /\ Rank(Top(states)) < 2
  BY <1>1, <1>2, StatesGrounded
<1>4. PICK t \in Peek :
       \/ ScanFails(t, states, marks, <<>>)
       \/ /\ t.typ = "BLOCK_ENTRY"
          /\ IndicatedNode({"BLOCK_ENTRY", "KEY", "VALUE", "BLOCK_END"},
                           state, marks, <<t.typ>>, TRUE, FALSE)
       \/ Return(Top(states), Pop(states), marks, t, Event("SEQUENCE_END", None), <<>>)
  BY <1>1 DEF ParseIndentlessSequenceEntry
<1>5. CASE ScanFails(t, states, marks, <<>>)
  BY <1>5, ScanFailsAdvances
<1>6. CASE /\ t.typ = "BLOCK_ENTRY"
           /\ IndicatedNode({"BLOCK_ENTRY", "KEY", "VALUE", "BLOCK_END"},
                            state, marks, <<t.typ>>, TRUE, FALSE)
  <2>1. <<t.typ>> \in Seq(TokenTypes) /\ <<t.typ>> # <<>>
    BY <1>1, <1>6
  <2>. QED
    BY <1>1, <1>2, <1>6, <2>1, IndicatedNodeAdvances
<1>7. CASE Return(Top(states), Pop(states), marks, t, Event("SEQUENCE_END", None), <<>>)
  BY <1>1, <1>2, <1>3, <1>7, GroundedReturn, ReturnAdvances
<1>. QED
  BY <1>4, <1>5, <1>6, <1>7

\* A key of a block mapping is behind its indicator.
LEMMA ParseBlockMappingKeyAdvances ==
  ASSUME Core, Grounded(Append(states, state)), NEW first \in BOOLEAN,
         ParseBlockMappingKey(first)
  PROVE  Advances
<1> DEFINE mk == OpenMarks(first)
           rd == OpenRead(first)
<1>1. /\ error = "NONE" /\ state \in (IF first THEN FirstStates ELSE MarkedStates)
      /\ "BLOCK_MAPPING_VALUE" \in MarkedStates /\ "BLOCK_MAPPING_VALUE" \in ReturnStates
      /\ "KEY" \in TokenTypes /\ "BLOCK_END" \in TokenTypes
  BY DEF ParseBlockMappingKey, Running, FirstStates, MarkedStates, ReturnStates,
         TokenTypes, PlainTypes
<1>2. Rank("BLOCK_MAPPING_VALUE") < 2
  BY DEF Rank
<1>3. PICK t \in OpenPeek(first) :
       \/ ScanFails(t, states, mk, rd)
       \/ /\ t.typ = "KEY"
          /\ IndicatedNode(NoBlockNode, "BLOCK_MAPPING_VALUE", mk, Append(rd, t.typ), TRUE, TRUE)
       \/ t.typ = "BLOCK_END" /\ CloseCollection("MAPPING_END", mk, rd, t)
       \/ Raise("PARSER", states, Pop(mk), t, rd)
  BY DEF ParseBlockMappingKey
<1>4. /\ Inside(states) /\ rd \in Seq(TokenTypes) /\ Grounded(Append(states, "BLOCK_MAPPING_VALUE"))
      /\ Append(rd, "KEY") \in Seq(TokenTypes) /\ Append(rd, "KEY") # <<>>
  BY <1>1, EntryGrounded
<1>. HIDE DEF mk, rd
<1>5. CASE ScanFails(t, states, mk, rd)
  BY <1>5, ScanFailsAdvances
<1>6. CASE /\ t.typ = "KEY"
           /\ IndicatedNode(NoBlockNode, "BLOCK_MAPPING_VALUE", mk, Append(rd, t.typ), TRUE, TRUE)
  BY <1>1, <1>2, <1>4, <1>6, IndicatedNodeAdvances
<1>7. CASE t.typ = "BLOCK_END" /\ CloseCollection("MAPPING_END", mk, rd, t)
  BY <1>1, <1>4, <1>7, CloseAdvances
<1>8. CASE Raise("PARSER", states, Pop(mk), t, rd)
  BY <1>8, RaiseAdvances
<1>. QED
  BY <1>3, <1>5, <1>6, <1>7, <1>8

\* A value: behind its indicator, or absent, and then the next state is lower.
LEMMA ValueAdvances ==
  ASSUME Core, error = "NONE", Grounded(Append(states, state)), state \in MarkedStates,
         NEW next \in MarkedStates, Rank(next) < Rank(state), Rank(next) < 2,
         NEW Absent, NEW block \in BOOLEAN, NEW indentless \in BOOLEAN, NEW t,
         \/ ScanFails(t, states, marks, <<>>)
         \/ t.typ = "VALUE" /\ IndicatedNode(Absent, next, marks, <<t.typ>>, block, indentless)
         \/ EmptyScalar(next, states, marks, t, <<>>)
  PROVE  Advances
<1>1. Inside(states) /\ Grounded(Append(states, next)) /\ next \in ReturnStates
  BY MarkedFacts, StatesGrounded DEF ReturnStates
<1>2. CASE ScanFails(t, states, marks, <<>>)
  BY <1>2, ScanFailsAdvances
<1>3. CASE t.typ = "VALUE" /\ IndicatedNode(Absent, next, marks, <<t.typ>>, block, indentless)
  <2>1. "VALUE" \in TokenTypes
    BY DEF TokenTypes, PlainTypes
  <2>2. <<t.typ>> \in Seq(TokenTypes) /\ <<t.typ>> # <<>>
    BY <1>3, <2>1
  <2>. QED
    BY <1>1, <1>3, <2>2, IndicatedNodeAdvances
<1>4. CASE EmptyScalar(next, states, marks, t, <<>>)
  BY <1>1, <1>4, ReturnAdvances DEF EmptyScalar
<1>. QED
  BY <1>2, <1>3, <1>4

\* The values of block mappings, flow mappings and single pairs.
LEMMA ParseValuesAdvance ==
  ASSUME Core, Grounded(Append(states, state)),
         \/ ParseBlockMappingValue
         \/ ParseFlowSequenceEntryMappingValue
         \/ ParseFlowMappingValue
  PROVE  Advances
<1>1. CASE ParseBlockMappingValue
  <2>1. /\ error = "NONE" /\ state = "BLOCK_MAPPING_VALUE" /\ state \in MarkedStates
        /\ "BLOCK_MAPPING_KEY" \in MarkedStates
    BY <1>1 DEF ParseBlockMappingValue, Running, MarkedStates
  <2>2. Rank("BLOCK_MAPPING_KEY") < Rank(state) /\ Rank("BLOCK_MAPPING_KEY") < 2
    BY <2>1 DEF Rank
  <2>3. PICK t :
         \/ ScanFails(t, states, marks, <<>>)
         \/ /\ t.typ = "VALUE"
            /\ IndicatedNode(NoBlockNode, "BLOCK_MAPPING_KEY", marks, <<t.typ>>, TRUE, TRUE)
         \/ EmptyScalar("BLOCK_MAPPING_KEY", states, marks, t, <<>>)
    BY <1>1 DEF ParseBlockMappingValue
  <2>. QED
    BY <2>1, <2>2, <2>3, ValueAdvances
<1>2. CASE ParseFlowSequenceEntryMappingValue
  <2> DEFINE next == "FLOW_SEQUENCE_ENTRY_MAPPING_END"
  <2>1. /\ error = "NONE" /\ state = "FLOW_SEQUENCE_ENTRY_MAPPING_VALUE" /\ state \in MarkedStates
        /\ next \in MarkedStates
    BY <1>2 DEF ParseFlowSequenceEntryMappingValue, Running, MarkedStates
  <2>2. Rank(next) < Rank(state) /\ Rank(next) < 2
    BY <2>1 DEF Rank
  <2>3. PICK t :
         \/ ScanFails(t, states, marks, <<>>)
         \/ /\ t.typ = "VALUE"
            /\ IndicatedNode({"FLOW_ENTRY", "FLOW_SEQUENCE_END"}, next, marks, <<t.typ>>, FALSE, FALSE)
         \/ EmptyScalar(next, states, marks, t, <<>>)
    BY <1>2 DEF ParseFlowSequenceEntryMappingValue, FlowValue
  <2>. QED
    BY <2>1, <2>2, <2>3, ValueAdvances
<1>3. CASE ParseFlowMappingValue
  <2>1. /\ error = "NONE" /\ state = "FLOW_MAPPING_VALUE" /\ state \in MarkedStates
        /\ "FLOW_MAPPING_KEY" \in MarkedStates
    BY <1>3 DEF ParseFlowMappingValue, Running, MarkedStates
  <2>2. Rank("FLOW_MAPPING_KEY") < Rank(state) /\ Rank("FLOW_MAPPING_KEY") < 2
    BY <2>1 DEF Rank
  <2>3. PICK t :
         \/ ScanFails(t, states, marks, <<>>)
         \/ /\ t.typ = "VALUE"
            /\ IndicatedNode({"FLOW_ENTRY", "FLOW_MAPPING_END"}, "FLOW_MAPPING_KEY",
                             marks, <<t.typ>>, FALSE, FALSE)
         \/ EmptyScalar("FLOW_MAPPING_KEY", states, marks, t, <<>>)
    BY <1>3 DEF ParseFlowMappingValue, FlowValue
  <2>. QED
    BY <2>1, <2>2, <2>3, ValueAdvances
<1>. QED
  BY <1>1, <1>2, <1>3

\* The end of a single pair and an absent value of a flow mapping read nothing
\* and fall to the entry of their collection.
LEMMA ParsePairEndsAdvance ==
  ASSUME Core, Grounded(Append(states, state)),
         ParseFlowSequenceEntryMappingEnd \/ ParseFlowMappingEmptyValue
  PROVE  Advances
<1>1. PICK next, t :
        /\ error = "NONE" /\ next \in {"FLOW_SEQUENCE_ENTRY", "FLOW_MAPPING_KEY"}
        /\ state \in {"FLOW_SEQUENCE_ENTRY_MAPPING_END", "FLOW_MAPPING_EMPTY_VALUE"}
        /\ \/ ScanFails(t, states, marks, <<>>)
           \/ \E ev : Return(next, states, marks, t, ev, <<>>)
  BY DEF ParseFlowSequenceEntryMappingEnd, ParseFlowMappingEmptyValue, Running, EmptyScalar
<1>2. next \in MarkedStates /\ Rank(next) = 0 /\ Rank(state) = 1
  <2>1. next \in MarkedStates
    BY <1>1 DEF MarkedStates
  <2>2. Rank(next) = 0
    BY <1>1 DEF Rank
  <2>3. Rank(state) = 1
    BY <1>1 DEF Rank
  <2>. QED
    BY <2>1, <2>2, <2>3
<1>3. Grounded(Append(states, next))
  BY <1>1, <1>2, StatesGrounded
<1>4. CASE ScanFails(t, states, marks, <<>>)
  BY <1>4, ScanFailsAdvances
<1>5. CASE \E ev : Return(next, states, marks, t, ev, <<>>)
  BY <1>2, <1>3, <1>5, ReturnAdvances
<1>. QED
  BY <1>1, <1>4, <1>5

\* An entry of a flow collection starts with a token that has been read: the
\* collection's own or a separator.
LEMMA FlowEntryAdvances ==
  ASSUME Inside(states), \A next \in MarkedStates : Grounded(Append(states, next)),
         NEW mk, NEW t \in Token, NEW rd \in Seq(TokenTypes), rd # <<>>,
         FlowSequenceEntry(t, mk, rd) \/ FlowMappingEntry(t, mk, rd)
  PROVE  Advances
<1>1. /\ "FLOW_SEQUENCE_ENTRY" \in MarkedStates /\ "FLOW_MAPPING_VALUE" \in MarkedStates
      /\ "FLOW_MAPPING_EMPTY_VALUE" \in MarkedStates
      /\ "FLOW_SEQUENCE_ENTRY_MAPPING_KEY" \in MarkedStates
      /\ MarkedStates \subseteq ReturnStates
  BY DEF MarkedStates, ReturnStates
<1>2. Append(rd, t.typ) \in Seq(TokenTypes) /\ Append(rd, t.typ) # <<>>
  BY TokenFacts
<1>3. CASE Return("FLOW_SEQUENCE_ENTRY_MAPPING_KEY", states, mk, NoToken,
                  Event("MAPPING_START", None), Append(rd, t.typ))
  BY <1>1, <1>2, <1>3, ReturnAdvances
<1>4. ASSUME NEW next \in MarkedStates, ParseNode(t, Append(states, next), mk, rd, FALSE, FALSE)
      PROVE  Advances
  <2>1. Inside(Append(states, next))
    BY <1>1, InsidePush
  <2>. QED
    BY <1>4, <2>1, ParseNodeAdvances
<1>5. CASE IndicatedNode({"VALUE", "FLOW_ENTRY", "FLOW_MAPPING_END"}, "FLOW_MAPPING_VALUE",
                         mk, Append(rd, t.typ), FALSE, FALSE)
  <2>1. "FLOW_MAPPING_VALUE" \in ReturnStates /\ Grounded(Append(states, "FLOW_MAPPING_VALUE"))
    BY <1>1
  <2>. QED
    BY <1>2, <1>5, <2>1, IndicatedNodeAdvances
<1>. QED
  BY <1>1, <1>3, <1>4, <1>5 DEF FlowSequenceEntry, FlowMappingEntry

\* Any call in a flow collection.
LEMMA FlowCollectionAdvances ==
  ASSUME Core, error = "NONE", Grounded(Append(states, state)), NEW first \in BOOLEAN,
         state \in (IF first THEN FirstStates ELSE MarkedStates),
         NEW closer \in {"FLOW_SEQUENCE_END", "FLOW_MAPPING_END"},
         FlowCollection(first, closer)
  PROVE  Advances
<1> DEFINE mk == OpenMarks(first)
           opened == OpenRead(first)
<1>1. PICK t \in OpenPeek(first) :
        \/ /\ first \/ t.typ \in {closer, "ERROR"}
           /\ FlowEntryOrEnd(closer, t, mk, opened)
        \/ /\ t.typ = "FLOW_ENTRY"
           /\ \E u \in Fetch : FlowEntryOrEnd(closer, u, mk, Append(opened, t.typ))
        \/ Raise("PARSER", states, Pop(mk), t, opened)
  BY DEF FlowCollection
<1>2. /\ Inside(states) /\ opened \in Seq(TokenTypes) /\ (first => opened # <<>>)
      /\ t \in Token \cup {ScanError} /\ (t = ScanError <=> t.typ = "ERROR")
      /\ \A next \in MarkedStates : Grounded(Append(states, next))
  BY EntryGrounded
<1>3. "FLOW_ENTRY" \in TokenTypes
  BY DEF TokenTypes, PlainTypes
<1>4. Append(opened, "FLOW_ENTRY") \in Seq(TokenTypes) /\ Append(opened, "FLOW_ENTRY") # <<>>
  BY <1>3, EntryGrounded
<1>. HIDE DEF mk, opened
<1>5. ASSUME NEW u \in Token \cup {ScanError}, u = ScanError <=> u.typ = "ERROR",
             NEW rd \in Seq(TokenTypes), rd # <<>> \/ u.typ \in {closer, "ERROR"},
             FlowEntryOrEnd(closer, u, mk, rd)
      PROVE  Advances
  <2>1. CASE ScanFails(u, states, mk, rd)
    BY <2>1, ScanFailsAdvances
  <2>2. ASSUME u.typ = closer, NEW typ, CloseCollection(typ, mk, rd, u)
        PROVE  Advances
    <3>1. u.typ \in TokenTypes
      BY <2>2 DEF TokenTypes, PlainTypes
    <3>. QED
      BY <1>2, <2>2, <3>1, CloseAdvances
  <2>3. CASE /\ u.typ \notin {closer, "ERROR"}
             /\ FlowSequenceEntry(u, mk, rd) \/ FlowMappingEntry(u, mk, rd)
    <3>1. u \in Token /\ rd # <<>>
      BY <1>5, <2>3
    <3>. QED
      BY <1>2, <2>3, <3>1, FlowEntryAdvances
  <2>. QED
    BY <1>5, <2>1, <2>2, <2>3 DEF FlowEntryOrEnd
<1>6. CASE /\ first \/ t.typ \in {closer, "ERROR"}
           /\ FlowEntryOrEnd(closer, t, mk, opened)
  BY <1>2, <1>5, <1>6
<1>7. CASE /\ t.typ = "FLOW_ENTRY"
           /\ \E u \in Fetch : FlowEntryOrEnd(closer, u, mk, Append(opened, t.typ))
  BY <1>4, <1>5, <1>7, FetchFacts
<1>8. CASE Raise("PARSER", states, Pop(mk), t, opened)
  BY <1>8, RaiseAdvances
<1>. QED
  BY <1>1, <1>6, <1>7, <1>8

\* The entries of flow sequences and flow mappings.
LEMMA ParseFlowEntriesAdvance ==
  ASSUME Core, Grounded(Append(states, state)), NEW first \in BOOLEAN,
         ParseFlowSequenceEntry(first) \/ ParseFlowMappingKey(first)
  PROVE  Advances
<1>1. PICK closer \in {"FLOW_SEQUENCE_END", "FLOW_MAPPING_END"} :
        /\ error = "NONE" /\ state \in (IF first THEN FirstStates ELSE MarkedStates)
        /\ FlowCollection(first, closer)
  BY DEF ParseFlowSequenceEntry, ParseFlowMappingKey, Running, FirstStates, MarkedStates
<1>. QED
  BY <1>1, FlowCollectionAdvances

\* The key of a single pair: a node that reads nothing is a flow collection.
LEMMA ParseFlowSequenceEntryMappingKeyAdvances ==
  ASSUME Core, Grounded(Append(states, state)), ParseFlowSequenceEntryMappingKey
  PROVE  Advances
<1> DEFINE next == "FLOW_SEQUENCE_ENTRY_MAPPING_VALUE"
<1>1. /\ error = "NONE" /\ state \in MarkedStates
      /\ next \in MarkedStates /\ next \in ReturnStates
  BY DEF ParseFlowSequenceEntryMappingKey, Running, MarkedStates, ReturnStates
<1>2. Rank(state) > 0
  BY DEF ParseFlowSequenceEntryMappingKey, Rank
<1>3. /\ Inside(Append(states, next)) /\ Grounded(Append(states, next))
      /\ token \in Token \cup {NoToken} /\ <<>> \in Seq(TokenTypes)
  BY <1>1, MarkedFacts, InsidePush, StatesGrounded
<1>4. PICK t \in Peek :
       \/ ScanFails(t, states, marks, <<>>)
       \/ /\ t.typ # "ERROR"
          /\ ParseNode(t, Append(states, next), marks, <<>>, FALSE, FALSE)
       \/ EmptyScalar(next, states, marks, NoToken, <<t.typ>>)
  BY DEF ParseFlowSequenceEntryMappingKey
<1>. HIDE DEF next
<1>5. CASE ScanFails(t, states, marks, <<>>)
  BY <1>5, ScanFailsAdvances
<1>6. CASE /\ t.typ # "ERROR"
           /\ ParseNode(t, Append(states, next), marks, <<>>, FALSE, FALSE)
  <2>1. t \in Token
    BY <1>3, <1>6, PeekFacts
  <2>. QED
    BY <1>2, <1>3, <1>6, <2>1, ParseNodeAdvances
<1>7. CASE EmptyScalar(next, states, marks, NoToken, <<t.typ>>)
  <2>1. <<t.typ>> # <<>>
    OBVIOUS
  <2>. QED
    BY <1>3, <1>7, <2>1, ReturnAdvances DEF EmptyScalar
<1>. QED
  BY <1>4, <1>5, <1>6, <1>7

\* The stack of a running parser is grounded.
AllGrounded == error = "NONE" => Grounded(Append(states, state))

\* Every call of yaml_parser_parse that runs advances.
LEMMA NextAdvances ==
  ASSUME Core, AllGrounded, Next, Running
  PROVE  Advances
<1>0. Grounded(Append(states, state))
  BY DEF AllGrounded, Running
<1>1. CASE ParseStreamStart
  BY <1>0, <1>1, ParseStreamStartAdvances
<1>2. CASE \E implicit \in BOOLEAN : ParseDocumentStart(implicit)
  BY <1>0, <1>2, ParseDocumentStartAdvances
<1>3. CASE ParseDocumentContent \/ ParseBlockNode
  BY <1>0, <1>3, ParseRootAdvances
<1>4. CASE ParseDocumentEnd
  BY <1>0, <1>4, ParseDocumentEndAdvances
<1>5. CASE \E first \in BOOLEAN : ParseBlockSequenceEntry(first)
  BY <1>0, <1>5, ParseBlockSequenceEntryAdvances
<1>6. CASE ParseIndentlessSequenceEntry
  BY <1>0, <1>6, ParseIndentlessSequenceEntryAdvances
<1>7. CASE \E first \in BOOLEAN : ParseBlockMappingKey(first)
  BY <1>0, <1>7, ParseBlockMappingKeyAdvances
<1>8. CASE \/ ParseBlockMappingValue
           \/ ParseFlowSequenceEntryMappingValue
           \/ ParseFlowMappingValue
  BY <1>0, <1>8, ParseValuesAdvance
<1>9. CASE \E first \in BOOLEAN : ParseFlowSequenceEntry(first) \/ ParseFlowMappingKey(first)
  BY <1>0, <1>9, ParseFlowEntriesAdvance
<1>10. CASE ParseFlowSequenceEntryMappingKey
  BY <1>0, <1>10, ParseFlowSequenceEntryMappingKeyAdvances
<1>11. CASE ParseFlowSequenceEntryMappingEnd \/ ParseFlowMappingEmptyValue
  BY <1>0, <1>11, ParsePairEndsAdvance
<1>12. ~ParseNothing
  BY DEF ParseNothing
<1>. QED
  BY <1>1, <1>2, <1>3, <1>4, <1>5, <1>6, <1>7, <1>8, <1>9, <1>10, <1>11, <1>12 DEF Next

\* So the stack stays grounded.
LEMMA SpecGrounded == Spec => []AllGrounded
<1>1. Init => AllGrounded
  <2>. SUFFICES ASSUME Init
                PROVE  Grounded(Append(states, state))
    BY DEF AllGrounded
  <2>1. states = <<>> /\ state \in ParserStates /\ states \in Seq(ParserStates)
    BY DEF Init, ParserStates, OutsideStates
  <2>2. Grounded(<<>>)
    BY DEF Grounded
  <2>. QED
    BY <2>1, <2>2, GroundedPush
<1>2. Core /\ AllGrounded /\ [Next]_vars => AllGrounded'
  <2>. SUFFICES ASSUME Core, AllGrounded, [Next]_vars
                PROVE  AllGrounded'
    OBVIOUS
  <2>1. CASE Next /\ Running
    BY <2>1, NextAdvances DEF Advances, AllGrounded
  <2>2. CASE UNCHANGED <<states, state, error>>
    BY <2>2 DEF AllGrounded
  <2>3. CASE Next /\ ~Running
    <3>1. ParseNothing
      BY <2>3 DEF Next, ParseStreamStart, ParseDocumentStart, ParseDocumentContent,
         ParseBlockNode, ParseDocumentEnd, ParseBlockSequenceEntry, ParseIndentlessSequenceEntry,
         ParseBlockMappingKey, ParseBlockMappingValue, ParseFlowSequenceEntry,
         ParseFlowSequenceEntryMappingKey, ParseFlowSequenceEntryMappingValue,
         ParseFlowSequenceEntryMappingEnd, ParseFlowMappingKey, ParseFlowMappingValue,
         ParseFlowMappingEmptyValue
    <3>. QED
      BY <2>2, <3>1 DEF ParseNothing
  <2>. QED
    BY <2>1, <2>2, <2>3 DEF vars
<1>. QED
  BY <1>1, <1>2, SpecCore, PTL DEF Spec

-----------------------------------------------------------------------------
(* Results                                                                   *)

\* Every field of the parser stays well-typed, whatever the scanner delivers.
THEOREM TypeCorrect == Spec => []TypeOK
<1>1. Core /\ TagsOK => TypeOK
  BY DEF Core, TagsOK, TypeOK
<1>. QED
  BY <1>1, SpecCore, SpecTags, PTL

\* The pop at the end of every node always finds a return state, the one of a
\* collection around the node or of its document, however deep the nesting and
\* whatever the tokens and the failures of the scanner are.
THEOREM StackIsSafe == Spec => []StackSafe
<1>1. Core => StackSafe
  <2>1. ASSUME Core, error = "NONE"
        PROVE  /\ state \in OutsideStates => states = <<>>
               /\ state \notin OutsideStates => Inside(states)
    BY <2>1, CoreFacts
  <2>2. ASSUME Core, error = "NONE", states = <<>>
        PROVE  \A l \in 2..Len(states) : states[l] \in ReturnStates
    BY <2>2
  <2>. QED
    BY <2>1, <2>2 DEF StackSafe, Inside
<1>. QED
  BY <1>1, SpecCore, PTL

\* A collection's first state always finds the token that opened it.
THEOREM FirstTokenIsAvailable == Spec => []FirstTokenAvailable
<1>1. Core => FirstTokenAvailable
  BY CoreFacts DEF Good, FirstTokenAvailable
<1>. QED
  BY <1>1, SpecCore, PTL

\* The marks are always those of the collections now open, innermost last.
THEOREM MarksAreMatched == Spec => []MarksMatch
<1>1. ASSUME Core, error = "NONE"
      PROVE  /\ \A i, j \in DOMAIN marks : i < j => marks[i] < marks[j]
             /\ {marks[i] : i \in DOMAIN marks} = {l \in 1..Level : StateAt(l) \in MarkedStates}
  <2> DEFINE all == Append(states, state)
  <2>1. Fits(all, marks) /\ states \in Seq(ParserStates)
    BY <1>1, CoreFacts
  <2>2. Len(all) = Level /\ \A l \in 1..Level : all[l] = StateAt(l)
    BY <2>1 DEF Level, StateAt
  <2>. HIDE DEF all
  <2>3. {marks[i] : i \in DOMAIN marks} = {l \in 1..Level : StateAt(l) \in MarkedStates}
    BY <2>1, <2>2 DEF Fits
  <2>. QED
    BY <2>1, <2>3 DEF Fits
<1>2. Core => MarksMatch
  BY <1>1 DEF MarksMatch
<1>. QED
  BY <1>2, SpecCore, PTL

\* A call that returns an event without reading a token leaves the parser in a
\* state of lower rank, so the caller's loop cannot turn without consuming: the
\* states that may return unread (a document's root, an indentless sequence)
\* never stand above a state of their own rank.
THEOREM ParserAdvances == Spec => Progress
<1>1. ASSUME Core, AllGrounded, [Next]_vars
      PROVE  [Running /\ error' = "NONE" /\ read' = <<>> => Rank(state') < Rank(state)]_vars
  BY <1>1, NextAdvances DEF Advances
<1>. QED
  BY <1>1, SpecCore, SpecGrounded, PTL DEF Spec, Progress

-----------------------------------------------------------------------------
(* The mapping                                                               *)

\* The constructs a stack stands for.
Constructs(s) == [l \in 1..Len(s) |-> FrameOf(s[l])]

\* Every state stands for a construct.
LEMMA FrameFacts ==
  ASSUME NEW st \in ParserStates
  PROVE  /\ FrameOf(st) \in Grammar!Frames
         /\ FrameOf(st) = "End" => st = "END"
BY DEF ParserStates, OutsideStates, FirstStates, MarkedStates, FrameOf, Grammar!Frames

\* A stack is mapped state by state.
LEMMA ConstructsFacts ==
  ASSUME NEW s \in Seq(ParserStates), NEW st \in ParserStates
  PROVE  /\ Constructs(s) \in Seq(Grammar!Frames) /\ Len(Constructs(s)) = Len(s)
         /\ Constructs(Append(s, st)) = Append(Constructs(s), FrameOf(st))
         /\ Append(s, st) \in Seq(ParserStates)
<1>1. \A t \in Seq(ParserStates) :
        Constructs(t) \in Seq(Grammar!Frames) /\ Len(Constructs(t)) = Len(t)
  BY FrameFacts DEF Constructs
<1>2. FrameOf(st) \in Grammar!Frames
  BY FrameFacts
<1>. HIDE DEF Grammar!Frames
<1> DEFINE t == Append(s, st)
           c == Append(Constructs(s), FrameOf(st))
<1>3. /\ t \in Seq(ParserStates) /\ Len(t) = Len(s) + 1
      /\ \A l \in 1..Len(s) : t[l] = s[l]
      /\ t[Len(s) + 1] = st
  OBVIOUS
<1>4. /\ c \in Seq(Grammar!Frames) /\ Len(c) = Len(s) + 1
      /\ \A l \in 1..Len(s) : c[l] = FrameOf(s[l])
      /\ c[Len(s) + 1] = FrameOf(st)
  BY <1>1, <1>2 DEF Constructs
<1>. HIDE DEF t, c
<1>5. \A l \in 1..Len(s) + 1 : Constructs(t)[l] = c[l]
  BY <1>3, <1>4 DEF Constructs
<1>6. Constructs(t) = c
  BY <1>1, <1>3, <1>4, <1>5
<1>. QED
  BY <1>1, <1>3, <1>6 DEF t, c

\* A stack is its top on the rest of it.
LEMMA ConstructsPop ==
  ASSUME NEW s \in Seq(ParserStates), s # <<>>
  PROVE  /\ Constructs(s) = Append(Constructs(Pop(s)), FrameOf(Top(s)))
         /\ Pop(s) \in Seq(ParserStates) /\ Top(s) \in ParserStates
BY PopProperties, ConstructsFacts

\* The events of the two modules are the same.
LEMMA EventsAgree ==
  /\ Grammar!None = None
  /\ Grammar!NoEvent = NoEvent
  /\ \A typ, a : Grammar!Event(typ, a) = Event(typ, a)
BY DEF Grammar!None, None, Grammar!NoEvent, NoEvent, Grammar!Event, Event

\* What the grammar sees of a parser that runs.
LEMMA OpenFacts ==
  ASSUME Core, error = "NONE"
  PROVE  /\ OpenConstructs = Append(Constructs(states), FrameOf(state))
         /\ OpenConstructs # <<>>
         /\ Grammar!Inner = FrameOf(state)
         /\ Grammar!Outer = Constructs(states)
         /\ Constructs(states) \in Seq(Grammar!Frames)
<1>1. state \in ParserStates /\ states \in Seq(ParserStates)
  BY DEF Core
<1>2. /\ Constructs(states) \in Seq(Grammar!Frames) /\ Len(Constructs(states)) = Len(states)
      /\ Constructs(Append(states, state)) = Append(Constructs(states), FrameOf(state))
      /\ FrameOf(state) \in Grammar!Frames
  BY <1>1, ConstructsFacts, FrameFacts
<1>3. OpenConstructs = Constructs(Append(states, state))
  <2>1. Len(Append(states, state)) = Level
        /\ \A l \in 1..Level : Append(states, state)[l] = StateAt(l)
    BY <1>1 DEF Level, StateAt
  <2>. QED
    BY <2>1 DEF OpenConstructs, Constructs
<1> DEFINE c == Constructs(states)
           f == FrameOf(state)
<1>. HIDE DEF c, f
<1>4. /\ Append(c, f) # <<>> /\ Append(c, f)[Len(Append(c, f))] = f
      /\ SubSeq(Append(c, f), 1, Len(Append(c, f)) - 1) = c
  <2>1. c \in Seq(Grammar!Frames) /\ f \in Grammar!Frames
    BY <1>2 DEF c, f
  <2>. HIDE DEF Grammar!Frames
  <2>. QED
    BY <2>1
<1>. QED
  BY <1>2, <1>3, <1>4 DEF Grammar!Inner, Grammar!Outer, c, f

-----------------------------------------------------------------------------
(* What a call does                                                          *)

\* States between two documents, and at the ends of the stream.
Between == OutsideStates \ {"DOCUMENT_END"}

\* The tokens rd stand for event ev; ev has an anchor if one was read.
Accounted(rd, ev) == \A i \in DOMAIN rd : rd[i] \in Reportable => ev.typ \in Reported[rd[i]]
Anchored(rd, ev) == ev.anchor # None <=> \E i \in DOMAIN rd : rd[i] \in {"ANCHOR", "ALIAS"}

\* A call is a step of the grammar, and what it returns accounts for what it read.
Follows ==
  /\ Grammar!Next
  /\ error' = "NONE" =>
       /\ state' # "FLOW_SEQUENCE_ENTRY_MAPPING_VALUE" => Accounted(read', event')
       /\ Anchored(read', event')

\* The call did not leave the document.
Stays == state' \notin Between

\* A handler that returns is what the grammar calls Emit.
LEMMA ReturnEmits ==
  ASSUME NEW st \in ParserStates, NEW stk \in Seq(ParserStates), NEW mk, NEW tok, NEW ev, NEW rd,
         Return(st, stk, mk, tok, ev, rd),
         st = "FLOW_SEQUENCE_ENTRY_MAPPING_VALUE" \/ Accounted(rd, ev),
         Anchored(rd, ev)
  PROVE  /\ Grammar!Emit(ev, Append(Constructs(stk), FrameOf(st)))
         /\ event' = ev /\ state' = st
         /\ error' = "NONE" =>
              /\ state' # "FLOW_SEQUENCE_ENTRY_MAPPING_VALUE" => Accounted(read', event')
              /\ Anchored(read', event')
         /\ ev.typ = "STREAM_END" => OpenConstructs' = Append(Constructs(stk), FrameOf(st))
<1>1. /\ state' = st /\ states' = stk /\ event' = ev /\ read' = rd
      /\ error' \in {"NONE", "SCANNER"}
      /\ ev.typ = "STREAM_END" => error' = "NONE"
  BY DEF Return, MayFailLate
<1>2. OpenConstructs' \in {Append(Constructs(stk), FrameOf(st)), <<>>}
      /\ (error' = "NONE" => OpenConstructs' = Append(Constructs(stk), FrameOf(st)))
  <2>1. CASE error' = "NONE"
    <3> DEFINE all == Append(stk, st)
    <3>1. /\ Len(all) = Len(stk) + 1
          /\ \A l \in 1..Len(stk) + 1 : all[l] = IF l <= Len(stk) THEN stk[l] ELSE st
      OBVIOUS
    <3>2. Constructs(all) = Append(Constructs(stk), FrameOf(st))
      BY ConstructsFacts
    <3>. HIDE DEF all
    <3>3. OpenConstructs' = Constructs(all)
      BY <1>1, <2>1, <3>1 DEF OpenConstructs, Constructs, Level, StateAt
    <3>. QED
      BY <3>2, <3>3
  <2>2. CASE error' # "NONE"
    BY <2>2 DEF OpenConstructs
  <2>. QED
    BY <2>1, <2>2
<1>. QED
  BY <1>1, <1>2 DEF Grammar!Emit

\* One that fails is the end of the grammar's events.
LEMMA RaiseFollows ==
  ASSUME Core, Running, NEW err \in {"SCANNER", "PARSER"}, NEW stk, NEW mk, NEW tok, NEW rd,
         Raise(err, stk, mk, tok, rd)
  PROVE  Follows /\ state' = state
<1>1. /\ error' = err /\ err # "NONE" /\ event' = NoEvent /\ state' = state
  BY DEF Raise
<1>2. OpenConstructs' = <<>>
  BY <1>1 DEF OpenConstructs
<1>3. ~Grammar!Over
  <2>1. state \in ParserStates /\ states \in Seq(ParserStates) /\ state # "END" /\ error = "NONE"
    BY DEF Core, Running
  <2>2. FrameOf(state) # "End" /\ FrameOf(state) \in Grammar!Frames
    BY <2>1, FrameFacts
  <2>3. OpenConstructs # <<>> /\ OpenConstructs = Append(Constructs(states), FrameOf(state))
    BY <2>1, OpenFacts
  <2>4. Constructs(states) \in Seq(Grammar!Frames)
    BY <2>1, OpenFacts
  <2>. HIDE DEF Grammar!Frames
  <2>5. Append(Constructs(states), FrameOf(state)) # <<"End">>
    <3> DEFINE c == Constructs(states)
               f == FrameOf(state)
    <3>. HIDE DEF c, f
    <3>1. c \in Seq(Grammar!Frames) /\ f \in Grammar!Frames /\ f # "End"
      BY <2>2, <2>4 DEF c, f
    <3>2. Append(c, f)[Len(c) + 1] = f /\ Len(Append(c, f)) = Len(c) + 1 /\ Len(c) \in Nat
      BY <3>1
    <3>3. \A d : d = <<"End">> => d[Len(d)] = "End"
      OBVIOUS
    <3>4. Append(c, f) # <<"End">>
      BY <3>1, <3>2, <3>3
    <3>. QED
      BY <3>4 DEF c, f
  <2>. QED
    BY <2>3, <2>5 DEF Grammar!Over
<1>4. Grammar!Fail
  BY <1>1, <1>2, <1>3, EventsAgree DEF Grammar!Fail
<1>. QED
  BY <1>1, <1>4 DEF Follows, Grammar!Next

\* A failed peek is one of them.
LEMMA ScanFailsFollows ==
  ASSUME Core, Running, NEW t, NEW stk, NEW mk, NEW rd, ScanFails(t, stk, mk, rd)
  PROVE  Follows /\ state' = state
BY RaiseFollows DEF ScanFails

\* A node returns to a state inside its document, or to the document's end.
LEMMA TopStays ==
  ASSUME NEW stk, Inside(stk)
  PROVE  Top(stk) \notin Between
<1>1. CASE Len(stk) = 1
  BY <1>1 DEF Inside, Top, Between, OutsideStates
<1>2. CASE Len(stk) > 1
  <2>1. Top(stk) \in ReturnStates
    BY <1>2 DEF Inside, Top
  <2>. QED
    BY <2>1 DEF ReturnStates, MarkedStates, Between, OutsideStates
<1>3. Len(stk) = 1 \/ Len(stk) > 1
  <2>1. stk \in Seq(ParserStates) /\ stk # <<>>
    BY DEF Inside
  <2>2. Len(stk) \in Nat \ {0}
    BY <2>1, PopProperties
  <2>3. \A n \in Nat \ {0} : n = 1 \/ n > 1
    OBVIOUS
  <2>. QED
    BY <2>2, <2>3
<1>. QED
  BY <1>1, <1>2, <1>3

-----------------------------------------------------------------------------
(* Tokens read                                                               *)

\* Nothing to report and no anchor; or the properties of a node with anchor a.
Quiet(rd) ==
  rd \in Seq(TokenTypes) /\ \A i \in DOMAIN rd : rd[i] \notin Reportable \cup {"ANCHOR", "ALIAS"}
Named(rd, a) ==
  /\ rd \in Seq(TokenTypes)
  /\ \A i \in DOMAIN rd : rd[i] \notin Reportable
  /\ a # None <=> \E i \in DOMAIN rd : rd[i] \in {"ANCHOR", "ALIAS"}

\* What has been read without a name.
LEMMA QuietFacts ==
  /\ Quiet(<<>>)
  /\ \A rd, typ : Quiet(rd) /\ typ \in TokenTypes \ (Reportable \cup {"ANCHOR", "ALIAS"})
                    => Quiet(Append(rd, typ))
  /\ \A rd : Quiet(rd) => Named(rd, None)
BY DEF Quiet, Named

\* The properties of a node without an anchor.
LEMMA TagNamed ==
  ASSUME NEW rd, Quiet(rd)
  PROVE  Named(rd \o <<>>, None) /\ Named(rd \o <<"TAG">>, None)
<1>1. "TAG" \in TokenTypes /\ "TAG" \notin Reportable
  BY DEF TokenTypes, Reportable
<1>2. rd \in Seq(TokenTypes) /\ \A i \in 1..Len(rd) : rd[i] \notin Reportable \cup {"ANCHOR", "ALIAS"}
  BY DEF Quiet
<1>. HIDE DEF TokenTypes, Reportable
<1>3. Named(rd \o <<>>, None)
  BY <1>2 DEF Named
<1>4. Named(rd \o <<"TAG">>, None)
  <2> DEFINE q == rd \o <<"TAG">>
  <2>1. q \in Seq(TokenTypes) /\ Len(q) = Len(rd) + 1
        /\ (\A i \in 1..Len(rd) : q[i] = rd[i]) /\ q[Len(rd) + 1] = "TAG"
    BY <1>1, <1>2
  <2>. HIDE DEF q
  <2>2. Named(q, None)
    BY <1>1, <1>2, <2>1 DEF Named
  <2>. QED
    BY <2>2 DEF q
<1>. QED
  BY <1>3, <1>4

\* The properties of a node with one.
LEMMA NamedFacts ==
  ASSUME NEW rd, Quiet(rd), NEW a \in Anchors
  PROVE  /\ Named(rd \o <<"ANCHOR">>, a)
         /\ Named(rd \o <<"ANCHOR", "TAG">>, a)
         /\ Named(rd \o <<"TAG", "ANCHOR">>, a)
<1>1. a # None
  BY ParserConstants
<1>2. "ANCHOR" \in TokenTypes /\ "TAG" \in TokenTypes
      /\ "ANCHOR" \notin Reportable /\ "TAG" \notin Reportable
  BY DEF TokenTypes, Reportable
<1>3. rd \in Seq(TokenTypes) /\ \A i \in 1..Len(rd) : rd[i] \notin Reportable \cup {"ANCHOR", "ALIAS"}
  BY DEF Quiet
<1>. HIDE DEF TokenTypes, Reportable
<1>4. Named(rd \o <<"ANCHOR">>, a)
  <2> DEFINE q == rd \o <<"ANCHOR">>
  <2>1. q \in Seq(TokenTypes) /\ Len(q) = Len(rd) + 1
        /\ (\A i \in 1..Len(rd) : q[i] = rd[i]) /\ q[Len(rd) + 1] = "ANCHOR"
    BY <1>2, <1>3
  <2>. HIDE DEF q
  <2>2. Named(q, a)
    BY <1>1, <1>2, <1>3, <2>1 DEF Named
  <2>. QED
    BY <2>2 DEF q
<1>5. ASSUME NEW x \in {"ANCHOR", "TAG"}, NEW y \in {"ANCHOR", "TAG"}, x # y
      PROVE  Named(rd \o <<x, y>>, a)
  <2> DEFINE q == rd \o <<x, y>>
  <2>1. q \in Seq(TokenTypes) /\ Len(q) = Len(rd) + 2
        /\ (\A i \in 1..Len(rd) : q[i] = rd[i]) /\ q[Len(rd) + 1] = x /\ q[Len(rd) + 2] = y
    BY <1>2, <1>3
  <2>. HIDE DEF q
  <2>2. Named(q, a)
    BY <1>1, <1>2, <1>3, <1>5, <2>1 DEF Named
  <2>. QED
    BY <2>2 DEF q
<1>. QED
  BY <1>4, <1>5

\* An event that ends a node or a collection, with what it stands for.
LEMMA AccountedFacts ==
  ASSUME NEW rd, NEW a, Named(rd, a), NEW typ
  PROVE  /\ Accounted(rd, Event(typ, a)) /\ Anchored(rd, Event(typ, a))
         /\ \A u \in TokenTypes \ {"ANCHOR", "ALIAS"} :
              u \notin Reportable \/ typ \in Reported[u] =>
                /\ Accounted(Append(rd, u), Event(typ, a))
                /\ Anchored(Append(rd, u), Event(typ, a))
BY DEF Accounted, Anchored, Named, Event

\* The events the tokens that are reported stand for.
LEMMA ReportedFacts ==
  /\ \A typ \in Reportable \ {"BLOCK_END", "FLOW_SEQUENCE_END", "FLOW_MAPPING_END"} :
       Reported[typ] = {typ}
  /\ Reported["BLOCK_END"] = {"SEQUENCE_END", "MAPPING_END"}
  /\ Reported["FLOW_SEQUENCE_END"] = {"SEQUENCE_END"}
  /\ Reported["FLOW_MAPPING_END"] = {"MAPPING_END"}
BY DEF Reported, Reportable

\* An alias names the anchor it was read with.
LEMMA AliasFacts ==
  ASSUME NEW rd, Quiet(rd), NEW a \in Anchors
  PROVE  /\ Accounted(Append(rd, "ALIAS"), Event("ALIAS", a))
         /\ Anchored(Append(rd, "ALIAS"), Event("ALIAS", a))
<1>1. a # None
  BY ParserConstants
<1>2. Reported["ALIAS"] = {"ALIAS"}
  BY ReportedFacts DEF Reportable
<1>. QED
  BY <1>1, <1>2 DEF Accounted, Anchored, Quiet, Event

-----------------------------------------------------------------------------
(* Nodes                                                                     *)

\* A node is due, and stk stands for what is open once it is complete.
NodeDue(stk) ==
  /\ FrameOf(state) \in Grammar!NodeFrames
  /\ Inside(stk)
  /\ Constructs(stk) = Constructs(states) \o Grammar!Rest

\* A node without children, or the last of an empty one, completes it.
LEMMA LeafFollows ==
  ASSUME Core, Running, NEW stk, NodeDue(stk), NEW mk, NEW tok, NEW rd, NEW a \in Anchors \cup {None},
         NEW typ \in {"SCALAR", "ALIAS"}, typ = "ALIAS" => a \in Anchors,
         Return(Top(stk), Pop(stk), mk, tok, Event(typ, a), rd),
         Accounted(rd, Event(typ, a)), Anchored(rd, Event(typ, a))
  PROVE  Follows /\ Stays
<1>1. stk \in Seq(ParserStates) /\ stk # <<>> /\ error = "NONE"
  BY DEF NodeDue, Inside, Running
<1>2. /\ Constructs(stk) = Append(Constructs(Pop(stk)), FrameOf(Top(stk)))
      /\ Pop(stk) \in Seq(ParserStates) /\ Top(stk) \in ParserStates
  BY <1>1, ConstructsPop
<1>3. /\ Grammar!Emit(Event(typ, a), Constructs(stk)) /\ state' = Top(stk)
      /\ error' = "NONE" =>
           /\ state' # "FLOW_SEQUENCE_ENTRY_MAPPING_VALUE" => Accounted(read', event')
           /\ Anchored(read', event')
  BY <1>2, ReturnEmits
<1>4. Grammar!Leaf
  <2>1. Constructs(stk) = Grammar!Outer \o Grammar!Rest
    BY <1>1, OpenFacts DEF NodeDue
  <2>2. Grammar!InA(Grammar!NodeFrames)
    BY <1>1, OpenFacts DEF NodeDue, Grammar!InA
  <2>3. Grammar!Emit(Grammar!Event(typ, a), Grammar!Outer \o Grammar!Rest)
    BY <1>3, <2>1, EventsAgree
  <2>. QED
    BY <2>2, <2>3, EventsAgree DEF Grammar!Leaf
<1>5. Stays
  BY <1>3, TopStays DEF NodeDue, Stays
<1>. QED
  BY <1>3, <1>4, <1>5 DEF Follows, Grammar!Next

\* The construct a collection opens with.
LEMMA StartFacts ==
  ASSUME NEW typ \in CollectionStarts \cup {"BLOCK_ENTRY"}
  PROVE  /\ FirstState(typ) \in ParserStates /\ FirstState(typ) \notin Between
         /\ FirstState(typ) # "FLOW_SEQUENCE_ENTRY_MAPPING_VALUE"
         /\ \/ StartEvent(typ) = "SEQUENCE_START" /\ FrameOf(FirstState(typ)) = "Seq"
            \/ StartEvent(typ) = "MAPPING_START" /\ FrameOf(FirstState(typ)) = "Key"
BY DEF CollectionStarts, FirstState, StartEvent, FrameOf, ParserStates, FirstStates, Between, OutsideStates

\* The start of a collection leaves its first entry to come.
LEMMA StartFollows ==
  ASSUME Core, Running, NEW stk, NodeDue(stk), NEW mk, NEW tok, NEW rd, NEW a \in Anchors \cup {None},
         tok.typ \in CollectionStarts \cup {"BLOCK_ENTRY"},
         OpenCollection(tok, a, stk, mk, rd), Named(rd, a)
  PROVE  Follows /\ Stays
<1> DEFINE st == FirstState(tok.typ)
           ev == Event(StartEvent(tok.typ), a)
<1>1. stk \in Seq(ParserStates) /\ error = "NONE" /\ Inside(stk)
  BY DEF NodeDue, Inside, Running
<1>2. /\ st \in ParserStates /\ st \notin Between
      /\ \/ StartEvent(tok.typ) = "SEQUENCE_START" /\ FrameOf(st) = "Seq"
         \/ StartEvent(tok.typ) = "MAPPING_START" /\ FrameOf(st) = "Key"
  BY StartFacts
<1>3. Accounted(rd, ev) /\ Anchored(rd, ev)
  BY AccountedFacts
<1>4. Return(st, stk, mk, tok, ev, rd)
  BY DEF OpenCollection
<1>. HIDE DEF st, ev
<1>5. /\ Grammar!Emit(ev, Append(Constructs(stk), FrameOf(st))) /\ state' = st
      /\ error' = "NONE" =>
           /\ state' # "FLOW_SEQUENCE_ENTRY_MAPPING_VALUE" => Accounted(read', event')
           /\ Anchored(read', event')
  BY <1>1, <1>2, <1>3, <1>4, ReturnEmits
<1>6. Grammar!Start
  <2> DEFINE c == Constructs(stk)
             f == FrameOf(st)
  <2>1. c = Grammar!Outer \o Grammar!Rest /\ c \in Seq(Grammar!Frames) /\ f \in Grammar!Frames
    BY <1>1, <1>2, OpenFacts, ConstructsFacts, FrameFacts DEF NodeDue
  <2>2. Grammar!InA(Grammar!NodeFrames)
    BY <1>1, OpenFacts DEF NodeDue, Grammar!InA
  <2>3. Append(c, f) = c \o <<f>>
    <3>. HIDE DEF c, f, Grammar!Frames
    <3>. QED
      BY <2>1
  <2>4. Grammar!Emit(ev, (Grammar!Outer \o Grammar!Rest) \o <<FrameOf(st)>>)
    BY <1>5, <2>1, <2>3
  <2>. QED
    BY <1>2, <2>2, <2>4, EventsAgree DEF Grammar!Start, ev
<1>7. Stays
  BY <1>2, <1>5 DEF Stays
<1>. QED
  BY <1>5, <1>6, <1>7 DEF Follows, Grammar!Next

\* The content of a node is one of these two, or fails.
LEMMA NodeContentFollows ==
  ASSUME Core, Running, state \notin Between, NEW stk, NodeDue(stk), NEW mk,
         NEW tok \in Token \cup {ScanError}, NEW anchor \in Anchors \cup {None}, NEW tag,
         NEW rd, Named(rd, anchor), NEW block \in BOOLEAN, NEW indentless \in BOOLEAN,
         NodeContent(tok, anchor, tag, stk, mk, rd, block, indentless)
  PROVE  Follows /\ Stays
<1>1. CASE ScanFails(tok, stk, mk, rd)
  BY <1>1, ScanFailsFollows DEF Stays
<1>2. CASE Raise("PARSER", stk, mk, tok, rd)
  BY <1>2, RaiseFollows DEF Stays
<1>3. CASE Return(Top(stk), Pop(stk), mk, NoToken, Event("SCALAR", anchor), Append(rd, "SCALAR"))
  <2>1. /\ Accounted(Append(rd, "SCALAR"), Event("SCALAR", anchor))
        /\ Anchored(Append(rd, "SCALAR"), Event("SCALAR", anchor))
    <3>1. "SCALAR" \in Reported["SCALAR"] /\ "SCALAR" \in TokenTypes
      BY ReportedFacts DEF Reportable, TokenTypes, PlainTypes
    <3>. QED
      BY <3>1, AccountedFacts
  <2>. QED
    BY <1>3, <2>1, LeafFollows
<1>4. CASE /\ tok.typ \in Openers(block, indentless)
           /\ OpenCollection(tok, anchor, stk, mk, rd)
  <2>1. tok.typ \in CollectionStarts \cup {"BLOCK_ENTRY"}
    BY <1>4, OpenersFacts
  <2>. QED
    BY <1>4, <2>1, StartFollows
<1>5. CASE Return(Top(stk), Pop(stk), mk, tok, Event("SCALAR", anchor), rd)
  <2>1. Accounted(rd, Event("SCALAR", anchor)) /\ Anchored(rd, Event("SCALAR", anchor))
    BY AccountedFacts
  <2>. QED
    BY <1>5, <2>1, LeafFollows
<1>. QED
  BY <1>1, <1>2, <1>3, <1>4, <1>5 DEF NodeContent

\* So is a node with its properties.
LEMMA ParseNodeFollows ==
  ASSUME Core, Running, state \notin Between, NEW stk, NodeDue(stk), NEW mk, NEW t \in Token,
         NEW rd, Quiet(rd), NEW block \in BOOLEAN, NEW indentless \in BOOLEAN,
         ParseNode(t, stk, mk, rd, block, indentless)
  PROVE  Follows /\ Stays
<1> DEFINE Content(tok, anchor, tag, props) ==
             NodeContent(tok, anchor, tag, stk, mk, rd \o props, block, indentless)
<1>1. ASSUME NEW tok \in Token \cup {ScanError}, NEW a \in Anchors \cup {None}, NEW tag, NEW props,
             Named(rd \o props, a), Content(tok, a, tag, props)
      PROVE  Follows /\ Stays
  BY <1>1, NodeContentFollows
<1>. HIDE DEF Content
<1>2. CASE /\ t.typ = "ALIAS"
           /\ Return(Top(stk), Pop(stk), mk, NoToken, Event("ALIAS", t.arg), Append(rd, "ALIAS"))
  <2>1. t.arg \in Anchors
    BY <1>2, TokenFacts
  <2>2. /\ Accounted(Append(rd, "ALIAS"), Event("ALIAS", t.arg))
        /\ Anchored(Append(rd, "ALIAS"), Event("ALIAS", t.arg))
    BY <2>1, AliasFacts
  <2>. QED
    BY <1>2, <2>1, <2>2, LeafFollows
<1>3. CASE /\ t.typ = "ANCHOR"
           /\ \E u \in Fetch :
                \/ u.typ # "TAG" /\ Content(u, t.arg, None, <<"ANCHOR">>)
                \/ u.typ = "TAG" /\ \E v \in Fetch : Content(v, t.arg, u.arg, <<"ANCHOR", "TAG">>)
  <2>1. t.arg \in Anchors
    BY <1>3, TokenFacts
  <2>2. Named(rd \o <<"ANCHOR">>, t.arg) /\ Named(rd \o <<"ANCHOR", "TAG">>, t.arg)
    BY <2>1, NamedFacts
  <2>. QED
    BY <1>1, <1>3, <2>1, <2>2, FetchFacts
<1>4. CASE /\ t.typ = "TAG"
           /\ \E u \in Fetch :
                \/ u.typ # "ANCHOR" /\ Content(u, None, t.arg, <<"TAG">>)
                \/ u.typ = "ANCHOR" /\ \E v \in Fetch : Content(v, u.arg, t.arg, <<"TAG", "ANCHOR">>)
  <2>1. \A u \in Fetch : u.typ = "ANCHOR" => u.arg \in Anchors
    BY FetchFacts, TokenFacts DEF ScanError
  <2>2. \A a \in Anchors : Named(rd \o <<"TAG", "ANCHOR">>, a)
    BY NamedFacts
  <2>3. Named(rd \o <<"TAG">>, None)
    BY TagNamed
  <2>. QED
    BY <1>1, <1>4, <2>1, <2>2, <2>3, FetchFacts
<1>5. CASE Content(t, None, None, <<>>)
  BY <1>1, <1>5, TagNamed
<1>. QED
  BY <1>2, <1>3, <1>4, <1>5 DEF ParseNode, Content

\* An empty node is a leaf that nothing stands for.
LEMMA EmptyNodeFollows ==
  ASSUME Core, Running, NEW stk, NodeDue(stk), NEW mk, NEW tok, NEW rd, Quiet(rd),
         EmptyScalar(Top(stk), Pop(stk), mk, tok, rd)
  PROVE  Follows /\ Stays
<1>1. Named(rd, None)
  BY QuietFacts
<1>2. Accounted(rd, Event("SCALAR", None)) /\ Anchored(rd, Event("SCALAR", None))
  BY <1>1, AccountedFacts
<1>. QED
  BY <1>2, LeafFollows DEF EmptyScalar

\* What comes behind a node in a collection: pairs of constructs.
Moves == {<<"Seq", "Seq">>, <<"Key", "Value">>, <<"Value", "Key">>,
          <<"PairKey", "PairValue">>, <<"PairValue", "PairEnd">>}

\* A collection that pushes its next state behind a node has that node due.
LEMMA MovesOn ==
  ASSUME Core, Running, Inside(states), NEW next \in ReturnStates,
         <<FrameOf(state), FrameOf(next)>> \in Moves
  PROVE  /\ NodeDue(Append(states, next))
         /\ Top(Append(states, next)) = next /\ Pop(Append(states, next)) = states
<1> DEFINE stk == Append(states, next)
           c == Constructs(states)
           f == FrameOf(next)
<1>1. /\ states \in Seq(ParserStates) /\ error = "NONE"
      /\ next \in ParserStates /\ f \in Grammar!Frames
  BY FrameFacts DEF Inside, Running, ReturnStates, MarkedStates, ParserStates
<1>2. Inside(stk) /\ Top(stk) = next /\ Pop(stk) = states
  BY <1>1, InsidePush, PushPop
<1>3. Constructs(stk) = Append(c, f) /\ c \in Seq(Grammar!Frames)
  BY <1>1, ConstructsFacts
<1>4. FrameOf(state) \in Grammar!NodeFrames /\ Grammar!Rest = <<f>>
  <2>1. Grammar!Inner = FrameOf(state)
    BY <1>1, OpenFacts
  <2>. QED
    BY <2>1 DEF Moves, Grammar!NodeFrames, Grammar!Rest
<1>5. Append(c, f) = c \o <<f>>
  <2>. HIDE DEF c, f, Grammar!Frames
  <2>. QED
    BY <1>1, <1>3
<1>. QED
  BY <1>2, <1>3, <1>4, <1>5 DEF NodeDue

\* What follows a BLOCK-ENTRY, KEY or VALUE is a node, present or empty.
LEMMA IndicatedNodeFollows ==
  ASSUME Core, Running, state \notin Between, Inside(states), NEW next \in ReturnStates,
         <<FrameOf(state), FrameOf(next)>> \in Moves,
         NEW mk, NEW rd, Quiet(rd), NEW block \in BOOLEAN, NEW indentless \in BOOLEAN,
         NEW Absent, IndicatedNode(Absent, next, mk, rd, block, indentless)
  PROVE  Follows /\ Stays
<1> DEFINE stk == Append(states, next)
<1>1. NodeDue(stk) /\ Top(stk) = next /\ Pop(stk) = states
  BY MovesOn
<1>. HIDE DEF stk
<1>2. PICK u \in Fetch :
        \/ ScanFails(u, states, mk, rd)
        \/ EmptyScalar(next, states, mk, u, rd)
        \/ u.typ # "ERROR" /\ ParseNode(u, stk, mk, rd, block, indentless)
  BY DEF IndicatedNode, stk
<1>3. CASE ScanFails(u, states, mk, rd)
  BY <1>3, ScanFailsFollows DEF Stays
<1>4. CASE EmptyScalar(next, states, mk, u, rd)
  BY <1>1, <1>4, EmptyNodeFollows
<1>5. CASE u.typ # "ERROR" /\ ParseNode(u, stk, mk, rd, block, indentless)
  BY <1>1, <1>5, FetchFacts, ParseNodeFollows
<1>. QED
  BY <1>2, <1>3, <1>4, <1>5

-----------------------------------------------------------------------------
(* Collections                                                               *)

\* A collection ends: the construct around it is the innermost one again.
LEMMA EndFollows ==
  ASSUME Core, Running, Inside(states), NEW mk, NEW tok, NEW rd,
         NEW typ \in {"SEQUENCE_END", "MAPPING_END"},
         FrameOf(state) = (IF typ = "SEQUENCE_END" THEN "Seq" ELSE "Key"),
         Return(Top(states), Pop(states), mk, tok, Event(typ, None), rd),
         Accounted(rd, Event(typ, None)), Anchored(rd, Event(typ, None))
  PROVE  Follows /\ Stays
<1>1. error = "NONE" /\ states \in Seq(ParserStates) /\ states # <<>>
  BY DEF Running, Inside
<1>2. /\ Constructs(states) = Append(Constructs(Pop(states)), FrameOf(Top(states)))
      /\ Pop(states) \in Seq(ParserStates) /\ Top(states) \in ParserStates
  BY <1>1, ConstructsPop
<1>3. /\ Grammar!Emit(Event(typ, None), Constructs(states)) /\ state' = Top(states)
      /\ error' = "NONE" =>
           /\ state' # "FLOW_SEQUENCE_ENTRY_MAPPING_VALUE" => Accounted(read', event')
           /\ Anchored(read', event')
  BY <1>2, ReturnEmits
<1>4. /\ Grammar!InA({FrameOf(state)})
      /\ Grammar!Emit(Grammar!Event(typ, Grammar!None), Grammar!Outer)
  BY <1>1, <1>3, OpenFacts, EventsAgree DEF Grammar!InA
<1>5. Grammar!SequenceEnd \/ Grammar!MappingEnd
  BY <1>4 DEF Grammar!SequenceEnd, Grammar!MappingEnd
<1>6. Stays
  BY <1>3, TopStays DEF Stays
<1>. QED
  BY <1>3, <1>5, <1>6 DEF Follows, Grammar!Next

\* The token that ends it is reported by its end.
LEMMA CloseFollows ==
  ASSUME Core, Running, Inside(states), NEW mk, NEW t, NEW rd, Quiet(rd),
         NEW typ \in {"SEQUENCE_END", "MAPPING_END"},
         FrameOf(state) = (IF typ = "SEQUENCE_END" THEN "Seq" ELSE "Key"),
         \/ t.typ = "BLOCK_END"
         \/ t.typ = "FLOW_SEQUENCE_END" /\ typ = "SEQUENCE_END"
         \/ t.typ = "FLOW_MAPPING_END" /\ typ = "MAPPING_END",
         CloseCollection(typ, mk, rd, t)
  PROVE  Follows /\ Stays
<1> DEFINE all == Append(rd, t.typ)
<1>1. t.typ \in TokenTypes \ {"ANCHOR", "ALIAS"} /\ typ \in Reported[t.typ]
  BY ReportedFacts DEF TokenTypes, PlainTypes
<1>2. Named(rd, None)
  BY QuietFacts
<1>3. Accounted(all, Event(typ, None)) /\ Anchored(all, Event(typ, None))
  BY <1>1, <1>2, AccountedFacts
<1>4. Return(Top(states), Pop(states), Pop(mk), NoToken, Event(typ, None), all)
  BY DEF CloseCollection
<1>. HIDE DEF all
<1>. QED
  BY <1>3, <1>4, EndFollows

\* At any entry of a collection: what its start has read has no name.
LEMMA EntryFacts ==
  ASSUME Core, Running, NEW first \in BOOLEAN,
         state \in (IF first THEN FirstStates ELSE MarkedStates)
  PROVE  /\ Inside(states) /\ state \notin Between
         /\ Quiet(OpenRead(first))
         /\ \A t \in OpenPeek(first) : t \in Token \cup {ScanError} /\ (t = ScanError <=> t.typ = "ERROR")
<1>1. error = "NONE"
  BY DEF Running
<1>2. /\ Inside(states)
      /\ \A t \in OpenPeek(first) : t \in Token \cup {ScanError} /\ (t = ScanError <=> t.typ = "ERROR")
  BY <1>1, CollectionFacts
<1>3. state \notin Between
  BY DEF FirstStates, MarkedStates, Between, OutsideStates
<1>4. Quiet(OpenRead(first))
  <2>1. CASE first
    <3>1. token.typ \in CollectionStarts
      BY <1>1, <2>1, CoreFacts DEF Good
    <3>2. token.typ \in TokenTypes \ (Reportable \cup {"ANCHOR", "ALIAS"})
      BY <3>1 DEF CollectionStarts, TokenTypes, PlainTypes, Reportable
    <3>3. OpenRead(first) = Append(<<>>, token.typ)
      BY <2>1 DEF OpenRead
    <3>. QED
      BY <3>2, <3>3, QuietFacts
  <2>2. CASE ~first
    BY <2>2, QuietFacts DEF OpenRead
  <2>. QED
    BY <2>1, <2>2
<1>. QED
  BY <1>2, <1>3, <1>4

\* Indicators and separators are not reported.
LEMMA IndicatorFacts ==
  ASSUME NEW rd, Quiet(rd), NEW typ \in {"BLOCK_ENTRY", "FLOW_ENTRY", "KEY", "VALUE"}
  PROVE  Quiet(Append(rd, typ)) /\ Quiet(<<typ>>)
<1>1. typ \in TokenTypes \ (Reportable \cup {"ANCHOR", "ALIAS"})
  BY DEF TokenTypes, PlainTypes, Reportable
<1>2. <<typ>> = Append(<<>>, typ)
  OBVIOUS
<1>. QED
  BY <1>1, <1>2, QuietFacts

\* The entries of a block sequence.
LEMMA ParseBlockSequenceEntryFollows ==
  ASSUME Core, NEW first \in BOOLEAN, ParseBlockSequenceEntry(first)
  PROVE  Follows /\ Stays
<1> DEFINE mk == OpenMarks(first)
           rd == OpenRead(first)
<1>1. /\ Running /\ state \in (IF first THEN FirstStates ELSE MarkedStates)
      /\ "BLOCK_SEQUENCE_ENTRY" \in ReturnStates
      /\ FrameOf(state) = "Seq" /\ FrameOf("BLOCK_SEQUENCE_ENTRY") = "Seq"
  BY DEF ParseBlockSequenceEntry, FirstStates, MarkedStates, ReturnStates, FrameOf
<1>2. PICK t \in OpenPeek(first) :
       \/ ScanFails(t, states, mk, rd)
       \/ /\ t.typ = "BLOCK_ENTRY"
          /\ IndicatedNode({"BLOCK_ENTRY", "BLOCK_END"}, "BLOCK_SEQUENCE_ENTRY",
                           mk, Append(rd, t.typ), TRUE, FALSE)
       \/ t.typ = "BLOCK_END" /\ CloseCollection("SEQUENCE_END", mk, rd, t)
       \/ Raise("PARSER", states, Pop(mk), t, rd)
  BY DEF ParseBlockSequenceEntry
<1>. HIDE DEF mk, rd
<1>3. Inside(states) /\ state \notin Between /\ Quiet(rd)
  BY <1>1, EntryFacts DEF rd
<1>4. CASE ScanFails(t, states, mk, rd)
  BY <1>1, <1>3, <1>4, ScanFailsFollows DEF Stays
<1>5. CASE /\ t.typ = "BLOCK_ENTRY"
           /\ IndicatedNode({"BLOCK_ENTRY", "BLOCK_END"}, "BLOCK_SEQUENCE_ENTRY",
                            mk, Append(rd, t.typ), TRUE, FALSE)
  <2>1. Quiet(Append(rd, t.typ)) /\ <<FrameOf(state), FrameOf("BLOCK_SEQUENCE_ENTRY")>> \in Moves
    BY <1>1, <1>3, <1>5, IndicatorFacts DEF Moves
  <2>. QED
    BY <1>1, <1>3, <1>5, <2>1, IndicatedNodeFollows
<1>6. CASE t.typ = "BLOCK_END" /\ CloseCollection("SEQUENCE_END", mk, rd, t)
  BY <1>1, <1>3, <1>6, CloseFollows
<1>7. CASE Raise("PARSER", states, Pop(mk), t, rd)
  BY <1>1, <1>3, <1>7, RaiseFollows DEF Stays
<1>. QED
  BY <1>2, <1>4, <1>5, <1>6, <1>7

\* An indentless sequence ends at any other token, which stays unread.
LEMMA ParseIndentlessSequenceEntryFollows ==
  ASSUME Core, ParseIndentlessSequenceEntry
  PROVE  Follows /\ Stays
<1>1. /\ Running /\ error = "NONE" /\ state = "INDENTLESS_SEQUENCE_ENTRY"
      /\ state \notin OutsideStates /\ state \notin Between /\ state \in ReturnStates
      /\ FrameOf(state) = "Seq"
  BY DEF ParseIndentlessSequenceEntry, Running, OutsideStates, Between, ReturnStates, FrameOf
<1>2. Inside(states)
  BY <1>1, CoreFacts
<1>3. PICK t \in Peek :
       \/ ScanFails(t, states, marks, <<>>)
       \/ /\ t.typ = "BLOCK_ENTRY"
          /\ IndicatedNode({"BLOCK_ENTRY", "KEY", "VALUE", "BLOCK_END"},
                           state, marks, <<t.typ>>, TRUE, FALSE)
       \/ Return(Top(states), Pop(states), marks, t, Event("SEQUENCE_END", None), <<>>)
  BY <1>1 DEF ParseIndentlessSequenceEntry
<1>4. CASE ScanFails(t, states, marks, <<>>)
  BY <1>1, <1>4, ScanFailsFollows DEF Stays
<1>5. CASE /\ t.typ = "BLOCK_ENTRY"
           /\ IndicatedNode({"BLOCK_ENTRY", "KEY", "VALUE", "BLOCK_END"},
                            state, marks, <<t.typ>>, TRUE, FALSE)
  <2>1. Quiet(<<t.typ>>) /\ <<FrameOf(state), FrameOf(state)>> \in Moves
    BY <1>1, <1>5, QuietFacts, IndicatorFacts DEF Moves
  <2>. QED
    BY <1>1, <1>2, <1>5, <2>1, IndicatedNodeFollows
<1>6. CASE Return(Top(states), Pop(states), marks, t, Event("SEQUENCE_END", None), <<>>)
  <2>1. Accounted(<<>>, Event("SEQUENCE_END", None)) /\ Anchored(<<>>, Event("SEQUENCE_END", None))
    BY QuietFacts, AccountedFacts
  <2>. QED
    BY <1>1, <1>2, <1>6, <2>1, EndFollows
<1>. QED
  BY <1>3, <1>4, <1>5, <1>6

\* The keys of a block mapping.
LEMMA ParseBlockMappingKeyFollows ==
  ASSUME Core, NEW first \in BOOLEAN, ParseBlockMappingKey(first)
  PROVE  Follows /\ Stays
<1> DEFINE mk == OpenMarks(first)
           rd == OpenRead(first)
<1>1. /\ Running /\ state \in (IF first THEN FirstStates ELSE MarkedStates)
      /\ "BLOCK_MAPPING_VALUE" \in ReturnStates
      /\ FrameOf(state) = "Key" /\ FrameOf("BLOCK_MAPPING_VALUE") = "Value"
  BY DEF ParseBlockMappingKey, FirstStates, MarkedStates, ReturnStates, FrameOf
<1>2. PICK t \in OpenPeek(first) :
       \/ ScanFails(t, states, mk, rd)
       \/ /\ t.typ = "KEY"
          /\ IndicatedNode(NoBlockNode, "BLOCK_MAPPING_VALUE", mk, Append(rd, t.typ), TRUE, TRUE)
       \/ t.typ = "BLOCK_END" /\ CloseCollection("MAPPING_END", mk, rd, t)
       \/ Raise("PARSER", states, Pop(mk), t, rd)
  BY DEF ParseBlockMappingKey
<1>. HIDE DEF mk, rd
<1>3. Inside(states) /\ state \notin Between /\ Quiet(rd)
  BY <1>1, EntryFacts DEF rd
<1>4. CASE ScanFails(t, states, mk, rd)
  BY <1>1, <1>3, <1>4, ScanFailsFollows DEF Stays
<1>5. CASE /\ t.typ = "KEY"
           /\ IndicatedNode(NoBlockNode, "BLOCK_MAPPING_VALUE", mk, Append(rd, t.typ), TRUE, TRUE)
  <2>1. Quiet(Append(rd, t.typ)) /\ <<FrameOf(state), FrameOf("BLOCK_MAPPING_VALUE")>> \in Moves
    BY <1>1, <1>3, <1>5, IndicatorFacts DEF Moves
  <2>. QED
    BY <1>1, <1>3, <1>5, <2>1, IndicatedNodeFollows
<1>6. CASE t.typ = "BLOCK_END" /\ CloseCollection("MAPPING_END", mk, rd, t)
  BY <1>1, <1>3, <1>6, CloseFollows
<1>7. CASE Raise("PARSER", states, Pop(mk), t, rd)
  BY <1>1, <1>3, <1>7, RaiseFollows DEF Stays
<1>. QED
  BY <1>2, <1>4, <1>5, <1>6, <1>7

\* The value of a pair, present or empty, with nothing read or one indicator.
LEMMA ValueFollows ==
  ASSUME Core, Running, state \notin Between, Inside(states), NEW next \in ReturnStates,
         <<FrameOf(state), FrameOf(next)>> \in Moves, NEW t,
         NEW block \in BOOLEAN, NEW indentless \in BOOLEAN, NEW Absent,
         \/ ScanFails(t, states, marks, <<>>)
         \/ t.typ = "VALUE" /\ IndicatedNode(Absent, next, marks, <<t.typ>>, block, indentless)
         \/ EmptyScalar(next, states, marks, t, <<>>)
  PROVE  Follows /\ Stays
<1>1. CASE ScanFails(t, states, marks, <<>>)
  BY <1>1, ScanFailsFollows DEF Stays
<1>2. CASE t.typ = "VALUE" /\ IndicatedNode(Absent, next, marks, <<t.typ>>, block, indentless)
  <2>1. Quiet(<<t.typ>>)
    BY <1>2, QuietFacts, IndicatorFacts
  <2>. QED
    BY <1>2, <2>1, IndicatedNodeFollows
<1>3. CASE EmptyScalar(next, states, marks, t, <<>>)
  <2>1. /\ NodeDue(Append(states, next))
        /\ Top(Append(states, next)) = next /\ Pop(Append(states, next)) = states
    BY MovesOn
  <2>. QED
    BY <1>3, <2>1, QuietFacts, EmptyNodeFollows
<1>. QED
  BY <1>1, <1>2, <1>3

\* The values of a block mapping.
LEMMA ParseBlockMappingValueFollows ==
  ASSUME Core, ParseBlockMappingValue
  PROVE  Follows /\ Stays
<1>1. /\ Running /\ error = "NONE" /\ state \in MarkedStates /\ state \notin Between
      /\ "BLOCK_MAPPING_KEY" \in ReturnStates
      /\ <<FrameOf(state), FrameOf("BLOCK_MAPPING_KEY")>> \in Moves
  BY DEF ParseBlockMappingValue, Running, MarkedStates, Between, OutsideStates, ReturnStates,
         FrameOf, Moves
<1>2. Inside(states)
  BY <1>1, MarkedFacts
<1>3. PICK t \in Peek :
       \/ ScanFails(t, states, marks, <<>>)
       \/ t.typ = "VALUE" /\ IndicatedNode(NoBlockNode, "BLOCK_MAPPING_KEY", marks, <<t.typ>>, TRUE, TRUE)
       \/ EmptyScalar("BLOCK_MAPPING_KEY", states, marks, t, <<>>)
  BY DEF ParseBlockMappingValue
<1>. QED
  BY <1>1, <1>2, <1>3, ValueFollows

\* The values of a flow mapping, and of a pair in a flow sequence.
LEMMA FlowValueFollows ==
  ASSUME Core, Running, state \in MarkedStates, NEW closer, NEW next \in ReturnStates,
         <<FrameOf(state), FrameOf(next)>> \in Moves, FlowValue(closer, next)
  PROVE  Follows /\ Stays
<1>1. error = "NONE" /\ state \notin Between
  BY DEF Running, MarkedStates, Between, OutsideStates
<1>2. Inside(states)
  BY <1>1, MarkedFacts
<1>3. PICK t \in Peek :
       \/ ScanFails(t, states, marks, <<>>)
       \/ t.typ = "VALUE" /\ IndicatedNode({"FLOW_ENTRY", closer}, next, marks, <<t.typ>>, FALSE, FALSE)
       \/ EmptyScalar(next, states, marks, t, <<>>)
  BY DEF FlowValue
<1>. QED
  BY <1>1, <1>2, <1>3, ValueFollows

\* An entry of a flow collection; a pair in a sequence opens a mapping of its own.
LEMMA FlowEntryFollows ==
  ASSUME Core, Running, state \notin Between, Inside(states), NEW mk, NEW t \in Token,
         NEW rd, Quiet(rd),
         \/ FrameOf(state) = "Seq" /\ FlowSequenceEntry(t, mk, rd)
         \/ FrameOf(state) = "Key" /\ FlowMappingEntry(t, mk, rd)
  PROVE  Follows /\ Stays
<1>1. error = "NONE" /\ states \in Seq(ParserStates)
  BY DEF Running, Inside
<1>2. ASSUME NEW next \in ReturnStates, <<FrameOf(state), FrameOf(next)>> \in Moves,
             ParseNode(t, Append(states, next), mk, rd, FALSE, FALSE)
      PROVE  Follows /\ Stays
  <2>1. NodeDue(Append(states, next))
    BY <1>2, MovesOn
  <2>. QED
    BY <1>2, <2>1, ParseNodeFollows
<1>3. CASE FrameOf(state) = "Seq" /\ FlowSequenceEntry(t, mk, rd)
  <2>1. CASE /\ t.typ = "KEY"
             /\ Return("FLOW_SEQUENCE_ENTRY_MAPPING_KEY", states, mk, NoToken,
                       Event("MAPPING_START", None), Append(rd, t.typ))
    <3> DEFINE pair == "FLOW_SEQUENCE_ENTRY_MAPPING_KEY"
               ev == Event("MAPPING_START", None)
               all == Append(rd, t.typ)
    <3>1. pair \in ParserStates /\ pair \notin Between /\ FrameOf(pair) = "PairKey"
      BY DEF ParserStates, MarkedStates, Between, OutsideStates, FrameOf
    <3>2. Accounted(all, ev) /\ Anchored(all, ev)
      BY <2>1, IndicatorFacts, QuietFacts, AccountedFacts
    <3>3. Return(pair, states, mk, NoToken, ev, all)
      BY <2>1
    <3>. HIDE DEF pair, ev, all
    <3>4. /\ Grammar!Emit(ev, Append(Constructs(states), FrameOf(pair))) /\ state' = pair
          /\ error' = "NONE" =>
               /\ state' # "FLOW_SEQUENCE_ENTRY_MAPPING_VALUE" => Accounted(read', event')
               /\ Anchored(read', event')
      BY <1>1, <3>1, <3>2, <3>3, ReturnEmits
    <3>5. Grammar!PairStart
      BY <1>1, <1>3, <3>1, <3>4, OpenFacts, EventsAgree DEF Grammar!PairStart, Grammar!InA, ev
    <3>. QED
      BY <3>1, <3>4, <3>5 DEF Follows, Stays, Grammar!Next
  <2>2. CASE ParseNode(t, Append(states, "FLOW_SEQUENCE_ENTRY"), mk, rd, FALSE, FALSE)
    <3>1. "FLOW_SEQUENCE_ENTRY" \in ReturnStates
          /\ <<FrameOf(state), FrameOf("FLOW_SEQUENCE_ENTRY")>> \in Moves
      BY <1>3 DEF ReturnStates, MarkedStates, FrameOf, Moves
    <3>. QED
      BY <1>2, <2>2, <3>1
  <2>. QED
    BY <1>3, <2>1, <2>2 DEF FlowSequenceEntry
<1>4. CASE FrameOf(state) = "Key" /\ FlowMappingEntry(t, mk, rd)
  <2>1. /\ "FLOW_MAPPING_VALUE" \in ReturnStates /\ "FLOW_MAPPING_EMPTY_VALUE" \in ReturnStates
        /\ <<FrameOf(state), FrameOf("FLOW_MAPPING_VALUE")>> \in Moves
        /\ <<FrameOf(state), FrameOf("FLOW_MAPPING_EMPTY_VALUE")>> \in Moves
    BY <1>4 DEF ReturnStates, MarkedStates, FrameOf, Moves
  <2>2. CASE /\ t.typ = "KEY"
             /\ IndicatedNode({"VALUE", "FLOW_ENTRY", "FLOW_MAPPING_END"}, "FLOW_MAPPING_VALUE",
                              mk, Append(rd, t.typ), FALSE, FALSE)
    <3>1. Quiet(Append(rd, t.typ))
      BY <2>2, IndicatorFacts
    <3>. QED
      BY <2>1, <2>2, <3>1, IndicatedNodeFollows
  <2>3. CASE ParseNode(t, Append(states, "FLOW_MAPPING_EMPTY_VALUE"), mk, rd, FALSE, FALSE)
    BY <1>2, <2>1, <2>3
  <2>. QED
    BY <1>4, <2>2, <2>3 DEF FlowMappingEntry
<1>. QED
  BY <1>3, <1>4

\* Any call in a flow collection.
LEMMA FlowCollectionFollows ==
  ASSUME Core, Running, NEW first \in BOOLEAN,
         state \in (IF first THEN FirstStates ELSE MarkedStates),
         NEW closer, FlowCollection(first, closer),
         \/ closer = "FLOW_SEQUENCE_END" /\ FrameOf(state) = "Seq"
         \/ closer = "FLOW_MAPPING_END" /\ FrameOf(state) = "Key"
  PROVE  Follows /\ Stays
<1> DEFINE mk == OpenMarks(first)
           opened == OpenRead(first)
<1>1. PICK t \in OpenPeek(first) :
        \/ FlowEntryOrEnd(closer, t, mk, opened)
        \/ /\ t.typ = "FLOW_ENTRY"
           /\ \E u \in Fetch : FlowEntryOrEnd(closer, u, mk, Append(opened, t.typ))
        \/ Raise("PARSER", states, Pop(mk), t, opened)
  BY DEF FlowCollection
<1>. HIDE DEF mk, opened
<1>2. /\ Inside(states) /\ state \notin Between /\ Quiet(opened)
      /\ t \in Token \cup {ScanError} /\ (t = ScanError <=> t.typ = "ERROR")
  BY EntryFacts DEF opened
<1>3. ASSUME NEW u \in Token \cup {ScanError}, u = ScanError <=> u.typ = "ERROR",
             NEW rd, Quiet(rd), FlowEntryOrEnd(closer, u, mk, rd)
      PROVE  Follows /\ Stays
  <2>1. CASE ScanFails(u, states, mk, rd)
    BY <1>2, <2>1, ScanFailsFollows DEF Stays
  <2>2. CASE /\ u.typ = closer
             /\ CloseCollection(IF closer = "FLOW_SEQUENCE_END" THEN "SEQUENCE_END" ELSE "MAPPING_END",
                                mk, rd, u)
    <3>1. CASE closer = "FLOW_SEQUENCE_END"
      BY <1>2, <1>3, <2>2, <3>1, CloseFollows
    <3>2. CASE closer = "FLOW_MAPPING_END"
      BY <1>2, <1>3, <2>2, <3>2, CloseFollows
    <3>. QED
      BY <3>1, <3>2
  <2>3. CASE /\ u.typ # "ERROR"
             /\ IF closer = "FLOW_SEQUENCE_END" THEN FlowSequenceEntry(u, mk, rd)
                                                ELSE FlowMappingEntry(u, mk, rd)
    <3>1. u \in Token
      BY <1>3, <2>3
    <3>. QED
      BY <1>2, <1>3, <2>3, <3>1, FlowEntryFollows
  <2>. QED
    BY <1>3, <2>1, <2>2, <2>3 DEF FlowEntryOrEnd
<1>4. CASE FlowEntryOrEnd(closer, t, mk, opened)
  BY <1>2, <1>3, <1>4
<1>5. CASE /\ t.typ = "FLOW_ENTRY"
           /\ \E u \in Fetch : FlowEntryOrEnd(closer, u, mk, Append(opened, t.typ))
  <2>1. Quiet(Append(opened, t.typ))
    BY <1>2, <1>5, IndicatorFacts
  <2>. QED
    BY <1>3, <1>5, <2>1, FetchFacts
<1>6. CASE Raise("PARSER", states, Pop(mk), t, opened)
  BY <1>2, <1>6, RaiseFollows DEF Stays
<1>. QED
  BY <1>1, <1>4, <1>5, <1>6

\* The handlers of the flow collections.
LEMMA ParseFlowEntriesFollow ==
  ASSUME Core, NEW first \in BOOLEAN,
         ParseFlowSequenceEntry(first) \/ ParseFlowMappingKey(first)
  PROVE  Follows /\ Stays
<1>1. CASE ParseFlowSequenceEntry(first)
  <2>1. /\ Running /\ state \in (IF first THEN FirstStates ELSE MarkedStates)
        /\ FlowCollection(first, "FLOW_SEQUENCE_END") /\ FrameOf(state) = "Seq"
    BY <1>1 DEF ParseFlowSequenceEntry, FirstStates, MarkedStates, FrameOf
  <2>. QED
    BY <2>1, FlowCollectionFollows
<1>2. CASE ParseFlowMappingKey(first)
  <2>1. /\ Running /\ state \in (IF first THEN FirstStates ELSE MarkedStates)
        /\ FlowCollection(first, "FLOW_MAPPING_END") /\ FrameOf(state) = "Key"
    BY <1>2 DEF ParseFlowMappingKey, FirstStates, MarkedStates, FrameOf
  <2>. QED
    BY <2>1, FlowCollectionFollows
<1>. QED
  BY <1>1, <1>2

\* The values of flow collections, and the values that are not there.
LEMMA ParseFlowValuesFollow ==
  ASSUME Core,
         ParseFlowSequenceEntryMappingValue \/ ParseFlowMappingValue \/ ParseFlowMappingEmptyValue
  PROVE  Follows /\ Stays
<1>1. CASE ParseFlowSequenceEntryMappingValue
  <2>1. /\ Running /\ state \in MarkedStates /\ "FLOW_SEQUENCE_ENTRY_MAPPING_END" \in ReturnStates
        /\ <<FrameOf(state), FrameOf("FLOW_SEQUENCE_ENTRY_MAPPING_END")>> \in Moves
        /\ FlowValue("FLOW_SEQUENCE_END", "FLOW_SEQUENCE_ENTRY_MAPPING_END")
    BY <1>1 DEF ParseFlowSequenceEntryMappingValue, MarkedStates, ReturnStates, FrameOf, Moves
  <2>. QED
    BY <2>1, FlowValueFollows
<1>2. CASE ParseFlowMappingValue
  <2>1. /\ Running /\ state \in MarkedStates /\ "FLOW_MAPPING_KEY" \in ReturnStates
        /\ <<FrameOf(state), FrameOf("FLOW_MAPPING_KEY")>> \in Moves
        /\ FlowValue("FLOW_MAPPING_END", "FLOW_MAPPING_KEY")
    BY <1>2 DEF ParseFlowMappingValue, MarkedStates, ReturnStates, FrameOf, Moves
  <2>. QED
    BY <2>1, FlowValueFollows
<1>3. CASE ParseFlowMappingEmptyValue
  <2>1. /\ Running /\ error = "NONE" /\ state \in MarkedStates /\ state \notin Between
        /\ "FLOW_MAPPING_KEY" \in ReturnStates
        /\ <<FrameOf(state), FrameOf("FLOW_MAPPING_KEY")>> \in Moves
    BY <1>3 DEF ParseFlowMappingEmptyValue, Running, MarkedStates, Between, OutsideStates,
                ReturnStates, FrameOf, Moves
  <2>2. Inside(states)
    BY <2>1, MarkedFacts
  <2>3. PICK t \in Peek :
         ScanFails(t, states, marks, <<>>) \/ EmptyScalar("FLOW_MAPPING_KEY", states, marks, t, <<>>)
    BY <1>3 DEF ParseFlowMappingEmptyValue
  <2>. QED
    BY <2>1, <2>2, <2>3, ValueFollows
<1>. QED
  BY <1>1, <1>2, <1>3

\* The key of a pair in a flow sequence.  Where it is absent, the token that
\* shows it is skipped, which the events do not account for.
LEMMA ParseFlowSequenceEntryMappingKeyFollows ==
  ASSUME Core, ParseFlowSequenceEntryMappingKey
  PROVE  Follows /\ Stays
<1> DEFINE next == "FLOW_SEQUENCE_ENTRY_MAPPING_VALUE"
           stk == Append(states, next)
           ev == Event("SCALAR", None)
<1>1. /\ Running /\ error = "NONE" /\ state \in MarkedStates /\ state \notin Between
      /\ next \in ReturnStates /\ next \in ParserStates /\ next \notin Between
      /\ <<FrameOf(state), FrameOf(next)>> \in Moves
  BY DEF ParseFlowSequenceEntryMappingKey, Running, MarkedStates, Between, OutsideStates,
         ReturnStates, ParserStates, FrameOf, Moves
<1>2. Inside(states)
  BY <1>1, MarkedFacts
<1>3. PICK t \in Peek :
       \/ ScanFails(t, states, marks, <<>>)
       \/ t.typ # "ERROR" /\ ParseNode(t, stk, marks, <<>>, FALSE, FALSE)
       \/ /\ t.typ \in {"VALUE", "FLOW_ENTRY", "FLOW_SEQUENCE_END"}
          /\ Return(next, states, marks, NoToken, ev, <<t.typ>>)
  BY DEF ParseFlowSequenceEntryMappingKey, EmptyScalar
<1>4. NodeDue(stk) /\ Top(stk) = next /\ Pop(stk) = states
  BY <1>1, <1>2, MovesOn
<1>. HIDE DEF stk, ev
<1>5. CASE ScanFails(t, states, marks, <<>>)
  BY <1>1, <1>5, ScanFailsFollows DEF Stays
<1>6. CASE t.typ # "ERROR" /\ ParseNode(t, stk, marks, <<>>, FALSE, FALSE)
  <2>1. t \in Token
    BY <1>1, <1>6, CoreFacts, PeekFacts
  <2>. QED
    BY <1>1, <1>4, <1>6, <2>1, QuietFacts, ParseNodeFollows
<1>7. CASE /\ t.typ \in {"VALUE", "FLOW_ENTRY", "FLOW_SEQUENCE_END"}
           /\ Return(next, states, marks, NoToken, ev, <<t.typ>>)
  <2>1. Anchored(<<t.typ>>, ev)
    BY <1>7 DEF Anchored, Event, ev
  <2>2. states \in Seq(ParserStates)
    BY <1>2 DEF Inside
  <2>3. /\ Grammar!Emit(ev, Append(Constructs(states), FrameOf(next))) /\ state' = next
        /\ error' = "NONE" => Anchored(read', event')
    BY <1>1, <1>7, <2>1, <2>2, ReturnEmits
  <2>4. Constructs(stk) = Append(Constructs(states), FrameOf(next))
        /\ Constructs(stk) = Grammar!Outer \o Grammar!Rest /\ Grammar!InA(Grammar!NodeFrames)
    BY <1>1, <1>4, <2>2, ConstructsFacts, OpenFacts DEF NodeDue, Grammar!InA, stk
  <2>5. Grammar!Leaf
    BY <2>3, <2>4, EventsAgree DEF Grammar!Leaf, ev
  <2>. QED
    BY <1>1, <2>3, <2>5 DEF Follows, Stays, Grammar!Next
<1>. QED
  BY <1>3, <1>5, <1>6, <1>7

\* The mapping around a pair ends without a token.
LEMMA ParseFlowSequenceEntryMappingEndFollows ==
  ASSUME Core, ParseFlowSequenceEntryMappingEnd
  PROVE  Follows /\ Stays
<1> DEFINE next == "FLOW_SEQUENCE_ENTRY"
           ev == Event("MAPPING_END", None)
<1>1. /\ Running /\ error = "NONE" /\ state \in MarkedStates /\ state \notin Between
      /\ next \in ParserStates /\ next \notin Between
      /\ FrameOf(state) = "PairEnd" /\ FrameOf(next) = "Seq"
  BY DEF ParseFlowSequenceEntryMappingEnd, Running, MarkedStates, Between, OutsideStates,
         ParserStates, FrameOf
<1>2. states \in Seq(ParserStates)
  BY <1>1, CoreFacts
<1>3. PICK t \in Peek :
       ScanFails(t, states, marks, <<>>) \/ Return(next, states, marks, t, ev, <<>>)
  BY DEF ParseFlowSequenceEntryMappingEnd
<1>. HIDE DEF next, ev
<1>4. CASE ScanFails(t, states, marks, <<>>)
  BY <1>1, <1>4, ScanFailsFollows DEF Stays
<1>5. CASE Return(next, states, marks, t, ev, <<>>)
  <2>1. Accounted(<<>>, ev) /\ Anchored(<<>>, ev)
    BY QuietFacts, AccountedFacts DEF ev
  <2>2. /\ Grammar!Emit(ev, Append(Constructs(states), FrameOf(next))) /\ state' = next
        /\ error' = "NONE" =>
             /\ state' # "FLOW_SEQUENCE_ENTRY_MAPPING_VALUE" => Accounted(read', event')
             /\ Anchored(read', event')
    BY <1>1, <1>2, <1>5, <2>1, ReturnEmits
  <2>3. Grammar!PairEnd
    BY <1>1, <2>2, OpenFacts, EventsAgree DEF Grammar!PairEnd, Grammar!InA, ev
  <2>. QED
    BY <1>1, <2>2, <2>3 DEF Follows, Stays, Grammar!Next
<1>. QED
  BY <1>3, <1>4, <1>5

-----------------------------------------------------------------------------
(* Stream and documents                                                      *)

\* Outside every node the current state is all that is open.
LEMMA OutsideOpen ==
  ASSUME Core, error = "NONE", state \in OutsideStates
  PROVE  /\ states = <<>> /\ states \in Seq(ParserStates) /\ Constructs(states) = <<>>
         /\ OpenConstructs = <<FrameOf(state)>>
         /\ \A f \in Grammar!Frames : Append(Constructs(states), f) = <<f>>
<1>1. states = <<>> /\ states \in Seq(ParserStates)
  BY CoreFacts
<1>2. Constructs(states) = <<>>
  BY <1>1 DEF Constructs
<1>3. \A f \in Grammar!Frames : Append(<<>>, f) = <<f>>
  BY DEF Grammar!Frames
<1>4. FrameOf(state) \in Grammar!Frames
  BY FrameFacts DEF Core
<1>. QED
  BY <1>1, <1>2, <1>3, <1>4, OpenFacts

\* The start of the stream.
LEMMA ParseStreamStartFollows ==
  ASSUME Core, ParseStreamStart
  PROVE  Follows
<1> DEFINE ev == Event("STREAM_START", None)
           next == "IMPLICIT_DOCUMENT_START"
<1>1. /\ Running /\ error = "NONE" /\ state = "STREAM_START" /\ state \in OutsideStates
      /\ next \in ParserStates /\ next # "FLOW_SEQUENCE_ENTRY_MAPPING_VALUE"
      /\ FrameOf(state) = "StreamStart" /\ FrameOf(next) = "Doc"
  BY DEF ParseStreamStart, Running, OutsideStates, ParserStates, FrameOf
<1>2. PICK t \in Peek :
       \/ ScanFails(t, states, marks, <<>>)
       \/ Return(next, states, marks, NoToken, ev, <<"STREAM_START">>)
       \/ Raise("PARSER", states, marks, t, <<>>)
  BY DEF ParseStreamStart
<1>3. CASE ScanFails(t, states, marks, <<>>) \/ Raise("PARSER", states, marks, t, <<>>)
  BY <1>1, <1>3, ScanFailsFollows, RaiseFollows
<1>4. CASE Return(next, states, marks, NoToken, ev, <<"STREAM_START">>)
  <2>1. "STREAM_START" \in TokenTypes \ {"ANCHOR", "ALIAS"} /\ "STREAM_START" \in Reported["STREAM_START"]
    BY ReportedFacts DEF TokenTypes, PlainTypes, Reportable
  <2>2. Named(<<>>, None) /\ <<"STREAM_START">> = Append(<<>>, "STREAM_START")
    BY QuietFacts
  <2>3. Accounted(<<"STREAM_START">>, ev) /\ Anchored(<<"STREAM_START">>, ev)
    BY <2>1, <2>2, AccountedFacts
  <2>. HIDE DEF ev, next
  <2>4. /\ Grammar!Emit(ev, Append(Constructs(states), FrameOf(next)))
        /\ error' = "NONE" =>
             /\ state' # "FLOW_SEQUENCE_ENTRY_MAPPING_VALUE" => Accounted(read', event')
             /\ Anchored(read', event')
    BY <1>1, <1>4, <2>3, OutsideOpen, ReturnEmits
  <2>5. Grammar!StreamStart
    BY <1>1, <2>4, OutsideOpen, EventsAgree DEF Grammar!Frames, Grammar!StreamStart, ev
  <2>. QED
    BY <2>4, <2>5 DEF Follows, Grammar!Next
<1>. QED
  BY <1>2, <1>3, <1>4

\* A sequence with one more element.
LEMMA AppendedElement ==
  ASSUME NEW S, NEW s \in Seq(S), NEW b \in S, NEW t \in Seq(S), Len(t) = Len(s) + 1,
         \A i \in 1..Len(s) : t[i] = s[i], t[Len(s) + 1] = b
  PROVE  Append(s, b) = t
<1> DEFINE all == Append(s, b)
<1>1. /\ all \in Seq(S) /\ Len(all) = Len(s) + 1 /\ all[Len(s) + 1] = b
      /\ \A i \in 1..Len(s) : all[i] = s[i]
  OBVIOUS
<1>. HIDE DEF all
<1>2. Len(s) \in Nat
  OBVIOUS
<1>3. \A i \in 1..Len(s) + 1 : all[i] = t[i]
  BY <1>1, <1>2
<1>4. all = t
  BY <1>1, <1>3, SeqEqual
<1>. QED
  BY <1>4 DEF all

\* A pair is one element appended to the other.
LEMMA AppendedPair ==
  ASSUME NEW S, NEW a \in S, NEW b \in S
  PROVE  Append(<<a>>, b) = <<a, b>>
<1>1. <<a>> \in Seq(S) /\ Len(<<a>>) = 1 /\ <<a>>[1] = a
  OBVIOUS
<1>2. /\ <<a, b>> \in Seq(S) /\ Len(<<a, b>>) = 2
      /\ <<a, b>>[1] = a /\ <<a, b>>[2] = b
  OBVIOUS
<1>3. ASSUME NEW s \in Seq(S), NEW t \in Seq(S), Len(s) = 1, Len(t) = 2,
             t[1] = s[1], t[2] = b
      PROVE  Append(s, b) = t
  <2>1. Len(t) = Len(s) + 1 /\ t[Len(s) + 1] = b
    BY <1>3
  <2>2. \A i \in 1..Len(s) : t[i] = s[i]
    BY <1>3
  <2>. QED
    BY <2>1, <2>2, AppendedElement
<1>. QED
  BY <1>1, <1>2, <1>3

\* A document opens in state st, with its end below it.
LEMMA DocumentFollows ==
  ASSUME Core, Running, state \in {"IMPLICIT_DOCUMENT_START", "DOCUMENT_START"},
         NEW st \in {"DOCUMENT_CONTENT", "BLOCK_NODE"}, NEW mk, NEW tok, NEW rd,
         Quiet(rd),
         NEW all, all = rd \/ all = Append(rd, "DOCUMENT_START"),
         Return(st, Append(states, "DOCUMENT_END"), mk, tok, Event("DOCUMENT_START", None), all)
  PROVE  Follows
<1> DEFINE ev == Event("DOCUMENT_START", None)
           stk == Append(states, "DOCUMENT_END")
<1>1. /\ error = "NONE" /\ state \in OutsideStates /\ FrameOf(state) = "Doc"
      /\ st \in ParserStates /\ FrameOf(st) = "Node"
      /\ "DOCUMENT_END" \in ParserStates /\ FrameOf("DOCUMENT_END") = "DocEnd"
  BY DEF Running, OutsideStates, ParserStates, FrameOf
<1>2. /\ states \in Seq(ParserStates) /\ Constructs(states) = <<>>
      /\ OpenConstructs = <<"Doc">> /\ Append(Constructs(states), "DocEnd") = <<"DocEnd">>
  BY <1>1, OutsideOpen DEF Grammar!Frames
<1>3. stk \in Seq(ParserStates) /\ Constructs(stk) = <<"DocEnd">>
  BY <1>1, <1>2, ConstructsFacts
<1>4. Accounted(all, ev) /\ Anchored(all, ev)
  <2>1. /\ "DOCUMENT_START" \in TokenTypes \ {"ANCHOR", "ALIAS"}
        /\ "DOCUMENT_START" \in Reported["DOCUMENT_START"]
    BY ReportedFacts DEF TokenTypes, PlainTypes, Reportable
  <2>2. Named(rd, None)
    BY QuietFacts
  <2>. QED
    BY <2>1, <2>2, AccountedFacts
<1>. HIDE DEF ev, stk
<1>5. Return(st, stk, mk, tok, ev, all)
  BY DEF ev, stk
<1>6. /\ Grammar!Emit(ev, Append(Constructs(stk), FrameOf(st)))
      /\ error' = "NONE" =>
           /\ state' # "FLOW_SEQUENCE_ENTRY_MAPPING_VALUE" => Accounted(read', event')
           /\ Anchored(read', event')
  BY <1>1, <1>3, <1>4, <1>5, ReturnEmits
<1>7. Append(<<"DocEnd">>, "Node") = <<"DocEnd", "Node">>
  <2>1. "DocEnd" \in Grammar!Frames /\ "Node" \in Grammar!Frames
    BY DEF Grammar!Frames
  <2>2. \A a, b \in Grammar!Frames : Append(<<a>>, b) = <<a, b>>
    BY AppendedPair
  <2>. QED
    BY <2>1, <2>2
<1>8. Grammar!DocumentStart
  BY <1>1, <1>2, <1>3, <1>6, <1>7, EventsAgree DEF Grammar!DocumentStart, ev
<1>. QED
  BY <1>6, <1>8 DEF Follows, Grammar!Next

\* Directives are not reported.
LEMMA DirectivesQuiet ==
  ASSUME NEW ds \in DirectiveRuns
  PROVE  Quiet([i \in DOMAIN ds |-> ds[i].typ])
<1> DEFINE rd == [i \in DOMAIN ds |-> ds[i].typ]
<1>1. PICK n \in 0..MaxDirectives : ds \in [1..n -> {t \in Token : t.typ \in DirectiveTypes}]
  BY DEF DirectiveRuns
<1>2. \A i \in DOMAIN rd : rd[i] \in DirectiveTypes
  BY <1>1
<1>3. rd \in Seq(TokenTypes)
  BY DirectiveFacts
<1>4. DirectiveTypes \cap (Reportable \cup {"ANCHOR", "ALIAS"}) = {}
  BY DEF DirectiveTypes, Reportable
<1>. HIDE DEF rd
<1>. QED
  BY <1>2, <1>3, <1>4 DEF Quiet, rd

\* The start of a document, or the end of the stream.
LEMMA ParseDocumentStartFollows ==
  ASSUME Core, NEW implicit \in BOOLEAN, ParseDocumentStart(implicit)
  PROVE  Follows
<1> DEFINE end == Event("STREAM_END", None)
<1>1. /\ Running /\ error = "NONE" /\ state \in {"IMPLICIT_DOCUMENT_START", "DOCUMENT_START"}
      /\ state \in OutsideStates /\ FrameOf(state) = "Doc"
      /\ "END" \in ParserStates /\ FrameOf("END") = "End"
  BY DEF ParseDocumentStart, Running, OutsideStates, ParserStates, FrameOf
<1>2. PICK t :
       \/ ScanFails(t, states, marks, <<>>)
       \/ Return("END", states, marks, NoToken, end, <<"STREAM_END">>)
       \/ Return("BLOCK_NODE", Append(states, "DOCUMENT_END"), marks, t,
                 Event("DOCUMENT_START", None), <<>>)
       \/ ExplicitDocument(t)
  BY DEF ParseDocumentStart
<1>3. CASE ScanFails(t, states, marks, <<>>)
  BY <1>1, <1>3, ScanFailsFollows
<1>4. CASE Return("END", states, marks, NoToken, end, <<"STREAM_END">>)
  <2>1. "STREAM_END" \in TokenTypes \ {"ANCHOR", "ALIAS"} /\ "STREAM_END" \in Reported["STREAM_END"]
    BY ReportedFacts DEF TokenTypes, PlainTypes, Reportable
  <2>2. Named(<<>>, None) /\ <<"STREAM_END">> = Append(<<>>, "STREAM_END")
    BY QuietFacts
  <2>3. Accounted(<<"STREAM_END">>, end) /\ Anchored(<<"STREAM_END">>, end)
        /\ end.typ = "STREAM_END"
    BY <2>1, <2>2, AccountedFacts DEF Event
  <2>. HIDE DEF end
  <2>4. /\ event' = end /\ OpenConstructs' = Append(Constructs(states), FrameOf("END"))
        /\ error' = "NONE" =>
             /\ state' # "FLOW_SEQUENCE_ENTRY_MAPPING_VALUE" => Accounted(read', event')
             /\ Anchored(read', event')
    BY <1>1, <1>4, <2>3, OutsideOpen, ReturnEmits
  <2>5. Grammar!StreamEnd
    BY <1>1, <2>4, OutsideOpen, EventsAgree DEF Grammar!Frames, Grammar!StreamEnd, end
  <2>. QED
    BY <2>4, <2>5 DEF Follows, Grammar!Next
<1>5. CASE Return("BLOCK_NODE", Append(states, "DOCUMENT_END"), marks, t,
                  Event("DOCUMENT_START", None), <<>>)
  BY <1>1, <1>5, QuietFacts, DocumentFollows
<1>6. CASE ExplicitDocument(t)
  <2>1. PICK ds \in DirectiveRuns :
          LET rd == [i \in DOMAIN ds |-> ds[i].typ] IN
          \/ Raise("PARSER", states, marks, Top(ds), Pop(rd))
          \/ \E u : \/ ScanFails(u, states, marks, rd)
                    \/ Raise("PARSER", states, marks, u, rd)
                    \/ Return("DOCUMENT_CONTENT", Append(states, "DOCUMENT_END"), marks, NoToken,
                              Event("DOCUMENT_START", None), Append(rd, "DOCUMENT_START"))
    BY <1>6 DEF ExplicitDocument
  <2> DEFINE rd == [i \in DOMAIN ds |-> ds[i].typ]
  <2>2. Quiet(rd)
    BY DirectivesQuiet
  <2>3. ASSUME NEW rds, NEW u, Raise("PARSER", states, marks, u, rds) \/ ScanFails(u, states, marks, rds)
        PROVE  Follows
    BY <1>1, <2>3, RaiseFollows, ScanFailsFollows
  <2>. HIDE DEF rd
  <2>4. CASE Return("DOCUMENT_CONTENT", Append(states, "DOCUMENT_END"), marks, NoToken,
                    Event("DOCUMENT_START", None), Append(rd, "DOCUMENT_START"))
    BY <1>1, <2>2, <2>4, DocumentFollows
  <2>. QED
    BY <2>1, <2>3, <2>4 DEF rd
<1>. QED
  BY <1>2, <1>3, <1>4, <1>5, <1>6

\* The root of a document is due in its first state.
LEMMA RootDue ==
  ASSUME Core, Running, state \in {"DOCUMENT_CONTENT", "BLOCK_NODE"}
  PROVE  NodeDue(states) /\ state \notin Between
<1>1. /\ error = "NONE" /\ FrameOf(state) = "Node" /\ state \notin OutsideStates /\ state \notin Between
  BY DEF Running, FrameOf, OutsideStates, Between
<1>2. Inside(states) /\ Grammar!Inner = "Node" /\ Constructs(states) \in Seq(Grammar!Frames)
  BY <1>1, CoreFacts, OpenFacts
<1>3. Grammar!Rest = <<>>
  BY <1>2 DEF Grammar!Rest
<1>4. Constructs(states) \o <<>> = Constructs(states)
  BY <1>2
<1>. QED
  BY <1>1, <1>2, <1>3, <1>4 DEF NodeDue, Grammar!NodeFrames

\* The root of a document, present or empty.
LEMMA ParseRootFollows ==
  ASSUME Core, ParseDocumentContent \/ ParseBlockNode
  PROVE  Follows /\ Stays
<1>1. Running /\ error = "NONE" /\ state \in {"DOCUMENT_CONTENT", "BLOCK_NODE"}
  BY DEF ParseDocumentContent, ParseBlockNode, Running
<1>2. NodeDue(states) /\ state \notin Between /\ token \in Token \cup {NoToken}
  BY <1>1, RootDue, CoreFacts
<1>3. PICK t \in Peek :
       \/ ScanFails(t, states, marks, <<>>)
       \/ EmptyScalar(Top(states), Pop(states), marks, t, <<>>)
       \/ t # ScanError /\ ParseNode(t, states, marks, <<>>, TRUE, FALSE)
  <2>1. \A t \in Peek : t # ScanError <=> t.typ # "ERROR"
    BY <1>2, PeekFacts
  <2>. QED
    BY <2>1 DEF ParseDocumentContent, ParseBlockNode
<1>4. CASE ScanFails(t, states, marks, <<>>)
  BY <1>1, <1>2, <1>4, ScanFailsFollows DEF Stays
<1>5. CASE EmptyScalar(Top(states), Pop(states), marks, t, <<>>)
  BY <1>1, <1>2, <1>5, QuietFacts, EmptyNodeFollows
<1>6. CASE t # ScanError /\ ParseNode(t, states, marks, <<>>, TRUE, FALSE)
  <2>1. t \in Token
    BY <1>2, <1>6, PeekFacts
  <2>. QED
    BY <1>1, <1>2, <1>6, <2>1, QuietFacts, ParseNodeFollows
<1>. QED
  BY <1>3, <1>4, <1>5, <1>6

\* The end of a document.
LEMMA ParseDocumentEndFollows ==
  ASSUME Core, ParseDocumentEnd
  PROVE  Follows
<1> DEFINE ev == Event("DOCUMENT_END", None)
           next == "DOCUMENT_START"
<1>1. /\ Running /\ error = "NONE" /\ state \in OutsideStates
      /\ next \in ParserStates /\ next # "FLOW_SEQUENCE_ENTRY_MAPPING_VALUE"
      /\ FrameOf(state) = "DocEnd" /\ FrameOf(next) = "Doc"
  BY DEF ParseDocumentEnd, Running, OutsideStates, ParserStates, FrameOf
<1>2. PICK t \in Peek :
       \/ ScanFails(t, states, marks, <<>>)
       \/ Return(next, states, marks, NoToken, ev, <<"DOCUMENT_END">>)
       \/ Return(next, states, marks, t, ev, <<>>)
  BY DEF ParseDocumentEnd
<1>3. CASE ScanFails(t, states, marks, <<>>)
  BY <1>1, <1>3, ScanFailsFollows
<1>4. ASSUME NEW tok, NEW rd \in {<<>>, <<"DOCUMENT_END">>}, Return(next, states, marks, tok, ev, rd)
      PROVE  Follows
  <2>1. /\ "DOCUMENT_END" \in TokenTypes \ {"ANCHOR", "ALIAS"}
        /\ "DOCUMENT_END" \in Reported["DOCUMENT_END"]
    BY ReportedFacts DEF TokenTypes, PlainTypes, Reportable
  <2>2. Named(<<>>, None) /\ <<"DOCUMENT_END">> = Append(<<>>, "DOCUMENT_END")
    BY QuietFacts
  <2>3. Accounted(rd, ev) /\ Anchored(rd, ev)
    BY <2>1, <2>2, AccountedFacts
  <2>. HIDE DEF ev, next
  <2>4. /\ Grammar!Emit(ev, Append(Constructs(states), FrameOf(next)))
        /\ error' = "NONE" =>
             /\ state' # "FLOW_SEQUENCE_ENTRY_MAPPING_VALUE" => Accounted(read', event')
             /\ Anchored(read', event')
    BY <1>1, <1>4, <2>3, OutsideOpen, ReturnEmits
  <2>5. Grammar!DocumentEnd
    BY <1>1, <2>4, OutsideOpen, EventsAgree DEF Grammar!Frames, Grammar!DocumentEnd, ev
  <2>. QED
    BY <2>4, <2>5 DEF Follows, Grammar!Next
<1>. QED
  BY <1>2, <1>3, <1>4

\* After an error, or behind the end of the stream, nothing happens.
LEMMA ParseNothingFollows ==
  ASSUME Core, ParseNothing
  PROVE  Follows
<1>1. /\ error # "NONE" \/ state = "END"
      /\ event' = NoEvent /\ read' = <<>> /\ UNCHANGED <<state, states, error>>
  BY DEF ParseNothing, Running
<1>2. OpenConstructs' = OpenConstructs
  BY <1>1 DEF OpenConstructs, Level, StateAt
<1>3. Grammar!Over
  <2>1. CASE error # "NONE"
    BY <2>1 DEF OpenConstructs, Grammar!Over
  <2>2. CASE error = "NONE"
    <3>1. state \in OutsideStates /\ FrameOf(state) = "End"
      BY <1>1, <2>2 DEF OutsideStates, FrameOf
    <3>. QED
      BY <2>2, <3>1, OutsideOpen DEF Grammar!Over
  <2>. QED
    BY <2>1, <2>2
<1>4. Accounted(read', event') /\ Anchored(read', event')
  BY <1>1 DEF Accounted, Anchored, NoEvent, Event
<1>5. Grammar!Nothing
  BY <1>1, <1>2, <1>3, EventsAgree DEF Grammar!Nothing
<1>. QED
  BY <1>4, <1>5 DEF Follows, Grammar!Next

-----------------------------------------------------------------------------
(* The specification                                                         *)

\* The calls inside a document.
InDocument ==
  \/ ParseDocumentContent \/ ParseBlockNode
  \/ \E first \in BOOLEAN : ParseBlockSequenceEntry(first)
  \/ ParseIndentlessSequenceEntry
  \/ \E first \in BOOLEAN : ParseBlockMappingKey(first)
  \/ ParseBlockMappingValue
  \/ \E first \in BOOLEAN : ParseFlowSequenceEntry(first) \/ ParseFlowMappingKey(first)
  \/ ParseFlowSequenceEntryMappingKey
  \/ ParseFlowSequenceEntryMappingEnd
  \/ ParseFlowSequenceEntryMappingValue \/ ParseFlowMappingValue \/ ParseFlowMappingEmptyValue

\* Every call is inside a document, or at its ends, or does nothing.
LEMMA NextCases ==
  ASSUME Next
  PROVE  \/ InDocument \/ ParseStreamStart \/ ParseDocumentEnd \/ ParseNothing
         \/ \E implicit \in BOOLEAN : ParseDocumentStart(implicit)
BY DEF Next, InDocument

\* A call inside a document is a step of the grammar and leaves it inside.
LEMMA InDocumentFollows ==
  ASSUME Core, InDocument
  PROVE  Follows /\ Stays
BY ParseRootFollows, ParseBlockSequenceEntryFollows, ParseIndentlessSequenceEntryFollows,
   ParseBlockMappingKeyFollows, ParseBlockMappingValueFollows, ParseFlowEntriesFollow,
   ParseFlowSequenceEntryMappingKeyFollows, ParseFlowSequenceEntryMappingEndFollows,
   ParseFlowValuesFollow DEF InDocument

\* Every call is a step of the grammar that accounts for the tokens it read.
LEMMA NextFollows ==
  ASSUME Core, Next
  PROVE  Follows
BY NextCases, InDocumentFollows, ParseStreamStartFollows, ParseDocumentStartFollows,
   ParseDocumentEndFollows, ParseNothingFollows

\* Where no document has begun, no construct but the stream is open.
LEMMA InitFollows ==
  ASSUME Init
  PROVE  Grammar!Init /\ TokensReported /\ AnchorsReported
<1>1. /\ state = "STREAM_START" /\ error = "NONE" /\ event = NoEvent /\ read = <<>>
      /\ state \in OutsideStates /\ FrameOf(state) = "StreamStart"
  BY DEF Init, OutsideStates, FrameOf
<1>2. OpenConstructs = <<"StreamStart">>
  BY <1>1, InitCore, OutsideOpen
<1>3. TokensReported /\ AnchorsReported
  BY <1>1 DEF TokensReported, AnchorsReported, NoEvent, Event
<1>. QED
  BY <1>1, <1>2, <1>3, EventsAgree DEF Grammar!Init

\* The accounting is kept by calls, and by none.
LEMMA NextReports ==
  ASSUME Core, TokensReported, AnchorsReported, [Next]_vars
  PROVE  TokensReported' /\ AnchorsReported'
<1>1. CASE Next
  <2>1. Follows
    BY <1>1, NextFollows
  <2>. QED
    BY <2>1 DEF Follows, Accounted, Anchored, TokensReported, AnchorsReported
<1>2. CASE UNCHANGED vars
  BY <1>2 DEF vars, TokensReported, AnchorsReported
<1>. QED
  BY <1>1, <1>2

-----------------------------------------------------------------------------
(* The scope of the tag handles                                              *)

\* What a document's own directives and the defaults make of an empty table.
Scope(handles) ==
  [h \in handles \cup DefaultHandles |-> IF h \in handles THEN "declared" ELSE "default"]

\* The table a document starts with.
LEMMA ScopeFacts ==
  ASSUME tag_directives = <<>>
  PROVE  /\ WithDefaults(tag_directives) = Scope({})
         /\ \A ds : WithDefaults(Declare(ds)) = Scope(DeclaredHandles(ds))
<1>1. DOMAIN tag_directives = {}
  BY DEF Declare
<1>2. WithDefaults(tag_directives) = Scope({})
  BY <1>1 DEF WithDefaults, Scope
<1>3. ASSUME NEW ds
      PROVE  WithDefaults(Declare(ds)) = Scope(DeclaredHandles(ds))
  <2>1. Declare(ds) = [h \in DeclaredHandles(ds) |-> "declared"]
    BY <1>1 DEF Declare
  <2>. QED
    BY <2>1 DEF WithDefaults, Scope
<1>. QED
  BY <1>2, <1>3

\* The start of a document sets its scope up.
LEMMA DocumentStartScope ==
  ASSUME TagScope, NEW implicit \in BOOLEAN, ParseDocumentStart(implicit)
  PROVE  TagScope'
<1>1. error = "NONE" /\ state \in Between /\ "END" \in Between
      /\ "BLOCK_NODE" \notin Between /\ "DOCUMENT_CONTENT" \notin Between
  BY DEF ParseDocumentStart, Running, Between, OutsideStates
<1>2. tag_directives = <<>>
  BY <1>1 DEF TagScope, Between
<1>3. PICK t :
       \/ ScanFails(t, states, marks, <<>>)
       \/ state' = "END" /\ UNCHANGED tag_directives
       \/ /\ state' = "BLOCK_NODE"
          /\ tag_directives' = WithDefaults(tag_directives) /\ declared' = {}
       \/ ExplicitDocument(t)
  BY DEF ParseDocumentStart, Return
<1>4. CASE error' # "NONE"
  BY <1>4 DEF TagScope
<1>5. CASE state' = "END" /\ UNCHANGED tag_directives
  BY <1>1, <1>2, <1>5 DEF TagScope, Between
<1>6. CASE state' = "BLOCK_NODE" /\ tag_directives' = WithDefaults(tag_directives) /\ declared' = {}
  BY <1>1, <1>2, <1>6, ScopeFacts DEF TagScope, Between, Scope
<1>7. CASE ExplicitDocument(t)
  <2>1. PICK ds \in DirectiveRuns :
          \/ error' # "NONE"
          \/ /\ state' = "DOCUMENT_CONTENT"
             /\ tag_directives' = WithDefaults(Declare(ds)) /\ declared' = DeclaredHandles(ds)
    BY <1>7 DEF ExplicitDocument, Raise, ScanFails, Return
  <2>2. CASE /\ state' = "DOCUMENT_CONTENT"
             /\ tag_directives' = WithDefaults(Declare(ds)) /\ declared' = DeclaredHandles(ds)
    <3>1. tag_directives' = Scope(declared')
      BY <1>2, <2>2, ScopeFacts
    <3>. QED
      BY <1>1, <2>2, <3>1 DEF TagScope, Between, Scope
  <2>. QED
    BY <1>4, <2>1, <2>2
<1>. QED
  BY <1>3, <1>4, <1>5, <1>6, <1>7 DEF ScanFails, Raise

\* The end of a document drops it.
LEMMA DocumentEndScope ==
  ASSUME ParseDocumentEnd
  PROVE  TagScope'
<1>1. \/ error' # "NONE"
      \/ state' = "DOCUMENT_START" /\ tag_directives' = <<>>
  BY DEF ParseDocumentEnd, ScanFails, Raise, Return
<1>. QED
  BY <1>1 DEF TagScope, OutsideStates

\* A call inside a document starts inside one.
LEMMA InDocumentFacts ==
  ASSUME InDocument
  PROVE  /\ error = "NONE" /\ state \notin Between
         /\ UNCHANGED <<tag_directives, declared>>
BY DEF InDocument, ParseDocumentContent, ParseBlockNode, ParseBlockSequenceEntry,
   ParseIndentlessSequenceEntry, ParseBlockMappingKey, ParseBlockMappingValue,
   ParseFlowSequenceEntry, ParseFlowMappingKey, ParseFlowSequenceEntryMappingKey,
   ParseFlowSequenceEntryMappingEnd, ParseFlowSequenceEntryMappingValue, ParseFlowMappingValue,
   ParseFlowMappingEmptyValue, Running, Between, OutsideStates

\* No other call changes it.
LEMMA NextScope ==
  ASSUME Core, TagScope, [Next]_vars
  PROVE  TagScope'
<1>1. CASE InDocument
  <2>1. Stays
    BY <1>1, InDocumentFollows
  <2>2. error = "NONE" /\ state \notin Between /\ UNCHANGED <<tag_directives, declared>>
    BY <1>1, InDocumentFacts
  <2>. QED
    BY <2>1, <2>2 DEF TagScope, Stays, Between
<1>2. CASE ParseStreamStart
  <2>1. /\ error = "NONE" /\ state = "STREAM_START" /\ UNCHANGED <<tag_directives, declared>>
        /\ error' # "NONE" \/ state' = "IMPLICIT_DOCUMENT_START"
    BY <1>2 DEF ParseStreamStart, Running, ScanFails, Raise, Return
  <2>. QED
    BY <2>1 DEF TagScope, OutsideStates
<1>3. CASE ParseDocumentEnd
  BY <1>3, DocumentEndScope
<1>4. CASE ParseNothing
  BY <1>4 DEF ParseNothing, TagScope
<1>5. CASE \E implicit \in BOOLEAN : ParseDocumentStart(implicit)
  BY <1>5, DocumentStartScope
<1>6. CASE UNCHANGED vars
  BY <1>6 DEF vars, TagScope
<1>. QED
  BY <1>1, <1>2, <1>3, <1>4, <1>5, <1>6, NextCases

-----------------------------------------------------------------------------
(* Results                                                                   *)

\* Whatever the tokens and the failures of the scanner are, the events of
\* yaml_parser_parse form a stream of documents with one root node each, whose
\* collections nest and whose mappings consist of whole pairs; a failure ends it.
THEOREM EventsFollowGrammar == Spec => ImplementsEventGrammar
<1>1. Init => Grammar!Init
  BY InitFollows
<1>2. Core /\ [Next]_vars => [Grammar!Next]_Grammar!vars
  <2>1. Core /\ Next => Grammar!Next
    BY NextFollows DEF Follows
  <2>2. UNCHANGED vars => UNCHANGED Grammar!vars
    BY DEF vars, Grammar!vars, OpenConstructs, Level, StateAt
  <2>. QED
    BY <2>1, <2>2
<1>. QED
  BY <1>1, <1>2, SpecCore, PTL DEF Spec, ImplementsEventGrammar, Grammar!Spec

\* No call swallows a token that an event stands for, and no anchor is lost.
LEMMA SpecReports == Spec => [](TokensReported /\ AnchorsReported)
<1>1. Init => TokensReported /\ AnchorsReported
  BY InitFollows
<1>2. Core /\ (TokensReported /\ AnchorsReported) /\ [Next]_vars
        => (TokensReported /\ AnchorsReported)'
  BY NextReports
<1>. QED
  BY <1>1, <1>2, SpecCore, PTL DEF Spec

\* A token that stands for an event is reported by the call that skips it.
THEOREM TokensAreReported == Spec => []TokensReported
BY SpecReports, PTL

\* Every anchor that is read is defined or referred to by an event, even on an
\* empty node or behind a tag.
THEOREM AnchorsAreReported == Spec => []AnchorsReported
BY SpecReports, PTL

\* Inside a document exactly its own handles and the defaults are known, with
\* its own ones first; no document sees the handles of the one before it.
THEOREM TagsAreScoped == Spec => []TagScope
<1>1. Init => TagScope
  BY DEF Init, TagScope, OutsideStates
<1>2. Core /\ TagScope /\ [Next]_vars => TagScope'
  BY NextScope
<1>. QED
  BY <1>1, <1>2, SpecCore, PTL DEF Spec
=============================================================================
