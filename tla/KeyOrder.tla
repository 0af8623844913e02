------------------------------ MODULE KeyOrder ------------------------------
(***************************************************************************)
(* How the encoder orders the keys of a map: keyList of sorter.go, sorted   *)
(* by sort.Sort.  A Go map hands out its keys in any order, so the output   *)
(* is the same each time only if Less orders any two keys, and consistently *)
(* with every third.                                                       *)
(*                                                                         *)
(* sort.Sort is an external library; for the up to twelve keys it sorts by  *)
(* insertion it is modelled by that, with the keys taken from the map one   *)
(* by one.  A string is a sequence of character codes, a float is given in  *)
(* halves.  Left out: pointers and interfaces around a key, which Less      *)
(* follows, NaN, which it orders with nothing, and two keys of one other    *)
(* kind (structs, arrays), which it does not tell apart.                    *)
(***************************************************************************)
EXTENDS Integers, Sequences, FiniteSets, SequencesExt, FiniteSetsExt

CONSTANTS
  Codes,      \* characters of the keys
  MaxChars,   \* bound: characters of a string
  MaxDigits,  \* bound: digits of a string in a row
  Numbers,    \* numbers and booleans among the keys, as records [kind, half]
  MaxKeys,    \* bound: keys of the map
  IntLimit    \* 2^63 for the int64 of the code

IsDigit(code) == code \in 48..57
IsLetter(code) == code \in (65..90) \cup (97..122)
Zero == 48

\* How many values so many digits have.
Powers ==
  LET power[n \in 0..MaxDigits] == IF n = 0 THEN 1 ELSE 10 * power[n - 1]
  IN power

\* Digits outside ASCII are left out, and runs of digits that do not fit an int64.
ASSUME KeyConstants ==
  /\ MaxChars \in Nat /\ MaxDigits \in Nat /\ MaxKeys \in Nat
  /\ Codes \subseteq 32..126
  /\ Numbers \subseteq [kind : {"bool", "int", "uint", "float"}, half : Int]
  /\ IntLimit \in Nat /\ Powers[MaxDigits] <= IntLimit

\* Where the run of digits ends that starts at i.
RunEnd(s, i) == Min({j \in i..Len(s) + 1 : j = Len(s) + 1 \/ ~IsDigit(s[j])})

Strings ==
  {s \in UNION {[1..n -> Codes] : n \in 0..MaxChars} :
     \A i \in 1..Len(s) : RunEnd(s, i) - i <= MaxDigits}
Others == {[kind |-> "interface"], [kind |-> "struct"]}
Keys == {[kind |-> "string", runes |-> s] : s \in Strings} \cup Numbers \cup Others

VARIABLES
  keys,   \* the keys taken so far
  at      \* where the key is that is not in its place yet, or 0

vars == <<keys, at>>

-----------------------------------------------------------------------------
\* reflect.Kind; a nil key is of kind interface.
KindNumber == [bool |-> 1, int |-> 2, uint |-> 7, float |-> 14, interface |-> 20,
               string |-> 24, struct |-> 25]
KindLess(a, b) == KindNumber[a.kind] < KindNumber[b.kind]

\* keyFloat
IsNumber(a) == a.kind \in {"bool", "int", "uint", "float"}

\* Numbers by value and, where equal, by kind; numLess is of no use then, but for
\* integers too large for a float64.
NumberLess(a, b) ==
  IF a.half # b.half THEN a.half < b.half ELSE KindLess(a, b)

\* Arithmetic of an int64.
Wrap(n) == ((n + IntLimit) % (2 * IntLimit)) - IntLimit

\* What the variable that starts with the given value holds when the code stands at each
\* place of a run of digits and behind it.
Values(s, i, start) ==
  LET value[k \in i..RunEnd(s, i)] ==
        IF k = i THEN start ELSE Wrap(value[k - 1] * 10 + (s[k - 1] - Zero))
  IN value
RunValue(s, i, start) == Values(s, i, start)[RunEnd(s, i)]

\* Mutant: zeros are compared as if nothing stood in front of them.
CarryNone(a, b, i) == 0
\* Where a run differs at a zero, it counts what stands in front: whether any digit
\* of the run before it is not zero.
Carry(a, b, i) ==
  IF /\ Zero \in {a[i], b[i]}
     /\ \E j \in 1..i - 1 : a[j] # Zero /\ \A k \in j..i - 1 : IsDigit(a[k])
    THEN 1 ELSE 0

\* Two strings at the first character in which they differ.
DifferenceLess(a, b, i) ==
  LET digits == i > 1 /\ IsDigit(a[i - 1])
      an == RunValue(a, i, Carry(a, b, i))
      bn == RunValue(b, i, Carry(a, b, i))
      letters == {s \in {a, b} : IsLetter(s[i])}
  IN CASE letters = {a, b} -> a[i] < b[i]
       [] letters = {a} -> digits
       [] letters = {b} -> ~digits
       [] letters = {} ->
            IF an # bn THEN an < bn
            ELSE IF RunEnd(a, i) # RunEnd(b, i) THEN RunEnd(a, i) < RunEnd(b, i)
            ELSE a[i] < b[i]

StringLess(a, b) ==
  LET different == {i \in DOMAIN a \cap DOMAIN b : a[i] # b[i]} IN
  IF different = {} THEN Len(a) < Len(b) ELSE DifferenceLess(a, b, Min(different))

Less(a, b) ==
  CASE IsNumber(a) /\ IsNumber(b) -> NumberLess(a, b)
    [] a.kind = "string" /\ b.kind = "string" -> StringLess(a.runes, b.runes)
    [] OTHER -> KindLess(a, b)

-----------------------------------------------------------------------------
(* sort.Sort over the keys as the map hands them out                         *)

\* The next key of the map.
Take ==
  /\ at = 0 /\ Len(keys) < MaxKeys
  /\ \E k \in Keys \ Range(keys) : keys' = Append(keys, k)
  /\ at' = Len(keys) + 1

Misplaced == at > 1 /\ Less(keys[at], keys[at - 1])

Swap ==
  /\ Misplaced
  /\ keys' = [keys EXCEPT ![at] = keys[at - 1], ![at - 1] = keys[at]]
  /\ at' = at - 1

Placed ==
  /\ at > 0 /\ ~Misplaced
  /\ at' = 0
  /\ UNCHANGED keys

Init == keys = <<>> /\ at = 0
Next == Take \/ Swap \/ Placed
Spec == Init /\ [][Next]_vars

-----------------------------------------------------------------------------
\* The output of a map does not depend on the order in which the map hands out its
\* keys: after sorting, each key is before all that follow it and after none of
\* them.  Only one sequence of a set of keys is like that.
Ordered ==
  at = 0 =>
    \A i, j \in DOMAIN keys : i < j => Less(keys[i], keys[j]) /\ ~Less(keys[j], keys[i])
=============================================================================
