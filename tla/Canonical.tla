----------------------------- MODULE Canonical -----------------------------
(***************************************************************************)
(* packages/protocol/src/canonical.ts: the one text (RFC 8785) of a JSON   *)
(* value, which every hash of an object is taken of, and the second copy   *)
(* in apps/web/taskspec.js, which names tasks in the browser.              *)
(*                                                                         *)
(* A value is [type, is]: a number, a string (a sequence of characters),   *)
(* an array (a sequence of values) or an object (a sequence of             *)
(* [key, value], in the order the keys were set).  A text is a sequence of *)
(* characters; Order is the order of the characters keys are made of.      *)
(* A character is a UTF-16 code unit, and a string may hold half a pair of *)
(* surrogates, which has no UTF-8 of its own.                              *)
(***************************************************************************)
EXTENDS Integers, Sequences, FiniteSets
LOCAL INSTANCE SequencesExt

CONSTANTS
    Order,          \* characters that keys are made of, in their order
    Quote, Slash,   \* the characters " and \
    Control,        \* control character -> the character of its escape
    High, Low,      \* surrogate code unit -> its hexadecimal digits
    Replacement,    \* the character U+FFFD
    MaxNesting      \* how deep values are nested at most

Json(type, is) == [type |-> type, is |-> is]
Undefined == Json("undefined", 0)

\* A text that cannot be written: the serialiser throws.
Throws == <<"throws">>

\* A slip used as a mutant: the backslash itself is written as it is.
EscapeQuotesOnly(ch) ==
    IF ch \in DOMAIN Control THEN <<Slash, Control[ch]>>
    ELSE IF ch = Quote THEN <<Slash, ch>> ELSE <<ch>>
Escape(ch) ==
    IF ch \in DOMAIN Control THEN <<Slash, Control[ch]>>
    ELSE IF ch \in {Quote, Slash} THEN <<Slash, ch>> ELSE <<ch>>

\* A surrogate that is not one half of a pair
Lone(s, k) ==
    \/ s[k] \in DOMAIN High /\ (k = Len(s) \/ s[k + 1] \notin DOMAIN Low)
    \/ s[k] \in DOMAIN Low /\ (k = 1 \/ s[k - 1] \notin DOMAIN High)

\* The bytes of a text, by the text they stand for (toHex and TextEncoder):
\* UTF-8 has none for a lone surrogate and those of U+FFFD are written.
Utf8(text) == [k \in DOMAIN text |-> IF Lone(text, k) THEN Replacement ELSE text[k]]

\* serializeString: a lone surrogate passes like any character
StringText(s) == <<Quote>> \o FlattenSeq([k \in DOMAIN s |-> Escape(s[k])]) \o <<Quote>>

\* serializeNumber: -0 is 0; NaN and the infinities are no JSON
NumberText(n) ==
    CASE n \in {"NaN", "Infinity"} -> Throws
      [] n = "-0" -> <<"0">>
      [] OTHER -> <<n>>

\* Keys in the order of their code units
KeyBefore(a, b) ==
    LET place(ch) == CHOOSE k \in DOMAIN Order : Order[k] = ch
        common == {k \in DOMAIN a \cap DOMAIN b : a[k] # b[k]}
    IN  IF common = {} THEN Len(a) < Len(b)
        ELSE LET k == CHOOSE x \in common : \A y \in common : x <= y
             IN  place(a[k]) < place(b[k])
SortedKeys(members) ==
    SortSeq(SelectSeq(members, LAMBDA m : m.value # Undefined),
            LAMBDA m, n : KeyBefore(m.key, n.key))

Joined(open, parts, close) ==
    IF \E k \in DOMAIN parts : Throws[1] \in {parts[k][l] : l \in DOMAIN parts[k]} THEN Throws
    ELSE <<open>> \o FlattenSeq([k \in DOMAIN parts |-> IF k = 1 THEN parts[k] ELSE <<",">> \o parts[k]])
                  \o <<close>>

\* A value, the values that an array or an object holds, and so on as deep as
\* values are nested.
Held(value) ==
    CASE value.type = "array" -> {value.is[k] : k \in DOMAIN value.is}
      [] value.type = "object" -> {value.is[k].value : k \in DOMAIN value.is}
      [] OTHER -> {}
Within(value) ==
    LET level[n \in 0 .. MaxNesting] ==
          IF n = 0 THEN {value} ELSE UNION {Held(v) : v \in level[n - 1]}
    IN  UNION {level[n] : n \in 0 .. MaxNesting}

\* serialize
Serialize(json) ==
    LET text[value \in Within(json)] ==
          CASE value.type \in {"null", "boolean"} -> <<value.is>>
            [] value.type = "number" -> NumberText(value.is)
            [] value.type = "string" -> StringText(value.is)
            [] value.type = "array" ->
                  Joined("[", [k \in DOMAIN value.is |-> text[value.is[k]]], "]")
            [] value.type = "object" ->
                  LET members == SortedKeys(value.is) IN
                  Joined("{", [k \in DOMAIN members |->
                                  StringText(members[k].key) \o <<":">> \o text[members[k].value]], "}")
            [] OTHER -> Throws
    IN  text[json]

\* hashObject and hashObjectExcluding, by what they hash
HashedText(json) == Utf8(Serialize(json))
HashedTextWithout(object, keys) ==
    HashedText([object EXCEPT !.is = SelectSeq(object.is, LAMBDA m : m.key \notin keys)])

-----------------------------------------------------------------------------
\* JSON.stringify of a string or a key: a lone surrogate is escaped.
Stringified(s) ==
    LET digits(ch) == IF ch \in DOMAIN High THEN High[ch] ELSE Low[ch]
        unit(k) == IF Lone(s, k) THEN <<Slash, "u", digits(s[k])>> ELSE Escape(s[k])
    IN  <<Quote>> \o FlattenSeq([k \in DOMAIN s |-> unit(k)]) \o <<Quote>>

\* canonicalise of taskspec.js: JSON.stringify makes null of what is no
\* number, and an undefined in an array is joined as nothing.
Canonicalise(json) ==
    LET text[value \in Within(json)] ==
          CASE value.type \in {"null", "boolean"} -> <<value.is>>
            [] value.type = "number" -> IF value.is \in {"NaN", "Infinity"} THEN <<"null">>
                                        ELSE NumberText(value.is)
            [] value.type = "string" -> Stringified(value.is)
            [] value.type = "array" ->
                  Joined("[", [k \in DOMAIN value.is |-> text[value.is[k]]], "]")
            [] value.type = "object" ->
                  LET members == SortedKeys(value.is) IN
                  Joined("{", [k \in DOMAIN members |->
                                  Stringified(members[k].key) \o <<":">> \o text[members[k].value]], "}")
            [] value.type = "undefined" -> <<>>
            [] OTHER -> Throws
    IN  text[json]

\* taskId, by what it hashes
NamedText(spec) == Utf8(Canonicalise(spec))
=============================================================================
