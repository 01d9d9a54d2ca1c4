-------------------------------- MODULE Parser --------------------------------
(***************************************************************************)
(* src/parser.rs: the recursive descent parser of policy types, and the    *)
(* Display of a type (src/policy_type.rs, src/field.rs) that writes it     *)
(* back.  A behaviour parses an arbitrary input; if that succeeds it       *)
(* displays the type and parses the text again.                            *)
(*                                                                         *)
(* A step handles one token.  The first input is chosen as the parser      *)
(* reads it, so every sequence of up to MaxTokens tokens is an input and   *)
(* what the parser never looks at is never chosen.  parse returns a new    *)
(* value and drops the Parser, so nothing of it is left after an error.    *)
(***************************************************************************)
EXTENDS Naturals, Sequences, SequencesExt

CONSTANTS
  Idents,      \* identifiers that are not keywords
  Strings,     \* contents of string literals: sequences of characters
  Numbers,     \* number literals; "inf" and "-inf" are those too large for an f64
  MaxTokens    \* bound on the length of the first input

ASSUME ParserBounds == MaxTokens \in Nat

\* The letter {:?} writes behind a backslash for each character it escapes, but for a quote and a
\* backslash, which stand for themselves.  "unprintable" is every character written as a code point
\* (control characters, combining marks, unassigned ones); "u" is the u with the braces behind it.
EscapeOf == [newline |-> "n", tab |-> "t", cr |-> "r", nul |-> "0", unprintable |-> "u"]

\* "c" is any other character.
Characters == {"c", "quote", "backslash"} \cup DOMAIN EscapeOf

ASSUME StringsAreText == \A s \in Strings : s \in Seq(Characters)
\* The lexer reads the letters of inf as an identifier.
ASSUME InfIsIdent == "inf" \in Numbers => "inf" \in Idents

VARIABLES
  p,           \* the Parser with the locals of the functions on its stack
  original     \* the type that was displayed; NoType during the first parse

vars == <<p, original>>

None == <<"none">>
End == <<"end">>           \* peek() = None
Bad == <<"bad">>           \* text that the lexer rejects

Keywords == {<<"type">>, <<"bool">>, <<"string">>, <<"number">>, <<"true">>, <<"false">>,
             <<"{">>, <<"}">>, <<"[">>, <<"]">>, <<":">>, <<",">>, <<"=">>, <<"@">>, <<"::">>,
             <<"agreement">>, <<"sticky">>, <<"wins">>, <<"last">>, <<"highest">>, <<"largest">>}
Tokens == Keywords \cup ({"id"} \X Idents) \cup ({"str"} \X Strings) \cup ({"num"} \X Numbers)

NoType == [name |-> <<>>, fields |-> <<>>]
NoField == [name |-> "", kind |-> "none", values |-> <<>>, on_conflict |-> "Default",
            default |-> None]
NewParser(tokens) ==
  [pc |-> "type", input |-> tokens, pos |-> 0, open |-> FALSE, name |-> <<>>, fields |-> <<>>,
   field |-> NoField, error |-> "none"]

Init == p = [NewParser(<<>>) EXCEPT !.open = TRUE] /\ original = NoType

\* The token peek() may return: the next one of the input, or any one while the input is open.
Peekable(t) ==
  IF p.pos < Len(p.input) THEN t = p.input[p.pos + 1]
  ELSE t = End \/ (p.open /\ Len(p.input) < MaxTokens)

\* The parser once it has peeked at t and goes on at l, without and with advance().
Peeked(t, l) ==
  [p EXCEPT !.pc = l, !.open = @ /\ t # End,
            !.input = IF t = End \/ p.pos < Len(@) THEN @ ELSE Append(@, t)]
Advanced(t, l) == [Peeked(t, l) EXCEPT !.pos = @ + 1]

Failed(kind) == [NewParser(<<>>) EXCEPT !.pc = "error", !.error = kind]
Unexpected(t) == Failed(IF t = End THEN "UnexpectedEndOfInput" ELSE "UnexpectedToken")

expect(t, expected, l) == IF t = expected THEN Advanced(t, l) ELSE Unexpected(t)

\* Each action is one place in the code where a token is inspected.
ExpectType(t) == p.pc = "type" /\ p' = expect(t, <<"type">>, "name")

ParseName(t) ==
  /\ p.pc = "name"
  /\ p' = IF t[1] = "id" THEN [Advanced(t, "separator") EXCEPT !.name = Append(@, t[2])]
          ELSE Unexpected(t)

ParseSeparator(t) ==
  /\ p.pc = "separator"
  /\ p' = IF t = <<"::">> THEN Advanced(t, "name") ELSE expect(t, <<"{">>, "fields")

\* Mutant: stray commas are skipped.
ParseFieldName_commas(t) ==
  /\ p.pc = "fields"
  /\ p' = IF t \in {<<"}">>, End} THEN expect(t, <<"}">>, "done")
          ELSE IF t = <<",">> THEN Advanced(t, "fields")
          ELSE IF t[1] = "id" THEN [Advanced(t, "colon") EXCEPT !.field.name = t[2]]
          ELSE Unexpected(t)

\* The head of the loop over fields, and the identifier parse_field starts with.
ParseFieldName(t) ==
  /\ p.pc = "fields"
  /\ p' = IF t \in {<<"}">>, End} THEN expect(t, <<"}">>, "done")
          ELSE IF t[1] = "id" THEN [Advanced(t, "colon") EXCEPT !.field.name = t[2]]
          ELSE Unexpected(t)

ExpectColon(t) == p.pc = "colon" /\ p' = expect(t, <<":">>, "kind")

ParseKind(t) ==
  /\ p.pc = "kind"
  /\ p' = IF t \in {<<"bool">>, <<"string">>, <<"number">>}
          THEN [Advanced(t, "conflict") EXCEPT !.field.kind = t[1]]
          ELSE IF t = <<"[">> THEN Advanced(t, "bracket")
          ELSE Failed("Custom")

\* Mutant: an enum may have no values.
ParseBracket_empty(t) ==
  /\ p.pc = "bracket"
  /\ p' = IF t = <<"string">> THEN [Advanced(t, "close") EXCEPT !.field.kind = "array"]
          ELSE [Peeked(t, "values") EXCEPT !.field.kind = "enum"]

\* After the bracket: an array of strings, or the first value of an enum.
ParseBracket(t) ==
  /\ p.pc = "bracket"
  /\ p' = IF t = <<"string">> THEN [Advanced(t, "close") EXCEPT !.field.kind = "array"]
          ELSE IF t[1] = "str"
          THEN [Advanced(t, "values") EXCEPT !.field.kind = "enum", !.field.values = <<t[2]>>]
          ELSE Unexpected(t)

ExpectClose(t) == p.pc = "close" /\ p' = expect(t, <<"]">>, "after")

ParseValues(t) ==
  /\ p.pc = "values"
  /\ p' = IF t = <<",">> THEN Advanced(t, "value") ELSE expect(t, <<"]">>, "conflict")

ParseValue(t) ==
  /\ p.pc = "value"
  /\ p' = IF t[1] = "str" THEN [Advanced(t, "values") EXCEPT !.field.values = Append(@, t[2])]
          ELSE Unexpected(t)

\* The four parse_*_conflict functions.
ParseConflict(t) ==
  /\ p.pc = "conflict"
  /\ p' = IF t = <<"@">> THEN Advanced(t, "strategy") ELSE Peeked(t, "equals")

\* Mutant: only "largest wins" for a number.
LargestWord_number(kind) ==
  CASE kind = "bool" -> {<<"sticky">>} [] kind = "string" -> {<<"last">>}
    [] kind = "number" -> {<<"largest">>} [] OTHER -> {<<"highest">>}

\* The words that stand for OnConflict::LargestValue; all but "sticky" are followed by "wins".
LargestWord(kind) ==
  CASE kind = "bool" -> {<<"sticky">>} [] kind = "string" -> {<<"last">>}
    [] kind = "number" -> {<<"last">>, <<"largest">>} [] OTHER -> {<<"highest">>}

ParseStrategy(t) ==
  /\ p.pc = "strategy"
  /\ p' = IF t \in LargestWord(p.field.kind)
          THEN [Advanced(t, IF t = <<"sticky">> THEN "equals" ELSE "wins")
                  EXCEPT !.field.on_conflict = "LargestValue"]
          ELSE IF t = <<"agreement">>
          THEN [Advanced(t, "equals") EXCEPT !.field.on_conflict = "Agreement"]
          ELSE Failed("Custom")

ExpectWins(t) == p.pc = "wins" /\ p' = expect(t, <<"wins">>, "equals")

ParseEquals(t) ==
  /\ p.pc = "equals"
  /\ p' = IF t = <<"=">> THEN Advanced(t, "default") ELSE Peeked(t, "after")

LiteralOf(kind) ==
  CASE kind = "bool" -> {<<"true">>, <<"false">>}
    [] kind = "number" -> {"num"} \X Numbers
    [] OTHER -> {"str"} \X Strings

ParseDefault(t) ==
  /\ p.pc = "default"
  /\ p' = IF t \in LiteralOf(p.field.kind) THEN [Advanced(t, "after") EXCEPT !.field.default = t]
          ELSE IF p.field.kind = "bool" THEN Failed("Custom")
          ELSE Unexpected(t)

FieldNames == {p.fields[j].name : j \in DOMAIN p.fields}

\* The rest of the loop over fields: duplicate names, the push and the comma.
EndField(t) ==
  LET pushed(q) == [q EXCEPT !.fields = Append(@, p.field), !.field = NoField]
  IN /\ p.pc = "after"
     /\ p' = IF p.field.name \in FieldNames THEN Failed("DuplicateFieldName")
             ELSE IF t = <<",">> THEN pushed(Advanced(t, "fields"))
             ELSE IF t = <<"}">> THEN pushed(Peeked(t, "fields"))
             ELSE Failed("Custom")
-----------------------------------------------------------------------------
(* Display, and the lexer on what it writes.                               *)

\* How {:?} writes a string.
debug(s) ==
  FlattenSeq([j \in DOMAIN s |-> CASE s[j] \in DOMAIN EscapeOf -> <<"backslash", EscapeOf[s[j]]>>
                                   [] s[j] \in {"quote", "backslash"} -> <<"backslash", s[j]>>
                                   [] OTHER -> <<s[j]>>])

\* Lexer::read_string_literal between the quotes: a quote or a backslash may follow a backslash,
\* nothing else may.
read_string_literal(text) ==
  LET Read(acc, ch) ==
        IF acc.bad \/ (acc.escaped /\ ch \notin {"quote", "backslash"})
        THEN [acc EXCEPT !.bad = TRUE]
        ELSE IF ch = "backslash" /\ ~acc.escaped THEN [acc EXCEPT !.escaped = TRUE]
        ELSE [acc EXCEPT !.escaped = FALSE, !.result = Append(@, ch)]
      read == FoldLeft(Read, [escaped |-> FALSE, bad |-> FALSE, result |-> <<>>], text)
  IN IF read.bad THEN Bad ELSE <<"str", read.result>>

\* A displayed literal as the lexer reads it back: "inf" has no digits and lexes as an identifier, of
\* "-inf" read_number takes the sign alone.
Relexed(t) ==
  CASE t[1] = "str" -> read_string_literal(debug(t[2]))
    [] t = <<"num", "inf">> -> <<"id", "inf">>
    [] t = <<"num", "-inf">> -> Bad
    [] OTHER -> t

DisplayLargest(kind) ==
  CASE kind = "bool" -> <<<<"sticky">>>>
    [] kind = "enum" -> <<<<"highest">>, <<"wins">>>>
    [] OTHER -> <<<<"last">>, <<"wins">>>>

DisplayConflict(f) ==
  CASE f.on_conflict = "Default" -> <<>>
    [] f.on_conflict = "Agreement" -> <<<<"@">>, <<"agreement">>>>
    [] f.on_conflict = "LargestValue" -> <<<<"@">>>> \o DisplayLargest(f.kind)

DisplayKind(f) ==
  CASE f.kind = "array" -> <<<<"[">>, <<"string">>, <<"]">>>>
    [] f.kind = "enum" ->
         <<<<"[">>, <<"str", f.values[1]>>>>
           \o FlattenSeq([j \in 1..(Len(f.values) - 1) |-> <<<<",">>, <<"str", f.values[j + 1]>>>>])
           \o <<<<"]">>>>
    [] OTHER -> <<<<f.kind>>>>

DisplayField(f) ==
  <<<<"id", f.name>>, <<":">>>> \o DisplayKind(f) \o DisplayConflict(f)
    \o (IF f.default = None THEN <<>> ELSE <<<<"=">>, f.default>>)

Display(type) ==
  <<<<"type">>, <<"id", type.name[1]>>>>
    \o FlattenSeq([j \in 1..(Len(type.name) - 1) |-> <<<<"::">>, <<"id", type.name[j + 1]>>>>])
    \o <<<<"{">>>>
    \o FlattenSeq([j \in DOMAIN type.fields |-> Append(DisplayField(type.fields[j]), <<",">>)])
    \o <<<<"}">>>>

PolicyType == [name |-> p.name, fields |-> p.fields]

\* PolicyType::parse(&type.to_string()): tokenize fails before anything is parsed, with
\* InvalidStringLiteral or InvalidNumber.
ParseDisplayed ==
  /\ p.pc = "done" /\ original = NoType
  /\ original' = PolicyType
  /\ LET shown == Display(PolicyType)
         lexed == [j \in DOMAIN shown |-> Relexed(shown[j])]
     IN p' = IF Contains(lexed, Bad) THEN Failed("InvalidLiteral") ELSE NewParser(lexed)

ParseToken(t) ==
  /\ Peekable(t)
  /\ \/ ExpectType(t) \/ ParseName(t) \/ ParseSeparator(t) \/ ParseFieldName(t) \/ ExpectColon(t)
     \/ ParseKind(t) \/ ParseBracket(t) \/ ExpectClose(t) \/ ParseValues(t) \/ ParseValue(t)
     \/ ParseConflict(t) \/ ParseStrategy(t) \/ ExpectWins(t) \/ ParseEquals(t) \/ ParseDefault(t)
     \/ EndField(t)
  /\ UNCHANGED original

Next == (\E t \in Tokens \cup {End} : ParseToken(t)) \/ ParseDisplayed

Spec == Init /\ [][Next]_vars
-----------------------------------------------------------------------------
FieldOK(f) ==
  /\ f.name \in Idents /\ f.on_conflict \in {"Default", "Agreement", "LargestValue"}
  /\ f.kind \in {"bool", "string", "number", "enum", "array"}
  /\ f.default = None \/ (f.kind # "array" /\ f.default \in LiteralOf(f.kind))
  /\ f.values \in Seq(Strings) /\ (f.kind = "enum" <=> f.values # <<>>)
  /\ f.kind = "array" => f.on_conflict = "Default"

\* The parser stays inside its input, and every finished field is one the Field type can hold: a
\* default of the field's own kind, values for an enum and at least one, names that are distinct.
TypeOK ==
  /\ p.input \in Seq(Tokens) /\ p.pos \in 0..Len(p.input) /\ p.open \in BOOLEAN
  /\ p.name \in Seq(Idents)
  /\ \A j \in DOMAIN p.fields : FieldOK(p.fields[j])
  /\ \A j, k \in DOMAIN p.fields : p.fields[j].name = p.fields[k].name => j = k

\* s holds a character that {:?} writes as an escape that the lexer does not know.
Garbled(s) == \E j \in DOMAIN s : s[j] \in DOMAIN EscapeOf

\* What {:?} and {} write of the strings and the number of f is what the lexer reads as one literal.
Legible(f) ==
  /\ f.default \notin {<<"num", "inf">>, <<"num", "-inf">>}
  /\ f.default # None /\ f.default[1] = "str" => ~Garbled(f.default[2])
  /\ \A j \in DOMAIN f.values : ~Garbled(f.values[j])

\* What PolicyType::parse accepts it reads back from its own Display as the same type, at every
\* combination of kinds, strategies and defaults.  The exceptions are strings with a character that
\* {:?} writes as \n, \t, \r, \0 or a code point, all of which the lexer takes raw, and infinite
\* numbers: reading those back fails, and is never taken for another type.
RoundTrip ==
  original # NoType =>
    LET legible == \A j \in DOMAIN original.fields : Legible(original.fields[j])
    IN /\ p.pc = "error" => ~legible
       /\ p.pc = "done" => legible /\ PolicyType = original

\* parse drops nothing between the first token and the closing brace: what it consumed is what
\* Display writes, but for the last comma and the two words for a number's LargestValue.
NothingIgnored ==
  p.pc = "done" =>
    LET word(t) == IF t = <<"largest">> THEN <<"last">> ELSE t
        consumed == [j \in 1..p.pos |-> word(p.input[j])]
        shown == Display(PolicyType)
        brace == Len(shown)
    IN \/ consumed = shown
       \/ p.fields # <<>> /\ consumed = SubSeq(shown, 1, brace - 2) \o <<shown[brace]>>
=============================================================================
