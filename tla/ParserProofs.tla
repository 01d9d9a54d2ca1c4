---------------------------- MODULE ParserProofs ----------------------------
(***************************************************************************)
(* The invariants of Parser, for every set of identifiers, strings and     *)
(* numbers and inputs of every length.                                     *)
(***************************************************************************)
EXTENDS Parser, SequenceProofs
-----------------------------------------------------------------------------
(* The lexer on what {:?} writes.                                           *)

Escaped == {"newline", "tab", "cr", "nul", "unprintable"}
Chars == {"c", "quote", "backslash"} \cup Escaped
Letters == Chars \cup {"n", "t", "r", "0", "u"}

Escape(c) ==
  CASE c \in DOMAIN EscapeOf -> <<"backslash", EscapeOf[c]>>
    [] c \in {"quote", "backslash"} -> <<"backslash", c>>
    [] OTHER -> <<c>>

\* What read_string_literal keeps between two characters.
Accs == [escaped : BOOLEAN, bad : BOOLEAN, result : Seq(Letters)]
ReadStart == [escaped |-> FALSE, bad |-> FALSE, result |-> <<>>]
ReadStep(acc, ch) ==
  IF acc.bad \/ (acc.escaped /\ ch \notin {"quote", "backslash"})
  THEN [acc EXCEPT !.bad = TRUE]
  ELSE IF ch = "backslash" /\ ~acc.escaped THEN [acc EXCEPT !.escaped = TRUE]
  ELSE [acc EXCEPT !.escaped = FALSE, !.result = Append(@, ch)]

\* Reading text one character after the other ends in acc.
Reads(text, acc) ==
  \E h \in [0..Len(text) -> Accs] :
    /\ h[0] = ReadStart /\ h[Len(text)] = acc
    /\ \A k \in 1..Len(text) : h[k] = ReadStep(h[k - 1], text[k])

LEMMA ReadStepType ==
  ASSUME NEW acc \in Accs, NEW ch \in Letters
  PROVE  ReadStep(acc, ch) \in Accs
<1>1. Append(acc.result, ch) \in Seq(Letters)
  BY DEF Accs
<1> QED BY <1>1 DEF ReadStep, Accs

LEMMA LexerReads ==
  ASSUME NEW text \in Seq(Letters)
  PROVE  \E acc \in Accs : /\ Reads(text, acc)
                           /\ read_string_literal(text) = IF acc.bad THEN Bad ELSE <<"str", acc.result>>
<1> DEFINE n == Len(text)
           A == Accs
           Op(acc, ch) == ReadStep(acc, ch)
           F == [a \in A \X (1..n) |-> Op(a[1], text[a[2]])]
           Body(g) == [t \in SUBSET DOMAIN text |->
                         IF t = {} THEN ReadStart ELSE Op(g[t \ {Max(t)}], text[Max(t)])]
           it == CHOOSE g : g = Body(g)
<1>1. n \in Nat /\ DOMAIN text = 1..n /\ \A k \in 1..n : text[k] \in Letters
  OBVIOUS
<1>2. ReadStart \in A /\ \A acc \in A, k \in 1..n : Op(acc, text[k]) \in A
  <2>1. ReadStart \in A
    <3>1. <<>> \in Seq(Letters)
      OBVIOUS
    <3> QED BY <3>1 DEF ReadStart, Accs
  <2> QED BY <1>1, <2>1, ReadStepType
<1>3. read_string_literal(text) = IF it[DOMAIN text].bad THEN Bad ELSE <<"str", it[DOMAIN text].result>>
  BY DEF read_string_literal, FoldLeft, MapThenFoldSet, ReadStart, ReadStep
<1> HIDE DEF n, A, Op
<1>4. F \in [A \X (1..n) -> A] /\ \A acc \in A, k \in 1..n : F[<<acc, k>>] = Op(acc, text[k])
  BY <1>1, <1>2
<1> HIDE DEF F
<1>5. PICK g \in [SUBSET (1..n) -> A] : FoldsOver(g, F, ReadStart, n)
  BY <1>1, <1>2, <1>4, FoldExists
<1>6. g = Body(g)
  <2>1. ASSUME NEW t \in SUBSET (1..n), t # {} PROVE g[t] = Op(g[t \ {Max(t)}], text[Max(t)])
    <3>1. Max(t) \in 1..n /\ g[t \ {Max(t)}] \in A /\ g[t] = F[<<g[t \ {Max(t)}], Max(t)>>]
      BY <1>5, <2>1 DEF FoldsOver
    <3> QED BY <1>4, <3>1
  <2>2. g[{}] = ReadStart
    BY <1>5 DEF FoldsOver
  <2> QED BY <1>1, <1>5, <2>1, <2>2
<1>7. it = Body(it)
  <2> HIDE DEF Body
  <2> QED BY <1>6, Zenon
<1> HIDE DEF it
<1>8. FoldsTo(it, F, A, ReadStart, n)
  BY <1>1, <1>4, <1>5, <1>7 DEF FoldsTo, FoldsOver
<1>9. PICK h \in [0..n -> A] : Along(h, F, ReadStart, n, it[1..n])
  BY <1>1, <1>2, <1>4, <1>8, FoldAlong
<1>10. \A k \in 1..n : h[k - 1] \in A /\ h[k] = Op(h[k - 1], text[k])
  <2>1. \A k \in 1..n : k - 1 \in 0..n
    BY <1>1
  <2> QED BY <1>4, <1>9, <2>1 DEF Along
<1>11. h[0] = ReadStart /\ h[n] = it[1..n] /\ h[n] \in A
  <2>1. n \in 0..n
    BY <1>1
  <2> QED BY <1>9, <2>1 DEF Along
<1>12. Reads(text, h[n])
  BY <1>9, <1>10, <1>11 DEF Reads, n, A, Op
<1> QED BY <1>1, <1>3, <1>11, <1>12 DEF A

LEMMA ReadsUnique ==
  ASSUME NEW text \in Seq(Letters), NEW a, NEW b, Reads(text, a), Reads(text, b)
  PROVE  a = b
<1> DEFINE n == Len(text)
<1>1. n \in Nat
  OBVIOUS
<1>2. PICK g \in [0..n -> Accs] :
        /\ g[0] = ReadStart /\ g[n] = a
        /\ \A k \in 1..n : g[k] = ReadStep(g[k - 1], text[k])
  BY DEF Reads
<1>3. PICK h \in [0..n -> Accs] :
        /\ h[0] = ReadStart /\ h[n] = b
        /\ \A k \in 1..n : h[k] = ReadStep(h[k - 1], text[k])
  BY DEF Reads
<1> HIDE DEF n
<1> DEFINE S == {k \in Nat : k <= n => g[k] = h[k]}
<1>4. 0 \in S
  BY <1>2, <1>3
<1>5. ASSUME NEW k \in Nat, k \in S PROVE k + 1 \in S
  <2>1. (k + 1) - 1 = k /\ (k + 1 <= n => k + 1 \in 1..n /\ k <= n)
    BY <1>1
  <2>2. k + 1 <= n => g[k + 1] = ReadStep(g[k], text[k + 1]) /\ h[k + 1] = ReadStep(h[k], text[k + 1])
    BY <1>2, <1>3, <2>1
  <2>3. k + 1 <= n => g[k + 1] = h[k + 1]
    BY <1>5, <2>1, <2>2
  <2> QED BY <2>3
<1>6. Nat \subseteq S
  <2> HIDE DEF S
  <2> QED BY <1>4, <1>5, NatSetInduction
<1>7. g[n] = h[n]
  BY <1>1, <1>6
<1> QED BY <1>2, <1>3, <1>7

LEMMA ReadsNothing ==
  Reads(<<>>, ReadStart)
<1> DEFINE h == [k \in 0..0 |-> ReadStart]
<1>1. ReadStart \in Accs
  <2>1. <<>> \in Seq(Letters)
    OBVIOUS
  <2> QED BY <2>1 DEF ReadStart, Accs
<1>2. h \in [0..Len(<<>>) -> Accs] /\ h[0] = ReadStart /\ Len(<<>>) = 0
  BY <1>1
<1>3. \A k \in 1..Len(<<>>) : FALSE
  OBVIOUS
<1> HIDE DEF h
<1> QED BY <1>2, <1>3 DEF Reads

LEMMA ReadsAppend ==
  ASSUME NEW text \in Seq(Letters), NEW acc, Reads(text, acc), NEW ch \in Letters
  PROVE  Reads(Append(text, ch), ReadStep(acc, ch))
<1> DEFINE n == Len(text)
           more == Append(text, ch)
           last == ReadStep(acc, ch)
<1>1. n \in Nat /\ Len(more) = n + 1 /\ more[n + 1] = ch /\ \A k \in 1..n : more[k] = text[k]
  BY AppendProperties
<1>2. PICK g \in [0..n -> Accs] :
        /\ g[0] = ReadStart /\ g[n] = acc
        /\ \A k \in 1..n : g[k] = ReadStep(g[k - 1], text[k])
  BY DEF Reads
<1> HIDE DEF n, more
<1>3. acc \in Accs
  BY <1>1, <1>2
<1>4. last \in Accs
  BY <1>3, ReadStepType
<1> DEFINE h == [k \in 0..(n + 1) |-> IF k = n + 1 THEN last ELSE g[k]]
<1>5. \A k \in 0..(n + 1) : k # n + 1 => k \in 0..n
  BY <1>1
<1>6. h \in [0..(n + 1) -> Accs]
  <2> HIDE DEF last
  <2> QED BY <1>2, <1>4, <1>5
<1>7. h[0] = ReadStart /\ h[n + 1] = last
  BY <1>1, <1>2
<1>8. ASSUME NEW k \in 1..(n + 1) PROVE h[k] = ReadStep(h[k - 1], more[k])
  <2>1. k - 1 \in 0..(n + 1) /\ k - 1 # n + 1 /\ k \in 0..(n + 1)
    BY <1>1
  <2>2. h[k - 1] = g[k - 1]
    BY <2>1
  <2>3. CASE k = n + 1
    <3>1. k - 1 = n /\ more[k] = ch
      BY <1>1, <2>3
    <3> QED BY <1>2, <1>7, <2>2, <2>3, <3>1
  <2>4. CASE k # n + 1
    <3>1. k \in 1..n /\ h[k] = g[k]
      BY <1>1, <2>1, <2>4
    <3> QED BY <1>1, <1>2, <2>2, <3>1
  <2> QED BY <2>3, <2>4
<1> HIDE DEF h, last
<1> QED BY <1>1, <1>6, <1>7, <1>8 DEF Reads, more, last

LEMMA EscapeLetters ==
  /\ DOMAIN EscapeOf = Escaped /\ Characters = Chars
  /\ \A c \in Escaped : EscapeOf[c] \in {"n", "t", "r", "0", "u"}
<1>1. DOMAIN EscapeOf = Escaped
  BY DEF EscapeOf, Escaped
<1>2. /\ EscapeOf["newline"] = "n" /\ EscapeOf["tab"] = "t" /\ EscapeOf["cr"] = "r"
      /\ EscapeOf["nul"] = "0" /\ EscapeOf["unprintable"] = "u"
  BY DEF EscapeOf
<1> QED BY <1>1, <1>2 DEF Escaped, Characters, Chars

LEMMA EscapeType ==
  ASSUME NEW c \in Chars
  PROVE  Escape(c) \in Seq(Letters)
<1>1. /\ "backslash" \in Letters /\ c \in Letters
      /\ c \in Escaped => EscapeOf[c] \in Letters
  BY EscapeLetters DEF Letters, Chars
<1>2. ASSUME NEW x \in Letters PROVE <<"backslash", x>> \in Seq(Letters) /\ <<x>> \in Seq(Letters)
  BY <1>1
<1> QED BY <1>1, <1>2, EscapeLetters DEF Escape

Escapes(s) == [j \in DOMAIN s |-> Escape(s[j])]

LEMMA EscapesType ==
  ASSUME NEW s \in Seq(Chars)
  PROVE  Escapes(s) \in Seq(Seq(Letters)) /\ Len(Escapes(s)) = Len(s)
<1>1. Len(s) \in Nat /\ DOMAIN s = 1..Len(s) /\ \A j \in 1..Len(s) : s[j] \in Chars
  OBVIOUS
<1>2. \A j \in 1..Len(s) : Escape(s[j]) \in Seq(Letters)
  BY <1>1, EscapeType
<1> QED BY <1>1, <1>2 DEF Escapes

LEMMA EscapesAppend ==
  ASSUME NEW s \in Seq(Chars), NEW c \in Chars
  PROVE  Escapes(Append(s, c)) = Append(Escapes(s), Escape(c))
<1> DEFINE n == Len(s)
           t == Append(s, c)
           e == Escape(c)
<1>1. /\ n \in Nat /\ t \in Seq(Chars) /\ Len(t) = n + 1 /\ t[n + 1] = c
      /\ \A j \in 1..n : t[j] = s[j]
  BY AppendProperties
<1>2. e \in Seq(Letters) /\ Escapes(s) \in Seq(Seq(Letters)) /\ Len(Escapes(s)) = n
  BY EscapeType, EscapesType
<1> HIDE DEF t
<1>3. Escapes(t) \in Seq(Seq(Letters)) /\ Len(Escapes(t)) = n + 1
  BY <1>1, EscapesType
<1>4. /\ \A j \in 1..(n + 1) : Escapes(t)[j] = Escape(t[j])
      /\ \A j \in 1..n : Escapes(s)[j] = Escape(s[j])
  BY <1>1 DEF Escapes
<1> HIDE DEF e
<1>5. /\ Append(Escapes(s), e) \in Seq(Seq(Letters)) /\ Len(Append(Escapes(s), e)) = n + 1
      /\ Append(Escapes(s), e)[n + 1] = e
      /\ \A j \in 1..n : Append(Escapes(s), e)[j] = Escapes(s)[j]
  BY <1>2, AppendProperties
<1> HIDE DEF n
<1>6. \A j \in 1..(n + 1) : j \in 1..n \/ j = n + 1
  BY <1>1
<1>7. \A j \in 1..(n + 1) : Escapes(t)[j] = Append(Escapes(s), e)[j]
  BY <1>1, <1>4, <1>5, <1>6 DEF e
<1>8. Escapes(t) = Append(Escapes(s), e)
  BY <1>3, <1>5, <1>7, SeqEqual
<1> QED BY <1>8 DEF t, e

LEMMA DebugAppend ==
  ASSUME NEW s \in Seq(Chars), NEW c \in Chars
  PROVE  debug(s) \in Seq(Letters) /\ debug(Append(s, c)) = debug(s) \o Escape(c)
<1>1. \A u : debug(u) = FlattenSeq(Escapes(u))
  BY DEF debug, Escapes, Escape
<1>2. FlattenSeq(Escapes(s)) \in Seq(Letters)
  BY EscapesType, FlattenType
<1>3. FlattenSeq(Append(Escapes(s), Escape(c))) = FlattenSeq(Escapes(s)) \o Escape(c)
  BY EscapesType, EscapeType, FlattenAppend
<1>4. Escapes(Append(s, c)) = Append(Escapes(s), Escape(c))
  BY EscapesAppend
<1> QED BY <1>1, <1>2, <1>3, <1>4

\* The lexer reads back what {:?} wrote of s: s itself, or nothing if {:?} wrote an
\* escape the lexer does not know.
ReadBack(s) ==
  \E acc \in Accs :
    /\ Reads(debug(s), acc) /\ (acc.bad <=> Garbled(s))
    /\ ~acc.bad => ~acc.escaped /\ acc.result = s

LEMMA ReadBackAppend ==
  ASSUME NEW s \in Seq(Chars), NEW c \in Chars, ReadBack(s)
  PROVE  ReadBack(Append(s, c))
<1>1. PICK acc \in Accs : /\ Reads(debug(s), acc) /\ (acc.bad <=> Garbled(s))
                          /\ ~acc.bad => ~acc.escaped /\ acc.result = s
  BY DEF ReadBack
<1>2. debug(s) \in Seq(Letters) /\ debug(Append(s, c)) = debug(s) \o Escape(c)
  BY DebugAppend
<1>3. Garbled(Append(s, c)) <=> Garbled(s) \/ c \in Escaped
  <2>1. Len(s) \in Nat /\ Len(Append(s, c)) = Len(s) + 1 /\ Append(s, c)[Len(s) + 1] = c
        /\ \A j \in 1..Len(s) : Append(s, c)[j] = s[j]
    OBVIOUS
  <2>2. \A j : j \in 1..(Len(s) + 1) <=> j \in 1..Len(s) \/ j = Len(s) + 1
    BY <2>1
  <2>3. DOMAIN s = 1..Len(s) /\ DOMAIN Append(s, c) = 1..(Len(s) + 1)
    OBVIOUS
  <2> QED BY <2>1, <2>2, <2>3, EscapeLetters DEF Garbled
<1> DEFINE a1 == ReadStep(acc, "backslash")
<1>4. "backslash" \in Letters /\ c \in Letters /\ (c \in Escaped => EscapeOf[c] \in Letters)
  BY EscapeLetters DEF Letters, Chars
<1>5. a1 \in Accs /\ Reads(Append(debug(s), "backslash"), a1)
  BY <1>1, <1>2, <1>4, ReadStepType, ReadsAppend
<1>6. Append(debug(s), "backslash") \in Seq(Letters)
  BY <1>2, <1>4, AppendProperties
<1>7. a1.bad = acc.bad /\ (~acc.bad => a1 = [acc EXCEPT !.escaped = TRUE])
  BY <1>1 DEF ReadStep, Accs
<1>8. CASE c \in Escaped \cup {"quote", "backslash"}
  <2> DEFINE x == IF c \in Escaped THEN EscapeOf[c] ELSE c
             a2 == ReadStep(a1, x)
  <2>1. x \in Letters /\ Escape(c) = <<"backslash", x>>
    <3>1. CASE c \in Escaped
      <4>1. x = EscapeOf[c] /\ c \in DOMAIN EscapeOf /\ c \notin {"quote", "backslash"}
        BY <3>1, EscapeLetters DEF Escaped
      <4> QED BY <1>4, <3>1, <4>1 DEF Escape
    <3>2. CASE c \notin Escaped
      <4>1. x = c /\ c \notin DOMAIN EscapeOf /\ c \in {"quote", "backslash"}
        BY <1>8, <3>2, EscapeLetters
      <4> QED BY <1>4, <4>1 DEF Escape
    <3> QED BY <3>1, <3>2
  <2>2. debug(s) \o Escape(c) = Append(Append(debug(s), "backslash"), x)
    <3> HIDE DEF x
    <3>1. <<"backslash", x>> = Append(<<"backslash">>, x) /\ <<"backslash">> \in Seq(Letters)
      BY <1>4, <2>1
    <3>2. Append(debug(s), "backslash") = debug(s) \o <<"backslash">>
      BY <1>2, <1>4, AppendIsConcat
    <3>3. debug(s) \o Append(<<"backslash">>, x) = Append(debug(s) \o <<"backslash">>, x)
      BY <1>2, <2>1, <3>1, ConcatAppend
    <3> QED BY <2>1, <3>1, <3>2, <3>3
  <2>3. a2 \in Accs /\ Reads(debug(Append(s, c)), a2)
    <3> HIDE DEF x, a1
    <3> QED BY <1>2, <1>5, <1>6, <2>1, <2>2, ReadStepType, ReadsAppend
  <2>7. /\ x \in {"quote", "backslash"} <=> c \notin Escaped
        /\ c \notin Escaped => x = c
    BY <1>8, EscapeLetters
  <2> HIDE DEF x, a1
  <2>4. a2.bad <=> (acc.bad \/ c \in Escaped)
    BY <1>1, <1>5, <1>7, <2>7 DEF ReadStep, Accs
  <2>5. ~a2.bad => ~a2.escaped /\ a2.result = Append(s, c)
    BY <1>1, <1>5, <1>7, <2>4, <2>7 DEF ReadStep, Accs
  <2> HIDE DEF a2
  <2>6. a2.bad <=> Garbled(Append(s, c))
    BY <1>1, <1>3, <2>4
  <2> QED BY <2>3, <2>5, <2>6 DEF ReadBack
<1>9. CASE c = "c"
  <2> DEFINE a2 == ReadStep(acc, c)
  <2>0. c \notin Escaped
    BY <1>9 DEF Escaped
  <2>1. Escape(c) = <<c>>
    BY <1>9, <2>0, EscapeLetters DEF Escape
  <2>2. debug(Append(s, c)) = Append(debug(s), c)
    BY <1>2, <1>4, <2>1, AppendIsConcat
  <2>3. a2 \in Accs /\ Reads(debug(Append(s, c)), a2)
    BY <1>1, <1>2, <1>4, <2>2, ReadStepType, ReadsAppend
  <2>4. a2.bad <=> acc.bad
    BY <1>1, <1>9 DEF ReadStep, Accs
  <2>5. ~a2.bad => ~a2.escaped /\ a2.result = Append(s, c)
    BY <1>1, <1>9, <2>4 DEF ReadStep, Accs
  <2> HIDE DEF a2
  <2>6. a2.bad <=> Garbled(Append(s, c))
    BY <1>1, <1>3, <2>0, <2>4
  <2> QED BY <2>3, <2>5, <2>6 DEF ReadBack
<1> QED BY <1>8, <1>9 DEF Chars

LEMMA ReadBackAll ==
  ASSUME NEW s \in Seq(Chars)
  PROVE  ReadBack(s)
<1> DEFINE S == {u \in Seq(Chars) : ReadBack(u)}
<1>1. <<>> \in S
  <2>1. Escapes(<<>>) = <<>> /\ debug(<<>>) = FlattenSeq(Escapes(<<>>))
    BY DEF debug, Escapes, Escape
  <2>2. debug(<<>>) = <<>>
    BY <2>1, FlattenEmpty
  <2>3. ReadStart \in Accs
    <3>1. <<>> \in Seq(Letters)
      OBVIOUS
    <3> QED BY <3>1 DEF ReadStart, Accs
  <2>4. (ReadStart.bad <=> Garbled(<<>>)) /\ ~ReadStart.escaped /\ ReadStart.result = <<>>
    BY DEF ReadStart, Garbled
  <2>5. ReadBack(<<>>)
    BY <2>2, <2>3, <2>4, ReadsNothing DEF ReadBack
  <2> QED BY <2>5
<1>2. \A u \in Seq(Chars), c \in Chars : u \in S => Append(u, c) \in S
  BY ReadBackAppend
<1>3. Seq(Chars) \subseteq S
  <2> HIDE DEF S
  <2> QED BY <1>1, <1>2, SeqInduction
<1> QED BY <1>3

\* Lexer::read_string_literal inverts {:?} on every string, with any number of quotes and backslashes,
\* none of whose characters {:?} writes as another escape; every other string it rejects as {:?} wrote
\* it: one with a line break, a tab, a carriage return, a NUL or a character shown as a code point.
THEOREM LiteralRoundTrip ==
  ASSUME NEW s \in Seq(Characters)
  PROVE  read_string_literal(debug(s)) = IF Garbled(s) THEN Bad ELSE <<"str", s>>
<1>1. s \in Seq(Chars)
  BY EscapeLetters
<1>2. PICK a \in Accs : /\ Reads(debug(s), a) /\ (a.bad <=> Garbled(s))
                        /\ ~a.bad => ~a.escaped /\ a.result = s
  BY <1>1, ReadBackAll DEF ReadBack
<1>3. debug(s) \in Seq(Letters)
  <2>1. "c" \in Chars
    BY DEF Chars
  <2> QED BY <1>1, <2>1, DebugAppend
<1>4. PICK b \in Accs : /\ Reads(debug(s), b)
                        /\ read_string_literal(debug(s)) = IF b.bad THEN Bad ELSE <<"str", b.result>>
  BY <1>3, LexerReads
<1>5. a = b
  BY <1>2, <1>3, <1>4, ReadsUnique
<1> QED BY <1>2, <1>4, <1>5
-----------------------------------------------------------------------------
(* Display, piece by piece.                                                 *)

Text == Seq(Tokens)

Words == {"type", "bool", "string", "number", "true", "false", "{", "}", "[", "]", ":", ",", "=", "@",
          "::", "agreement", "sticky", "wins", "last", "highest", "largest"}

LEMMA KeywordShape ==
  ASSUME NEW t \in Keywords
  PROVE  \E w \in Words : t = <<w>> /\ t[1] = w
<1>1. \E w \in Words : t = <<w>>
  BY DEF Keywords, Words
<1> QED BY <1>1

LEMMA TokenShape ==
  ASSUME NEW t \in Tokens
  PROVE  /\ t # End /\ t # Bad /\ t # None
         /\ t[1] = "id" => t = <<"id", t[2]>> /\ t[2] \in Idents
         /\ t[1] = "str" => t = <<"str", t[2]>> /\ t[2] \in Strings
         /\ t[1] = "num" => t = <<"num", t[2]>> /\ t[2] \in Numbers
         /\ t[1] \notin {"id", "str", "num"} => t \in Keywords
<1>1. CASE t \in Keywords
  <2>1. PICK w \in Words : t = <<w>> /\ t[1] = w
    BY <1>1, KeywordShape
  <2>2. w \notin {"id", "str", "num", "end", "bad", "none"}
    BY DEF Words
  <2>3. t # End /\ t # Bad /\ t # None
    BY <2>1, <2>2 DEF End, Bad, None
  <2> QED BY <1>1, <2>1, <2>2, <2>3
<1>2. CASE t \in {"id"} \X Idents
  <2>1. PICK x \in Idents : t = <<"id", x>>
    BY <1>2
  <2> QED BY <2>1 DEF End, Bad, None
<1>3. CASE t \in {"str"} \X Strings
  <2>1. PICK x \in Strings : t = <<"str", x>>
    BY <1>3
  <2> QED BY <2>1 DEF End, Bad, None
<1>4. CASE t \in {"num"} \X Numbers
  <2>1. PICK x \in Numbers : t = <<"num", x>>
    BY <1>4
  <2> QED BY <2>1 DEF End, Bad, None
<1> QED BY <1>1, <1>2, <1>3, <1>4 DEF Tokens

LEMMA TokenForms ==
  /\ Keywords \subseteq Tokens
  /\ \A x \in Idents : <<"id", x>> \in Tokens
  /\ \A x \in Strings : <<"str", x>> \in Tokens
  /\ \A x \in Numbers : <<"num", x>> \in Tokens
  BY DEF Tokens

LEMMA LiteralShape ==
  ASSUME NEW kind, NEW t \in LiteralOf(kind)
  PROVE  t \in Tokens /\ t # None /\ t # End
<1>1. t \in Tokens
  BY DEF LiteralOf, Tokens, Keywords
<1> QED BY <1>1, TokenShape

LEMMA ShortText ==
  ASSUME NEW x \in Tokens, NEW y \in Tokens
  PROVE  <<x>> \in Text /\ <<x, y>> \in Text /\ <<x, y>> = Append(<<x>>, y) /\ <<>> \in Text
  BY DEF Text

\* The name of a type and the values of an enum, one element after the other.
NameWords(ns) == [j \in 1..(Len(ns) - 1) |-> <<<<"::">>, <<"id", ns[j + 1]>>>>]
NameText(ns) == <<<<"type">>, <<"id", ns[1]>>>> \o FlattenSeq(NameWords(ns))
ValueWords(vs) == [j \in 1..(Len(vs) - 1) |-> <<<<",">>, <<"str", vs[j + 1]>>>>]
ValuesText(vs) == <<<<"[">>, <<"str", vs[1]>>>> \o FlattenSeq(ValueWords(vs))

\* A list written as `first`, then two tokens for every further element.
OneMore(ws, more, n, x, y) ==
  /\ more \in [1..(n + 1) -> Text] /\ ws \in [1..n -> Text]
  /\ \A j \in 1..n : more[j] = ws[j]
  /\ more[n + 1] = <<x, y>>
Lists(first, ws, more, x, y) ==
  /\ first \o FlattenSeq(ws) \in Text
  /\ first \o FlattenSeq(more) = Append(Append(first \o FlattenSeq(ws), x), y)

LEMMA ListAppend ==
  ASSUME NEW first \in Text, NEW ws, NEW more, NEW n \in Nat, NEW x \in Tokens, NEW y \in Tokens,
         OneMore(ws, more, n, x, y)
  PROVE  Lists(first, ws, more, x, y)
<1>1. ws \in Seq(Seq(Tokens)) /\ more = Append(ws, <<x, y>>)
  BY FunctionAppend DEF OneMore, Text
<1>2. <<x, y>> \in Seq(Tokens) /\ <<x>> \in Seq(Tokens) /\ <<x, y>> = Append(<<x>>, y)
  OBVIOUS
<1>3. FlattenSeq(ws) \in Seq(Tokens) /\ FlattenSeq(more) = FlattenSeq(ws) \o <<x, y>>
  BY <1>1, <1>2, FlattenType, FlattenAppend
<1> DEFINE w == FlattenSeq(ws)
<1> HIDE DEF w
<1>4. w \in Seq(Tokens) /\ first \in Seq(Tokens)
  BY <1>3 DEF w, Text
<1>5. first \o w \in Seq(Tokens) /\ w \o <<x>> \in Seq(Tokens) /\ w \o <<x>> = Append(w, x)
  BY <1>2, <1>4, ConcatProperties, AppendIsConcat
<1>6. w \o Append(<<x>>, y) = Append(w \o <<x>>, y)
  BY <1>2, <1>4, ConcatAppend
<1>7. first \o Append(w \o <<x>>, y) = Append(first \o (w \o <<x>>), y)
  BY <1>4, <1>5, ConcatAppend
<1>8. first \o Append(w, x) = Append(first \o w, x)
  BY <1>4, ConcatAppend
<1>9. first \o (w \o <<x, y>>) = Append(Append(first \o w, x), y)
  BY <1>2, <1>5, <1>6, <1>7, <1>8
<1> QED BY <1>3, <1>5, <1>9 DEF w, Text, Lists

LEMMA NameTextFirst ==
  ASSUME NEW x \in Idents
  PROVE  NameText(<<x>>) = Append(<<<<"type">>>>, <<"id", x>>) /\ NameText(<<x>>) \in Text
<1>1. NameWords(<<x>>) = <<>>
  BY DEF NameWords
<1>0. <<"type">> \in Tokens /\ <<"id", x>> \in Tokens
  BY TokenForms DEF Keywords
<1>2. <<<<"type">>, <<"id", x>>>> \in Seq(Tokens)
  BY <1>0, ShortText DEF Text
<1>3. NameText(<<x>>) = <<<<"type">>, <<"id", x>>>>
  BY <1>1, <1>2, FlattenEmpty, ConcatEmptySeq DEF NameText
<1> QED BY <1>0, <1>3, ShortText

LEMMA NameTextMore ==
  ASSUME NEW ns \in Seq(Idents), ns # <<>>, NEW x \in Idents
  PROVE  /\ NameText(ns) \in Text
         /\ NameText(Append(ns, x)) = Append(Append(NameText(ns), <<"::">>), <<"id", x>>)
<1> DEFINE n == Len(ns) - 1
           first == <<<<"type">>, <<"id", ns[1]>>>>
           more == Append(ns, x)
<1>1. n \in Nat /\ Len(ns) = n + 1
  BY EmptySeq
<1>2. more[1] = ns[1] /\ Len(more) = (n + 1) + 1 /\ more[(n + 1) + 1] = x
      /\ \A j \in 1..n : more[j + 1] = ns[j + 1]
  BY <1>1
<1>3. \A j \in 1..n : ns[j + 1] \in Idents
  BY <1>1
<1>4. ns[1] \in Idents
  BY <1>1
<1> HIDE DEF n, more
<1>5. first \in Text
  <2>1. <<"type">> \in Tokens /\ <<"id", ns[1]>> \in Tokens
    BY <1>4, TokenForms DEF Keywords
  <2> QED BY <2>1, ShortText
<1>6. <<"::">> \in Tokens /\ <<"id", x>> \in Tokens
  BY TokenForms DEF Keywords
<1>7. ASSUME NEW y \in Idents PROVE <<<<"::">>, <<"id", y>>>> \in Text
  BY <1>6, TokenForms, ShortText
<1>8. NameWords(ns) \in [1..n -> Text]
  <2>1. Len(ns) - 1 = n
    BY <1>1
  <2> QED BY <1>3, <1>7, <2>1 DEF NameWords
<1>9. NameWords(more) \in [1..(n + 1) -> Text] /\ NameWords(more)[n + 1] = <<<<"::">>, <<"id", x>>>>
  <2>1. Len(more) - 1 = n + 1 /\ n + 1 \in 1..(n + 1)
    BY <1>1, <1>2
  <2>2. \A j \in 1..(n + 1) : more[j + 1] \in Idents
    <3>1. \A j \in 1..(n + 1) : j \in 1..n \/ j = n + 1
      BY <1>1
    <3> QED BY <1>2, <1>3, <3>1
  <2> QED BY <1>2, <1>7, <2>1, <2>2 DEF NameWords
<1>10. \A j \in 1..n : NameWords(more)[j] = NameWords(ns)[j]
  <2>1. Len(more) - 1 = n + 1 /\ Len(ns) - 1 = n /\ \A j \in 1..n : j \in 1..(n + 1)
    BY <1>1, <1>2
  <2> QED BY <1>2, <2>1 DEF NameWords
<1>11. OneMore(NameWords(ns), NameWords(more), n, <<"::">>, <<"id", x>>)
  BY <1>8, <1>9, <1>10 DEF OneMore
<1>12. Lists(first, NameWords(ns), NameWords(more), <<"::">>, <<"id", x>>)
  <2> HIDE DEF first
  <2> QED BY <1>1, <1>5, <1>6, <1>11, ListAppend
<1> QED BY <1>2, <1>12 DEF NameText, more, Lists

LEMMA ValuesTextFirst ==
  ASSUME NEW x \in Strings
  PROVE  ValuesText(<<x>>) = Append(<<<<"[">>>>, <<"str", x>>) /\ ValuesText(<<x>>) \in Text
<1>1. ValueWords(<<x>>) = <<>>
  BY DEF ValueWords
<1>0. <<"[">> \in Tokens /\ <<"str", x>> \in Tokens
  BY TokenForms DEF Keywords
<1>2. <<<<"[">>, <<"str", x>>>> \in Seq(Tokens)
  BY <1>0, ShortText DEF Text
<1>3. ValuesText(<<x>>) = <<<<"[">>, <<"str", x>>>>
  BY <1>1, <1>2, FlattenEmpty, ConcatEmptySeq DEF ValuesText
<1> QED BY <1>0, <1>3, ShortText

LEMMA ValuesTextMore ==
  ASSUME NEW vs \in Seq(Strings), vs # <<>>, NEW x \in Strings
  PROVE  /\ ValuesText(vs) \in Text
         /\ ValuesText(Append(vs, x)) = Append(Append(ValuesText(vs), <<",">>), <<"str", x>>)
<1> DEFINE n == Len(vs) - 1
           first == <<<<"[">>, <<"str", vs[1]>>>>
           more == Append(vs, x)
<1>1. n \in Nat /\ Len(vs) = n + 1
  BY EmptySeq
<1>2. more[1] = vs[1] /\ Len(more) = (n + 1) + 1 /\ more[(n + 1) + 1] = x
      /\ \A j \in 1..n : more[j + 1] = vs[j + 1]
  BY <1>1
<1>3. \A j \in 1..n : vs[j + 1] \in Strings
  BY <1>1
<1>4. vs[1] \in Strings
  BY <1>1
<1> HIDE DEF n, more
<1>5. first \in Text
  <2>1. <<"[">> \in Tokens /\ <<"str", vs[1]>> \in Tokens
    BY <1>4, TokenForms DEF Keywords
  <2> QED BY <2>1, ShortText
<1>6. <<",">> \in Tokens /\ <<"str", x>> \in Tokens
  BY TokenForms DEF Keywords
<1>7. ASSUME NEW y \in Strings PROVE <<<<",">>, <<"str", y>>>> \in Text
  BY <1>6, TokenForms, ShortText
<1>8. ValueWords(vs) \in [1..n -> Text]
  <2>1. Len(vs) - 1 = n
    BY <1>1
  <2> QED BY <1>3, <1>7, <2>1 DEF ValueWords
<1>9. ValueWords(more) \in [1..(n + 1) -> Text] /\ ValueWords(more)[n + 1] = <<<<",">>, <<"str", x>>>>
  <2>1. Len(more) - 1 = n + 1 /\ n + 1 \in 1..(n + 1)
    BY <1>1, <1>2
  <2>2. \A j \in 1..(n + 1) : more[j + 1] \in Strings
    <3>1. \A j \in 1..(n + 1) : j \in 1..n \/ j = n + 1
      BY <1>1
    <3> QED BY <1>2, <1>3, <3>1
  <2> QED BY <1>2, <1>7, <2>1, <2>2 DEF ValueWords
<1>10. \A j \in 1..n : ValueWords(more)[j] = ValueWords(vs)[j]
  <2>1. Len(more) - 1 = n + 1 /\ Len(vs) - 1 = n /\ \A j \in 1..n : j \in 1..(n + 1)
    BY <1>1, <1>2
  <2> QED BY <1>2, <2>1 DEF ValueWords
<1>11. OneMore(ValueWords(vs), ValueWords(more), n, <<",">>, <<"str", x>>)
  BY <1>8, <1>9, <1>10 DEF OneMore
<1>12. Lists(first, ValueWords(vs), ValueWords(more), <<",">>, <<"str", x>>)
  <2> HIDE DEF first
  <2> QED BY <1>1, <1>5, <1>6, <1>11, ListAppend
<1> QED BY <1>2, <1>12 DEF ValuesText, more, Lists
-----------------------------------------------------------------------------
(* What parse_field has read so far, by the place where it stands.          *)

Strategies == {"Default", "Agreement", "LargestValue"}
Kinds == {"bool", "string", "number", "enum", "array"}
FieldRecord ==
  [name : Idents \cup {""}, kind : Kinds \cup {"none"}, values : Seq(Strings), on_conflict : Strategies,
   default : Tokens \cup {None}]

\* The field while parse_field runs; outside of it there is none.
Started(f) == f.name \in Idents /\ f.default = None
FieldAt(pc, f) ==
  /\ f \in FieldRecord
  /\ pc \in {"type", "name", "separator", "fields", "done", "error"} => f = NoField
  /\ pc \in {"colon", "kind", "bracket"} =>
       Started(f) /\ f.kind = "none" /\ f.values = <<>> /\ f.on_conflict = "Default"
  /\ pc = "close" => Started(f) /\ f.kind = "array" /\ f.values = <<>> /\ f.on_conflict = "Default"
  /\ pc \in {"values", "value"} =>
       Started(f) /\ f.kind = "enum" /\ f.values # <<>> /\ f.on_conflict = "Default"
  /\ pc \in {"conflict", "strategy"} =>
       FieldOK(f) /\ Started(f) /\ f.kind # "array" /\ f.on_conflict = "Default"
  /\ pc = "wins" =>
       FieldOK(f) /\ Started(f) /\ f.kind \notin {"array", "bool"} /\ f.on_conflict = "LargestValue"
  /\ pc \in {"equals", "default"} => FieldOK(f) /\ Started(f) /\ f.kind # "array"
  /\ pc = "after" => FieldOK(f)

HeadText(f) == <<<<"id", f.name>>, <<":">>>>
KindText(f) == HeadText(f) \o DisplayKind(f)
ConflictText(f) == KindText(f) \o DisplayConflict(f)
FirstOf(kind) == IF kind = "enum" THEN <<"highest">> ELSE <<"last">>

FieldText(pc, f) ==
  CASE pc = "colon" -> <<<<"id", f.name>>>>
    [] pc = "kind" -> HeadText(f)
    [] pc = "bracket" -> Append(HeadText(f), <<"[">>)
    [] pc = "close" -> Append(Append(HeadText(f), <<"[">>), <<"string">>)
    [] pc = "values" -> HeadText(f) \o ValuesText(f.values)
    [] pc = "value" -> Append(HeadText(f) \o ValuesText(f.values), <<",">>)
    [] pc = "conflict" -> KindText(f)
    [] pc = "strategy" -> Append(KindText(f), <<"@">>)
    [] pc = "wins" -> Append(Append(KindText(f), <<"@">>), FirstOf(f.kind))
    [] pc = "equals" -> ConflictText(f)
    [] pc = "default" -> Append(ConflictText(f), <<"=">>)
    [] pc = "after" -> DisplayField(f)
    [] OTHER -> <<>>

\* Tokens at the end of a text.
LEMMA TextNil ==
  ASSUME NEW a \in Text
  PROVE  a \o <<>> = a
  BY ConcatEmptySeq DEF Text

LEMMA TextOne ==
  ASSUME NEW a \in Text, NEW x \in Tokens
  PROVE  a \o <<x>> = Append(a, x) /\ Append(a, x) \in Text
  BY AppendIsConcat, AppendProperties DEF Text

LEMMA TextCat ==
  ASSUME NEW a \in Text, NEW b \in Text
  PROVE  a \o b \in Text
  BY ConcatProperties DEF Text

LEMMA TextAssociative ==
  ASSUME NEW a \in Text, NEW b \in Text, NEW c \in Text
  PROVE  (a \o b) \o c = a \o (b \o c)
  BY ConcatAssociative DEF Text

LEMMA TextSnoc ==
  ASSUME NEW a \in Text, NEW b \in Text, NEW x \in Tokens
  PROVE  a \o Append(b, x) = Append(a \o b, x)
  BY ConcatAppend DEF Text

LEMMA TextTwo ==
  ASSUME NEW a \in Text, NEW x \in Tokens, NEW y \in Tokens
  PROVE  a \o <<x, y>> = Append(Append(a, x), y) /\ Append(Append(a, x), y) \in Text
<1>1. <<x>> \in Text /\ <<x, y>> = Append(<<x>>, y)
  BY ShortText
<1>2. a \o Append(<<x>>, y) = Append(a \o <<x>>, y)
  BY <1>1, TextSnoc
<1>3. a \o <<x>> = Append(a, x) /\ Append(a, x) \in Text
  BY TextOne
<1>4. Append(Append(a, x), y) \in Text
  BY <1>3, TextOne
<1> QED BY <1>1, <1>2, <1>3, <1>4

LEMMA KeywordTokens ==
  /\ <<"type">> \in Tokens /\ <<"{">> \in Tokens /\ <<"}">> \in Tokens /\ <<"[">> \in Tokens
  /\ <<"]">> \in Tokens /\ <<":">> \in Tokens /\ <<",">> \in Tokens /\ <<"=">> \in Tokens
  /\ <<"@">> \in Tokens /\ <<"::">> \in Tokens /\ <<"string">> \in Tokens /\ <<"bool">> \in Tokens
  /\ <<"number">> \in Tokens /\ <<"agreement">> \in Tokens /\ <<"sticky">> \in Tokens
  /\ <<"wins">> \in Tokens /\ <<"last">> \in Tokens /\ <<"highest">> \in Tokens
  BY TokenForms DEF Keywords

LEMMA HeadTextType ==
  ASSUME NEW f, f.name \in Idents
  PROVE  /\ <<"id", f.name>> \in Tokens
         /\ <<<<"id", f.name>>>> \in Text /\ HeadText(f) = Append(<<<<"id", f.name>>>>, <<":">>)
         /\ HeadText(f) \in Text
<1>1. <<"id", f.name>> \in Tokens /\ <<":">> \in Tokens
  BY TokenForms, KeywordTokens
<1> QED BY <1>1, ShortText DEF HeadText

\* Kinds of one word, ...
LEMMA WordKind ==
  ASSUME NEW f, f.name \in Idents, f.kind \in {"bool", "string", "number"}
  PROVE  KindText(f) = Append(HeadText(f), <<f.kind>>) /\ KindText(f) \in Text
<1>1. <<f.kind>> \in Tokens
  BY KeywordTokens
<1>2. DisplayKind(f) = <<<<f.kind>>>>
  BY DEF DisplayKind
<1>3. HeadText(f) \in Text
  BY HeadTextType
<1>4. HeadText(f) \o <<<<f.kind>>>> = Append(HeadText(f), <<f.kind>>) /\ Append(HeadText(f), <<f.kind>>) \in Text
  BY <1>1, <1>3, TextOne
<1> QED BY <1>2, <1>4 DEF KindText

\* ... an array of strings ...
LEMMA ArrayKind ==
  ASSUME NEW f, f.name \in Idents, f.kind = "array"
  PROVE  /\ KindText(f) = Append(Append(Append(HeadText(f), <<"[">>), <<"string">>), <<"]">>)
         /\ KindText(f) \in Text
<1> DEFINE h == HeadText(f)
           b == <<<<"[">>, <<"string">>>>
<1>1. h \in Text
  BY HeadTextType
<1>2. DisplayKind(f) = Append(b, <<"]">>)
  BY DEF DisplayKind
<1>3. b \in Text /\ h \o b = Append(Append(h, <<"[">>), <<"string">>)
  <2> HIDE DEF h
  <2>1. <<"[">> \in Tokens /\ <<"string">> \in Tokens
    BY KeywordTokens
  <2> QED BY <1>1, <2>1, TextTwo, ShortText
<1> HIDE DEF h, b
<1>4. h \o Append(b, <<"]">>) = Append(h \o b, <<"]">>) /\ h \o b \in Text
  BY <1>1, <1>3, TextSnoc, TextCat, KeywordTokens, ZenonT(60)
<1>5. Append(h \o b, <<"]">>) \in Text
  BY <1>4, TextOne, KeywordTokens
<1> QED BY <1>2, <1>3, <1>4, <1>5 DEF KindText, h

\* ... and an enum.
LEMMA ValuesTextType ==
  ASSUME NEW vs \in Seq(Strings), vs # <<>>
  PROVE  ValuesText(vs) \in Text
<1>1. PICK r \in Seq(Strings), x \in Strings : vs = Append(r, x)
  BY SeqSnoc
<1> QED BY <1>1, ValuesTextMore

LEMMA EnumKind ==
  ASSUME NEW f, f.name \in Idents, f.kind = "enum", f.values \in Seq(Strings), f.values # <<>>
  PROVE  /\ HeadText(f) \o ValuesText(f.values) \in Text
         /\ KindText(f) = Append(HeadText(f) \o ValuesText(f.values), <<"]">>) /\ KindText(f) \in Text
<1> DEFINE h == HeadText(f)
           v == ValuesText(f.values)
<1>1. h \in Text /\ v \in Text
  BY HeadTextType, ValuesTextType
<1>2. DisplayKind(f) = v \o <<<<"]">>>>
  BY DEF DisplayKind, ValuesText, ValueWords
<1> HIDE DEF h, v
<1>3. v \o <<<<"]">>>> = Append(v, <<"]">>) /\ h \o Append(v, <<"]">>) = Append(h \o v, <<"]">>)
      /\ h \o v \in Text
  <2>1. <<"]">> \in Tokens
    BY KeywordTokens
  <2> QED BY <1>1, <2>1, TextOne, TextSnoc, TextCat
<1>4. Append(h \o v, <<"]">>) \in Text
  BY <1>3, TextOne, KeywordTokens
<1> QED BY <1>2, <1>3, <1>4 DEF KindText, h, v

LEMMA KindTextType ==
  ASSUME NEW f, FieldOK(f)
  PROVE  KindText(f) \in Text
<1>1. CASE f.kind = "enum"
  BY <1>1, EnumKind DEF FieldOK
<1>2. CASE f.kind = "array"
  BY <1>2, ArrayKind DEF FieldOK
<1>3. CASE f.kind \in {"bool", "string", "number"}
  BY <1>3, WordKind DEF FieldOK
<1> QED BY <1>1, <1>2, <1>3 DEF FieldOK

\* The strategies.
LEMMA ConflictWords ==
  ASSUME NEW f, FieldOK(f)
  PROVE  /\ f.on_conflict = "Default" => ConflictText(f) = KindText(f)
         /\ f.on_conflict = "Agreement" =>
              ConflictText(f) = Append(Append(KindText(f), <<"@">>), <<"agreement">>)
         /\ f.on_conflict = "LargestValue" /\ f.kind = "bool" =>
              ConflictText(f) = Append(Append(KindText(f), <<"@">>), <<"sticky">>)
         /\ f.on_conflict = "LargestValue" /\ f.kind # "bool" =>
              ConflictText(f) = Append(Append(Append(KindText(f), <<"@">>), FirstOf(f.kind)), <<"wins">>)
         /\ ConflictText(f) \in Text
<1> DEFINE k == KindText(f)
           a == <<<<"@">>>>
<1>1. k \in Text /\ a \in Text
  BY KindTextType, KeywordTokens, ShortText
<1> HIDE DEF k
<1>2. k \o a = Append(k, <<"@">>) /\ Append(k, <<"@">>) \in Text
  BY <1>1, TextOne, KeywordTokens
<1>3. CASE f.on_conflict = "Default"
  BY <1>1, <1>3, TextNil DEF ConflictText, DisplayConflict, k
<1>4. CASE f.on_conflict = "Agreement"
  <2>1. DisplayConflict(f) = <<<<"@">>, <<"agreement">>>>
    BY <1>4 DEF DisplayConflict
  <2>2. k \o <<<<"@">>, <<"agreement">>>> = Append(Append(k, <<"@">>), <<"agreement">>)
    <3>1. <<"@">> \in Tokens /\ <<"agreement">> \in Tokens
      BY KeywordTokens
    <3> QED BY <1>1, <3>1, TextTwo
  <2>3. Append(Append(k, <<"@">>), <<"agreement">>) \in Text
    BY <1>2, TextOne, KeywordTokens
  <2> QED BY <1>4, <2>1, <2>2, <2>3 DEF ConflictText, k
<1>5. CASE f.on_conflict = "LargestValue"
  <2>1. DisplayConflict(f) = a \o DisplayLargest(f.kind)
    BY <1>5 DEF DisplayConflict
  <2>2. FirstOf(f.kind) \in Tokens
    BY KeywordTokens DEF FirstOf
  <2>3. DisplayLargest(f.kind) = IF f.kind = "bool" THEN <<<<"sticky">>>> ELSE <<FirstOf(f.kind), <<"wins">>>>
    BY DEF DisplayLargest, FirstOf
  <2> HIDE DEF a
  <2>4. CASE f.kind = "bool"
    <3>1. k \o (a \o <<<<"sticky">>>>) = Append(k \o a, <<"sticky">>)
      <4>1. a \o <<<<"sticky">>>> = Append(a, <<"sticky">>)
        BY <1>1, TextOne, KeywordTokens
      <4>2. <<"sticky">> \in Tokens
        BY KeywordTokens
      <4> QED BY <1>1, <4>1, <4>2, TextSnoc
    <3>2. Append(Append(k, <<"@">>), <<"sticky">>) \in Text
      BY <1>2, TextOne, KeywordTokens
    <3> QED BY <1>2, <1>5, <2>1, <2>3, <2>4, <3>1, <3>2 DEF ConflictText, k
  <2>5. CASE f.kind # "bool"
    <3> DEFINE w == FirstOf(f.kind)
    <3> HIDE DEF w
    <3>0. w \in Tokens
      BY <2>2 DEF w
    <3>1. a \o <<w, <<"wins">>>> = Append(Append(a, w), <<"wins">>) /\ Append(a, w) \in Text
      <4>1. <<"wins">> \in Tokens
        BY KeywordTokens
      <4> QED BY <1>1, <3>0, <4>1, TextTwo, TextOne
    <3>2. k \o Append(Append(a, w), <<"wins">>) = Append(k \o Append(a, w), <<"wins">>)
      BY <1>1, <3>1, TextSnoc, KeywordTokens, ZenonT(60)
    <3>3. k \o Append(a, w) = Append(k \o a, w)
      BY <1>1, <3>0, TextSnoc
    <3>4. Append(Append(k, <<"@">>), w) \in Text
      BY <1>2, <3>0, TextOne
    <3>5. Append(Append(Append(k, <<"@">>), w), <<"wins">>) \in Text
      BY <3>4, TextOne, KeywordTokens
    <3> QED BY <1>2, <1>5, <2>1, <2>3, <2>5, <3>1, <3>2, <3>3, <3>5 DEF ConflictText, k, w
  <2> QED BY <2>4, <2>5
<1> QED BY <1>3, <1>4, <1>5 DEF FieldOK

\* The default.
LEMMA DefaultWords ==
  ASSUME NEW f, FieldOK(f)
  PROVE  /\ f.default = None => DisplayField(f) = ConflictText(f)
         /\ f.default # None => /\ f.default \in Tokens
                                /\ DisplayField(f) = Append(Append(ConflictText(f), <<"=">>), f.default)
         /\ DisplayField(f) \in Text
<1> DEFINE c == ConflictText(f)
<1>1. c \in Text
  BY ConflictWords
<1>2. DisplayField(f) = c \o (IF f.default = None THEN <<>> ELSE <<<<"=">>, f.default>>)
  BY DEF DisplayField, ConflictText, KindText, HeadText
<1> HIDE DEF c
<1>3. CASE f.default = None
  BY <1>1, <1>2, <1>3, TextNil DEF c
<1>4. CASE f.default # None
  <2>1. f.default \in Tokens
    BY <1>4, LiteralShape DEF FieldOK
  <2>2. c \o <<<<"=">>, f.default>> = Append(Append(c, <<"=">>), f.default) /\ Append(c, <<"=">>) \in Text
    <3>1. <<"=">> \in Tokens
      BY KeywordTokens
    <3> QED BY <1>1, <2>1, <3>1, TextTwo, TextOne
  <2>3. Append(Append(c, <<"=">>), f.default) \in Text
    BY <2>1, <2>2, TextOne
  <2> QED BY <1>2, <1>4, <2>1, <2>2, <2>3 DEF c
<1> QED BY <1>3, <1>4
-----------------------------------------------------------------------------
(* One step of the parser.                                                  *)

Places ==
  {"type", "name", "separator", "fields", "colon", "kind", "bracket", "close", "values", "value",
   "conflict", "strategy", "wins", "equals", "default", "after", "done", "error"}
ErrorKinds ==
  {"none", "UnexpectedEndOfInput", "UnexpectedToken", "Custom", "DuplicateFieldName",
   "InvalidLiteral"}
ParserRecord ==
  [pc : Places, input : Text, pos : Nat, open : BOOLEAN, name : Seq(Idents), fields : Seq(FieldRecord),
   field : FieldRecord, error : ErrorKinds]

\* The fields that were pushed: each a value of Field, with names that are distinct.
FieldsFit(fs) ==
  /\ fs \in Seq(FieldRecord)
  /\ \A j \in DOMAIN fs : FieldOK(fs[j])
  /\ \A j, k \in DOMAIN fs : fs[j].name = fs[k].name => j = k

NameFits(pc, ns, fs) ==
  /\ pc \in {"type", "error"} => ns = <<>>
  /\ pc \in {"type", "error", "name", "separator"} => fs = <<>>
  /\ pc \notin {"type", "error", "name"} => ns # <<>>

Typed(q) ==
  /\ q \in ParserRecord /\ q.pos <= Len(q.input)
  /\ FieldAt(q.pc, q.field) /\ FieldsFit(q.fields) /\ NameFits(q.pc, q.name, q.fields)

\* r is q after a peek() that returned t, and after an advance() over t.
Saw(q, r, t) ==
  /\ r.pos = q.pos /\ q.pos <= Len(r.input)
  /\ \A j \in 1..q.pos : r.input[j] = q.input[j]
  /\ t # End => q.pos + 1 <= Len(r.input) /\ r.input[q.pos + 1] = t
Took(q, r, t) ==
  /\ r.pos = q.pos + 1 /\ q.pos + 1 <= Len(r.input)
  /\ \A j \in 1..q.pos : r.input[j] = q.input[j]
  /\ r.input[q.pos + 1] = t
\* Nothing is added to an input that is given.
Kept(q, r) == ~q.open => ~r.open /\ r.input = q.input

\* p' is p after it looked at t, or took it, with what the action assigns.
Looks(t, l, f, fs) ==
  /\ p' \in ParserRecord /\ Saw(p, p', t) /\ Kept(p, p')
  /\ p'.pc = l /\ p'.name = p.name /\ p'.field = f /\ p'.fields = fs
Takes(t, l, ns, f, fs) ==
  /\ p' \in ParserRecord /\ Took(p, p', t) /\ Kept(p, p') /\ t # End /\ t \in Tokens
  /\ p'.pc = l /\ p'.name = ns /\ p'.field = f /\ p'.fields = fs
Fails == \E kind \in ErrorKinds : p' = Failed(kind)

LEMMA PeekedShape ==
  ASSUME Typed(p), NEW t \in Tokens \cup {End}, Peekable(t), NEW l \in Places
  PROVE  LET q == Peeked(t, l)
         IN /\ q \in ParserRecord /\ Saw(p, q, t) /\ Kept(p, q)
            /\ q.pc = l /\ q.name = p.name /\ q.field = p.field /\ q.fields = p.fields
<1> DEFINE q == Peeked(t, l)
           in == IF t = End \/ p.pos < Len(p.input) THEN p.input ELSE Append(p.input, t)
<1>1. p \in ParserRecord /\ p.pos <= Len(p.input) /\ p.pos \in Nat /\ p.input \in Seq(Tokens)
      /\ p.open \in BOOLEAN
  BY DEF Typed, ParserRecord, Text
<1>2. Len(p.input) \in Nat /\ \A j \in 1..Len(p.input) : p.input[j] \in Tokens
  BY <1>1
<1>3. in \in Text
  <2>1. t # End => Append(p.input, t) \in Text
    BY <1>1, AppendProperties DEF Text
  <2> QED BY <1>1, <2>1 DEF Text
<1>4. q.input = in /\ q.pos = p.pos /\ q.open = (p.open /\ t # End)
  BY <1>1 DEF Peeked, ParserRecord
<1>5. (p.open /\ t # End) \in BOOLEAN
  OBVIOUS
<1>6. q \in ParserRecord /\ q.pc = l /\ q.name = p.name /\ q.field = p.field /\ q.fields = p.fields
  <2> HIDE DEF in
  <2> QED BY <1>1, <1>3, <1>5 DEF Peeked, ParserRecord, in
<1> HIDE DEF q
<1>7. p.pos < Len(p.input) => t = p.input[p.pos + 1] /\ t # End
  <2>1. p.pos < Len(p.input) => t = p.input[p.pos + 1]
    BY DEF Peekable
  <2>2. p.pos < Len(p.input) => p.pos + 1 \in 1..Len(p.input)
    BY <1>1, <1>2
  <2> QED BY <1>2, <2>1, <2>2, TokenShape
<1>8. Kept(p, q)
  <2>1. ~p.open => in = p.input
    BY <1>1, <1>2 DEF Peekable
  <2> HIDE DEF in
  <2> QED BY <1>4, <2>1 DEF Kept
<1>9. Saw(p, q, t)
  <2>1. CASE t = End \/ p.pos < Len(p.input)
    <3>1. in = p.input
      BY <2>1
    <3>2. t # End => p.pos + 1 <= Len(p.input) /\ p.input[p.pos + 1] = t
      BY <1>1, <1>2, <1>7, <2>1
    <3> HIDE DEF in
    <3> QED BY <1>1, <1>4, <3>1, <3>2 DEF Saw
  <2>2. CASE ~(t = End \/ p.pos < Len(p.input))
    <3>1. in = Append(p.input, t) /\ p.pos = Len(p.input) /\ t \in Tokens
      BY <1>1, <1>2, <2>2
    <3>2. /\ Len(Append(p.input, t)) = Len(p.input) + 1 /\ Append(p.input, t)[Len(p.input) + 1] = t
          /\ \A j \in 1..Len(p.input) : Append(p.input, t)[j] = p.input[j]
      BY <1>1, <3>1, AppendProperties
    <3> HIDE DEF in
    <3>3. p.pos <= Len(in) /\ p.pos + 1 <= Len(in)
      BY <1>2, <3>1, <3>2
    <3> QED BY <1>4, <3>1, <3>2, <3>3 DEF Saw
  <2> QED BY <2>1, <2>2
<1> QED BY <1>6, <1>8, <1>9 DEF q

LEMMA AdvancedShape ==
  ASSUME Typed(p), NEW t \in Tokens, Peekable(t), NEW l \in Places
  PROVE  LET q == Advanced(t, l)
         IN /\ q \in ParserRecord /\ Took(p, q, t) /\ Kept(p, q) /\ t # End
            /\ q.pc = l /\ q.name = p.name /\ q.field = p.field /\ q.fields = p.fields
<1> DEFINE r == Peeked(t, l)
           q == Advanced(t, l)
<1>1. /\ r \in ParserRecord /\ Saw(p, r, t) /\ Kept(p, r)
      /\ r.pc = l /\ r.name = p.name /\ r.field = p.field /\ r.fields = p.fields
  BY PeekedShape
<1>2. q = [r EXCEPT !.pos = @ + 1]
  BY DEF Advanced
<1> HIDE DEF r, q
<1>3. r.pos \in Nat /\ r.pos + 1 \in Nat
  BY <1>1 DEF ParserRecord
<1>4. /\ q \in ParserRecord /\ q.pos = r.pos + 1 /\ q.input = r.input /\ q.open = r.open /\ q.pc = r.pc
      /\ q.name = r.name /\ q.field = r.field /\ q.fields = r.fields
  BY <1>1, <1>2, <1>3 DEF ParserRecord
<1>5. t # End
  BY TokenShape
<1>6. Took(p, q, t)
  BY <1>1, <1>4, <1>5 DEF Saw, Took
<1>7. Kept(p, q)
  BY <1>1, <1>4 DEF Kept
<1> QED BY <1>1, <1>4, <1>5, <1>6, <1>7 DEF q

\* A step that advances or peeks and assigns nothing else.
LEMMA PlainTakes ==
  ASSUME Typed(p), NEW t \in Tokens, Peekable(t), NEW l \in Places, p' = Advanced(t, l)
  PROVE  Takes(t, l, p.name, p.field, p.fields)
  BY AdvancedShape DEF Takes

LEMMA PlainLooks ==
  ASSUME Typed(p), NEW t \in Tokens \cup {End}, Peekable(t), NEW l \in Places, p' = Peeked(t, l)
  PROVE  Looks(t, l, p.field, p.fields)
  BY PeekedShape DEF Looks

\* A step that advances and assigns the field, a step that appends to the name, ...
LEMMA FieldTakes ==
  ASSUME Typed(p), NEW t \in Tokens, Peekable(t), NEW l \in Places, NEW f \in FieldRecord,
         p' = [Advanced(t, l) EXCEPT !.field = f]
  PROVE  Takes(t, l, p.name, f, p.fields)
<1> DEFINE q == Advanced(t, l)
<1>1. /\ q \in ParserRecord /\ Took(p, q, t) /\ Kept(p, q) /\ t # End
      /\ q.pc = l /\ q.name = p.name /\ q.field = p.field /\ q.fields = p.fields
  BY AdvancedShape
<1> HIDE DEF q
<1>2. p' = [q EXCEPT !.field = f]
  BY DEF q
<1>3. /\ p' \in ParserRecord /\ p'.pos = q.pos /\ p'.input = q.input /\ p'.open = q.open /\ p'.pc = q.pc
      /\ p'.name = q.name /\ p'.field = f /\ p'.fields = q.fields
  BY <1>1, <1>2 DEF ParserRecord
<1>4. Took(p, p', t) /\ Kept(p, p')
  BY <1>1, <1>3 DEF Took, Kept
<1> QED BY <1>1, <1>3, <1>4 DEF Takes

LEMMA NameTakes ==
  ASSUME Typed(p), NEW t \in Tokens, Peekable(t), NEW l \in Places, NEW x \in Idents,
         p' = [Advanced(t, l) EXCEPT !.name = Append(@, x)]
  PROVE  Takes(t, l, Append(p.name, x), p.field, p.fields)
<1> DEFINE q == Advanced(t, l)
<1>1. /\ q \in ParserRecord /\ Took(p, q, t) /\ Kept(p, q) /\ t # End
      /\ q.pc = l /\ q.name = p.name /\ q.field = p.field /\ q.fields = p.fields
  BY AdvancedShape
<1> HIDE DEF q
<1>2. p' = [q EXCEPT !.name = Append(@, x)]
  BY DEF q
<1>3. Append(q.name, x) \in Seq(Idents)
  BY <1>1 DEF ParserRecord
<1>4. /\ p' \in ParserRecord /\ p'.pos = q.pos /\ p'.input = q.input /\ p'.open = q.open /\ p'.pc = q.pc
      /\ p'.name = Append(q.name, x) /\ p'.field = q.field /\ p'.fields = q.fields
  BY <1>1, <1>2, <1>3 DEF ParserRecord
<1>5. Took(p, p', t) /\ Kept(p, p')
  BY <1>1, <1>4 DEF Took, Kept
<1> QED BY <1>1, <1>4, <1>5 DEF Takes

\* ... and the two ways to push a field.
LEMMA NoFieldType ==
  NoField \in FieldRecord
<1>1. <<>> \in Seq(Strings)
  OBVIOUS
<1> QED BY <1>1 DEF NoField, FieldRecord, Strategies

LEMMA PushTakes ==
  ASSUME Typed(p), NEW t \in Tokens, Peekable(t), NEW l \in Places,
         p' = [Advanced(t, l) EXCEPT !.fields = Append(@, p.field), !.field = NoField]
  PROVE  Takes(t, l, p.name, NoField, Append(p.fields, p.field))
<1> DEFINE q == Advanced(t, l)
<1>1. /\ q \in ParserRecord /\ Took(p, q, t) /\ Kept(p, q) /\ t # End
      /\ q.pc = l /\ q.name = p.name /\ q.field = p.field /\ q.fields = p.fields
  BY AdvancedShape
<1> HIDE DEF q
<1>2. p' = [q EXCEPT !.fields = Append(@, p.field), !.field = NoField]
  BY DEF q
<1>3. Append(q.fields, p.field) \in Seq(FieldRecord)
  BY <1>1 DEF ParserRecord
<1>4. /\ p' \in ParserRecord /\ p'.pos = q.pos /\ p'.input = q.input /\ p'.open = q.open /\ p'.pc = q.pc
      /\ p'.name = q.name /\ p'.field = NoField /\ p'.fields = Append(q.fields, p.field)
  BY <1>1, <1>2, <1>3, NoFieldType DEF ParserRecord
<1>5. Took(p, p', t) /\ Kept(p, p')
  BY <1>1, <1>4 DEF Took, Kept
<1> QED BY <1>1, <1>4, <1>5 DEF Takes

LEMMA PushLooks ==
  ASSUME Typed(p), NEW t \in Tokens, Peekable(t), NEW l \in Places,
         p' = [Peeked(t, l) EXCEPT !.fields = Append(@, p.field), !.field = NoField]
  PROVE  Looks(t, l, NoField, Append(p.fields, p.field))
<1> DEFINE q == Peeked(t, l)
<1>1. /\ q \in ParserRecord /\ Saw(p, q, t) /\ Kept(p, q)
      /\ q.pc = l /\ q.name = p.name /\ q.field = p.field /\ q.fields = p.fields
  BY PeekedShape
<1> HIDE DEF q
<1>2. p' = [q EXCEPT !.fields = Append(@, p.field), !.field = NoField]
  BY DEF q
<1>3. Append(q.fields, p.field) \in Seq(FieldRecord)
  BY <1>1 DEF ParserRecord
<1>4. /\ p' \in ParserRecord /\ p'.pos = q.pos /\ p'.input = q.input /\ p'.open = q.open /\ p'.pc = q.pc
      /\ p'.name = q.name /\ p'.field = NoField /\ p'.fields = Append(q.fields, p.field)
  BY <1>1, <1>2, <1>3, NoFieldType DEF ParserRecord
<1>5. Saw(p, p', t) /\ Kept(p, p')
  BY <1>1, <1>4 DEF Saw, Kept
<1> QED BY <1>1, <1>4, <1>5 DEF Looks
-----------------------------------------------------------------------------
(* What each action does, in these terms.                                   *)

LEMMA FailedFails ==
  ASSUME NEW kind \in ErrorKinds, p' = Failed(kind)
  PROVE  Fails
  BY DEF Fails

LEMMA UnexpectedFails ==
  ASSUME NEW t, p' = Unexpected(t)
  PROVE  Fails
<1> DEFINE kind == IF t = End THEN "UnexpectedEndOfInput" ELSE "UnexpectedToken"
<1>1. kind \in ErrorKinds /\ p' = Failed(kind)
  BY DEF Unexpected, ErrorKinds
<1> HIDE DEF kind
<1> QED BY <1>1, FailedFails

LEMMA TypeStep ==
  ASSUME Typed(p), NEW t \in Tokens \cup {End}, Peekable(t), ExpectType(t)
  PROVE  /\ t = <<"type">> => Takes(t, "name", p.name, p.field, p.fields)
         /\ t # <<"type">> => Fails
<1>1. CASE t = <<"type">>
  BY <1>1, PlainTakes, KeywordTokens DEF ExpectType, expect, Places
<1>2. CASE t # <<"type">>
  BY <1>2, UnexpectedFails DEF ExpectType, expect
<1> QED BY <1>1, <1>2

LEMMA NameStep ==
  ASSUME Typed(p), NEW t \in Tokens \cup {End}, Peekable(t), ParseName(t)
  PROVE  /\ t[1] = "id" => t \in Tokens /\ t[2] \in Idents /\ Takes(t, "separator", Append(p.name, t[2]), p.field, p.fields)
         /\ t[1] # "id" => Fails
<1>1. CASE t[1] = "id"
  <2>1. t \in Tokens /\ t[2] \in Idents
    BY <1>1, TokenShape DEF End
  <2>2. p' = [Advanced(t, "separator") EXCEPT !.name = Append(@, t[2])]
    BY <1>1 DEF ParseName
  <2>3. "separator" \in Places
    BY DEF Places
  <2> QED BY <1>1, <2>1, <2>2, <2>3, NameTakes
<1>2. CASE t[1] # "id"
  BY <1>2, UnexpectedFails DEF ParseName
<1> QED BY <1>1, <1>2

LEMMA SeparatorStep ==
  ASSUME Typed(p), NEW t \in Tokens \cup {End}, Peekable(t), ParseSeparator(t)
  PROVE  /\ t = <<"::">> => Takes(t, "name", p.name, p.field, p.fields)
         /\ t = <<"{">> => Takes(t, "fields", p.name, p.field, p.fields)
         /\ t \notin {<<"::">>, <<"{">>} => Fails
<1>0. <<"::">> # <<"{">>
  OBVIOUS
<1>1. CASE t = <<"::">>
  BY <1>0, <1>1, PlainTakes, KeywordTokens DEF ParseSeparator, Places
<1>2. CASE t = <<"{">>
  BY <1>0, <1>2, PlainTakes, KeywordTokens DEF ParseSeparator, expect, Places
<1>3. CASE t \notin {<<"::">>, <<"{">>}
  BY <1>3, UnexpectedFails DEF ParseSeparator, expect
<1> QED BY <1>1, <1>2, <1>3

LEMMA FieldNameStep ==
  ASSUME Typed(p), NEW t \in Tokens \cup {End}, Peekable(t), ParseFieldName(t)
  PROVE  /\ t = <<"}">> => Takes(t, "done", p.name, p.field, p.fields)
         /\ t[1] = "id" => /\ t \in Tokens /\ t[2] \in Idents
                           /\ Takes(t, "colon", p.name, [p.field EXCEPT !.name = t[2]], p.fields)
         /\ t # <<"}">> /\ t[1] # "id" => Fails
<1>0. <<"}">>[1] # "id" /\ End[1] # "id" /\ <<"}">> # End /\ p.field \in FieldRecord
  BY DEF End, Typed, ParserRecord
<1>1. CASE t = <<"}">>
  BY <1>1, PlainTakes, KeywordTokens DEF ParseFieldName, expect, Places
<1>2. CASE t[1] = "id"
  <2> DEFINE f == [p.field EXCEPT !.name = t[2]]
  <2>1. t \in Tokens /\ t[2] \in Idents /\ t # End /\ t # <<"}">>
    BY <1>0, <1>2, TokenShape
  <2>2. f \in FieldRecord
    BY <1>0, <2>1 DEF FieldRecord
  <2>3. "colon" \in Places
    BY DEF Places
  <2>4. p' = [Advanced(t, "colon") EXCEPT !.field.name = t[2]]
    BY <1>2, <2>1 DEF ParseFieldName
  <2>5. Advanced(t, "colon").field = p.field
    BY <2>1, <2>3, AdvancedShape
  <2>6. p' = [Advanced(t, "colon") EXCEPT !.field = f]
    BY <2>4, <2>5
  <2> HIDE DEF f
  <2>7. Takes(t, "colon", p.name, f, p.fields)
    BY <2>1, <2>2, <2>3, <2>6, FieldTakes
  <2> QED BY <1>0, <1>2, <2>1, <2>7 DEF f
<1>3. CASE t # <<"}">> /\ t[1] # "id"
  BY <1>3, UnexpectedFails DEF ParseFieldName, expect
<1> QED BY <1>1, <1>2, <1>3

LEMMA ColonStep ==
  ASSUME Typed(p), NEW t \in Tokens \cup {End}, Peekable(t), ExpectColon(t)
  PROVE  /\ t = <<":">> => Takes(t, "kind", p.name, p.field, p.fields)
         /\ t # <<":">> => Fails
<1>1. CASE t = <<":">>
  BY <1>1, PlainTakes, KeywordTokens DEF ExpectColon, expect, Places
<1>2. CASE t # <<":">>
  BY <1>2, UnexpectedFails DEF ExpectColon, expect
<1> QED BY <1>1, <1>2

LEMMA KindStep ==
  ASSUME Typed(p), NEW t \in Tokens \cup {End}, Peekable(t), ParseKind(t)
  PROVE  /\ t \in {<<"bool">>, <<"string">>, <<"number">>} =>
              Takes(t, "conflict", p.name, [p.field EXCEPT !.kind = t[1]], p.fields)
         /\ t = <<"[">> => Takes(t, "bracket", p.name, p.field, p.fields)
         /\ t \notin {<<"bool">>, <<"string">>, <<"number">>, <<"[">>} => Fails
<1>0. p.field \in FieldRecord /\ <<"[">> \notin {<<"bool">>, <<"string">>, <<"number">>}
  BY DEF Typed, ParserRecord
<1>1. CASE t \in {<<"bool">>, <<"string">>, <<"number">>}
  <2> DEFINE f == [p.field EXCEPT !.kind = t[1]]
  <2>1. t \in Tokens
    BY <1>1, KeywordTokens
  <2>2. f \in FieldRecord
    <3>1. t[1] \in Kinds
      BY <1>1 DEF Kinds
    <3> QED BY <1>0, <3>1 DEF FieldRecord
  <2>3. "conflict" \in Places
    BY DEF Places
  <2>4. p' = [Advanced(t, "conflict") EXCEPT !.field.kind = t[1]]
    BY <1>1 DEF ParseKind
  <2>5. Advanced(t, "conflict").field = p.field
    BY <2>1, <2>3, AdvancedShape
  <2>6. p' = [Advanced(t, "conflict") EXCEPT !.field = f]
    BY <2>4, <2>5
  <2> HIDE DEF f
  <2>7. Takes(t, "conflict", p.name, f, p.fields)
    BY <2>1, <2>2, <2>3, <2>6, FieldTakes
  <2> QED BY <1>0, <1>1, <2>7 DEF f
<1>2. CASE t = <<"[">>
  BY <1>0, <1>2, PlainTakes, KeywordTokens DEF ParseKind, Places
<1>3. CASE t \notin {<<"bool">>, <<"string">>, <<"number">>, <<"[">>}
  <2>1. p' = Failed("Custom")
    BY <1>3 DEF ParseKind
  <2> QED BY <1>3, <2>1, FailedFails DEF ErrorKinds
<1> QED BY <1>1, <1>2, <1>3

LEMMA BracketStep ==
  ASSUME Typed(p), NEW t \in Tokens \cup {End}, Peekable(t), ParseBracket(t)
  PROVE  /\ t = <<"string">> => Takes(t, "close", p.name, [p.field EXCEPT !.kind = "array"], p.fields)
         /\ t[1] = "str" => /\ t \in Tokens /\ t[2] \in Strings
                            /\ Takes(t, "values", p.name,
                                     [p.field EXCEPT !.kind = "enum", !.values = <<t[2]>>], p.fields)
         /\ t # <<"string">> /\ t[1] # "str" => Fails
<1>0. p.field \in FieldRecord /\ <<"string">>[1] # "str"
  BY DEF Typed, ParserRecord
<1>1. CASE t = <<"string">>
  <2> DEFINE f == [p.field EXCEPT !.kind = "array"]
  <2>1. t \in Tokens
    BY <1>1, KeywordTokens
  <2>2. f \in FieldRecord
    BY <1>0 DEF FieldRecord, Kinds
  <2>3. "close" \in Places
    BY DEF Places
  <2>4. p' = [Advanced(t, "close") EXCEPT !.field.kind = "array"]
    BY <1>1 DEF ParseBracket
  <2>5. Advanced(t, "close").field = p.field
    BY <2>1, <2>3, AdvancedShape
  <2>6. p' = [Advanced(t, "close") EXCEPT !.field = f]
    BY <2>4, <2>5
  <2> HIDE DEF f
  <2>7. Takes(t, "close", p.name, f, p.fields)
    BY <2>1, <2>2, <2>3, <2>6, FieldTakes
  <2> QED BY <1>0, <1>1, <2>7 DEF f
<1>2. CASE t[1] = "str"
  <2>0. t \in Tokens /\ t[2] \in Strings /\ t # <<"string">>
    BY <1>0, <1>2, TokenShape DEF End
  <2> DEFINE f == [p.field EXCEPT !.kind = "enum", !.values = <<t[2]>>]
  <2>1. t \in Tokens
    BY <1>2, <2>0, KeywordTokens
  <2>2. f \in FieldRecord
    <3>1. <<t[2]>> \in Seq(Strings)
      BY <2>0
    <3> QED BY <1>0, <3>1 DEF FieldRecord, Kinds
  <2>3. "values" \in Places
    BY DEF Places
  <2>4. p' = [Advanced(t, "values") EXCEPT !.field.kind = "enum", !.field.values = <<t[2]>>]
    BY <1>2, <2>0 DEF ParseBracket
  <2>5. Advanced(t, "values").field = p.field
    BY <2>1, <2>3, AdvancedShape
  <2>6. p' = [Advanced(t, "values") EXCEPT !.field = f]
    BY <2>4, <2>5
  <2> HIDE DEF f
  <2>7. Takes(t, "values", p.name, f, p.fields)
    BY <2>1, <2>2, <2>3, <2>6, FieldTakes
  <2> QED BY <1>0, <1>2, <2>0, <2>7 DEF f
<1>3. CASE t # <<"string">> /\ t[1] # "str"
  BY <1>3, UnexpectedFails DEF ParseBracket
<1> QED BY <1>1, <1>2, <1>3

LEMMA CloseStep ==
  ASSUME Typed(p), NEW t \in Tokens \cup {End}, Peekable(t), ExpectClose(t)
  PROVE  /\ t = <<"]">> => Takes(t, "after", p.name, p.field, p.fields)
         /\ t # <<"]">> => Fails
<1>1. CASE t = <<"]">>
  BY <1>1, PlainTakes, KeywordTokens DEF ExpectClose, expect, Places
<1>2. CASE t # <<"]">>
  BY <1>2, UnexpectedFails DEF ExpectClose, expect
<1> QED BY <1>1, <1>2

LEMMA ValuesStep ==
  ASSUME Typed(p), NEW t \in Tokens \cup {End}, Peekable(t), ParseValues(t)
  PROVE  /\ t = <<",">> => Takes(t, "value", p.name, p.field, p.fields)
         /\ t = <<"]">> => Takes(t, "conflict", p.name, p.field, p.fields)
         /\ t \notin {<<",">>, <<"]">>} => Fails
<1>0. <<",">> # <<"]">>
  OBVIOUS
<1>1. CASE t = <<",">>
  BY <1>0, <1>1, PlainTakes, KeywordTokens DEF ParseValues, Places
<1>2. CASE t = <<"]">>
  BY <1>0, <1>2, PlainTakes, KeywordTokens DEF ParseValues, expect, Places
<1>3. CASE t \notin {<<",">>, <<"]">>}
  BY <1>3, UnexpectedFails DEF ParseValues, expect
<1> QED BY <1>1, <1>2, <1>3

LEMMA ValueStep ==
  ASSUME Typed(p), NEW t \in Tokens \cup {End}, Peekable(t), ParseValue(t)
  PROVE  /\ t[1] = "str" => /\ t \in Tokens /\ t[2] \in Strings
                            /\ Takes(t, "values", p.name,
                                     [p.field EXCEPT !.values = Append(p.field.values, t[2])], p.fields)
         /\ t[1] # "str" => Fails
<1>0. p.field \in FieldRecord
  BY DEF Typed, ParserRecord
<1>1. CASE t[1] = "str"
  <2>0. t \in Tokens /\ t[2] \in Strings
    BY <1>1, TokenShape DEF End
  <2> DEFINE f == [p.field EXCEPT !.values = Append(p.field.values, t[2])]
  <2>1. t \in Tokens
    BY <1>1, <2>0, KeywordTokens
  <2>2. f \in FieldRecord
    <3>1. Append(p.field.values, t[2]) \in Seq(Strings)
      <4>1. p.field.values \in Seq(Strings)
        BY <1>0 DEF FieldRecord
      <4> QED BY <2>0, <4>1, AppendProperties
    <3> QED BY <1>0, <3>1 DEF FieldRecord
  <2>3. "values" \in Places
    BY DEF Places
  <2>4. p' = [Advanced(t, "values") EXCEPT !.field.values = Append(@, t[2])]
    BY <1>1, <2>0 DEF ParseValue
  <2>5. Advanced(t, "values").field = p.field
    BY <2>1, <2>3, AdvancedShape
  <2>6. p' = [Advanced(t, "values") EXCEPT !.field = f]
    BY <2>4, <2>5
  <2> HIDE DEF f
  <2>7. Takes(t, "values", p.name, f, p.fields)
    BY <2>1, <2>2, <2>3, <2>6, FieldTakes
  <2> QED BY <1>1, <2>0, <2>7 DEF f
<1>2. CASE t[1] # "str"
  BY <1>2, UnexpectedFails DEF ParseValue
<1> QED BY <1>1, <1>2

LEMMA ConflictStep ==
  ASSUME Typed(p), NEW t \in Tokens \cup {End}, Peekable(t), ParseConflict(t)
  PROVE  /\ t = <<"@">> => Takes(t, "strategy", p.name, p.field, p.fields)
         /\ t # <<"@">> => Looks(t, "equals", p.field, p.fields)
<1>1. CASE t = <<"@">>
  BY <1>1, PlainTakes, KeywordTokens DEF ParseConflict, Places
<1>2. CASE t # <<"@">>
  BY <1>2, PlainLooks DEF ParseConflict, Places
<1> QED BY <1>1, <1>2

LEMMA StrategyStep ==
  ASSUME Typed(p), NEW t \in Tokens \cup {End}, Peekable(t), ParseStrategy(t)
  PROVE  /\ t \in LargestWord(p.field.kind) =>
              Takes(t, IF t = <<"sticky">> THEN "equals" ELSE "wins", p.name,
                    [p.field EXCEPT !.on_conflict = "LargestValue"], p.fields)
         /\ t = <<"agreement">> =>
              Takes(t, "equals", p.name, [p.field EXCEPT !.on_conflict = "Agreement"], p.fields)
         /\ t \notin LargestWord(p.field.kind) /\ t # <<"agreement">> => Fails
<1>0. p.field \in FieldRecord
  BY DEF Typed, ParserRecord
<1>a. <<"agreement">> \notin LargestWord(p.field.kind)
  BY DEF LargestWord
<1>b. ASSUME t \in LargestWord(p.field.kind) PROVE t \in Tokens
  BY <1>b, TokenForms DEF LargestWord, Keywords
<1>1. CASE t \in LargestWord(p.field.kind)
  <2> DEFINE l == IF t = <<"sticky">> THEN "equals" ELSE "wins"
             f == [p.field EXCEPT !.on_conflict = "LargestValue"]
  <2>1. t \in Tokens
    BY <1>1, <1>b
  <2>2. f \in FieldRecord
    BY <1>0 DEF FieldRecord, Strategies
  <2>3. l \in Places
    BY DEF Places
  <2>4. p' = [Advanced(t, l) EXCEPT !.field.on_conflict = "LargestValue"]
    BY <1>1 DEF ParseStrategy
  <2> HIDE DEF l
  <2>5. Advanced(t, l).field = p.field
    BY <2>1, <2>3, AdvancedShape
  <2>6. p' = [Advanced(t, l) EXCEPT !.field = f]
    BY <2>4, <2>5
  <2> HIDE DEF f
  <2>7. Takes(t, l, p.name, f, p.fields)
    BY <2>1, <2>2, <2>3, <2>6, FieldTakes
  <2> QED BY <1>1, <1>a, <2>7 DEF f, l
<1>2. CASE t = <<"agreement">>
  <2> DEFINE f == [p.field EXCEPT !.on_conflict = "Agreement"]
  <2>1. t \in Tokens
    BY <1>2, <1>a, KeywordTokens
  <2>2. f \in FieldRecord
    BY <1>0 DEF FieldRecord, Strategies
  <2>3. "equals" \in Places
    BY DEF Places
  <2>4. p' = [Advanced(t, "equals") EXCEPT !.field.on_conflict = "Agreement"]
    BY <1>2, <1>a DEF ParseStrategy
  <2>5. Advanced(t, "equals").field = p.field
    BY <2>1, <2>3, AdvancedShape
  <2>6. p' = [Advanced(t, "equals") EXCEPT !.field = f]
    BY <2>4, <2>5
  <2> HIDE DEF f
  <2>7. Takes(t, "equals", p.name, f, p.fields)
    BY <2>1, <2>2, <2>3, <2>6, FieldTakes
  <2> QED BY <1>2, <1>a, <2>7 DEF f
<1>3. CASE t \notin LargestWord(p.field.kind) /\ t # <<"agreement">>
  <2>1. p' = Failed("Custom")
    BY <1>3 DEF ParseStrategy
  <2> QED BY <1>3, <2>1, FailedFails DEF ErrorKinds
<1> QED BY <1>1, <1>2, <1>3

LEMMA WinsStep ==
  ASSUME Typed(p), NEW t \in Tokens \cup {End}, Peekable(t), ExpectWins(t)
  PROVE  /\ t = <<"wins">> => Takes(t, "equals", p.name, p.field, p.fields)
         /\ t # <<"wins">> => Fails
<1>1. CASE t = <<"wins">>
  BY <1>1, PlainTakes, KeywordTokens DEF ExpectWins, expect, Places
<1>2. CASE t # <<"wins">>
  BY <1>2, UnexpectedFails DEF ExpectWins, expect
<1> QED BY <1>1, <1>2

LEMMA EqualsStep ==
  ASSUME Typed(p), NEW t \in Tokens \cup {End}, Peekable(t), ParseEquals(t)
  PROVE  /\ t = <<"=">> => Takes(t, "default", p.name, p.field, p.fields)
         /\ t # <<"=">> => Looks(t, "after", p.field, p.fields)
<1>1. CASE t = <<"=">>
  BY <1>1, PlainTakes, KeywordTokens DEF ParseEquals, Places
<1>2. CASE t # <<"=">>
  BY <1>2, PlainLooks DEF ParseEquals, Places
<1> QED BY <1>1, <1>2

LEMMA DefaultStep ==
  ASSUME Typed(p), NEW t \in Tokens \cup {End}, Peekable(t), ParseDefault(t)
  PROVE  /\ t \in LiteralOf(p.field.kind) =>
              Takes(t, "after", p.name, [p.field EXCEPT !.default = t], p.fields)
         /\ t \notin LiteralOf(p.field.kind) => Fails
<1>0. p.field \in FieldRecord
  BY DEF Typed, ParserRecord
<1>1. CASE t \in LiteralOf(p.field.kind)
  <2>0. t \in Tokens
    BY <1>1, LiteralShape
  <2> DEFINE f == [p.field EXCEPT !.default = t]
  <2>1. t \in Tokens
    BY <1>1, <2>0, KeywordTokens
  <2>2. f \in FieldRecord
    BY <1>0, <2>0 DEF FieldRecord
  <2>3. "after" \in Places
    BY DEF Places
  <2>4. p' = [Advanced(t, "after") EXCEPT !.field.default = t]
    BY <1>1, <2>0 DEF ParseDefault
  <2>5. Advanced(t, "after").field = p.field
    BY <2>1, <2>3, AdvancedShape
  <2>6. p' = [Advanced(t, "after") EXCEPT !.field = f]
    BY <2>4, <2>5
  <2> HIDE DEF f
  <2>7. Takes(t, "after", p.name, f, p.fields)
    BY <2>1, <2>2, <2>3, <2>6, FieldTakes
  <2> QED BY <1>1, <2>7 DEF f
<1>2. CASE t \notin LiteralOf(p.field.kind)
  <2>1. p' = Failed("Custom") \/ p' = Unexpected(t)
    BY <1>2 DEF ParseDefault
  <2> QED BY <1>2, <2>1, UnexpectedFails, FailedFails DEF ErrorKinds
<1> QED BY <1>1, <1>2

LEMMA EndFieldStep ==
  ASSUME Typed(p), NEW t \in Tokens \cup {End}, Peekable(t), EndField(t)
  PROVE  /\ p.field.name \notin FieldNames /\ t = <<",">> =>
              Takes(t, "fields", p.name, NoField, Append(p.fields, p.field))
         /\ p.field.name \notin FieldNames /\ t = <<"}">> =>
              Looks(t, "fields", NoField, Append(p.fields, p.field))
         /\ p.field.name \in FieldNames \/ t \notin {<<",">>, <<"}">>} => Fails
<1>0. <<",">> # <<"}">> /\ "fields" \in Places /\ <<",">> \in Tokens /\ <<"}">> \in Tokens
  BY KeywordTokens DEF Places
<1>1. CASE p.field.name \notin FieldNames /\ t = <<",">>
  <2>1. p' = [Advanced(t, "fields") EXCEPT !.fields = Append(@, p.field), !.field = NoField]
    BY <1>1 DEF EndField
  <2> QED BY <1>0, <1>1, <2>1, PushTakes
<1>2. CASE p.field.name \notin FieldNames /\ t = <<"}">>
  <2>1. p' = [Peeked(t, "fields") EXCEPT !.fields = Append(@, p.field), !.field = NoField]
    BY <1>0, <1>2 DEF EndField
  <2> QED BY <1>0, <1>2, <2>1, PushLooks
<1>3. CASE p.field.name \in FieldNames \/ t \notin {<<",">>, <<"}">>}
  <2>1. p' = Failed("DuplicateFieldName") \/ p' = Failed("Custom")
    BY <1>3 DEF EndField
  <2> QED BY <1>3, <2>1, FailedFails DEF ErrorKinds
<1> QED BY <1>1, <1>2, <1>3
-----------------------------------------------------------------------------
(* Every step keeps the parser and its fields well formed.                  *)

LEMMA FailsTyped ==
  ASSUME Fails
  PROVE  Typed(p') /\ p'.pc = "error" /\ p'.pos = 0
<1>1. PICK kind \in ErrorKinds : p' = Failed(kind)
  BY DEF Fails
<1>2. <<>> \in Text /\ <<>> \in Seq(Idents) /\ <<>> \in Seq(FieldRecord) /\ Len(<<>>) = 0
  BY DEF Text
<1>3. /\ p'.pc = "error" /\ p'.input = <<>> /\ p'.pos = 0 /\ p'.name = <<>> /\ p'.fields = <<>>
      /\ p'.field = NoField
  BY <1>1 DEF Failed, NewParser
<1>4. p' \in ParserRecord
  BY <1>1, <1>2, NoFieldType DEF Failed, NewParser, ParserRecord, Places
<1>5. FieldAt("error", NoField)
  BY NoFieldType DEF FieldAt
<1>6. FieldsFit(<<>>)
  BY <1>2 DEF FieldsFit
<1> QED BY <1>2, <1>3, <1>4, <1>5, <1>6 DEF Typed, NameFits

LEMMA TakesTyped ==
  ASSUME Typed(p), NEW t, NEW l, NEW ns, NEW f, NEW fs, Takes(t, l, ns, f, fs),
         FieldAt(l, f), FieldsFit(fs), NameFits(l, ns, fs)
  PROVE  Typed(p')
  BY DEF Takes, Took, Typed

LEMMA LooksTyped ==
  ASSUME Typed(p), NEW t, NEW l, NEW f, NEW fs, Looks(t, l, f, fs),
         FieldAt(l, f), FieldsFit(fs), NameFits(l, p.name, fs)
  PROVE  Typed(p')
  BY DEF Looks, Saw, Typed

\* The push of a field that is complete and has a name of its own.
LEMMA PushFits ==
  ASSUME NEW fs, FieldsFit(fs), NEW f \in FieldRecord, FieldOK(f),
         f.name \notin {fs[j].name : j \in DOMAIN fs}
  PROVE  FieldsFit(Append(fs, f))
<1> DEFINE n == Len(fs)
           more == Append(fs, f)
<1>1. fs \in Seq(FieldRecord) /\ n \in Nat /\ DOMAIN fs = 1..n
  BY DEF FieldsFit
<1>2. /\ more \in Seq(FieldRecord) /\ DOMAIN more = 1..(n + 1) /\ more[n + 1] = f
      /\ \A j \in 1..n : more[j] = fs[j]
  BY <1>1
<1>3. \A j \in 1..(n + 1) : j \in 1..n \/ j = n + 1
  BY <1>1
<1> HIDE DEF n, more
<1>4. \A j \in 1..(n + 1) : FieldOK(more[j])
  BY <1>1, <1>2, <1>3 DEF FieldsFit
<1>5. ASSUME NEW j \in 1..(n + 1), NEW k \in 1..(n + 1), more[j].name = more[k].name PROVE j = k
  <2>1. CASE j \in 1..n /\ k \in 1..n
    BY <1>1, <1>2, <1>5, <2>1 DEF FieldsFit
  <2>2. CASE j = n + 1 /\ k \in 1..n
    BY <1>1, <1>2, <1>5, <2>2
  <2>3. CASE j \in 1..n /\ k = n + 1
    BY <1>1, <1>2, <1>5, <2>3
  <2> QED BY <1>3, <2>1, <2>2, <2>3
<1> QED BY <1>2, <1>4, <1>5 DEF FieldsFit, more

LEMMA StepTyped ==
  ASSUME Typed(p), NEW t \in Tokens \cup {End}, ParseToken(t)
  PROVE  Typed(p')
<1> DEFINE f == p.field
<1>0. /\ Peekable(t) /\ f \in FieldRecord /\ FieldAt(p.pc, f) /\ FieldsFit(p.fields)
      /\ NameFits(p.pc, p.name, p.fields) /\ p.name \in Seq(Idents)
  BY DEF ParseToken, Typed, ParserRecord
<1>1. CASE ExpectType(t)
  <2>1. p.pc = "type"
    BY <1>1 DEF ExpectType
  <2>2. FieldAt("name", f) /\ NameFits("name", p.name, p.fields)
    BY <1>0, <2>1 DEF FieldAt, NameFits
  <2> QED BY <1>0, <1>1, <2>2, TypeStep, TakesTyped, FailsTyped
<1>2. CASE ParseName(t)
  <2>1. p.pc = "name"
    BY <1>2 DEF ParseName
  <2>2. t[1] = "id" => FieldAt("separator", f) /\ NameFits("separator", Append(p.name, t[2]), p.fields)
    <3>1. t[1] = "id" => t[2] \in Idents
      BY <1>0, <1>2, NameStep
    <3>2. t[1] = "id" => Append(p.name, t[2]) # <<>>
      BY <1>0, <3>1, AppendProperties
    <3> QED BY <1>0, <2>1, <3>2 DEF FieldAt, NameFits
  <2> QED BY <1>0, <1>2, <2>2, NameStep, TakesTyped, FailsTyped
<1>3. CASE ParseSeparator(t)
  <2>1. p.pc = "separator"
    BY <1>3 DEF ParseSeparator
  <2>2. /\ FieldAt("name", f) /\ NameFits("name", p.name, p.fields)
        /\ FieldAt("fields", f) /\ NameFits("fields", p.name, p.fields)
    BY <1>0, <2>1 DEF FieldAt, NameFits
  <2>3. Fails \/ \E l \in {"name", "fields"} : Takes(t, l, p.name, f, p.fields)
    BY <1>0, <1>3, SeparatorStep
  <2> QED BY <1>0, <2>2, <2>3, TakesTyped, FailsTyped
<1>4. CASE ParseFieldName(t)
  <2>1. p.pc = "fields"
    BY <1>4 DEF ParseFieldName
  <2>2. FieldAt("done", f) /\ NameFits("done", p.name, p.fields) /\ NameFits("colon", p.name, p.fields)
    BY <1>0, <2>1 DEF FieldAt, NameFits
  <2>3. t[1] = "id" => FieldAt("colon", [f EXCEPT !.name = t[2]])
    <3>1. t[1] = "id" => t[2] \in Idents
      BY <1>0, <1>4, FieldNameStep
    <3>2. f = NoField
      BY <1>0, <2>1 DEF FieldAt
    <3> DEFINE g == [f EXCEPT !.name = t[2]]
    <3>3. f.kind = "none" /\ f.values = <<>> /\ f.on_conflict = "Default" /\ f.default = None
      <4>1. /\ NoField.kind = "none" /\ NoField.values = <<>> /\ NoField.on_conflict = "Default"
            /\ NoField.default = None
        BY DEF NoField
      <4> QED BY <3>2, <4>1
    <3>4. t[1] = "id" => /\ g \in FieldRecord /\ g.name = t[2] /\ g.kind = f.kind
                         /\ g.values = f.values /\ g.on_conflict = f.on_conflict /\ g.default = f.default
      BY <1>0, <3>1 DEF FieldRecord
    <3> HIDE DEF g
    <3>5. t[1] = "id" => FieldAt("colon", g)
      BY <3>1, <3>3, <3>4 DEF FieldAt, Started
    <3> QED BY <3>5 DEF g
  <2>4. Fails \/ Takes(t, "done", p.name, f, p.fields)
          \/ (t[1] = "id" /\ Takes(t, "colon", p.name, [f EXCEPT !.name = t[2]], p.fields))
    BY <1>0, <1>4, FieldNameStep
  <2> QED BY <1>0, <2>2, <2>3, <2>4, TakesTyped, FailsTyped
<1>5. CASE ExpectColon(t)
  <2>1. p.pc = "colon"
    BY <1>5 DEF ExpectColon
  <2>2. FieldAt("kind", f) /\ NameFits("kind", p.name, p.fields)
    BY <1>0, <2>1 DEF FieldAt, NameFits
  <2> QED BY <1>0, <1>5, <2>2, ColonStep, TakesTyped, FailsTyped
<1>6. CASE ParseKind(t)
  <2>1. p.pc = "kind"
    BY <1>6 DEF ParseKind
  <2>2. /\ FieldAt("bracket", f) /\ NameFits("bracket", p.name, p.fields)
        /\ NameFits("conflict", p.name, p.fields)
    BY <1>0, <2>1 DEF FieldAt, NameFits
  <2>3. ASSUME NEW k \in {"bool", "string", "number"} PROVE FieldAt("conflict", [f EXCEPT !.kind = k])
    <3> DEFINE g == [f EXCEPT !.kind = k]
    <3>1. Started(f) /\ f.values = <<>> /\ f.on_conflict = "Default"
      BY <1>0, <2>1 DEF FieldAt
    <3>2. g \in FieldRecord /\ g.kind = k /\ g.name = f.name /\ g.default = f.default
          /\ g.values = <<>> /\ g.on_conflict = "Default"
      BY <1>0, <3>1 DEF FieldRecord, Kinds
    <3> HIDE DEF g
    <3>3. FieldOK(g) /\ Started(g)
      BY <3>1, <3>2 DEF FieldOK, Started, FieldRecord
    <3>4. FieldAt("conflict", g)
      BY <3>2, <3>3 DEF FieldAt
    <3> QED BY <3>4 DEF g
  <2>4. Fails \/ Takes(t, "bracket", p.name, f, p.fields)
          \/ \E k \in {"bool", "string", "number"} : Takes(t, "conflict", p.name, [f EXCEPT !.kind = k], p.fields)
    <3>1. t \in {<<"bool">>, <<"string">>, <<"number">>} => t[1] \in {"bool", "string", "number"}
      OBVIOUS
    <3> QED BY <1>0, <1>6, <3>1, KindStep
  <2> QED BY <1>0, <2>2, <2>3, <2>4, TakesTyped, FailsTyped
<1>7. CASE ParseBracket(t)
  <2>1. p.pc = "bracket"
    BY <1>7 DEF ParseBracket
  <2>2. NameFits("close", p.name, p.fields) /\ NameFits("values", p.name, p.fields)
    BY <1>0, <2>1 DEF NameFits
  <2>3. FieldAt("close", [f EXCEPT !.kind = "array"])
    BY <1>0, <2>1 DEF FieldAt, FieldRecord, Kinds, Started
  <2>4. ASSUME NEW v \in Strings PROVE FieldAt("values", [f EXCEPT !.kind = "enum", !.values = <<v>>])
    <3>1. <<v>> \in Seq(Strings) /\ <<v>> # <<>>
      OBVIOUS
    <3> QED BY <1>0, <2>1, <3>1 DEF FieldAt, FieldRecord, Kinds, Started
  <2>5. Fails \/ Takes(t, "close", p.name, [f EXCEPT !.kind = "array"], p.fields)
          \/ \E v \in Strings : Takes(t, "values", p.name, [f EXCEPT !.kind = "enum", !.values = <<v>>], p.fields)
    BY <1>0, <1>7, BracketStep
  <2> QED BY <1>0, <2>2, <2>3, <2>4, <2>5, TakesTyped, FailsTyped
<1>8. CASE ExpectClose(t)
  <2>1. p.pc = "close"
    BY <1>8 DEF ExpectClose
  <2>2. FieldAt("after", f) /\ NameFits("after", p.name, p.fields)
    BY <1>0, <2>1 DEF FieldAt, NameFits, Started, FieldOK, FieldRecord
  <2> QED BY <1>0, <1>8, <2>2, CloseStep, TakesTyped, FailsTyped
<1>9. CASE ParseValues(t)
  <2>1. p.pc = "values"
    BY <1>9 DEF ParseValues
  <2>2. /\ FieldAt("value", f) /\ NameFits("value", p.name, p.fields)
        /\ FieldAt("conflict", f) /\ NameFits("conflict", p.name, p.fields)
    BY <1>0, <2>1 DEF FieldAt, NameFits, Started, FieldOK, FieldRecord
  <2>3. Fails \/ \E l \in {"value", "conflict"} : Takes(t, l, p.name, f, p.fields)
    BY <1>0, <1>9, ValuesStep
  <2> QED BY <1>0, <2>2, <2>3, TakesTyped, FailsTyped
<1>10. CASE ParseValue(t)
  <2>1. p.pc = "value"
    BY <1>10 DEF ParseValue
  <2>2. NameFits("values", p.name, p.fields)
    BY <1>0, <2>1 DEF NameFits
  <2>3. ASSUME NEW v \in Strings PROVE FieldAt("values", [f EXCEPT !.values = Append(f.values, v)])
    <3>1. f.values \in Seq(Strings)
      BY <1>0 DEF FieldRecord
    <3>2. Append(f.values, v) \in Seq(Strings) /\ Append(f.values, v) # <<>>
      BY <3>1, AppendProperties
    <3> QED BY <1>0, <2>1, <3>2 DEF FieldAt, FieldRecord, Started
  <2>4. Fails \/ \E v \in Strings : Takes(t, "values", p.name, [f EXCEPT !.values = Append(f.values, v)], p.fields)
    BY <1>0, <1>10, ValueStep
  <2> QED BY <1>0, <2>2, <2>3, <2>4, TakesTyped, FailsTyped
<1>11. CASE ParseConflict(t)
  <2>1. p.pc = "conflict"
    BY <1>11 DEF ParseConflict
  <2>2. /\ FieldAt("strategy", f) /\ NameFits("strategy", p.name, p.fields)
        /\ FieldAt("equals", f) /\ NameFits("equals", p.name, p.fields)
    BY <1>0, <2>1 DEF FieldAt, NameFits
  <2> QED BY <1>0, <1>11, <2>2, ConflictStep, TakesTyped, LooksTyped
<1>12. CASE ParseStrategy(t)
  <2>1. p.pc = "strategy"
    BY <1>12 DEF ParseStrategy
  <2>2. NameFits("wins", p.name, p.fields) /\ NameFits("equals", p.name, p.fields)
    BY <1>0, <2>1 DEF NameFits
  <2>3. ASSUME NEW c \in {"Agreement", "LargestValue"}
        PROVE  /\ FieldAt("equals", [f EXCEPT !.on_conflict = c])
               /\ f.kind # "bool" /\ c = "LargestValue" => FieldAt("wins", [f EXCEPT !.on_conflict = c])
    <3> DEFINE g == [f EXCEPT !.on_conflict = c]
    <3>1. FieldOK(f) /\ Started(f) /\ f.kind # "array"
      BY <1>0, <2>1 DEF FieldAt
    <3>2. g \in FieldRecord /\ g.kind = f.kind /\ g.name = f.name /\ g.default = f.default
          /\ g.values = f.values /\ g.on_conflict = c
      BY <1>0 DEF FieldRecord, Strategies
    <3> HIDE DEF g
    <3>3. FieldOK(g) /\ Started(g)
      BY <3>1, <3>2 DEF FieldOK, Started
    <3>4. FieldAt("equals", g) /\ (f.kind # "bool" /\ c = "LargestValue" => FieldAt("wins", g))
      BY <3>1, <3>2, <3>3 DEF FieldAt
    <3> QED BY <3>4 DEF g
  <2>4. t \in LargestWord(f.kind) /\ t # <<"sticky">> => f.kind # "bool"
    BY DEF LargestWord
  <2>5. \/ Fails
        \/ \E c \in {"Agreement", "LargestValue"} : Takes(t, "equals", p.name, [f EXCEPT !.on_conflict = c], p.fields)
        \/ f.kind # "bool" /\ Takes(t, "wins", p.name, [f EXCEPT !.on_conflict = "LargestValue"], p.fields)
    BY <1>0, <1>12, <2>4, StrategyStep
  <2> QED BY <1>0, <2>2, <2>3, <2>5, TakesTyped, FailsTyped
<1>13. CASE ExpectWins(t)
  <2>1. p.pc = "wins"
    BY <1>13 DEF ExpectWins
  <2>2. FieldAt("equals", f) /\ NameFits("equals", p.name, p.fields)
    BY <1>0, <2>1 DEF FieldAt, NameFits
  <2> QED BY <1>0, <1>13, <2>2, WinsStep, TakesTyped, FailsTyped
<1>14. CASE ParseEquals(t)
  <2>1. p.pc = "equals"
    BY <1>14 DEF ParseEquals
  <2>2. /\ FieldAt("default", f) /\ NameFits("default", p.name, p.fields)
        /\ FieldAt("after", f) /\ NameFits("after", p.name, p.fields)
    BY <1>0, <2>1 DEF FieldAt, NameFits
  <2> QED BY <1>0, <1>14, <2>2, EqualsStep, TakesTyped, LooksTyped
<1>15. CASE ParseDefault(t)
  <2>1. p.pc = "default"
    BY <1>15 DEF ParseDefault
  <2>2. NameFits("after", p.name, p.fields)
    BY <1>0, <2>1 DEF NameFits
  <2>3. t \in LiteralOf(f.kind) => FieldAt("after", [f EXCEPT !.default = t])
    <3>1. t \in LiteralOf(f.kind) => t \in Tokens
      BY LiteralShape
    <3>2. FieldOK(f) /\ f.kind # "array"
      BY <1>0, <2>1 DEF FieldAt
    <3> DEFINE g == [f EXCEPT !.default = t]
    <3>3. t \in LiteralOf(f.kind) =>
            /\ g \in FieldRecord /\ g.kind = f.kind /\ g.name = f.name /\ g.default = t
            /\ g.values = f.values /\ g.on_conflict = f.on_conflict
      BY <1>0, <3>1 DEF FieldRecord
    <3> HIDE DEF g
    <3>4. t \in LiteralOf(f.kind) => FieldOK(g)
      BY <3>2, <3>3 DEF FieldOK
    <3>5. t \in LiteralOf(f.kind) => FieldAt("after", g)
      BY <3>3, <3>4 DEF FieldAt
    <3> QED BY <3>5 DEF g
  <2> QED BY <1>0, <1>15, <2>2, <2>3, DefaultStep, TakesTyped, FailsTyped
<1>16. CASE EndField(t)
  <2>1. p.pc = "after"
    BY <1>16 DEF EndField
  <2>2. FieldAt("fields", NoField) /\ NameFits("fields", p.name, Append(p.fields, f))
    BY <1>0, <2>1, NoFieldType DEF FieldAt, NameFits
  <2>3. f.name \notin FieldNames => FieldsFit(Append(p.fields, f))
    BY <1>0, <2>1, PushFits DEF FieldAt, FieldNames
  <2> QED BY <1>0, <1>16, <2>2, <2>3, EndFieldStep, TakesTyped, LooksTyped, FailsTyped
<1> QED
  BY <1>1, <1>2, <1>3, <1>4, <1>5, <1>6, <1>7, <1>8, <1>9, <1>10, <1>11, <1>12, <1>13, <1>14, <1>15, <1>16
     DEF ParseToken
-----------------------------------------------------------------------------
(* The whole text of a type, and what the lexer makes of it.                *)

AllOK(fs) == fs \in Seq(FieldRecord) /\ \A j \in DOMAIN fs : FieldOK(fs[j])
TypeFits(type) == type.name \in Seq(Idents) /\ type.name # <<>> /\ AllOK(type.fields)

FieldWords(fs) == [j \in DOMAIN fs |-> Append(DisplayField(fs[j]), <<",">>)]
FieldsText(fs) == FlattenSeq(FieldWords(fs))
Before(ns, fs) == Append(NameText(ns), <<"{">>) \o FieldsText(fs)

LEMMA FieldWordsType ==
  ASSUME NEW fs, AllOK(fs)
  PROVE  FieldWords(fs) \in [1..Len(fs) -> Seq(Tokens)] /\ FieldWords(fs) \in Seq(Seq(Tokens)) /\ FieldsText(fs) \in Text
<1>1. Len(fs) \in Nat /\ DOMAIN fs = 1..Len(fs)
  BY DEF AllOK
<1>2. ASSUME NEW j \in 1..Len(fs) PROVE Append(DisplayField(fs[j]), <<",">>) \in Seq(Tokens)
  <2>1. DisplayField(fs[j]) \in Text
    BY <1>1, DefaultWords DEF AllOK
  <2> QED BY <2>1, TextOne, KeywordTokens DEF Text
<1>3. FieldWords(fs) \in [1..Len(fs) -> Seq(Tokens)]
  BY <1>1, <1>2 DEF FieldWords
<1>4. FieldWords(fs) \in Seq(Seq(Tokens))
  BY <1>1, <1>3
<1> QED BY <1>3, <1>4, FlattenType DEF FieldsText, Text

LEMMA AllOKAppend ==
  ASSUME NEW fs, AllOK(fs), NEW f \in FieldRecord, FieldOK(f)
  PROVE  AllOK(Append(fs, f))
<1> DEFINE n == Len(fs)
           more == Append(fs, f)
<1>1. fs \in Seq(FieldRecord) /\ n \in Nat /\ DOMAIN fs = 1..n
  BY DEF AllOK
<1>2. /\ more \in Seq(FieldRecord) /\ DOMAIN more = 1..(n + 1) /\ more[n + 1] = f
      /\ \A j \in 1..n : more[j] = fs[j]
  BY <1>1
<1>3. \A j \in 1..(n + 1) : j \in 1..n \/ j = n + 1
  BY <1>1
<1> HIDE DEF n, more
<1>4. \A j \in 1..(n + 1) : FieldOK(more[j])
  BY <1>1, <1>2, <1>3 DEF AllOK
<1> QED BY <1>2, <1>4 DEF AllOK, more

LEMMA FieldsTextMore ==
  ASSUME NEW fs, AllOK(fs), NEW f \in FieldRecord, FieldOK(f)
  PROVE  FieldsText(Append(fs, f)) = FieldsText(fs) \o Append(DisplayField(f), <<",">>)
<1> DEFINE n == Len(fs)
           more == Append(fs, f)
           w == Append(DisplayField(f), <<",">>)
<1>1. fs \in Seq(FieldRecord) /\ n \in Nat /\ DOMAIN fs = 1..n
  BY DEF AllOK
<1>2. /\ more \in Seq(FieldRecord) /\ DOMAIN more = 1..(n + 1) /\ more[n + 1] = f
      /\ \A j \in 1..n : more[j] = fs[j] /\ Len(more) = n + 1
  BY <1>1
<1>3. AllOK(more)
  BY AllOKAppend
<1> HIDE DEF n, more
<1>4. FieldWords(fs) \in [1..n -> Seq(Tokens)] /\ FieldWords(fs) \in Seq(Seq(Tokens))
  BY FieldWordsType DEF n
<1>5. FieldWords(more) \in [1..(n + 1) -> Seq(Tokens)]
  <2>1. Len(more) = n + 1
    BY <1>1, <1>2, <1>3 DEF more, n
  <2> QED BY <1>3, <2>1, FieldWordsType
<1>6. FieldWords(more)[n + 1] = w /\ \A j \in 1..n : FieldWords(more)[j] = FieldWords(fs)[j]
  <2>1. n + 1 \in 1..(n + 1) /\ \A j \in 1..n : j \in 1..(n + 1)
    BY <1>1
  <2> QED BY <1>1, <1>2, <2>1 DEF FieldWords
<1>7. w \in Seq(Tokens)
  <2>1. n + 1 \in 1..(n + 1)
    BY <1>1
  <2> QED BY <1>5, <1>6, <2>1
<1> HIDE DEF w
<1>8. FieldWords(more) = Append(FieldWords(fs), w)
  BY <1>1, <1>4, <1>5, <1>6, FunctionAppend
<1>9. FlattenSeq(Append(FieldWords(fs), w)) = FlattenSeq(FieldWords(fs)) \o w
  BY <1>4, <1>7, FlattenAppend
<1> QED BY <1>8, <1>9 DEF FieldsText, more, w

LEMMA NameTextType ==
  ASSUME NEW ns \in Seq(Idents), ns # <<>>
  PROVE  NameText(ns) \in Text /\ Append(NameText(ns), <<"{">>) \in Text
<1>1. PICK r \in Seq(Idents), x \in Idents : ns = Append(r, x)
  BY SeqSnoc
<1>2. NameText(ns) \in Text
  BY <1>1, NameTextMore
<1> QED BY <1>2, TextOne, KeywordTokens

LEMMA BeforeType ==
  ASSUME NEW ns \in Seq(Idents), ns # <<>>, NEW fs, AllOK(fs)
  PROVE  Before(ns, fs) \in Text /\ Append(Before(ns, fs), <<"}">>) \in Text
<1>1. Append(NameText(ns), <<"{">>) \in Text /\ FieldsText(fs) \in Text
  BY NameTextType, FieldWordsType
<1>2. Before(ns, fs) \in Text
  BY <1>1, TextCat DEF Before
<1> QED BY <1>2, TextOne, KeywordTokens

\* A field more in front of what follows.
LEMMA BeforeMore ==
  ASSUME NEW ns \in Seq(Idents), ns # <<>>, NEW fs, AllOK(fs), NEW f \in FieldRecord, FieldOK(f)
  PROVE  /\ Before(ns, fs) \o DisplayField(f) \in Text
         /\ Before(ns, Append(fs, f)) = Append(Before(ns, fs) \o DisplayField(f), <<",">>)
<1> DEFINE a == Append(NameText(ns), <<"{">>)
           b == FieldsText(fs)
           d == DisplayField(f)
           w == Append(d, <<",">>)
<1>1. a \in Text /\ b \in Text /\ d \in Text /\ a \o b \in Text
  BY NameTextType, FieldWordsType, DefaultWords, BeforeType DEF Before
<1>2. FieldsText(Append(fs, f)) = b \o w
  BY FieldsTextMore
<1> HIDE DEF a, b, d, w
<1>3. w \in Text
  BY <1>1, TextOne, KeywordTokens DEF w
<1>4. a \o (b \o w) = (a \o b) \o w
  BY <1>1, <1>3, TextAssociative, ZenonT(60)
<1>5. (a \o b) \o w = Append((a \o b) \o d, <<",">>)
  BY <1>1, TextSnoc, KeywordTokens DEF w
<1>6. (a \o b) \o d \in Text
  BY <1>1, TextCat
<1> QED BY <1>2, <1>4, <1>5, <1>6 DEF Before, a, b, d

LEMMA DisplayText ==
  ASSUME NEW type, TypeFits(type)
  PROVE  /\ Display(type) = Append(Before(type.name, type.fields), <<"}">>)
         /\ Display(type) \in Text
<1> DEFINE a == NameText(type.name)
           b == FieldsText(type.fields)
<1>1. a \in Text /\ b \in Text /\ Before(type.name, type.fields) \in Text
  BY NameTextType, FieldWordsType, BeforeType DEF TypeFits
<1>2. Display(type) = ((a \o <<<<"{">>>>) \o b) \o <<<<"}">>>>
  BY DEF Display, NameText, NameWords, FieldsText, FieldWords
<1>3. a \o <<<<"{">>>> = Append(a, <<"{">>)
  BY <1>1, TextOne, KeywordTokens
<1>4. /\ Before(type.name, type.fields) \o <<<<"}">>>> = Append(Before(type.name, type.fields), <<"}">>)
      /\ Append(Before(type.name, type.fields), <<"}">>) \in Text
  BY <1>1, TextOne, KeywordTokens
<1> QED BY <1>2, <1>3, <1>4 DEF Before

LEMMA RelexedToken ==
  ASSUME NEW t \in Tokens
  PROVE  /\ Relexed(t) \in Tokens \cup {Bad}
         /\ Relexed(t) = Bad <=> (t[1] = "str" /\ Garbled(t[2])) \/ t = <<"num", "-inf">>
         /\ t[1] = "str" /\ ~Garbled(t[2]) => Relexed(t) = t
         /\ t = <<"num", "inf">> => Relexed(t) = <<"id", "inf">>
         /\ t[1] # "str" /\ t \notin {<<"num", "inf">>, <<"num", "-inf">>} => Relexed(t) = t
<1>1. CASE t[1] = "str"
  <2>1. t = <<"str", t[2]>> /\ t[2] \in Strings
    BY <1>1, TokenShape
  <2>2. Relexed(t) = read_string_literal(debug(t[2]))
    BY <1>1 DEF Relexed
  <2>3. read_string_literal(debug(t[2])) = IF Garbled(t[2]) THEN Bad ELSE <<"str", t[2]>>
    BY <2>1, StringsAreText, LiteralRoundTrip
  <2>4. t # Bad /\ t # <<"num", "inf">> /\ t # <<"num", "-inf">>
    BY <1>1, TokenShape
  <2> QED BY <1>1, <2>1, <2>2, <2>3, <2>4
<1>2. CASE t = <<"num", "inf">>
  <2>1. t[1] = "num" /\ t[2] = "inf" /\ t # <<"num", "-inf">>
    BY <1>2
  <2>2. "inf" \in Numbers
    BY <2>1, TokenShape
  <2>3. Relexed(t) = <<"id", "inf">>
    BY <1>2, <2>1 DEF Relexed
  <2>4. <<"id", "inf">> \in Tokens
    BY <2>2, InfIsIdent, TokenForms
  <2>5. <<"id", "inf">> # Bad
    BY <2>4, TokenShape
  <2> QED BY <1>2, <2>1, <2>3, <2>4, <2>5
<1>3. CASE t = <<"num", "-inf">>
  <2>1. t[1] = "num" /\ t # <<"num", "inf">>
    BY <1>3
  <2>2. Relexed(t) = Bad
    BY <1>3, <2>1 DEF Relexed
  <2> QED BY <1>3, <2>1, <2>2
<1>4. CASE t[1] # "str" /\ t \notin {<<"num", "inf">>, <<"num", "-inf">>}
  <2>1. Relexed(t) = t
    BY <1>4 DEF Relexed
  <2> QED BY <1>4, <2>1, TokenShape
<1> QED BY <1>1, <1>2, <1>3, <1>4

Lexed(type) == [j \in DOMAIN Display(type) |-> Relexed(Display(type)[j])]

LEMMA LexedShape ==
  ASSUME NEW type, TypeFits(type)
  PROVE  /\ Len(Display(type)) \in Nat /\ Len(Lexed(type)) = Len(Display(type))
         /\ \A j \in 1..Len(Display(type)) : /\ Display(type)[j] \in Tokens
                                             /\ Lexed(type)[j] = Relexed(Display(type)[j])
         /\ ~Contains(Lexed(type), Bad) => Lexed(type) \in Text
<1> DEFINE d == Display(type)
           n == Len(d)
           x == Lexed(type)
<1>1. d \in Seq(Tokens)
  BY DisplayText DEF Text
<1>2. n \in Nat /\ DOMAIN d = 1..n /\ \A j \in 1..n : d[j] \in Tokens
  BY <1>1
<1> HIDE DEF d
<1>3. \A j \in 1..n : Relexed(d[j]) \in Tokens \cup {Bad}
  BY <1>2, RelexedToken
<1>4. x = [j \in 1..n |-> Relexed(d[j])]
  BY <1>2 DEF Lexed, d
<1> HIDE DEF n, x
<1>5. x \in [1..n -> Tokens \cup {Bad}] /\ \A j \in 1..n : x[j] = Relexed(d[j])
  BY <1>3, <1>4
<1>6. Len(x) = n
  BY <1>2, <1>5
<1>7. ~Contains(x, Bad) => x \in Seq(Tokens)
  <2>1. ~Contains(x, Bad) => \A j \in 1..n : x[j] # Bad
    BY <1>6 DEF Contains
  <2>2. ~Contains(x, Bad) => x \in [1..n -> Tokens]
    BY <1>5, <2>1
  <2> QED BY <1>2, <2>2
<1> QED BY <1>2, <1>5, <1>6, <1>7 DEF d, n, x, Text
-----------------------------------------------------------------------------
(* The type invariant.                                                      *)

OriginalFits ==
  \/ original = NoType
  \/ /\ original # NoType /\ original = [name |-> original.name, fields |-> original.fields]
     /\ TypeFits(original)

WellFormed == Typed(p) /\ OriginalFits

LEMMA NewParserTyped ==
  ASSUME NEW tokens \in Text
  PROVE  /\ Typed(NewParser(tokens))
         /\ Typed([NewParser(tokens) EXCEPT !.open = TRUE])
<1>1. /\ <<>> \in Seq(Idents) /\ <<>> \in Seq(FieldRecord) /\ Len(tokens) \in Nat
      /\ tokens \in Seq(Tokens)
  BY DEF Text
<1>2. FieldAt("type", NoField) /\ FieldsFit(<<>>) /\ NameFits("type", <<>>, <<>>)
  BY <1>1, NoFieldType DEF FieldAt, FieldsFit, NameFits
<1>3. ASSUME NEW q \in ParserRecord, q.pos = 0, q.input = tokens, q.pc = "type", q.field = NoField,
             q.fields = <<>>, q.name = <<>>
      PROVE  Typed(q)
  BY <1>1, <1>2, <1>3 DEF Typed
<1> DEFINE r == NewParser(tokens)
           q == [r EXCEPT !.open = TRUE]
<1>4. /\ r \in ParserRecord /\ r.pos = 0 /\ r.input = tokens /\ r.pc = "type" /\ r.field = NoField
      /\ r.fields = <<>> /\ r.name = <<>>
  BY <1>1, NoFieldType DEF NewParser, ParserRecord, Places, ErrorKinds
<1> HIDE DEF r
<1>5. /\ q \in ParserRecord /\ q.pos = 0 /\ q.input = tokens /\ q.pc = "type" /\ q.field = NoField
      /\ q.fields = <<>> /\ q.name = <<>>
  BY <1>4 DEF ParserRecord
<1>6. Typed(r) /\ Typed(q)
  <2> HIDE DEF q
  <2> QED BY <1>3, <1>4, <1>5
<1> QED BY <1>6 DEF r

LEMMA FieldsAllOK ==
  ASSUME NEW fs, FieldsFit(fs)
  PROVE  AllOK(fs)
  BY DEF FieldsFit, AllOK

LEMMA PolicyTypeFits ==
  ASSUME Typed(p), p.pc \notin {"type", "error", "name"}
  PROVE  TypeFits(PolicyType) /\ PolicyType.name = p.name /\ PolicyType.fields = p.fields
<1>1. p.name \in Seq(Idents) /\ p.name # <<>> /\ AllOK(p.fields)
  BY FieldsAllOK DEF Typed, NameFits, ParserRecord
<1> QED BY <1>1 DEF PolicyType, TypeFits

\* The text is read again from its start, or not at all.
LEMMA DisplayedStep ==
  ASSUME WellFormed, ParseDisplayed
  PROVE  /\ p.pc = "done" /\ original = NoType /\ TypeFits(PolicyType) /\ original' = PolicyType
         /\ Contains(Lexed(PolicyType), Bad) => Fails
         /\ ~Contains(Lexed(PolicyType), Bad) =>
              Lexed(PolicyType) \in Text /\ p' = NewParser(Lexed(PolicyType))
<1>1. p.pc = "done" /\ original = NoType /\ original' = PolicyType
  BY DEF ParseDisplayed
<1>2. TypeFits(PolicyType)
  BY <1>1, PolicyTypeFits DEF WellFormed
<1>3. p' = IF Contains(Lexed(PolicyType), Bad) THEN Failed("InvalidLiteral")
           ELSE NewParser(Lexed(PolicyType))
  BY DEF ParseDisplayed, Lexed
<1>4. Contains(Lexed(PolicyType), Bad) => Fails
  BY <1>3, FailedFails DEF ErrorKinds
<1> QED BY <1>1, <1>2, <1>3, <1>4, LexedShape

LEMMA WellFormedInit ==
  Init => WellFormed
<1>1. <<>> \in Text
  BY DEF Text
<1> QED BY <1>1, NewParserTyped DEF Init, WellFormed, OriginalFits

LEMMA WellFormedStep ==
  ASSUME WellFormed, [Next]_vars
  PROVE  WellFormed'
<1>1. CASE \E t \in Tokens \cup {End} : ParseToken(t)
  <2>1. PICK t \in Tokens \cup {End} : ParseToken(t)
    BY <1>1
  <2>2. Typed(p')
    BY <2>1, StepTyped DEF WellFormed
  <2>3. original' = original
    BY <2>1 DEF ParseToken
  <2> QED BY <2>2, <2>3 DEF WellFormed, OriginalFits
<1>2. CASE ParseDisplayed
  <2>1. Typed(p')
    BY <1>2, DisplayedStep, FailsTyped, NewParserTyped
  <2>2. TypeFits(PolicyType) /\ original' = PolicyType
    BY <1>2, DisplayedStep
  <2>3. original'.name # <<>> /\ NoType.name = <<>>
    BY <2>2 DEF TypeFits, NoType
  <2>4. original' # NoType /\ original' = [name |-> original'.name, fields |-> original'.fields]
    <3>1. original' # NoType
      BY <2>3
    <3>2. PolicyType = [name |-> PolicyType.name, fields |-> PolicyType.fields]
      BY DEF PolicyType
    <3> QED BY <2>2, <3>1, <3>2
  <2> QED BY <2>1, <2>2, <2>4 DEF WellFormed, OriginalFits
<1>3. CASE UNCHANGED vars
  BY <1>3 DEF WellFormed, OriginalFits, vars
<1> QED BY <1>1, <1>2, <1>3 DEF Next

LEMMA WellFormedAlways ==
  Spec => []WellFormed
<1>1. Init => WellFormed
  BY WellFormedInit
<1>2. WellFormed /\ [Next]_vars => WellFormed'
  BY WellFormedStep
<1> QED BY <1>1, <1>2, PTL DEF Spec

\* PolicyType::parse never looks past its input, and pushes only fields that a Field can hold: a
\* default of the field's kind, at least one value for an enum, a name no other field has; for inputs
\* of every length and over every alphabet.
THEOREM ParserTypeOK ==
  Spec => []TypeOK
<1>1. WellFormed => TypeOK
  <2> SUFFICES ASSUME WellFormed PROVE TypeOK
    OBVIOUS
  <2>1. p \in ParserRecord /\ p.pos <= Len(p.input) /\ FieldsFit(p.fields)
    BY DEF WellFormed, Typed
  <2>2. /\ p.input \in Seq(Tokens) /\ p.pos \in Nat /\ p.open \in BOOLEAN /\ p.name \in Seq(Idents)
    BY <2>1 DEF ParserRecord, Text
  <2>3. p.pos \in 0..Len(p.input)
    <3>1. Len(p.input) \in Nat
      BY <2>2
    <3> QED BY <2>1, <2>2, <3>1
  <2>4. /\ \A j \in DOMAIN p.fields : FieldOK(p.fields[j])
        /\ \A j, k \in DOMAIN p.fields : p.fields[j].name = p.fields[k].name => j = k
    BY <2>1 DEF FieldsFit
  <2> QED BY <2>2, <2>3, <2>4 DEF TypeOK
<1> QED BY <1>1, WellFormedAlways, PTL
-----------------------------------------------------------------------------
(* How each token adds to the text of the field.                            *)

Word(t) == IF t = <<"largest">> THEN <<"last">> ELSE t

\* After w the text of f at pc is that of g at l.
Spells(pc, f, w, l, g) ==
  FieldText(pc, f) \in Text /\ w \in Tokens /\ FieldText(l, g) = Append(FieldText(pc, f), w)

LEMMA SpellColon ==
  ASSUME NEW f, f.name \in Idents
  PROVE  Spells("colon", f, <<":">>, "kind", f)
<1>1. FieldText("colon", f) = <<<<"id", f.name>>>> /\ FieldText("kind", f) = HeadText(f)
  BY DEF FieldText
<1> QED BY <1>1, HeadTextType, KeywordTokens DEF Spells

LEMMA SpellKind ==
  ASSUME NEW f, NEW g, f.name \in Idents, g.name = f.name, g.kind \in {"bool", "string", "number"}
  PROVE  Spells("kind", f, <<g.kind>>, "conflict", g)
<1>1. FieldText("kind", f) = HeadText(f) /\ FieldText("conflict", g) = KindText(g)
  BY DEF FieldText
<1>2. HeadText(g) = HeadText(f) /\ KindText(g) = Append(HeadText(g), <<g.kind>>) /\ HeadText(f) \in Text
  BY WordKind, HeadTextType DEF HeadText
<1>3. <<g.kind>> \in Tokens
  BY KeywordTokens
<1> QED BY <1>1, <1>2, <1>3 DEF Spells

LEMMA SpellBracket ==
  ASSUME NEW f, f.name \in Idents
  PROVE  Spells("kind", f, <<"[">>, "bracket", f)
<1>1. FieldText("kind", f) = HeadText(f) /\ FieldText("bracket", f) = Append(HeadText(f), <<"[">>)
  BY DEF FieldText
<1> QED BY <1>1, HeadTextType, KeywordTokens DEF Spells

LEMMA SpellArray ==
  ASSUME NEW f, NEW g, f.name \in Idents, g.name = f.name
  PROVE  Spells("bracket", f, <<"string">>, "close", g)
<1>1. /\ FieldText("bracket", f) = Append(HeadText(f), <<"[">>)
      /\ FieldText("close", g) = Append(Append(HeadText(g), <<"[">>), <<"string">>)
  BY DEF FieldText
<1>2. HeadText(g) = HeadText(f) /\ HeadText(f) \in Text
  BY HeadTextType DEF HeadText
<1>3. Append(HeadText(f), <<"[">>) \in Text
  BY <1>2, TextOne, KeywordTokens
<1> QED BY <1>1, <1>2, <1>3, KeywordTokens DEF Spells

LEMMA SpellFirst ==
  ASSUME NEW f, NEW g, NEW v \in Strings, f.name \in Idents, g.name = f.name, g.values = <<v>>
  PROVE  Spells("bracket", f, <<"str", v>>, "values", g)
<1> DEFINE h == HeadText(f)
<1>1. FieldText("bracket", f) = Append(h, <<"[">>) /\ FieldText("values", g) = h \o ValuesText(<<v>>)
  BY DEF FieldText, HeadText
<1>2. h \in Text
  BY HeadTextType
<1> HIDE DEF h
<1>3. ValuesText(<<v>>) = Append(<<<<"[">>>>, <<"str", v>>)
  BY ValuesTextFirst
<1>4. <<"str", v>> \in Tokens /\ <<"[">> \in Tokens /\ <<<<"[">>>> \in Text
  BY TokenForms, KeywordTokens, ShortText
<1>5. h \o Append(<<<<"[">>>>, <<"str", v>>) = Append(h \o <<<<"[">>>>, <<"str", v>>)
  BY <1>2, <1>4, TextSnoc
<1>6. h \o <<<<"[">>>> = Append(h, <<"[">>) /\ Append(h, <<"[">>) \in Text
  BY <1>2, <1>4, TextOne
<1> QED BY <1>1, <1>3, <1>4, <1>5, <1>6 DEF Spells

LEMMA SpellClose ==
  ASSUME NEW f, FieldOK(f), f.kind = "array", f.default = None
  PROVE  Spells("close", f, <<"]">>, "after", f)
<1> DEFINE h == HeadText(f)
<1>1. /\ FieldText("close", f) = Append(Append(h, <<"[">>), <<"string">>)
      /\ FieldText("after", f) = DisplayField(f)
  BY DEF FieldText
<1>2. DisplayField(f) = KindText(f)
  BY ConflictWords, DefaultWords DEF FieldOK
<1>3. KindText(f) = Append(Append(Append(h, <<"[">>), <<"string">>), <<"]">>) /\ h \in Text
  BY ArrayKind, HeadTextType DEF FieldOK
<1> HIDE DEF h
<1>4. <<"[">> \in Tokens /\ <<"string">> \in Tokens /\ <<"]">> \in Tokens
  BY KeywordTokens
<1>5. Append(Append(h, <<"[">>), <<"string">>) \in Text
  BY <1>3, <1>4, TextTwo
<1> QED BY <1>1, <1>2, <1>3, <1>4, <1>5 DEF Spells

LEMMA SpellComma ==
  ASSUME NEW f, f.name \in Idents, f.values \in Seq(Strings), f.values # <<>>
  PROVE  Spells("values", f, <<",">>, "value", f)
<1>1. /\ FieldText("values", f) = HeadText(f) \o ValuesText(f.values)
      /\ FieldText("value", f) = Append(HeadText(f) \o ValuesText(f.values), <<",">>)
  BY DEF FieldText
<1>2. HeadText(f) \in Text /\ ValuesText(f.values) \in Text
  BY HeadTextType, ValuesTextType
<1>3. HeadText(f) \o ValuesText(f.values) \in Text
  BY <1>2, TextCat
<1> QED BY <1>1, <1>3, KeywordTokens DEF Spells

LEMMA SpellEnum ==
  ASSUME NEW f, f.name \in Idents, f.kind = "enum", f.values \in Seq(Strings), f.values # <<>>
  PROVE  Spells("values", f, <<"]">>, "conflict", f)
<1>1. FieldText("values", f) = HeadText(f) \o ValuesText(f.values) /\ FieldText("conflict", f) = KindText(f)
  BY DEF FieldText
<1> QED BY <1>1, EnumKind, KeywordTokens DEF Spells

LEMMA SpellValue ==
  ASSUME NEW f, NEW g, NEW v \in Strings, f.name \in Idents, f.values \in Seq(Strings), f.values # <<>>,
         g.name = f.name, g.values = Append(f.values, v)
  PROVE  Spells("value", f, <<"str", v>>, "values", g)
<1> DEFINE h == HeadText(f)
           a == ValuesText(f.values)
<1>1. FieldText("value", f) = Append(h \o a, <<",">>) /\ FieldText("values", g) = h \o ValuesText(Append(f.values, v))
  BY DEF FieldText, HeadText
<1>2. h \in Text /\ a \in Text
  BY HeadTextType, ValuesTextType
<1>3. ValuesText(Append(f.values, v)) = Append(Append(a, <<",">>), <<"str", v>>)
  BY ValuesTextMore
<1> HIDE DEF h, a
<1>4. <<"str", v>> \in Tokens /\ <<",">> \in Tokens
  BY TokenForms, KeywordTokens
<1>5. h \o Append(a, <<",">>) = Append(h \o a, <<",">>) /\ Append(a, <<",">>) \in Text /\ h \o a \in Text
  BY <1>2, <1>4, TextSnoc, TextOne, TextCat
<1>6. h \o Append(Append(a, <<",">>), <<"str", v>>) = Append(h \o Append(a, <<",">>), <<"str", v>>)
  BY <1>2, <1>4, <1>5, TextSnoc
<1>7. Append(h \o a, <<",">>) \in Text
  BY <1>4, <1>5, TextOne
<1> QED BY <1>1, <1>3, <1>4, <1>5, <1>6, <1>7 DEF Spells

LEMMA SpellAt ==
  ASSUME NEW f, FieldOK(f)
  PROVE  Spells("conflict", f, <<"@">>, "strategy", f)
<1>1. FieldText("conflict", f) = KindText(f) /\ FieldText("strategy", f) = Append(KindText(f), <<"@">>)
  BY DEF FieldText
<1> QED BY <1>1, KindTextType, KeywordTokens DEF Spells

LEMMA SpellNoConflict ==
  ASSUME NEW f, FieldOK(f), f.on_conflict = "Default"
  PROVE  FieldText("equals", f) = FieldText("conflict", f)
<1>1. FieldText("conflict", f) = KindText(f) /\ FieldText("equals", f) = ConflictText(f)
  BY DEF FieldText
<1> QED BY <1>1, ConflictWords

\* The words of a strategy, with g the field that has it.
LEMMA SpellStrategy ==
  ASSUME NEW f, NEW g, FieldOK(f), FieldOK(g), g.name = f.name, g.kind = f.kind, g.values = f.values
  PROVE  /\ g.on_conflict = "Agreement" => Spells("strategy", f, <<"agreement">>, "equals", g)
         /\ g.on_conflict = "LargestValue" /\ g.kind = "bool" => Spells("strategy", f, <<"sticky">>, "equals", g)
         /\ g.on_conflict = "LargestValue" /\ g.kind # "bool" => Spells("strategy", f, FirstOf(g.kind), "wins", g)
<1> DEFINE k == KindText(f)
           s == Append(k, <<"@">>)
<1>1. KindText(g) = k
  BY DEF KindText, HeadText, DisplayKind
<1>2. k \in Text
  BY KindTextType
<1>3. /\ FieldText("strategy", f) = s /\ FieldText("equals", g) = ConflictText(g)
      /\ FieldText("wins", g) = Append(Append(KindText(g), <<"@">>), FirstOf(g.kind))
  BY DEF FieldText
<1> HIDE DEF k
<1>4. s \in Text
  BY <1>2, TextOne, KeywordTokens
<1>5. <<"agreement">> \in Tokens /\ <<"sticky">> \in Tokens /\ FirstOf(g.kind) \in Tokens
  BY KeywordTokens DEF FirstOf
<1>6. g.on_conflict = "Agreement" => ConflictText(g) = Append(s, <<"agreement">>)
  BY <1>1, ConflictWords
<1>7. g.on_conflict = "LargestValue" /\ g.kind = "bool" => ConflictText(g) = Append(s, <<"sticky">>)
  BY <1>1, ConflictWords
<1> QED BY <1>1, <1>3, <1>4, <1>5, <1>6, <1>7 DEF Spells

LEMMA SpellWins ==
  ASSUME NEW f, FieldOK(f), f.on_conflict = "LargestValue", f.kind # "bool"
  PROVE  Spells("wins", f, <<"wins">>, "equals", f)
<1> DEFINE k == KindText(f)
           s == Append(Append(k, <<"@">>), FirstOf(f.kind))
<1>1. FieldText("wins", f) = s /\ FieldText("equals", f) = ConflictText(f)
  BY DEF FieldText
<1>2. ConflictText(f) = Append(s, <<"wins">>)
  BY ConflictWords
<1>3. k \in Text /\ <<"@">> \in Tokens /\ FirstOf(f.kind) \in Tokens /\ <<"wins">> \in Tokens
  BY KindTextType, KeywordTokens DEF FirstOf
<1>4. s \in Text
  <2> HIDE DEF k
  <2> QED BY <1>3, TextTwo
<1> QED BY <1>1, <1>2, <1>3, <1>4 DEF Spells

LEMMA SpellEquals ==
  ASSUME NEW f, FieldOK(f)
  PROVE  /\ Spells("equals", f, <<"=">>, "default", f)
         /\ f.default = None => FieldText("after", f) = FieldText("equals", f)
<1>1. /\ FieldText("equals", f) = ConflictText(f) /\ FieldText("default", f) = Append(ConflictText(f), <<"=">>)
      /\ FieldText("after", f) = DisplayField(f)
  BY DEF FieldText
<1> QED BY <1>1, ConflictWords, DefaultWords, KeywordTokens DEF Spells

LEMMA SpellDefault ==
  ASSUME NEW f, NEW g, FieldOK(f), FieldOK(g), g.name = f.name, g.kind = f.kind, g.values = f.values,
         g.on_conflict = f.on_conflict, g.default # None
  PROVE  Spells("default", f, g.default, "after", g)
<1>1. ConflictText(g) = ConflictText(f)
  BY DEF ConflictText, KindText, HeadText, DisplayKind, DisplayConflict
<1>2. FieldText("default", f) = Append(ConflictText(f), <<"=">>) /\ FieldText("after", g) = DisplayField(g)
  BY DEF FieldText
<1>3. Append(ConflictText(f), <<"=">>) \in Text
  BY ConflictWords, TextOne, KeywordTokens
<1>4. DisplayField(g) = Append(Append(ConflictText(g), <<"=">>), g.default) /\ g.default \in Tokens
  BY DefaultWords
<1> QED BY <1>1, <1>2, <1>3, <1>4 DEF Spells
-----------------------------------------------------------------------------
(* Nothing is ignored: the tokens behind the parser spell what it holds.    *)

Consumed(q) == [j \in 1..q.pos |-> Word(q.input[j])]

InField ==
  {"colon", "kind", "bracket", "close", "values", "value", "conflict", "strategy", "wins", "equals",
   "default", "after"}
WholeText(pc, ns, f, fs) ==
  CASE pc \in {"type", "error"} -> <<>>
    [] pc = "name" -> IF ns = <<>> THEN <<<<"type">>>> ELSE Append(NameText(ns), <<"::">>)
    [] pc = "separator" -> NameText(ns)
    [] pc = "fields" -> Before(ns, fs)
    [] pc = "done" -> Append(Before(ns, fs), <<"}">>)
    [] OTHER -> Before(ns, fs) \o FieldText(pc, f)

\* The last field may stand without its comma, right before the brace.
CommaLeft(q) ==
  /\ q.pc = "fields" /\ q.fields # <<>>
  /\ Append(Consumed(q), <<",">>) = Before(q.name, q.fields)
  /\ q.pos + 1 <= Len(q.input) /\ q.input[q.pos + 1] = <<"}">>
CommaNeverRead(q) ==
  /\ q.pc = "done" /\ q.fields # <<>>
  /\ \E s \in Text : Consumed(q) = Append(s, <<"}">>) /\ Append(s, <<",">>) = Before(q.name, q.fields)
Exact(q) == Consumed(q) = WholeText(q.pc, q.name, q.field, q.fields)
Spelled(q) == Exact(q) \/ CommaLeft(q) \/ CommaNeverRead(q)

LEMMA ConsumedType ==
  ASSUME Typed(p)
  PROVE  Consumed(p) \in Text
<1>1. p.input \in Seq(Tokens) /\ p.pos \in Nat /\ p.pos <= Len(p.input)
  BY DEF Typed, ParserRecord, Text
<1>2. \A j \in 1..p.pos : p.input[j] \in Tokens
  <2>1. Len(p.input) \in Nat
    BY <1>1
  <2>2. \A j \in 1..p.pos : j \in 1..Len(p.input)
    BY <1>1, <2>1
  <2> QED BY <1>1, <2>2
<1>3. \A j \in 1..p.pos : Word(p.input[j]) \in Tokens
  BY <1>2, KeywordTokens DEF Word
<1> QED BY <1>1, <1>3 DEF Consumed, Text

LEMMA TakesConsumed ==
  ASSUME Typed(p), NEW t, NEW l, NEW ns, NEW f, NEW fs, Takes(t, l, ns, f, fs)
  PROVE  Consumed(p') = Append(Consumed(p), Word(t))
<1> DEFINE n == p.pos
           a == Consumed(p)
           b == Consumed(p')
<1>1. /\ n \in Nat /\ p'.pos = n + 1 /\ p'.input[n + 1] = t /\ t \in Tokens
      /\ \A j \in 1..n : p'.input[j] = p.input[j]
  BY DEF Takes, Took, Typed, ParserRecord
<1>2. a \in Seq(Tokens) /\ Word(t) \in Tokens
  BY <1>1, ConsumedType, KeywordTokens DEF Text, Word
<1>3. a = [j \in 1..n |-> Word(p.input[j])] /\ b = [j \in 1..(n + 1) |-> Word(p'.input[j])]
  BY <1>1 DEF Consumed
<1> HIDE DEF n, a, b
<1>4. Len(a) = n /\ \A j \in 1..n : a[j] \in Tokens
  BY <1>1, <1>2, <1>3
<1>5. \A j \in 1..n : j \in 1..(n + 1) /\ b[j] = a[j]
  BY <1>1, <1>3
<1>6. n + 1 \in 1..(n + 1) /\ b[n + 1] = Word(t)
  BY <1>1, <1>3
<1>7. a \in [1..n -> Tokens]
  BY <1>3, <1>4
<1>8. b \in [1..(n + 1) -> Tokens]
  <2>1. \A j \in 1..(n + 1) : j \in 1..n \/ j = n + 1
    BY <1>1
  <2>2. \A j \in 1..(n + 1) : b[j] \in Tokens
    BY <1>2, <1>4, <1>5, <1>6, <2>1
  <2> QED BY <1>3, <2>2
<1>9. b = Append(a, b[n + 1])
  BY <1>1, <1>5, <1>7, <1>8, FunctionAppend
<1> QED BY <1>6, <1>9 DEF a, b

LEMMA LooksConsumed ==
  ASSUME Typed(p), NEW t, NEW l, NEW f, NEW fs, Looks(t, l, f, fs)
  PROVE  Consumed(p') = Consumed(p)
  BY DEF Looks, Saw, Consumed

LEMMA FailsConsumed ==
  ASSUME Fails
  PROVE  Spelled(p')
<1>1. p'.pc = "error" /\ p'.pos = 0
  BY FailsTyped
<1>2. Consumed(p') = <<>>
  BY <1>1 DEF Consumed
<1> QED BY <1>1, <1>2 DEF Spelled, Exact, WholeText

\* A token that spells the next piece of the text keeps it whole.
LEMMA TakesSpelled ==
  ASSUME Typed(p), NEW t, NEW l, NEW ns, NEW f, NEW fs, Takes(t, l, ns, f, fs),
         Exact(p),
         WholeText(l, ns, f, fs) = Append(WholeText(p.pc, p.name, p.field, p.fields), Word(t))
  PROVE  Exact(p')
  BY TakesConsumed DEF Takes, Exact

LEMMA FieldTakesSpelled ==
  ASSUME Typed(p), p.pc \in InField, NEW t, NEW l \in InField, NEW f, Takes(t, l, p.name, f, p.fields),
         Exact(p), Spells(p.pc, p.field, Word(t), l, f)
  PROVE  Exact(p')
<1> DEFINE b == Before(p.name, p.fields)
<1>1. p.name \in Seq(Idents) /\ p.name # <<>> /\ AllOK(p.fields)
  BY FieldsAllOK DEF Typed, NameFits, ParserRecord, InField
<1>2. b \in Text
  BY <1>1, BeforeType
<1>3. /\ WholeText(p.pc, p.name, p.field, p.fields) = b \o FieldText(p.pc, p.field)
      /\ WholeText(l, p.name, f, p.fields) = b \o FieldText(l, f)
  BY DEF WholeText, InField
<1> HIDE DEF b
<1>4. b \o Append(FieldText(p.pc, p.field), Word(t)) = Append(b \o FieldText(p.pc, p.field), Word(t))
  BY <1>2, TextSnoc DEF Spells
<1>5. WholeText(l, p.name, f, p.fields) = Append(WholeText(p.pc, p.name, p.field, p.fields), Word(t))
  BY <1>3, <1>4 DEF Spells
<1> QED BY <1>5, TakesSpelled

LEMMA FieldLooksSpelled ==
  ASSUME Typed(p), p.pc \in InField, NEW t, NEW l \in InField, Looks(t, l, p.field, p.fields),
         Exact(p),
         FieldText(l, p.field) = FieldText(p.pc, p.field)
  PROVE  Exact(p')
<1>1. WholeText(l, p.name, p.field, p.fields) = WholeText(p.pc, p.name, p.field, p.fields)
  BY DEF WholeText, InField
<1> QED BY <1>1, LooksConsumed DEF Looks, Exact

\* A sequence with one element, built by appending.
LEMMA AppendNil ==
  ASSUME NEW x
  PROVE  Append(<<>>, x) = <<x>>
OBVIOUS

\* The word `largest' is not a literal of any kind.
LEMMA LiteralNotLargest ==
  ASSUME NEW kind, NEW t \in LiteralOf(kind)
  PROVE  t # <<"largest">>
<1>1. CASE kind = "bool"
  <2>1. CASE t = <<"true">>
    BY <2>1
  <2>2. CASE t = <<"false">>
    BY <2>2
  <2> QED BY <1>1, <2>1, <2>2 DEF LiteralOf
<1>2. CASE kind = "number"
  <2>1. t \in {"num"} \X Numbers
    BY <1>2 DEF LiteralOf
  <2>2. t[1] = "num" /\ <<"largest">>[1] = "largest"
    BY <2>1
  <2> QED BY <2>2
<1>3. CASE kind # "bool" /\ kind # "number"
  <2>1. t \in {"str"} \X Strings
    BY <1>3 DEF LiteralOf
  <2>2. t[1] = "str" /\ <<"largest">>[1] = "largest"
    BY <2>1
  <2> QED BY <2>2
<1> QED BY <1>1, <1>2, <1>3

\* Every action but the one that leaves out a comma.
LEMMA ExactStep ==
  ASSUME Typed(p), Exact(p), NEW t \in Tokens \cup {End}, ParseToken(t), ~(p.pc = "after" /\ t = <<"}">>)
  PROVE  Fails \/ Exact(p')
<1> DEFINE f == p.field
           whole == WholeText(p.pc, p.name, p.field, p.fields)
<1>0. /\ Peekable(t) /\ f \in FieldRecord /\ FieldAt(p.pc, f) /\ FieldsFit(p.fields) /\ AllOK(p.fields)
      /\ NameFits(p.pc, p.name, p.fields) /\ p.name \in Seq(Idents)
  BY FieldsAllOK DEF ParseToken, Typed, ParserRecord
<1>1. CASE ExpectType(t)
  <2>1. p.pc = "type" /\ p.name = <<>>
    BY <1>0, <1>1 DEF ExpectType, NameFits
  <2>2. whole = <<>> /\ WholeText("name", p.name, f, p.fields) = <<<<"type">>>>
    BY <2>1 DEF WholeText
  <2>3. t = <<"type">> => WholeText("name", p.name, f, p.fields) = Append(whole, Word(t))
    <3>1. Word(<<"type">>) = <<"type">>
      BY DEF Word
    <3> QED BY <2>2, <3>1
  <2> QED BY <1>0, <1>1, <2>3, TypeStep, TakesSpelled
<1>2. CASE ParseName(t)
  <2>1. p.pc = "name" /\ p.fields = <<>>
    BY <1>0, <1>2 DEF ParseName, NameFits
  <2>2. CASE t[1] = "id"
    <3> DEFINE x == t[2]
               ns == Append(p.name, x)
    <3>1. x \in Idents /\ t \in Tokens /\ Takes(t, "separator", ns, f, p.fields)
      BY <1>0, <1>2, <2>2, NameStep
    <3>2. t = <<"id", x>> /\ Word(t) = t
      BY <2>2, <3>1, TokenShape DEF Word
    <3> HIDE DEF x
    <3>3. WholeText("separator", ns, f, p.fields) = NameText(ns)
      BY DEF WholeText
    <3>4. NameText(ns) = Append(whole, Word(t))
      <4>1. CASE p.name = <<>>
        <5>1. whole = <<<<"type">>>>
          BY <2>1, <4>1 DEF WholeText
        <5>2. ns = <<x>>
          <6>1. Append(<<>>, x) = <<x>>
            BY AppendNil
          <6> QED BY <4>1, <6>1
        <5> QED BY <3>1, <3>2, <5>1, <5>2, NameTextFirst
      <4>2. CASE p.name # <<>>
        <5>1. whole = Append(NameText(p.name), <<"::">>)
          BY <2>1, <4>2 DEF WholeText
        <5> QED BY <1>0, <3>1, <3>2, <4>2, <5>1, NameTextMore
      <4> QED BY <4>1, <4>2
    <3> HIDE DEF ns
    <3>5. WholeText("separator", ns, f, p.fields) = Append(whole, Word(t))
      BY <3>3, <3>4
    <3> QED BY <3>1, <3>5, TakesSpelled
  <2> QED BY <1>0, <1>2, <2>2, NameStep
<1>3. CASE ParseSeparator(t)
  <2>1. p.pc = "separator" /\ p.name # <<>> /\ p.fields = <<>>
    BY <1>0, <1>3 DEF ParseSeparator, NameFits
  <2>2. whole = NameText(p.name) /\ WholeText("name", p.name, f, p.fields) = Append(NameText(p.name), <<"::">>)
    BY <2>1 DEF WholeText
  <2>3. WholeText("fields", p.name, f, p.fields) = Append(NameText(p.name), <<"{">>)
    <3>1. WholeText("fields", p.name, f, p.fields) = Before(p.name, p.fields)
      BY DEF WholeText
    <3>2. FieldWords(<<>>) = <<>>
      <4>1. FieldWords(p.fields) \in [1..Len(p.fields) -> Seq(Tokens)] /\ FieldWords(p.fields) \in Seq(Seq(Tokens))
        BY <1>0, FieldWordsType
      <4>2. Len(FieldWords(p.fields)) = 0
        BY <2>1, <4>1
      <4> QED BY <2>1, <4>1, <4>2, EmptySeq
    <3>3. FieldsText(p.fields) = <<>>
      BY <2>1, <3>2, FlattenEmpty DEF FieldsText
    <3>4. Append(NameText(p.name), <<"{">>) \in Text
      BY <1>0, <2>1, NameTextType
    <3>5. Append(NameText(p.name), <<"{">>) \o <<>> = Append(NameText(p.name), <<"{">>)
      BY <3>4, TextNil
    <3> QED BY <3>1, <3>3, <3>5 DEF Before
  <2>4. Word(<<"::">>) = <<"::">> /\ Word(<<"{">>) = <<"{">>
    BY DEF Word
  <2>5. CASE t = <<"::">>
    <3>1. WholeText("name", p.name, f, p.fields) = Append(whole, Word(t))
      BY <2>2, <2>4, <2>5
    <3> QED BY <1>0, <1>3, <2>5, <3>1, SeparatorStep, TakesSpelled
  <2>6. CASE t = <<"{">>
    <3>1. WholeText("fields", p.name, f, p.fields) = Append(whole, Word(t))
      BY <2>2, <2>3, <2>4, <2>6
    <3> QED BY <1>0, <1>3, <2>6, <3>1, SeparatorStep, TakesSpelled
  <2> QED BY <1>0, <1>3, <2>5, <2>6, SeparatorStep
<1>4. CASE ParseFieldName(t)
  <2>1. p.pc = "fields" /\ p.name # <<>>
    BY <1>0, <1>4 DEF ParseFieldName, NameFits
  <2>2. whole = Before(p.name, p.fields) /\ Before(p.name, p.fields) \in Text
    BY <1>0, <2>1, BeforeType DEF WholeText
  <2>3. CASE t = <<"}">>
    <3>1. Word(t) = <<"}">>
      BY <2>3 DEF Word
    <3>2. WholeText("done", p.name, f, p.fields) = Append(whole, Word(t))
      BY <2>2, <3>1 DEF WholeText
    <3> QED BY <1>0, <1>4, <2>3, <3>2, FieldNameStep, TakesSpelled
  <2>4. CASE t[1] = "id"
    <3> DEFINE g == [f EXCEPT !.name = t[2]]
    <3>1. t[2] \in Idents /\ t \in Tokens /\ Takes(t, "colon", p.name, g, p.fields)
      BY <1>0, <1>4, <2>4, FieldNameStep
    <3>2. t = <<"id", t[2]>> /\ Word(t) = t
      BY <2>4, <3>1, TokenShape DEF Word
    <3>3. g.name = t[2]
      BY <1>0 DEF FieldRecord
    <3> HIDE DEF g
    <3>4. WholeText("colon", p.name, g, p.fields) = Before(p.name, p.fields) \o <<t>>
      BY <3>2, <3>3 DEF WholeText, FieldText
    <3>5. Before(p.name, p.fields) \o <<t>> = Append(Before(p.name, p.fields), t)
      BY <2>2, <3>1, TextOne
    <3>6. WholeText("colon", p.name, g, p.fields) = Append(whole, Word(t))
      BY <2>2, <3>2, <3>4, <3>5
    <3> QED BY <3>1, <3>6, TakesSpelled
  <2> QED BY <1>0, <1>4, <2>3, <2>4, FieldNameStep
<1>5. CASE ExpectColon(t)
  <2>1. p.pc = "colon" /\ Started(f)
    BY <1>0, <1>5 DEF ExpectColon, FieldAt
  <2>2. CASE t = <<":">>
    <3>1. Spells("colon", f, Word(t), "kind", f)
      BY <2>1, <2>2, SpellColon DEF Started, Word
    <3>2. Takes(t, "kind", p.name, f, p.fields)
      BY <1>0, <1>5, <2>2, ColonStep
    <3> QED BY <2>1, <3>1, <3>2, FieldTakesSpelled DEF InField
  <2> QED BY <1>0, <1>5, <2>2, ColonStep
<1>6. CASE ParseKind(t)
  <2>1. p.pc = "kind" /\ Started(f)
    BY <1>0, <1>6 DEF ParseKind, FieldAt
  <2>2. CASE t = <<"[">>
    <3>1. Spells("kind", f, Word(t), "bracket", f)
      BY <2>1, <2>2, SpellBracket DEF Started, Word
    <3>2. Takes(t, "bracket", p.name, f, p.fields)
      BY <1>0, <1>6, <2>2, KindStep
    <3> QED BY <2>1, <3>1, <3>2, FieldTakesSpelled DEF InField
  <2>3. CASE t \in {<<"bool">>, <<"string">>, <<"number">>}
    <3> DEFINE g == [f EXCEPT !.kind = t[1]]
    <3>1. t[1] \in {"bool", "string", "number"} /\ Word(t) = t /\ t = <<t[1]>>
      <4>1. CASE t = <<"bool">>
        BY <4>1 DEF Word
      <4>2. CASE t = <<"string">>
        BY <4>2 DEF Word
      <4>3. CASE t = <<"number">>
        BY <4>3 DEF Word
      <4> QED BY <2>3, <4>1, <4>2, <4>3
    <3>2. g.kind = t[1] /\ g.name = f.name
      BY <1>0 DEF FieldRecord
    <3>3. Takes(t, "conflict", p.name, g, p.fields)
      BY <1>0, <1>6, <2>3, KindStep
    <3> HIDE DEF g
    <3>4. Spells("kind", f, Word(t), "conflict", g)
      BY <2>1, <3>1, <3>2, SpellKind DEF Started
    <3> QED BY <2>1, <3>3, <3>4, FieldTakesSpelled DEF InField
  <2> QED BY <1>0, <1>6, <2>2, <2>3, KindStep
<1>7. CASE ParseBracket(t)
  <2>1. p.pc = "bracket" /\ Started(f)
    BY <1>0, <1>7 DEF ParseBracket, FieldAt
  <2>2. CASE t = <<"string">>
    <3> DEFINE g == [f EXCEPT !.kind = "array"]
    <3>1. Takes(t, "close", p.name, g, p.fields)
      BY <1>0, <1>7, <2>2, BracketStep
    <3>2. g.name = f.name
      BY <1>0 DEF FieldRecord
    <3> HIDE DEF g
    <3>3. Spells("bracket", f, Word(t), "close", g)
      BY <2>1, <2>2, <3>2, SpellArray DEF Started, Word
    <3> QED BY <2>1, <3>1, <3>3, FieldTakesSpelled DEF InField
  <2>3. CASE t[1] = "str"
    <3> DEFINE g == [f EXCEPT !.kind = "enum", !.values = <<t[2]>>]
    <3>1. t \in Tokens /\ t[2] \in Strings /\ Takes(t, "values", p.name, g, p.fields)
      BY <1>0, <1>7, <2>3, BracketStep
    <3>2. g.name = f.name /\ g.values = <<t[2]>>
      BY <1>0 DEF FieldRecord
    <3>3. t = <<"str", t[2]>> /\ Word(t) = t
      BY <2>3, <3>1, TokenShape DEF Word
    <3> HIDE DEF g
    <3>4. Spells("bracket", f, Word(t), "values", g)
      BY <2>1, <3>1, <3>2, <3>3, SpellFirst DEF Started
    <3> QED BY <2>1, <3>1, <3>4, FieldTakesSpelled DEF InField
  <2> QED BY <1>0, <1>7, <2>2, <2>3, BracketStep
<1>8. CASE ExpectClose(t)
  <2>1. p.pc = "close" /\ FieldOK(f) /\ f.kind = "array" /\ f.default = None
    BY <1>0, <1>8 DEF ExpectClose, FieldAt, FieldOK, Started, FieldRecord
  <2>2. CASE t = <<"]">>
    <3>1. Spells("close", f, Word(t), "after", f)
      BY <2>1, <2>2, SpellClose DEF Word
    <3>2. Takes(t, "after", p.name, f, p.fields)
      BY <1>0, <1>8, <2>2, CloseStep
    <3> QED BY <2>1, <3>1, <3>2, FieldTakesSpelled DEF InField
  <2> QED BY <1>0, <1>8, <2>2, CloseStep
<1>9. CASE ParseValues(t)
  <2>1. /\ p.pc = "values" /\ f.name \in Idents /\ f.kind = "enum"
        /\ f.values \in Seq(Strings) /\ f.values # <<>>
    BY <1>0, <1>9 DEF ParseValues, FieldAt, Started, FieldRecord
  <2>2. CASE t = <<",">>
    <3>1. Spells("values", f, Word(t), "value", f)
      BY <2>1, <2>2, SpellComma DEF Word
    <3>2. Takes(t, "value", p.name, f, p.fields)
      BY <1>0, <1>9, <2>2, ValuesStep
    <3> QED BY <2>1, <3>1, <3>2, FieldTakesSpelled DEF InField
  <2>3. CASE t = <<"]">>
    <3>1. Spells("values", f, Word(t), "conflict", f)
      BY <2>1, <2>3, SpellEnum DEF Word
    <3>2. Takes(t, "conflict", p.name, f, p.fields)
      BY <1>0, <1>9, <2>3, ValuesStep
    <3> QED BY <2>1, <3>1, <3>2, FieldTakesSpelled DEF InField
  <2> QED BY <1>0, <1>9, <2>2, <2>3, ValuesStep
<1>10. CASE ParseValue(t)
  <2>1. p.pc = "value" /\ f.name \in Idents /\ f.values \in Seq(Strings) /\ f.values # <<>>
    BY <1>0, <1>10 DEF ParseValue, FieldAt, Started, FieldRecord
  <2>2. CASE t[1] = "str"
    <3> DEFINE g == [f EXCEPT !.values = Append(f.values, t[2])]
    <3>1. t \in Tokens /\ t[2] \in Strings /\ Takes(t, "values", p.name, g, p.fields)
      BY <1>0, <1>10, <2>2, ValueStep
    <3>2. g.name = f.name /\ g.values = Append(f.values, t[2])
      BY <1>0 DEF FieldRecord
    <3>3. t = <<"str", t[2]>> /\ Word(t) = t
      BY <2>2, <3>1, TokenShape DEF Word
    <3> HIDE DEF g
    <3>4. Spells("value", f, Word(t), "values", g)
      BY <2>1, <3>1, <3>2, <3>3, SpellValue
    <3> QED BY <2>1, <3>1, <3>4, FieldTakesSpelled DEF InField
  <2> QED BY <1>0, <1>10, <2>2, ValueStep
<1>11. CASE ParseConflict(t)
  <2>1. p.pc = "conflict" /\ FieldOK(f) /\ f.on_conflict = "Default"
    BY <1>0, <1>11 DEF ParseConflict, FieldAt
  <2>2. CASE t = <<"@">>
    <3>1. Spells("conflict", f, Word(t), "strategy", f)
      BY <2>1, <2>2, SpellAt DEF Word
    <3>2. Takes(t, "strategy", p.name, f, p.fields)
      BY <1>0, <1>11, <2>2, ConflictStep
    <3> QED BY <2>1, <3>1, <3>2, FieldTakesSpelled DEF InField
  <2>3. CASE t # <<"@">>
    <3>1. FieldText("equals", f) = FieldText("conflict", f)
      BY <2>1, SpellNoConflict
    <3>2. Looks(t, "equals", f, p.fields)
      BY <1>0, <1>11, <2>3, ConflictStep
    <3> QED BY <2>1, <3>1, <3>2, FieldLooksSpelled DEF InField
  <2> QED BY <2>2, <2>3
<1>12. CASE ParseStrategy(t)
  <2>1. p.pc = "strategy" /\ FieldOK(f) /\ f.kind # "array"
    BY <1>0, <1>12 DEF ParseStrategy, FieldAt
  <2> DEFINE G(c) == [f EXCEPT !.on_conflict = c]
  <2>2. ASSUME NEW c \in {"Agreement", "LargestValue"}
        PROVE  /\ FieldOK(G(c)) /\ G(c).name = f.name /\ G(c).kind = f.kind /\ G(c).values = f.values
               /\ G(c).on_conflict = c
    <3>1. /\ G(c).name = f.name /\ G(c).kind = f.kind /\ G(c).values = f.values
          /\ G(c).on_conflict = c /\ G(c).default = f.default
      BY <1>0 DEF FieldRecord
    <3> HIDE DEF G
    <3> QED BY <2>1, <3>1 DEF FieldOK
  <2>3. CASE t = <<"agreement">>
    <3>1. Takes(t, "equals", p.name, G("Agreement"), p.fields)
      BY <1>0, <1>12, <2>3, StrategyStep
    <3> HIDE DEF G
    <3>2. Spells("strategy", f, Word(t), "equals", G("Agreement"))
      BY <2>1, <2>2, <2>3, SpellStrategy DEF Word
    <3> QED BY <2>1, <3>1, <3>2, FieldTakesSpelled DEF InField
  <2>4. CASE t \in LargestWord(f.kind) /\ t = <<"sticky">>
    <3>1. Takes(t, "equals", p.name, G("LargestValue"), p.fields)
      BY <1>0, <1>12, <2>4, StrategyStep
    <3>2. f.kind = "bool"
      BY <2>4 DEF LargestWord
    <3> HIDE DEF G
    <3>3. Spells("strategy", f, Word(t), "equals", G("LargestValue"))
      BY <2>1, <2>2, <2>4, <3>2, SpellStrategy DEF Word
    <3> QED BY <2>1, <3>1, <3>3, FieldTakesSpelled DEF InField
  <2>5. CASE t \in LargestWord(f.kind) /\ t # <<"sticky">>
    <3>1. Takes(t, "wins", p.name, G("LargestValue"), p.fields)
      BY <1>0, <1>12, <2>5, StrategyStep
    <3>2. f.kind # "bool" /\ Word(t) = FirstOf(f.kind)
      BY <2>1, <2>5 DEF LargestWord, Word, FirstOf, FieldOK
    <3> HIDE DEF G
    <3>3. Spells("strategy", f, Word(t), "wins", G("LargestValue"))
      BY <2>1, <2>2, <3>2, SpellStrategy
    <3> QED BY <2>1, <3>1, <3>3, FieldTakesSpelled DEF InField
  <2> QED BY <1>0, <1>12, <2>3, <2>4, <2>5, StrategyStep
<1>13. CASE ExpectWins(t)
  <2>1. p.pc = "wins" /\ FieldOK(f) /\ f.on_conflict = "LargestValue" /\ f.kind # "bool"
    BY <1>0, <1>13 DEF ExpectWins, FieldAt
  <2>2. CASE t = <<"wins">>
    <3>1. Spells("wins", f, Word(t), "equals", f)
      BY <2>1, <2>2, SpellWins DEF Word
    <3>2. Takes(t, "equals", p.name, f, p.fields)
      BY <1>0, <1>13, <2>2, WinsStep
    <3> QED BY <2>1, <3>1, <3>2, FieldTakesSpelled DEF InField
  <2> QED BY <1>0, <1>13, <2>2, WinsStep
<1>14. CASE ParseEquals(t)
  <2>1. p.pc = "equals" /\ FieldOK(f) /\ f.default = None
    BY <1>0, <1>14 DEF ParseEquals, FieldAt, Started
  <2>2. CASE t = <<"=">>
    <3>1. Spells("equals", f, Word(t), "default", f)
      BY <2>1, <2>2, SpellEquals DEF Word
    <3>2. Takes(t, "default", p.name, f, p.fields)
      BY <1>0, <1>14, <2>2, EqualsStep
    <3> QED BY <2>1, <3>1, <3>2, FieldTakesSpelled DEF InField
  <2>3. CASE t # <<"=">>
    <3>1. FieldText("after", f) = FieldText("equals", f)
      BY <2>1, SpellEquals
    <3>2. Looks(t, "after", f, p.fields)
      BY <1>0, <1>14, <2>3, EqualsStep
    <3> QED BY <2>1, <3>1, <3>2, FieldLooksSpelled DEF InField
  <2> QED BY <2>2, <2>3
<1>15. CASE ParseDefault(t)
  <2>1. p.pc = "default" /\ FieldOK(f) /\ f.kind # "array"
    BY <1>0, <1>15 DEF ParseDefault, FieldAt
  <2>2. CASE t \in LiteralOf(f.kind)
    <3> DEFINE g == [f EXCEPT !.default = t]
    <3>1. Takes(t, "after", p.name, g, p.fields)
      BY <1>0, <1>15, <2>2, DefaultStep
    <3>2. /\ g.name = f.name /\ g.kind = f.kind /\ g.values = f.values /\ g.on_conflict = f.on_conflict
          /\ g.default = t
      BY <1>0 DEF FieldRecord
    <3>3. t # None /\ Word(t) = t
      <4>1. t # <<"largest">>
        BY <2>2, LiteralNotLargest
      <4> QED BY <2>2, <4>1, LiteralShape DEF Word
    <3> HIDE DEF g
    <3>4. FieldOK(g)
      BY <2>1, <2>2, <3>2 DEF FieldOK
    <3>5. Spells("default", f, Word(t), "after", g)
      BY <2>1, <3>2, <3>3, <3>4, SpellDefault
    <3> QED BY <2>1, <3>1, <3>5, FieldTakesSpelled DEF InField
  <2> QED BY <1>0, <1>15, <2>2, DefaultStep
<1>16. CASE EndField(t)
  <2>1. p.pc = "after" /\ FieldOK(f) /\ p.name # <<>>
    BY <1>0, <1>16 DEF EndField, FieldAt, NameFits
  <2>2. CASE f.name \notin FieldNames /\ t = <<",">>
    <3>1. Takes(t, "fields", p.name, NoField, Append(p.fields, f))
      BY <1>0, <1>16, <2>2, EndFieldStep
    <3>2. whole = Before(p.name, p.fields) \o DisplayField(f)
      BY <2>1 DEF WholeText, FieldText
    <3>3. WholeText("fields", p.name, NoField, Append(p.fields, f)) = Before(p.name, Append(p.fields, f))
      BY DEF WholeText
    <3>4. Word(t) = <<",">>
      BY <2>2 DEF Word
    <3>5. WholeText("fields", p.name, NoField, Append(p.fields, f)) = Append(whole, Word(t))
      BY <1>0, <2>1, <3>2, <3>3, <3>4, BeforeMore
    <3> QED BY <3>1, <3>5, TakesSpelled
  <2>3. CASE ~(f.name \notin FieldNames /\ t = <<",">>)
    <3>1. t # <<"}">>
      BY <2>1
    <3> QED BY <1>0, <1>16, <2>3, <3>1, EndFieldStep
  <2> QED BY <2>2, <2>3
<1> QED
  BY <1>1, <1>2, <1>3, <1>4, <1>5, <1>6, <1>7, <1>8, <1>9, <1>10, <1>11, <1>12, <1>13, <1>14, <1>15, <1>16
     DEF ParseToken

\* The brace that ends the last field is seen and not yet read.
LEMMA BraceSeen ==
  ASSUME Typed(p), NEW t \in Tokens \cup {End}, Peekable(t), EndField(t), t = <<"}">>, Exact(p)
  PROVE  Spelled(p')
<1>1. p.field \in FieldRecord /\ p.name \in Seq(Idents) /\ p.pc = "after"
  BY DEF Typed, ParserRecord, EndField
<1>2. FieldOK(p.field) /\ p.name # <<>> /\ AllOK(p.fields)
  BY <1>1, FieldsAllOK DEF Typed, FieldAt, NameFits
<1>3. CASE p.field.name \in FieldNames
  BY <1>3, EndFieldStep, FailsConsumed
<1>4. CASE p.field.name \notin FieldNames
  <2> DEFINE fs == Append(p.fields, p.field)
  <2>1. Looks(t, "fields", NoField, fs)
    BY <1>4, EndFieldStep
  <2>2. Consumed(p') = Before(p.name, p.fields) \o DisplayField(p.field)
    BY <1>1, <2>1, LooksConsumed DEF Exact, WholeText, FieldText
  <2>3. Append(Consumed(p'), <<",">>) = Before(p.name, fs)
    BY <1>1, <1>2, <2>2, BeforeMore
  <2>4. fs # <<>>
    <3>1. p.fields \in Seq(FieldRecord)
      BY <1>2 DEF AllOK
    <3> QED BY <1>1, <3>1, AppendNotEmpty
  <2> HIDE DEF fs
  <2>5. p'.pc = "fields" /\ p'.name = p.name /\ p'.fields = fs
    BY <2>1 DEF Looks
  <2>6. t # End
    BY DEF End
  <2>7. p'.pos + 1 <= Len(p'.input) /\ p'.input[p'.pos + 1] = <<"}">>
    BY <2>1, <2>6 DEF Looks, Saw
  <2> QED BY <2>3, <2>4, <2>5, <2>7 DEF Spelled, CommaLeft
<1> QED BY <1>3, <1>4

\* It is the next token that is read.
LEMMA BraceRead ==
  ASSUME Typed(p), NEW t \in Tokens \cup {End}, ParseToken(t), CommaLeft(p)
  PROVE  Spelled(p')
<1>1. p.pc = "fields" /\ p.fields # <<>> /\ Append(Consumed(p), <<",">>) = Before(p.name, p.fields)
  BY DEF CommaLeft
<1>2. ParseFieldName(t) /\ Peekable(t)
  BY <1>1 DEF ParseToken, ExpectType, ParseName, ParseSeparator, ExpectColon, ParseKind, ParseBracket,
              ExpectClose, ParseValues, ParseValue, ParseConflict, ParseStrategy, ExpectWins,
              ParseEquals, ParseDefault, EndField
<1>3. p.pos < Len(p.input)
  <2>1. p.pos \in Nat /\ Len(p.input) \in Nat
    BY DEF Typed, ParserRecord, Text
  <2>2. p.pos + 1 <= Len(p.input)
    BY DEF CommaLeft
  <2> QED BY <2>1, <2>2
<1>4. t = <<"}">>
  BY <1>2, <1>3 DEF Peekable, CommaLeft
<1>5. Takes(t, "done", p.name, p.field, p.fields)
  BY <1>2, <1>4, FieldNameStep
<1>6. Word(t) = t
  BY <1>4 DEF Word
<1>7. Consumed(p') = Append(Consumed(p), <<"}">>) /\ Consumed(p) \in Text
  BY <1>4, <1>5, <1>6, TakesConsumed, ConsumedType
<1>8. p'.pc = "done" /\ p'.name = p.name /\ p'.fields = p.fields
  BY <1>5 DEF Takes
<1> QED BY <1>1, <1>7, <1>8 DEF Spelled, CommaNeverRead

\* Nothing is read after the closing brace.
LEMMA NotDone ==
  ASSUME NEW t, ParseToken(t)
  PROVE  p.pc # "done"
  BY DEF ParseToken, ExpectType, ParseName, ParseSeparator, ParseFieldName, ExpectColon, ParseKind,
         ParseBracket, ExpectClose, ParseValues, ParseValue, ParseConflict, ParseStrategy, ExpectWins,
         ParseEquals, ParseDefault, EndField

LEMMA StartsExact ==
  ASSUME NEW q, q.pc = "type", q.pos = 0
  PROVE  Exact(q)
<1>1. Consumed(q) = <<>>
  BY DEF Consumed
<1> QED BY <1>1 DEF Exact, WholeText

LEMMA SpelledStep ==
  ASSUME WellFormed, Spelled(p), [Next]_vars
  PROVE  Spelled(p')
<1>0. Typed(p)
  BY DEF WellFormed
<1>1. CASE \E t \in Tokens \cup {End} : ParseToken(t)
  <2>1. PICK t \in Tokens \cup {End} : ParseToken(t)
    BY <1>1
  <2>2. CASE Exact(p) /\ ~(p.pc = "after" /\ t = <<"}">>)
    BY <1>0, <2>1, <2>2, ExactStep, FailsConsumed DEF Spelled
  <2>3. CASE Exact(p) /\ p.pc = "after" /\ t = <<"}">>
    <3>1. EndField(t) /\ Peekable(t)
      BY <2>1, <2>3 DEF ParseToken, ExpectType, ParseName, ParseSeparator, ParseFieldName, ExpectColon,
                        ParseKind, ParseBracket, ExpectClose, ParseValues, ParseValue, ParseConflict,
                        ParseStrategy, ExpectWins, ParseEquals, ParseDefault
    <3> QED BY <1>0, <2>1, <2>3, <3>1, BraceSeen
  <2>4. CASE CommaLeft(p)
    BY <1>0, <2>1, <2>4, BraceRead
  <2>5. ~CommaNeverRead(p)
    BY <2>1, NotDone DEF CommaNeverRead
  <2> QED BY <2>2, <2>3, <2>4, <2>5 DEF Spelled
<1>2. CASE ParseDisplayed
  <2>1. CASE Fails
    BY <2>1, FailsConsumed
  <2>2. CASE ~Fails
    <3>1. p' = NewParser(Lexed(PolicyType))
      BY <1>2, <2>2, DisplayedStep
    <3>2. p'.pc = "type" /\ p'.pos = 0
      BY <3>1 DEF NewParser
    <3> QED BY <3>2, StartsExact DEF Spelled
  <2> QED BY <2>1, <2>2
<1>3. CASE UNCHANGED vars
  BY <1>3 DEF vars
<1> QED BY <1>1, <1>2, <1>3 DEF Next

LEMMA SpelledInit ==
  Init => Spelled(p)
<1> SUFFICES ASSUME Init PROVE Spelled(p)
  OBVIOUS
<1>1. p.pc = "type" /\ p.pos = 0
  BY DEF Init, NewParser
<1> QED BY <1>1, StartsExact DEF Spelled

\* A closing part in place of the last two tokens.
LEMMA LastComma ==
  ASSUME NEW s \in Text, NEW shown, shown = Append(Append(s, <<",">>), <<"}">>)
  PROVE  /\ SubSeq(shown, 1, Len(shown) - 2) \o <<shown[Len(shown)]>> = Append(s, <<"}">>)
<1>1. s \in Seq(Tokens) /\ <<",">> \in Tokens /\ <<"}">> \in Tokens
  BY KeywordTokens DEF Text
<1> QED BY <1>1, DropSecondLast, ZenonT(60)

\* parse drops nothing: from `type' to the closing brace the tokens it read are, one by one, those that
\* Display writes of its result, but for the comma after the last field and the two words that stand
\* for a number's LargestValue; for inputs of every length.
THEOREM ParserNothingIgnored ==
  Spec => []NothingIgnored
<1>1. WellFormed /\ Spelled(p) => NothingIgnored
  <2> SUFFICES ASSUME Typed(p), Spelled(p), p.pc = "done" PROVE NothingIgnored
    BY DEF WellFormed, NothingIgnored
  <2> DEFINE shown == Display(PolicyType)
             brace == Len(shown)
  <2>1. shown = Append(Before(p.name, p.fields), <<"}">>)
    BY PolicyTypeFits, DisplayText
  <2> HIDE DEF shown
  <2>2. \/ Consumed(p) = shown
        \/ p.fields # <<>> /\ Consumed(p) = SubSeq(shown, 1, brace - 2) \o <<shown[brace]>>
    <3>1. CASE Exact(p)
      BY <2>1, <3>1 DEF Exact, WholeText
    <3>2. CASE CommaNeverRead(p)
      <4>1. PICK s \in Text : /\ Consumed(p) = Append(s, <<"}">>)
                              /\ Append(s, <<",">>) = Before(p.name, p.fields)
        BY <3>2 DEF CommaNeverRead
      <4> QED BY <2>1, <3>2, <4>1, LastComma DEF CommaNeverRead
    <3>3. ~CommaLeft(p)
      BY DEF CommaLeft
    <3> QED BY <3>1, <3>2, <3>3 DEF Spelled
  <2> QED BY <2>2 DEF NothingIgnored, Consumed, Word, shown
<1>2. Init => WellFormed /\ Spelled(p)
  BY WellFormedInit, SpelledInit
<1>3. WellFormed /\ Spelled(p) /\ [Next]_vars => WellFormed' /\ Spelled(p)'
  BY WellFormedStep, SpelledStep
<1> QED BY <1>1, <1>2, <1>3, PTL DEF Spec
-----------------------------------------------------------------------------
(* Display from its other end: what is left to read, up to the last brace.  *)

LEMMA TextMove ==
  ASSUME NEW a \in Text, NEW x \in Tokens, NEW c \in Text
  PROVE  Append(a, x) \o c = a \o Cons(x, c) /\ Cons(x, c) \in Text
<1>1. a \in Seq(Tokens) /\ c \in Seq(Tokens)
  BY DEF Text
<1> QED BY <1>1, ConsMoves, ConsFacts, ZenonT(60) DEF Text

LEMMA TextCons ==
  ASSUME NEW x \in Tokens, NEW c \in Text
  PROVE  Cons(x, c) \in Text
  BY ConsFacts DEF Text

LEMMA TextPair ==
  ASSUME NEW x \in Tokens, NEW y \in Tokens, NEW c \in Text
  PROVE  <<x, y>> \o c = Cons(x, Cons(y, c)) /\ Cons(y, c) \in Text /\ Cons(x, Cons(y, c)) \in Text
<1>1. <<x>> \in Text /\ <<x, y>> = Append(<<x>>, y)
  BY ShortText
<1>2. Append(<<x>>, y) \o c = <<x>> \o Cons(y, c) /\ Cons(y, c) \in Text
  BY <1>1, TextMove
<1> QED BY <1>1, <1>2, TextCons DEF Cons

\* The rest of a list: a separator and a token for each element.
PairWords(a, tag, xs) == [j \in DOMAIN xs |-> <<a, <<tag, xs[j]>>>>]
PairsLeft(a, tag, xs, c) == FlattenSeq(PairWords(a, tag, xs)) \o c
Pairs(X, a, tag) == a \in Tokens /\ \A y \in X : <<tag, y>> \in Tokens

LEMMA PairWordsType ==
  ASSUME NEW X, NEW a, NEW tag, Pairs(X, a, tag), NEW xs \in Seq(X)
  PROVE  /\ PairWords(a, tag, xs) \in [1..Len(xs) -> Seq(Tokens)]
         /\ PairWords(a, tag, xs) \in Seq(Seq(Tokens))
         /\ FlattenSeq(PairWords(a, tag, xs)) \in Text
<1>1. Len(xs) \in Nat /\ DOMAIN xs = 1..Len(xs)
  OBVIOUS
<1>2. ASSUME NEW j \in 1..Len(xs) PROVE <<a, <<tag, xs[j]>>>> \in Seq(Tokens)
  <2>1. xs[j] \in X
    OBVIOUS
  <2>2. a \in Tokens /\ <<tag, xs[j]>> \in Tokens
    BY <2>1 DEF Pairs
  <2> QED BY <2>2, ShortText DEF Text
<1>3. PairWords(a, tag, xs) \in [1..Len(xs) -> Seq(Tokens)]
  BY <1>1, <1>2 DEF PairWords
<1>4. PairWords(a, tag, xs) \in Seq(Seq(Tokens))
  BY <1>1, <1>3
<1> QED BY <1>3, <1>4, FlattenType DEF Text

LEMMA PairsNil ==
  ASSUME NEW a, NEW tag, NEW c \in Text
  PROVE  PairsLeft(a, tag, <<>>, c) = c
<1>1. PairWords(a, tag, <<>>) = <<>>
  BY DEF PairWords
<1>2. <<>> \o c = c
  BY ConcatEmptySeq DEF Text
<1> QED BY <1>1, <1>2, FlattenEmpty DEF PairsLeft

LEMMA PairsCons ==
  ASSUME NEW X, NEW a, NEW tag, Pairs(X, a, tag), NEW x \in X, NEW xs \in Seq(X), NEW c \in Text
  PROVE  /\ PairsLeft(a, tag, xs, c) \in Text
         /\ PairsLeft(a, tag, Cons(x, xs), c) = Cons(a, Cons(<<tag, x>>, PairsLeft(a, tag, xs, c)))
<1> DEFINE n == Len(xs)
           more == Cons(x, xs)
           ws == PairWords(a, tag, xs)
           w == <<a, <<tag, x>>>>
<1>1. n \in Nat /\ more \in Seq(X) /\ Leads(more, x, xs)
  BY ConsFacts
<1> HIDE DEF more
<1>2. Len(more) = n + 1 /\ more[1] = x /\ DOMAIN more = 1..(n + 1) /\ \A j \in 1..n : more[j + 1] = xs[j]
  BY <1>1 DEF Leads
<1>3. /\ ws \in [1..n -> Seq(Tokens)] /\ ws \in Seq(Seq(Tokens)) /\ FlattenSeq(ws) \in Text
      /\ PairWords(a, tag, more) \in [1..(n + 1) -> Seq(Tokens)]
  BY <1>1, <1>2, PairWordsType
<1>4. PairWords(a, tag, more)[1] = w
  <2>1. 1 \in 1..(n + 1)
    BY <1>1
  <2> QED BY <1>2, <2>1 DEF PairWords
<1>5. ASSUME NEW j \in 1..n PROVE PairWords(a, tag, more)[j + 1] = ws[j]
  <2>1. j + 1 \in 1..(n + 1) /\ DOMAIN xs = 1..n
    BY <1>1
  <2> QED BY <1>2, <2>1 DEF PairWords
<1>6. a \in Tokens /\ <<tag, x>> \in Tokens
  BY DEF Pairs
<1>7. w \in Seq(Tokens)
  BY <1>6, ShortText DEF Text
<1> HIDE DEF ws, n
<1>8. PairWords(a, tag, more) = Cons(w, ws)
  <2>1. Shifts(PairWords(a, tag, more), ws, w, n, Seq(Tokens))
    BY <1>1, <1>3, <1>4, <1>5 DEF Shifts
  <2> HIDE DEF w
  <2> QED BY <2>1, FunctionCons
<1>9. FlattenSeq(Cons(w, ws)) = w \o FlattenSeq(ws)
  <2> HIDE DEF w
  <2> QED BY <1>3, <1>7, FlattenCons
<1>10. FlattenSeq(ws) \o c \in Text
  BY <1>3, TextCat
<1>11. (w \o FlattenSeq(ws)) \o c = w \o (FlattenSeq(ws) \o c)
  <2> HIDE DEF w
  <2>1. w \in Text
    BY <1>7 DEF Text
  <2> QED BY <1>3, <2>1, TextAssociative
<1>12. w \o (FlattenSeq(ws) \o c) = Cons(a, Cons(<<tag, x>>, FlattenSeq(ws) \o c))
  BY <1>6, <1>10, TextPair
<1> QED BY <1>8, <1>9, <1>10, <1>11, <1>12 DEF PairsLeft, more, ws

LEMMA NamePairs ==
  Pairs(Idents, <<"::">>, "id") /\ Pairs(Strings, <<",">>, "str")
  BY TokenForms, KeywordTokens DEF Pairs

\* What follows the first name and the first value.
LEMMA FirstOfList ==
  ASSUME NEW X, NEW x \in X, NEW xs \in Seq(X), NEW a, NEW tag
  PROVE  [j \in 1..(Len(Cons(x, xs)) - 1) |-> <<a, <<tag, Cons(x, xs)[j + 1]>>>>] = PairWords(a, tag, xs)
<1> DEFINE n == Len(xs)
           more == Cons(x, xs)
<1>1. n \in Nat /\ DOMAIN xs = 1..n /\ Leads(more, x, xs)
  BY ConsFacts
<1> HIDE DEF more
<1>2. Len(more) - 1 = n /\ \A j \in 1..n : more[j + 1] = xs[j]
  BY <1>1 DEF Leads
<1>3. [j \in 1..(Len(more) - 1) |-> <<a, <<tag, more[j + 1]>>>>] = PairWords(a, tag, xs)
  BY <1>1, <1>2 DEF PairWords
<1> QED BY <1>3 DEF more

\* What is left of a field, with c behind it.
DefaultLeft(g, c) == IF g.default = None THEN c ELSE Cons(<<"=">>, Cons(g.default, c))
StrategyLeft(g, c) ==
  IF g.on_conflict = "Agreement" THEN Cons(<<"agreement">>, c)
  ELSE IF g.kind = "bool" THEN Cons(<<"sticky">>, c)
  ELSE Cons(FirstOf(g.kind), Cons(<<"wins">>, c))
ConflictLeft(g, c) == IF g.on_conflict = "Default" THEN c ELSE Cons(<<"@">>, StrategyLeft(g, c))
ValuesLeft(vs, c) == PairsLeft(<<",">>, "str", vs, Cons(<<"]">>, c))
KindLeft(g, c) ==
  CASE g.kind = "array" -> Cons(<<"[">>, Cons(<<"string">>, Cons(<<"]">>, c)))
    [] g.kind = "enum" ->
         Cons(<<"[">>, Cons(<<"str", g.values[1]>>, ValuesLeft(Tail(g.values), c)))
    [] OTHER -> Cons(<<g.kind>>, c)
AfterKind(g, c) == ConflictLeft(g, DefaultLeft(g, c))

LEMMA DefaultLeftText ==
  ASSUME NEW g, FieldOK(g), NEW c \in Text
  PROVE  DefaultLeft(g, c) \in Text /\ DisplayField(g) \o c = ConflictText(g) \o DefaultLeft(g, c)
<1> DEFINE a == ConflictText(g)
<1>1. a \in Text
  BY ConflictWords
<1>2. CASE g.default = None
  BY <1>2, DefaultWords DEF DefaultLeft
<1>3. CASE g.default # None
  <2> DEFINE x == g.default
  <2>1. x \in Tokens /\ DisplayField(g) = Append(Append(a, <<"=">>), x)
    BY <1>3, DefaultWords
  <2>2. DefaultLeft(g, c) = Cons(<<"=">>, Cons(x, c))
    BY <1>3 DEF DefaultLeft
  <2>3. <<"=">> \in Tokens
    BY KeywordTokens
  <2> HIDE DEF a, x
  <2>4. Append(a, <<"=">>) \in Text
    BY <1>1, <2>3, TextOne
  <2>5. Append(Append(a, <<"=">>), x) \o c = Append(a, <<"=">>) \o Cons(x, c) /\ Cons(x, c) \in Text
    BY <2>1, <2>4, TextMove
  <2>6. /\ Append(a, <<"=">>) \o Cons(x, c) = a \o Cons(<<"=">>, Cons(x, c))
        /\ Cons(<<"=">>, Cons(x, c)) \in Text
    BY <1>1, <2>3, <2>5, TextMove
  <2> QED BY <2>1, <2>2, <2>5, <2>6 DEF a
<1> QED BY <1>2, <1>3

LEMMA TextMoves ==
  ASSUME NEW a \in Text, NEW x \in Tokens, NEW y \in Tokens, NEW c \in Text
  PROVE  /\ Cons(y, c) \in Text /\ Cons(x, Cons(y, c)) \in Text
         /\ Append(Append(a, x), y) \o c = a \o Cons(x, Cons(y, c))
<1>1. Append(a, x) \in Text
  BY TextOne
<1>2. Append(Append(a, x), y) \o c = Append(a, x) \o Cons(y, c) /\ Cons(y, c) \in Text
  BY <1>1, TextMove
<1>3. Append(a, x) \o Cons(y, c) = a \o Cons(x, Cons(y, c)) /\ Cons(x, Cons(y, c)) \in Text
  BY <1>2, TextMove
<1> QED BY <1>2, <1>3

LEMMA FirstOfToken ==
  ASSUME NEW kind
  PROVE  FirstOf(kind) \in Tokens
  BY KeywordTokens DEF FirstOf

LEMMA ConflictLeftText ==
  ASSUME NEW g, FieldOK(g), NEW c \in Text
  PROVE  /\ StrategyLeft(g, c) \in Text /\ ConflictLeft(g, c) \in Text
         /\ ConflictText(g) \o c = KindText(g) \o ConflictLeft(g, c)
<1> DEFINE k == KindText(g)
           w == FirstOf(g.kind)
<1>1. k \in Text
  BY KindTextType
<1>2. <<"@">> \in Tokens /\ <<"agreement">> \in Tokens /\ <<"sticky">> \in Tokens /\ <<"wins">> \in Tokens /\ w \in Tokens
  BY KeywordTokens, FirstOfToken
<1>3. Cons(<<"wins">>, c) \in Text
  BY <1>2, TextCons
<1>4. StrategyLeft(g, c) \in Text
  BY <1>2, <1>3, TextCons DEF StrategyLeft
<1>5. ConflictLeft(g, c) \in Text
  BY <1>2, <1>4, TextCons DEF ConflictLeft
<1>6. CASE g.on_conflict = "Default"
  BY <1>4, <1>5, <1>6, ConflictWords DEF ConflictLeft
<1>7. CASE g.on_conflict = "Agreement"
  <2>1. ConflictText(g) = Append(Append(k, <<"@">>), <<"agreement">>)
    BY <1>7, ConflictWords
  <2>2. ConflictLeft(g, c) = Cons(<<"@">>, Cons(<<"agreement">>, c))
    BY <1>7 DEF ConflictLeft, StrategyLeft
  <2> HIDE DEF k
  <2>3. Append(Append(k, <<"@">>), <<"agreement">>) \o c = k \o Cons(<<"@">>, Cons(<<"agreement">>, c))
    <3> DEFINE x == <<"@">>
               y == <<"agreement">>
    <3>1. x \in Tokens /\ y \in Tokens
      BY <1>2
    <3> HIDE DEF x, y
    <3>2. Append(Append(k, x), y) \o c = k \o Cons(x, Cons(y, c))
      BY <1>1, <3>1, TextMoves, ZenonT(60)
    <3> QED BY <3>2 DEF x, y
  <2> QED BY <1>4, <1>5, <2>1, <2>2, <2>3 DEF k
<1>8. CASE g.on_conflict = "LargestValue" /\ g.kind = "bool"
  <2>1. ConflictText(g) = Append(Append(k, <<"@">>), <<"sticky">>)
    BY <1>8, ConflictWords
  <2>2. ConflictLeft(g, c) = Cons(<<"@">>, Cons(<<"sticky">>, c))
    BY <1>8 DEF ConflictLeft, StrategyLeft
  <2> HIDE DEF k
  <2>3. Append(Append(k, <<"@">>), <<"sticky">>) \o c = k \o Cons(<<"@">>, Cons(<<"sticky">>, c))
    <3> DEFINE x == <<"@">>
               y == <<"sticky">>
    <3>1. x \in Tokens /\ y \in Tokens
      BY <1>2
    <3> HIDE DEF x, y
    <3>2. Append(Append(k, x), y) \o c = k \o Cons(x, Cons(y, c))
      BY <1>1, <3>1, TextMoves, ZenonT(60)
    <3> QED BY <3>2 DEF x, y
  <2> QED BY <1>4, <1>5, <2>1, <2>2, <2>3 DEF k
<1>9. CASE g.on_conflict = "LargestValue" /\ g.kind # "bool"
  <2>1. ConflictText(g) = Append(Append(Append(k, <<"@">>), w), <<"wins">>)
    BY <1>9, ConflictWords
  <2>2. ConflictLeft(g, c) = Cons(<<"@">>, Cons(w, Cons(<<"wins">>, c)))
    BY <1>9 DEF ConflictLeft, StrategyLeft
  <2> HIDE DEF k, w
  <2>3. Append(k, <<"@">>) \in Text
    BY <1>1, <1>2, TextOne
  <2>4. Append(Append(k, <<"@">>), w) \in Text
    BY <1>2, <2>3, TextOne
  <2>5. Append(Append(Append(k, <<"@">>), w), <<"wins">>) \o c = Append(Append(k, <<"@">>), w) \o Cons(<<"wins">>, c)
    BY <1>2, <2>4, TextMove
  <2>6. Append(Append(k, <<"@">>), w) \o Cons(<<"wins">>, c) = k \o Cons(<<"@">>, Cons(w, Cons(<<"wins">>, c)))
    <3> DEFINE x == <<"@">>
               r == Cons(<<"wins">>, c)
    <3>1. x \in Tokens /\ r \in Text /\ w \in Tokens
      BY <1>2, <1>3
    <3> HIDE DEF x, r
    <3>2. Append(Append(k, x), w) \o r = k \o Cons(x, Cons(w, r))
      BY <1>1, <3>1, TextMoves, ZenonT(60)
    <3> QED BY <3>2 DEF x, r
  <2> QED BY <1>4, <1>5, <2>1, <2>2, <2>5, <2>6 DEF k, w
<1> QED BY <1>4, <1>5, <1>6, <1>7, <1>8, <1>9 DEF FieldOK

LEMMA TailCons ==
  ASSUME NEW X, NEW x \in X, NEW xs \in Seq(X)
  PROVE  Cons(x, xs)[1] = x /\ Tail(Cons(x, xs)) = xs
<1> DEFINE d == Cons(x, xs)
<1>1. d \in Seq(X) /\ Leads(d, x, xs)
  BY ConsFacts
<1>2. Len(xs) \in Nat
  OBVIOUS
<1> HIDE DEF d
<1>3. d # <<>> /\ d[1] = x /\ Len(d) = Len(xs) + 1 /\ \A j \in 1..Len(xs) : d[j + 1] = xs[j]
  BY <1>1 DEF Leads
<1> DEFINE u == Tail(d)
<1>4. u \in Seq(X) /\ Len(u) = Len(xs) /\ \A j \in 1..Len(xs) : u[j] = d[j + 1]
  BY <1>1, <1>2, <1>3
<1> HIDE DEF u
<1>5. u = xs
  BY <1>3, <1>4, SeqEqual
<1> QED BY <1>3, <1>5 DEF d, u

\* The values of an enum: the first one, and the others.
LEMMA ValuesTextCons ==
  ASSUME NEW v \in Strings, NEW vs \in Seq(Strings), NEW c \in Text
  PROVE  /\ ValuesLeft(vs, c) \in Text /\ ValuesText(Cons(v, vs)) \in Text
         /\ ValuesText(Cons(v, vs)) \o Cons(<<"]">>, c) = Cons(<<"[">>, Cons(<<"str", v>>, ValuesLeft(vs, c)))
<1> DEFINE e == Cons(<<"]">>, c)
           h == <<<<"[">>, <<"str", v>>>>
           r == FlattenSeq(PairWords(<<",">>, "str", vs))
<1>1. e \in Text
  BY TextCons, KeywordTokens
<1>2. <<"[">> \in Tokens /\ <<"str", v>> \in Tokens
  BY KeywordTokens, TokenForms
<1>3. Cons(v, vs)[1] = v
  BY TailCons
<1>4. ValueWords(Cons(v, vs)) = PairWords(<<",">>, "str", vs)
  <2> DEFINE a == <<",">>
             tag == "str"
  <2>1. ValueWords(Cons(v, vs)) = [j \in 1..(Len(Cons(v, vs)) - 1) |-> <<a, <<tag, Cons(v, vs)[j + 1]>>>>]
    BY DEF ValueWords
  <2> HIDE DEF a, tag
  <2>2. ValueWords(Cons(v, vs)) = PairWords(a, tag, vs)
    BY <2>1, FirstOfList
  <2> QED BY <2>2 DEF a, tag
<1>5. ValuesText(Cons(v, vs)) = h \o r
  BY <1>3, <1>4 DEF ValuesText
<1>6. r \in Text
  BY PairWordsType, NamePairs
<1>7. h \in Text
  BY <1>2, ShortText
<1> HIDE DEF e, r
<1>8. r \o e \in Text /\ ValuesLeft(vs, c) = r \o e
  BY <1>1, <1>6, TextCat DEF ValuesLeft, PairsLeft, e, r
<1>9. h \o (r \o e) = Cons(<<"[">>, Cons(<<"str", v>>, r \o e))
  BY <1>2, <1>8, TextPair
<1>10. (h \o r) \o e = h \o (r \o e) /\ h \o r \in Text
  <2> HIDE DEF h
  <2> QED BY <1>1, <1>6, <1>7, TextAssociative, TextCat
<1> QED BY <1>5, <1>8, <1>9, <1>10 DEF e

LEMMA HeadLeftText ==
  ASSUME NEW g, g.name \in Idents, NEW c \in Text
  PROVE  /\ HeadText(g) \o c = Cons(<<"id", g.name>>, Cons(<<":">>, c))
         /\ Cons(<<":">>, c) \in Text /\ Cons(<<"id", g.name>>, Cons(<<":">>, c)) \in Text
<1> DEFINE x == <<"id", g.name>>
           y == <<":">>
<1>1. x \in Tokens /\ y \in Tokens /\ HeadText(g) = <<x, y>>
  BY HeadTextType, KeywordTokens DEF HeadText
<1> HIDE DEF x, y
<1>2. <<x, y>> \o c = Cons(x, Cons(y, c)) /\ Cons(y, c) \in Text /\ Cons(x, Cons(y, c)) \in Text
  BY <1>1, TextPair
<1> QED BY <1>1, <1>2 DEF x, y

LEMMA KindLeftText ==
  ASSUME NEW g, FieldOK(g), NEW c \in Text
  PROVE  KindLeft(g, c) \in Text /\ KindText(g) \o c = HeadText(g) \o KindLeft(g, c)
<1> DEFINE h == HeadText(g)
<1>1. h \in Text /\ g.name \in Idents
  BY HeadTextType DEF FieldOK
<1>2. CASE g.kind = "array"
  <2> DEFINE x == <<"[">>
             y == <<"string">>
             z == <<"]">>
  <2>1. x \in Tokens /\ y \in Tokens /\ z \in Tokens
    BY KeywordTokens
  <2>2. KindText(g) = Append(Append(Append(h, x), y), z) /\ KindLeft(g, c) = Cons(x, Cons(y, Cons(z, c)))
    BY <1>1, <1>2, ArrayKind DEF KindLeft
  <2> HIDE DEF h, x, y, z
  <2>3. Append(h, x) \in Text
    BY <1>1, <2>1, TextOne
  <2>4. Append(Append(h, x), y) \in Text
    BY <2>1, <2>3, TextOne
  <2>5. Append(Append(Append(h, x), y), z) \o c = Append(Append(h, x), y) \o Cons(z, c) /\ Cons(z, c) \in Text
    BY <2>1, <2>4, TextMove
  <2>6. /\ Append(Append(h, x), y) \o Cons(z, c) = h \o Cons(x, Cons(y, Cons(z, c)))
        /\ Cons(x, Cons(y, Cons(z, c))) \in Text
    <3> DEFINE r == Cons(z, c)
    <3>1. r \in Text
      BY <2>5
    <3> HIDE DEF r
    <3>2. Append(Append(h, x), y) \o r = Append(h, x) \o Cons(y, r) /\ Cons(y, r) \in Text
      BY <2>1, <2>3, <3>1, TextMove
    <3>3. Append(h, x) \o Cons(y, r) = h \o Cons(x, Cons(y, r)) /\ Cons(x, Cons(y, r)) \in Text
      BY <1>1, <2>1, <3>2, TextMove
    <3> QED BY <3>2, <3>3 DEF r
  <2> QED BY <2>2, <2>5, <2>6 DEF h
<1>3. CASE g.kind = "enum"
  <2>1. g.values \in Seq(Strings) /\ g.values # <<>>
    BY <1>3 DEF FieldOK
  <2>2. PICK v \in Strings, vs \in Seq(Strings) : g.values = Cons(v, vs)
    BY <2>1, SeqCons
  <2>3. g.values[1] = v /\ Tail(g.values) = vs
    BY <2>2, TailCons
  <2> DEFINE w == ValuesText(g.values)
             e == Cons(<<"]">>, c)
  <2>4. KindLeft(g, c) = Cons(<<"[">>, Cons(<<"str", v>>, ValuesLeft(vs, c)))
    BY <1>3, <2>3 DEF KindLeft
  <2>5. w \in Text /\ w \o e = KindLeft(g, c)
    BY <2>2, <2>4, ValuesTextCons
  <2>6. KindText(g) = Append(h \o w, <<"]">>) /\ h \o w \in Text
    BY <1>1, <1>3, <2>1, EnumKind
  <2>7. <<"]">> \in Tokens
    BY KeywordTokens
  <2> HIDE DEF h, w
  <2>8. Append(h \o w, <<"]">>) \o c = (h \o w) \o e /\ e \in Text
    BY <2>6, <2>7, TextMove
  <2> HIDE DEF e
  <2>9. (h \o w) \o e = h \o (w \o e) /\ w \o e \in Text
    <3>1. w \in Text /\ e \in Text
      BY <2>5, <2>8
    <3>2. (h \o w) \o e = h \o (w \o e)
      BY <1>1, <3>1, TextAssociative
    <3> QED BY <3>1, <3>2, TextCat
  <2> QED BY <2>5, <2>6, <2>8, <2>9 DEF h
<1>4. CASE g.kind \in {"bool", "string", "number"}
  <2> DEFINE x == <<g.kind>>
  <2>1. x \in Tokens
    BY <1>4, KeywordTokens
  <2>2. KindText(g) = Append(h, x) /\ KindLeft(g, c) = Cons(x, c)
    BY <1>1, <1>4, WordKind DEF KindLeft
  <2> HIDE DEF h, x
  <2>3. Append(h, x) \o c = h \o Cons(x, c) /\ Cons(x, c) \in Text
    BY <1>1, <2>1, TextMove
  <2> QED BY <2>2, <2>3 DEF h
<1> QED BY <1>2, <1>3, <1>4 DEF FieldOK

\* A field and what follows it.
LEMMA FieldLeftText ==
  ASSUME NEW g, FieldOK(g), NEW c \in Text
  PROVE  /\ DefaultLeft(g, c) \in Text /\ AfterKind(g, c) \in Text /\ KindLeft(g, AfterKind(g, c)) \in Text
         /\ DisplayField(g) \o c = Cons(<<"id", g.name>>, Cons(<<":">>, KindLeft(g, AfterKind(g, c))))
<1> DEFINE d == DefaultLeft(g, c)
           a == AfterKind(g, c)
           k == KindLeft(g, a)
<1>1. d \in Text /\ DisplayField(g) \o c = ConflictText(g) \o d
  BY DefaultLeftText
<1>2. a = ConflictLeft(g, d)
  BY DEF AfterKind
<1> HIDE DEF d, a
<1>3. a \in Text /\ ConflictText(g) \o d = KindText(g) \o a
  BY <1>1, <1>2, ConflictLeftText
<1>4. k \in Text /\ KindText(g) \o a = HeadText(g) \o k
  BY <1>3, KindLeftText
<1> HIDE DEF k
<1>5. HeadText(g) \o k = Cons(<<"id", g.name>>, Cons(<<":">>, k))
  BY <1>4, HeadLeftText DEF FieldOK
<1> QED BY <1>1, <1>3, <1>4, <1>5 DEF d, a, k

\* The fields that are left, and the last brace.
FieldsLeft(gs) == FieldsText(gs) \o <<<<"}">>>>
Comma(gs) == Cons(<<",">>, FieldsLeft(gs))

LEMMA FieldsLeftType ==
  ASSUME NEW gs, AllOK(gs)
  PROVE  FieldsLeft(gs) \in Text /\ Comma(gs) \in Text
<1>1. <<<<"}">>>> \in Text
  BY KeywordTokens, ShortText
<1>2. FieldsLeft(gs) \in Text
  BY <1>1, FieldWordsType, TextCat DEF FieldsLeft
<1> QED BY <1>2, TextCons, KeywordTokens DEF Comma

LEMMA FieldsLeftNil ==
  FieldsLeft(<<>>) = Cons(<<"}">>, <<>>) /\ <<>> \in Text
<1>1. FieldWords(<<>>) = <<>>
  BY DEF FieldWords
<1>2. FieldsText(<<>>) = <<>>
  BY <1>1, FlattenEmpty DEF FieldsText
<1>3. <<<<"}">>>> \in Seq(Tokens) /\ <<>> \in Text
  BY KeywordTokens, ShortText DEF Text
<1>4. <<>> \o <<<<"}">>>> = <<<<"}">>>> /\ <<<<"}">>>> \o <<>> = <<<<"}">>>>
  BY <1>3, ConcatEmptySeq
<1> QED BY <1>2, <1>3, <1>4 DEF FieldsLeft, Cons

LEMMA AllOKCons ==
  ASSUME NEW g \in FieldRecord, NEW gs \in Seq(FieldRecord), AllOK(Cons(g, gs))
  PROVE  FieldOK(g) /\ AllOK(gs)
<1> DEFINE d == Cons(g, gs)
<1>1. Leads(d, g, gs) /\ d \in Seq(FieldRecord)
  BY ConsFacts
<1>2. AllOK(d)
  OBVIOUS
<1> HIDE DEF d
<1>3. Len(gs) \in Nat /\ DOMAIN gs = 1..Len(gs) /\ DOMAIN d = 1..(Len(gs) + 1)
  BY <1>1 DEF Leads
<1>4. \A j \in 1..Len(gs) : j + 1 \in 1..(Len(gs) + 1) /\ d[j + 1] = gs[j]
  BY <1>1, <1>3 DEF Leads
<1>5. 1 \in 1..(Len(gs) + 1) /\ d[1] = g
  BY <1>1, <1>3 DEF Leads
<1>6. FieldOK(g)
  BY <1>2, <1>3, <1>5 DEF AllOK
<1>7. \A j \in 1..Len(gs) : FieldOK(gs[j])
  BY <1>2, <1>3, <1>4 DEF AllOK
<1> QED BY <1>3, <1>6, <1>7 DEF AllOK

LEMMA FieldsLeftCons ==
  ASSUME NEW g \in FieldRecord, NEW gs \in Seq(FieldRecord), AllOK(Cons(g, gs))
  PROVE  FieldsLeft(Cons(g, gs)) = Cons(<<"id", g.name>>, Cons(<<":">>, KindLeft(g, AfterKind(g, Comma(gs)))))
<1> DEFINE n == Len(gs)
           more == Cons(g, gs)
           x == DisplayField(g)
           w == Append(x, <<",">>)
           ws == FieldWords(gs)
           b == <<<<"}">>>>
<1>1. FieldOK(g) /\ AllOK(gs) /\ Leads(more, g, gs) /\ more \in Seq(FieldRecord) /\ n \in Nat /\ DOMAIN gs = 1..n
  BY AllOKCons, ConsFacts
<1>2. AllOK(more)
  OBVIOUS
<1> HIDE DEF more
<1>3. Len(more) = n + 1 /\ DOMAIN more = 1..(n + 1) /\ more[1] = g /\ \A j \in 1..n : more[j + 1] = gs[j]
  BY <1>1 DEF Leads
<1>4. /\ FieldWords(more) \in [1..(n + 1) -> Seq(Tokens)] /\ ws \in [1..n -> Seq(Tokens)]
      /\ ws \in Seq(Seq(Tokens)) /\ FlattenSeq(ws) \in Text
  BY <1>1, <1>2, <1>3, FieldWordsType DEF FieldsText
<1>5. FieldWords(more)[1] = w
  <2>1. 1 \in 1..(n + 1)
    BY <1>1
  <2> QED BY <1>3, <2>1 DEF FieldWords
<1>6. ASSUME NEW j \in 1..n PROVE FieldWords(more)[j + 1] = ws[j]
  <2>1. j + 1 \in 1..(n + 1)
    BY <1>1
  <2> QED BY <1>1, <1>3, <2>1 DEF FieldWords
<1>7. x \in Text
  BY <1>1, DefaultWords
<1>8. <<",">> \in Tokens /\ b \in Text
  BY KeywordTokens, ShortText
<1> HIDE DEF ws, n, x, b
<1>9. w \in Seq(Tokens) /\ w \in Text
  BY <1>7, <1>8, TextOne DEF Text
<1>10. FieldWords(more) = Cons(w, ws)
  <2>1. Shifts(FieldWords(more), ws, w, n, Seq(Tokens))
    BY <1>1, <1>4, <1>5, <1>6 DEF Shifts
  <2> HIDE DEF w
  <2> QED BY <2>1, FunctionCons
<1>11. FieldsText(more) = w \o FlattenSeq(ws)
  <2> HIDE DEF w
  <2> QED BY <1>4, <1>9, <1>10, FlattenCons DEF FieldsText
<1>12. (w \o FlattenSeq(ws)) \o b = w \o (FlattenSeq(ws) \o b) /\ FlattenSeq(ws) \o b \in Text
  <2> HIDE DEF w
  <2> QED BY <1>4, <1>8, <1>9, TextAssociative, TextCat, ZenonT(60)
<1>13. FieldsLeft(gs) = FlattenSeq(ws) \o b
  BY DEF FieldsLeft, FieldsText, ws, b
<1>14. w \o FieldsLeft(gs) = x \o Comma(gs) /\ Comma(gs) \in Text
  BY <1>7, <1>8, <1>12, <1>13, TextMove, ZenonT(60) DEF Comma
<1>15. x \o Comma(gs) = Cons(<<"id", g.name>>, Cons(<<":">>, KindLeft(g, AfterKind(g, Comma(gs)))))
  BY <1>1, <1>14, FieldLeftText DEF x
<1> QED BY <1>11, <1>12, <1>13, <1>14, <1>15 DEF FieldsLeft, more, b

\* The names that are left, and the fields.
NamesLeft(ms, c) == PairsLeft(<<"::">>, "id", ms, c)
Body(type) == Cons(<<"{">>, FieldsLeft(type.fields))

LEMMA DisplayLeft ==
  ASSUME NEW type, TypeFits(type), NEW h \in Idents, NEW ms \in Seq(Idents), type.name = Cons(h, ms)
  PROVE  /\ Body(type) \in Text /\ NamesLeft(ms, Body(type)) \in Text
         /\ Cons(<<"id", h>>, NamesLeft(ms, Body(type))) \in Text
         /\ Display(type) = Cons(<<"type">>, Cons(<<"id", h>>, NamesLeft(ms, Body(type))))
<1> DEFINE n == NameText(type.name)
           f == FieldsText(type.fields)
           b == <<<<"}">>>>
           a == Append(n, <<"{">>)
           u == FlattenSeq(PairWords(<<"::">>, "id", ms))
           w == <<<<"type">>, <<"id", h>>>>
           c == Body(type)
<1>1. n \in Text /\ f \in Text /\ a \in Text
  BY NameTextType, FieldWordsType DEF TypeFits
<1>2. b \in Text /\ <<"{">> \in Tokens /\ <<"type">> \in Tokens /\ <<"}">> \in Tokens /\ <<"id", h>> \in Tokens
  BY KeywordTokens, ShortText, TokenForms
<1>3. Display(type) = Append(a \o f, <<"}">>)
  BY DisplayText DEF Before
<1>4. FieldsLeft(type.fields) = f \o b /\ f \o b \in Text
  <2>1. FieldsLeft(type.fields) = f \o b
    BY DEF FieldsLeft
  <2> HIDE DEF f, b
  <2> QED BY <1>1, <1>2, <2>1, TextCat
<1>5. Display(type) = n \o c /\ c \in Text
  <2>1. c = Cons(<<"{">>, f \o b)
    BY <1>4 DEF Body
  <2> HIDE DEF n, f, c
  <2>2. a \o f \in Text
    BY <1>1, TextCat
  <2>3. (a \o f) \o b = Append(a \o f, <<"}">>)
    BY <1>2, <2>2, TextOne
  <2> HIDE DEF b
  <2>4. (a \o f) \o b = a \o (f \o b)
    BY <1>1, <1>2, TextAssociative
  <2>5. a \o (f \o b) = n \o Cons(<<"{">>, f \o b) /\ Cons(<<"{">>, f \o b) \in Text
    BY <1>1, <1>2, <1>4, TextMove, ZenonT(60)
  <2> QED BY <1>3, <2>1, <2>3, <2>4, <2>5
<1>6. n = w \o u
  <2> DEFINE x == <<"::">>
             tag == "id"
  <2>1. NameWords(type.name) = [j \in 1..(Len(Cons(h, ms)) - 1) |-> <<x, <<tag, Cons(h, ms)[j + 1]>>>>]
    BY DEF NameWords
  <2> HIDE DEF x, tag
  <2>2. NameWords(type.name) = PairWords(x, tag, ms)
    BY <2>1, FirstOfList
  <2>3. type.name[1] = h
    BY TailCons
  <2> QED BY <2>2, <2>3 DEF NameText, x, tag
<1>7. u \in Text
  BY PairWordsType, NamePairs
<1>8. NamesLeft(ms, c) = u \o c
  BY DEF NamesLeft, PairsLeft
<1> HIDE DEF c, u
<1>9. u \o c \in Text
  BY <1>5, <1>7, TextCat
<1>10. w \in Text
  BY <1>2, ShortText
<1>11. (w \o u) \o c = w \o (u \o c)
  <2> HIDE DEF w
  <2> QED BY <1>5, <1>7, <1>10, TextAssociative
<1>12. w \o (u \o c) = Cons(<<"type">>, Cons(<<"id", h>>, u \o c)) /\ Cons(<<"id", h>>, u \o c) \in Text
  <2> DEFINE x == <<"type">>
             y == <<"id", h>>
             r == u \o c
  <2>1. x \in Tokens /\ y \in Tokens /\ r \in Text
    BY <1>2, <1>9
  <2> HIDE DEF x, y, r
  <2>2. <<x, y>> \o r = Cons(x, Cons(y, r)) /\ Cons(y, r) \in Text
    BY <2>1, TextPair
  <2> QED BY <2>2 DEF x, y, r
<1> QED BY <1>5, <1>6, <1>8, <1>9, <1>11, <1>12 DEF c
-----------------------------------------------------------------------------
(* Reading the text of a type again.                                        *)

\* r is what follows the first k tokens of d.
After(d, k, r) == k \in Nat /\ r \in Text /\ \E s \in Text : Len(s) = k /\ d = s \o r

LEMMA AfterAll ==
  ASSUME NEW d \in Text
  PROVE  After(d, 0, d)
<1>1. <<>> \in Text /\ Len(<<>>) = 0 /\ <<>> \o d = d
  BY ConcatEmptySeq, ShortText DEF Text
<1> QED BY <1>1 DEF After

LEMMA AfterCons ==
  ASSUME NEW d, NEW k, NEW x \in Tokens, NEW r \in Text, After(d, k, Cons(x, r))
  PROVE  k + 1 <= Len(d) /\ d[k + 1] = x /\ After(d, k + 1, r)
<1>1. PICK s \in Text : Len(s) = k /\ d = s \o Cons(x, r)
  BY DEF After
<1>2. k \in Nat
  BY DEF After
<1>3. d = Append(s, x) \o r /\ Append(s, x) \in Text
  BY <1>1, TextMove, TextOne
<1> DEFINE u == Append(s, x)
<1>4. u \in Seq(Tokens) /\ Len(u) = k + 1 /\ u[k + 1] = x /\ r \in Seq(Tokens) /\ Len(r) \in Nat
  BY <1>1, <1>2 DEF Text
<1>5. d = u \o r /\ u \in Text
  BY <1>3
<1> HIDE DEF u
<1>6. Len(d) = (k + 1) + Len(r) /\ d[k + 1] = u[k + 1]
  <2>1. /\ Len(u \o r) = Len(u) + Len(r)
        /\ \A j \in 1..(Len(u) + Len(r)) : (u \o r)[j] = IF j <= Len(u) THEN u[j] ELSE r[j - Len(u)]
    BY <1>4, ConcatProperties
  <2>2. k + 1 \in 1..((k + 1) + Len(r)) /\ k + 1 <= k + 1
    BY <1>2, <1>4
  <2> QED BY <1>4, <1>5, <2>1, <2>2
<1>7. k + 1 <= Len(d) /\ k + 1 \in Nat
  BY <1>2, <1>4, <1>6
<1> QED BY <1>4, <1>5, <1>6, <1>7 DEF After

\* The second parse: its input is what the lexer makes of the text.
Given(q, type) == ~q.open /\ q.input = Lexed(type) /\ ~Contains(Lexed(type), Bad)

LEMMA NextToken ==
  ASSUME Typed(p), NEW type, TypeFits(type), Given(p, type), NEW x \in Tokens, NEW r \in Text,
         After(Display(type), p.pos, Cons(x, r)), NEW t, Peekable(t)
  PROVE  /\ t = Relexed(x) /\ t # Bad
         /\ x \in Keywords \/ x[1] \in {"id", "str"} => t = x
         /\ x[1] = "str" => ~Garbled(x[2])
         /\ x # <<"num", "inf">> => t = x
         /\ x # <<"num", "-inf">>
<1> DEFINE d == Display(type)
           k == p.pos
           u == Lexed(type)
<1>1. k + 1 <= Len(d) /\ d[k + 1] = x
  BY AfterCons
<1>2. k \in Nat /\ Len(d) \in Nat /\ Len(u) = Len(d) /\ \A j \in 1..Len(d) : u[j] = Relexed(d[j])
  BY LexedShape DEF Typed, ParserRecord
<1>3. \A j \in 1..Len(u) : u[j] # Bad
  BY DEF Given, Contains
<1> HIDE DEF d, u
<1>4. k + 1 \in 1..Len(d) /\ k < Len(d)
  BY <1>1, <1>2
<1>5. u[k + 1] = Relexed(x) /\ u[k + 1] # Bad
  BY <1>1, <1>2, <1>3, <1>4
<1>6. t = u[k + 1]
  <2>1. p.input = u
    BY DEF Given, u
  <2> QED BY <1>2, <1>4, <2>1 DEF Peekable
<1>7. (x[1] = "str" => ~Garbled(x[2])) /\ x # <<"num", "-inf">>
  BY <1>5, RelexedToken
<1>8. x # <<"num", "inf">> => t = x
  BY <1>5, <1>6, <1>7, RelexedToken
<1>9. x \in Keywords \/ x[1] \in {"id", "str"} => x # <<"num", "inf">>
  <2>1. CASE x \in Keywords
    <3>1. PICK w \in Words : x = <<w>> /\ x[1] = w
      BY <2>1, KeywordShape
    <3>2. w # "num" /\ <<"num", "inf">>[1] = "num"
      BY DEF Words
    <3> QED BY <3>1, <3>2
  <2>2. CASE x[1] \in {"id", "str"}
    <3>1. <<"num", "inf">>[1] = "num"
      OBVIOUS
    <3> QED BY <2>2, <3>1
  <2> QED BY <2>1, <2>2
<1> QED BY <1>5, <1>6, <1>7, <1>8, <1>9

\* f is g as far as it was read, and r is what is left of g, with c behind it.
Agreed(pc, f, g) ==
  /\ f.name = g.name
  /\ pc \notin {"colon", "kind", "bracket"} => f.kind = g.kind
  /\ pc \notin {"colon", "kind", "bracket", "values", "value"} => f.values = g.values
  /\ pc \in {"wins", "equals", "default", "after"} => f.on_conflict = g.on_conflict
  /\ pc = "after" => f.default = g.default
FieldLeft(pc, f, g, c, r) ==
  /\ pc = "colon" => r = Cons(<<":">>, KindLeft(g, AfterKind(g, c)))
  /\ pc = "kind" => r = KindLeft(g, AfterKind(g, c))
  /\ pc = "bracket" => Cons(<<"[">>, r) = KindLeft(g, AfterKind(g, c)) /\ g.kind \in {"array", "enum"}
  /\ pc = "close" => r = Cons(<<"]">>, c)
  /\ pc = "values" =>
       \E vs \in Seq(Strings) : g.values = f.values \o vs /\ r = ValuesLeft(vs, AfterKind(g, c))
  /\ pc = "value" =>
       \E v \in Strings, vs \in Seq(Strings) :
          g.values = f.values \o Cons(v, vs) /\ r = Cons(<<"str", v>>, ValuesLeft(vs, AfterKind(g, c)))
  /\ pc = "conflict" => r = AfterKind(g, c)
  /\ pc = "strategy" => g.on_conflict # "Default" /\ r = StrategyLeft(g, DefaultLeft(g, c))
  /\ pc = "wins" => r = Cons(<<"wins">>, DefaultLeft(g, c))
  /\ pc = "equals" => r = DefaultLeft(g, c)
  /\ pc = "default" => g.default # None /\ r = Cons(g.default, c)
  /\ pc = "after" => r = c

\* The next token of g is x; once it is taken, or only looked at, what was read is e.
Leaves(g, c, r, x, l, e) ==
  \E s \in Text : r = Cons(x, s) /\ Agreed(l, e, g) /\ FieldLeft(l, e, g, c, s)
Passes(g, c, r, x, l, e) ==
  \E s \in Text : r = Cons(x, s) /\ Agreed(l, e, g) /\ FieldLeft(l, e, g, c, r)

LEMMA ReadColon ==
  ASSUME NEW f, NEW g, FieldOK(g), NEW c \in Text, NEW r, Agreed("colon", f, g), FieldLeft("colon", f, g, c, r)
  PROVE  Leaves(g, c, r, <<":">>, "kind", f)
<1>1. r = Cons(<<":">>, KindLeft(g, AfterKind(g, c))) /\ KindLeft(g, AfterKind(g, c)) \in Text
  BY FieldLeftText DEF FieldLeft
<1>2. Agreed("kind", f, g) /\ FieldLeft("kind", f, g, c, KindLeft(g, AfterKind(g, c)))
  BY DEF Agreed, FieldLeft
<1> QED BY <1>1, <1>2 DEF Leaves

LEMMA ReadKind ==
  ASSUME NEW f \in FieldRecord, FieldAt("kind", f), NEW g, FieldOK(g), NEW c \in Text, NEW r,
         Agreed("kind", f, g), FieldLeft("kind", f, g, c, r)
  PROVE  /\ g.kind \in {"array", "enum"} => Leaves(g, c, r, <<"[">>, "bracket", f)
         /\ g.kind \in {"bool", "string", "number"} =>
              Leaves(g, c, r, <<g.kind>>, "conflict", [f EXCEPT !.kind = g.kind])
<1> DEFINE a == AfterKind(g, c)
<1>1. a \in Text /\ r = KindLeft(g, a)
  BY FieldLeftText DEF FieldLeft
<1>2. f.name = g.name
  BY DEF Agreed
<1>3. ASSUME NEW s, Cons(<<"[">>, s) = KindLeft(g, a), g.kind \in {"array", "enum"}
      PROVE  Agreed("bracket", f, g) /\ FieldLeft("bracket", f, g, c, s)
  BY <1>2, <1>3 DEF Agreed, FieldLeft
<1>4. CASE g.kind = "array"
  <2> DEFINE s == Cons(<<"string">>, Cons(<<"]">>, a))
  <2>1. s \in Text
    <3>1. Cons(<<"]">>, a) \in Text
      BY <1>1, TextCons, KeywordTokens
    <3> HIDE DEF a
    <3> QED BY <3>1, TextCons, KeywordTokens
  <2>2. KindLeft(g, a) = Cons(<<"[">>, s)
    BY <1>4 DEF KindLeft
  <2> HIDE DEF s, a
  <2> QED BY <1>1, <1>3, <1>4, <2>1, <2>2 DEF Leaves
<1>5. CASE g.kind = "enum"
  <2> DEFINE s == Cons(<<"str", g.values[1]>>, ValuesLeft(Tail(g.values), a))
  <2>1. s \in Text
    <3>1. g.values \in Seq(Strings) /\ g.values # <<>>
      BY <1>5 DEF FieldOK
    <3>2. PICK v \in Strings, vs \in Seq(Strings) : g.values = Cons(v, vs)
      BY <3>1, SeqCons
    <3>3. g.values[1] = v /\ Tail(g.values) = vs
      BY <3>2, TailCons
    <3> HIDE DEF a
    <3>4. ValuesLeft(vs, a) \in Text
      BY <1>1, ValuesTextCons
    <3> QED BY <3>3, <3>4, TextCons, TokenForms
  <2>2. KindLeft(g, a) = Cons(<<"[">>, s)
    BY <1>5 DEF KindLeft
  <2> HIDE DEF s, a
  <2> QED BY <1>1, <1>3, <1>5, <2>1, <2>2 DEF Leaves
<1>6. CASE g.kind \in {"bool", "string", "number"}
  <2> DEFINE e == [f EXCEPT !.kind = g.kind]
  <2>1. e.name = f.name /\ e.kind = g.kind /\ e.values = f.values /\ e.on_conflict = f.on_conflict
    BY DEF FieldRecord
  <2>2. KindLeft(g, a) = Cons(<<g.kind>>, a)
    BY <1>6 DEF KindLeft
  <2>3. f.values = <<>> /\ g.values = <<>>
    BY <1>6 DEF FieldAt, FieldOK
  <2> HIDE DEF e
  <2>4. Agreed("conflict", e, g)
    BY <1>2, <2>1, <2>3 DEF Agreed
  <2>5. FieldLeft("conflict", e, g, c, a)
    BY DEF FieldLeft
  <2>6. Leaves(g, c, r, <<g.kind>>, "conflict", e)
    <3> HIDE DEF a
    <3> QED BY <1>1, <2>2, <2>4, <2>5 DEF Leaves
  <2> QED BY <1>6, <2>6 DEF e
<1> QED BY <1>4, <1>5, <1>6 DEF FieldOK

LEMMA ConsSame ==
  ASSUME NEW x \in Tokens, NEW r \in Text, NEW s \in Text, Cons(x, r) = Cons(x, s)
  PROVE  r = s
<1>1. r \in Seq(Tokens) /\ s \in Seq(Tokens)
  BY DEF Text
<1>2. Tail(Cons(x, r)) = r /\ Tail(Cons(x, s)) = s
  BY <1>1, TailCons
<1> QED BY <1>2

LEMMA ReadBracket ==
  ASSUME NEW f \in FieldRecord, FieldAt("bracket", f), NEW g, FieldOK(g), NEW c \in Text, NEW r \in Text,
         Agreed("bracket", f, g), FieldLeft("bracket", f, g, c, r)
  PROVE  /\ g.kind \in {"array", "enum"}
         /\ g.kind = "array" =>
              Leaves(g, c, r, <<"string">>, "close", [f EXCEPT !.kind = "array"])
         /\ g.kind = "enum" =>
              /\ g.values[1] \in Strings
              /\ Leaves(g, c, r, <<"str", g.values[1]>>, "values",
                        [f EXCEPT !.kind = "enum", !.values = <<g.values[1]>>])
<1> DEFINE a == AfterKind(g, c)
<1>1. a \in Text /\ Cons(<<"[">>, r) = KindLeft(g, a) /\ g.kind \in {"array", "enum"} /\ <<"[">> \in Tokens
  BY FieldLeftText, KeywordTokens DEF FieldLeft
<1>2. f.name = g.name
  BY DEF Agreed
<1>3. CASE g.kind = "array"
  <2> DEFINE s == Cons(<<"]">>, a)
             e == [f EXCEPT !.kind = "array"]
  <2>1. s \in Text
    BY <1>1, TextCons, KeywordTokens
  <2>2. KindLeft(g, a) = Cons(<<"[">>, Cons(<<"string">>, s))
    BY <1>3 DEF KindLeft
  <2>3. a = c
    BY <1>3 DEF FieldOK, AfterKind, ConflictLeft, DefaultLeft
  <2> HIDE DEF a
  <2>4. FieldLeft("close", e, g, c, s)
    BY <2>3 DEF FieldLeft
  <2> HIDE DEF s
  <2>5. Cons(<<"string">>, s) \in Text
    BY <2>1, TextCons, KeywordTokens
  <2>6. r = Cons(<<"string">>, s)
    BY <1>1, <2>2, <2>5, ConsSame
  <2>7. e.name = f.name /\ e.kind = "array" /\ e.values = f.values
    BY DEF FieldRecord
  <2>8. f.values = <<>> /\ g.values = <<>>
    BY <1>3 DEF FieldAt, FieldOK
  <2> HIDE DEF e
  <2>9. Agreed("close", e, g)
    BY <1>2, <1>3, <2>7, <2>8 DEF Agreed
  <2>10. Leaves(g, c, r, <<"string">>, "close", e)
    BY <2>1, <2>4, <2>6, <2>9 DEF Leaves
  <2> QED BY <1>3, <2>10 DEF e
<1>4. CASE g.kind = "enum"
  <2>1. g.values \in Seq(Strings) /\ g.values # <<>>
    BY <1>4 DEF FieldOK
  <2>2. PICK v \in Strings, vs \in Seq(Strings) : g.values = Cons(v, vs)
    BY <2>1, SeqCons
  <2>3. g.values[1] = v /\ Tail(g.values) = vs
    BY <2>2, TailCons
  <2> DEFINE s == ValuesLeft(vs, a)
             e == [f EXCEPT !.kind = "enum", !.values = <<v>>]
  <2>4. KindLeft(g, a) = Cons(<<"[">>, Cons(<<"str", v>>, s))
    BY <1>4, <2>3 DEF KindLeft
  <2>5. s \in Text
    <3> HIDE DEF a
    <3> QED BY <1>1, ValuesTextCons
  <2>6. e.name = f.name /\ e.kind = "enum" /\ e.values = <<v>>
    BY DEF FieldRecord
  <2> HIDE DEF e
  <2>7. g.values = e.values \o vs
    BY <2>2, <2>6 DEF Cons
  <2>8. FieldLeft("values", e, g, c, s)
    BY <2>7 DEF FieldLeft
  <2>9. Agreed("values", e, g)
    BY <1>2, <1>4, <2>6 DEF Agreed
  <2> HIDE DEF s, a
  <2>10. Cons(<<"str", v>>, s) \in Text
    BY <2>5, TextCons, TokenForms
  <2>11. r = Cons(<<"str", v>>, s)
    BY <1>1, <2>4, <2>10, ConsSame
  <2>12. Leaves(g, c, r, <<"str", v>>, "values", e)
    BY <2>5, <2>8, <2>9, <2>11 DEF Leaves
  <2> QED BY <1>4, <2>3, <2>12 DEF e
<1> QED BY <1>1, <1>3, <1>4

LEMMA ReadClose ==
  ASSUME NEW f \in FieldRecord, FieldAt("close", f), NEW g, FieldOK(g), NEW c \in Text, NEW r,
         Agreed("close", f, g), FieldLeft("close", f, g, c, r)
  PROVE  Leaves(g, c, r, <<"]">>, "after", f)
<1>1. r = Cons(<<"]">>, c) /\ FieldLeft("after", f, g, c, c)
  BY DEF FieldLeft
<1>2. f.kind = "array" /\ f.on_conflict = "Default" /\ f.default = None
  BY DEF FieldAt, Started
<1>3. g.kind = "array" /\ f.name = g.name /\ f.values = g.values
  BY <1>2 DEF Agreed
<1>4. g.on_conflict = "Default" /\ g.default = None
  BY <1>3 DEF FieldOK
<1>5. Agreed("after", f, g)
  BY <1>2, <1>3, <1>4 DEF Agreed
<1> QED BY <1>1, <1>5 DEF Leaves

LEMMA ReadValues ==
  ASSUME NEW f \in FieldRecord, FieldAt("values", f), NEW g, FieldOK(g), NEW c \in Text, NEW r,
         Agreed("values", f, g), FieldLeft("values", f, g, c, r)
  PROVE  \/ Leaves(g, c, r, <<"]">>, "conflict", f)
         \/ Leaves(g, c, r, <<",">>, "value", f)
<1> DEFINE a == AfterKind(g, c)
           b == Cons(<<"]">>, a)
<1>1. a \in Text
  BY FieldLeftText
<1>2. PICK vs \in Seq(Strings) : g.values = f.values \o vs /\ r = ValuesLeft(vs, a)
  BY DEF FieldLeft
<1>3. f.name = g.name /\ f.kind = g.kind
  BY DEF Agreed
<1>4. b \in Text
  <2> HIDE DEF a
  <2> QED BY <1>1, TextCons, KeywordTokens
<1>5. CASE vs = <<>>
  <2>1. f.values \in Seq(Strings)
    BY DEF FieldRecord
  <2>2. g.values = f.values
    BY <1>2, <1>5, <2>1, ConcatEmptySeq
  <2>3. r = b
    <3>1. r = PairsLeft(<<",">>, "str", vs, b)
      BY <1>2 DEF ValuesLeft
    <3> HIDE DEF b
    <3> QED BY <1>4, <1>5, <3>1, PairsNil
  <2>4. Agreed("conflict", f, g) /\ FieldLeft("conflict", f, g, c, a)
    BY <1>3, <2>2 DEF Agreed, FieldLeft
  <2> HIDE DEF a
  <2> QED BY <1>1, <2>3, <2>4 DEF Leaves
<1>6. CASE vs # <<>>
  <2>1. PICK v \in Strings, ws \in Seq(Strings) : vs = Cons(v, ws)
    BY <1>6, SeqCons
  <2> DEFINE s == Cons(<<"str", v>>, ValuesLeft(ws, a))
  <2>2. s \in Text /\ r = Cons(<<",">>, s)
    <3>1. r = PairsLeft(<<",">>, "str", Cons(v, ws), b) /\ ValuesLeft(ws, a) = PairsLeft(<<",">>, "str", ws, b)
      BY <1>2, <2>1 DEF ValuesLeft
    <3> HIDE DEF b, a
    <3>2. /\ PairsLeft(<<",">>, "str", ws, b) \in Text
          /\ PairsLeft(<<",">>, "str", Cons(v, ws), b) = Cons(<<",">>, Cons(<<"str", v>>, PairsLeft(<<",">>, "str", ws, b)))
      <4> DEFINE x == <<",">>
                 tag == "str"
      <4>1. Pairs(Strings, x, tag)
        BY NamePairs
      <4> HIDE DEF x, tag
      <4>2. /\ PairsLeft(x, tag, ws, b) \in Text
            /\ PairsLeft(x, tag, Cons(v, ws), b) = Cons(x, Cons(<<tag, v>>, PairsLeft(x, tag, ws, b)))
        BY <1>4, <4>1, PairsCons
      <4> QED BY <4>2 DEF x, tag
    <3>3. <<"str", v>> \in Tokens
      BY TokenForms
    <3> QED BY <3>1, <3>2, <3>3, TextCons
  <2>3. FieldLeft("value", f, g, c, s)
    BY <1>2, <2>1 DEF FieldLeft
  <2>4. Agreed("value", f, g)
    BY <1>3 DEF Agreed
  <2> HIDE DEF s
  <2> QED BY <2>2, <2>3, <2>4 DEF Leaves
<1> QED BY <1>5, <1>6

LEMMA ReadValue ==
  ASSUME NEW f \in FieldRecord, NEW g, FieldOK(g), NEW c \in Text, NEW r,
         Agreed("value", f, g), FieldLeft("value", f, g, c, r)
  PROVE  \E v \in Strings :
            Leaves(g, c, r, <<"str", v>>, "values", [f EXCEPT !.values = Append(f.values, v)])
<1> DEFINE a == AfterKind(g, c)
<1>1. a \in Text
  BY FieldLeftText
<1>2. PICK v \in Strings, vs \in Seq(Strings) :
         g.values = f.values \o Cons(v, vs) /\ r = Cons(<<"str", v>>, ValuesLeft(vs, a))
  BY DEF FieldLeft
<1> DEFINE e == [f EXCEPT !.values = Append(f.values, v)]
           s == ValuesLeft(vs, a)
<1>3. s \in Text
  <2> HIDE DEF a
  <2> QED BY <1>1, ValuesTextCons
<1>4. f.values \in Seq(Strings) /\ e.name = f.name /\ e.kind = f.kind /\ e.values = Append(f.values, v)
  BY DEF FieldRecord
<1> HIDE DEF e
<1>5. g.values = e.values \o vs
  <2> DEFINE u == f.values
  <2>1. u \in Seq(Strings)
    BY <1>4
  <2> HIDE DEF u
  <2>2. u \o Cons(v, vs) = Append(u, v) \o vs
    BY <2>1, ConsMoves
  <2> QED BY <1>2, <1>4, <2>2 DEF u
<1>6. FieldLeft("values", e, g, c, s)
  BY <1>5 DEF FieldLeft
<1>7. Agreed("values", e, g)
  BY <1>4 DEF Agreed
<1> HIDE DEF s
<1>8. Leaves(g, c, r, <<"str", v>>, "values", e)
  BY <1>2, <1>3, <1>6, <1>7 DEF Leaves, s
<1> QED BY <1>8 DEF e

LEMMA ReadConflict ==
  ASSUME NEW f \in FieldRecord, FieldAt("conflict", f), NEW g, FieldOK(g), NEW b \in Text, NEW c \in Text,
         c = Cons(<<",">>, b), NEW r, Agreed("conflict", f, g), FieldLeft("conflict", f, g, c, r)
  PROVE  /\ g.on_conflict # "Default" => Leaves(g, c, r, <<"@">>, "strategy", f)
         /\ g.on_conflict = "Default" =>
              Passes(g, c, r, IF g.default = None THEN <<",">> ELSE <<"=">>, "equals", f)
<1> DEFINE d == DefaultLeft(g, c)
<1>1. r = ConflictLeft(g, d) /\ d \in Text
  BY FieldLeftText DEF FieldLeft, AfterKind
<1>2. f.name = g.name /\ f.kind = g.kind /\ f.values = g.values /\ f.on_conflict = "Default"
  BY DEF Agreed, FieldAt
<1>3. CASE g.on_conflict # "Default"
  <2>1. r = Cons(<<"@">>, StrategyLeft(g, d))
    BY <1>1, <1>3 DEF ConflictLeft
  <2>2. FieldLeft("strategy", f, g, c, StrategyLeft(g, d))
    BY <1>3 DEF FieldLeft
  <2>3. Agreed("strategy", f, g)
    BY <1>2 DEF Agreed
  <2> HIDE DEF d
  <2>4. StrategyLeft(g, d) \in Text
    BY <1>1, ConflictLeftText
  <2> QED BY <1>3, <2>1, <2>2, <2>3, <2>4 DEF Leaves
<1>4. CASE g.on_conflict = "Default"
  <2>1. r = d
    BY <1>1, <1>4 DEF ConflictLeft
  <2>2. FieldLeft("equals", f, g, c, r)
    BY <2>1 DEF FieldLeft
  <2>3. Agreed("equals", f, g)
    BY <1>2, <1>4 DEF Agreed
  <2>4. CASE g.default = None
    <3>1. r = Cons(<<",">>, b)
      BY <2>1, <2>4 DEF DefaultLeft
    <3> QED BY <1>4, <2>2, <2>3, <2>4, <3>1 DEF Passes
  <2>5. CASE g.default # None
    <3>1. r = Cons(<<"=">>, Cons(g.default, c))
      BY <2>1, <2>5 DEF DefaultLeft
    <3>2. Cons(g.default, c) \in Text
      BY <2>5, DefaultWords, TextCons
    <3> QED BY <1>4, <2>2, <2>3, <2>5, <3>1, <3>2 DEF Passes
  <2> QED BY <2>4, <2>5
<1> QED BY <1>3, <1>4

LEMMA ReadStrategy ==
  ASSUME NEW f \in FieldRecord, FieldAt("strategy", f), NEW g, FieldOK(g), NEW c \in Text, NEW r,
         Agreed("strategy", f, g), FieldLeft("strategy", f, g, c, r)
  PROVE  /\ g.on_conflict \in {"Agreement", "LargestValue"}
         /\ g.on_conflict = "Agreement" =>
              Leaves(g, c, r, <<"agreement">>, "equals", [f EXCEPT !.on_conflict = "Agreement"])
         /\ g.on_conflict = "LargestValue" /\ g.kind = "bool" =>
              Leaves(g, c, r, <<"sticky">>, "equals", [f EXCEPT !.on_conflict = "LargestValue"])
         /\ g.on_conflict = "LargestValue" /\ g.kind # "bool" =>
              Leaves(g, c, r, FirstOf(g.kind), "wins", [f EXCEPT !.on_conflict = "LargestValue"])
<1> DEFINE d == DefaultLeft(g, c)
           e(o) == [f EXCEPT !.on_conflict = o]
<1>1. r = StrategyLeft(g, d) /\ d \in Text /\ g.on_conflict \in {"Agreement", "LargestValue"}
  BY FieldLeftText DEF FieldLeft, FieldOK
<1>2. f.name = g.name /\ f.kind = g.kind /\ f.values = g.values
  BY DEF Agreed
<1>3. \A o : e(o).name = f.name /\ e(o).kind = f.kind /\ e(o).values = f.values /\ e(o).on_conflict = o
  BY DEF FieldRecord
<1> HIDE DEF e
<1>4. ASSUME NEW l \in {"equals", "wins"}, NEW o, o = g.on_conflict
      PROVE  Agreed(l, e(o), g)
  BY <1>2, <1>3, <1>4 DEF Agreed
<1>5. CASE g.on_conflict = "Agreement"
  <2>1. r = Cons(<<"agreement">>, d)
    BY <1>1, <1>5 DEF StrategyLeft
  <2>2. FieldLeft("equals", e("Agreement"), g, c, d)
    BY DEF FieldLeft
  <2>3. Agreed("equals", e("Agreement"), g)
    BY <1>4, <1>5
  <2> HIDE DEF d
  <2>4. Leaves(g, c, r, <<"agreement">>, "equals", e("Agreement"))
    BY <1>1, <2>1, <2>2, <2>3 DEF Leaves
  <2> QED BY <1>5, <2>4 DEF e
<1>6. CASE g.on_conflict = "LargestValue" /\ g.kind = "bool"
  <2>1. r = Cons(<<"sticky">>, d)
    BY <1>1, <1>6 DEF StrategyLeft
  <2>2. FieldLeft("equals", e("LargestValue"), g, c, d)
    BY DEF FieldLeft
  <2>3. Agreed("equals", e("LargestValue"), g)
    BY <1>4, <1>6
  <2> HIDE DEF d
  <2>4. Leaves(g, c, r, <<"sticky">>, "equals", e("LargestValue"))
    BY <1>1, <2>1, <2>2, <2>3 DEF Leaves
  <2> QED BY <1>6, <2>4 DEF e
<1>7. CASE g.on_conflict = "LargestValue" /\ g.kind # "bool"
  <2> DEFINE s == Cons(<<"wins">>, d)
  <2>1. r = Cons(FirstOf(g.kind), s)
    BY <1>1, <1>7 DEF StrategyLeft
  <2>2. FieldLeft("wins", e("LargestValue"), g, c, s)
    BY DEF FieldLeft
  <2>3. Agreed("wins", e("LargestValue"), g)
    BY <1>4, <1>7
  <2>4. s \in Text
    <3> HIDE DEF d
    <3> QED BY <1>1, TextCons, KeywordTokens
  <2> HIDE DEF s
  <2>5. Leaves(g, c, r, FirstOf(g.kind), "wins", e("LargestValue"))
    BY <2>1, <2>2, <2>3, <2>4 DEF Leaves
  <2> QED BY <1>7, <2>5 DEF e
<1> QED BY <1>1, <1>5, <1>6, <1>7

LEMMA ReadWins ==
  ASSUME NEW f, NEW g, FieldOK(g), NEW c \in Text, NEW r, Agreed("wins", f, g), FieldLeft("wins", f, g, c, r)
  PROVE  Leaves(g, c, r, <<"wins">>, "equals", f)
<1> DEFINE d == DefaultLeft(g, c)
<1>1. r = Cons(<<"wins">>, d) /\ d \in Text
  BY FieldLeftText DEF FieldLeft
<1>2. Agreed("equals", f, g) /\ FieldLeft("equals", f, g, c, d)
  BY DEF Agreed, FieldLeft
<1> HIDE DEF d
<1> QED BY <1>1, <1>2 DEF Leaves

LEMMA ReadEquals ==
  ASSUME NEW f \in FieldRecord, FieldAt("equals", f), NEW g, FieldOK(g), NEW b \in Text, NEW c \in Text,
         c = Cons(<<",">>, b), NEW r, Agreed("equals", f, g), FieldLeft("equals", f, g, c, r)
  PROVE  /\ g.default # None => Leaves(g, c, r, <<"=">>, "default", f)
         /\ g.default = None => Passes(g, c, r, <<",">>, "after", f)
<1>1. r = DefaultLeft(g, c)
  BY DEF FieldLeft
<1>2. f.default = None
  BY DEF FieldAt, Started
<1>3. CASE g.default # None
  <2> DEFINE s == Cons(g.default, c)
  <2>1. r = Cons(<<"=">>, s)
    BY <1>1, <1>3 DEF DefaultLeft
  <2>2. s \in Text
    BY <1>3, DefaultWords, TextCons
  <2>3. Agreed("default", f, g) /\ FieldLeft("default", f, g, c, s)
    BY <1>3 DEF Agreed, FieldLeft
  <2> HIDE DEF s
  <2> QED BY <1>3, <2>1, <2>2, <2>3 DEF Leaves
<1>4. CASE g.default = None
  <2>1. r = c
    BY <1>1, <1>4 DEF DefaultLeft
  <2>2. FieldLeft("after", f, g, c, r)
    BY <2>1 DEF FieldLeft
  <2>3. Agreed("after", f, g)
    BY <1>2, <1>4 DEF Agreed
  <2> QED BY <1>4, <2>1, <2>2, <2>3 DEF Passes
<1> QED BY <1>3, <1>4

LEMMA ReadDefault ==
  ASSUME NEW f \in FieldRecord, NEW g, FieldOK(g), NEW c \in Text, NEW r,
         Agreed("default", f, g), FieldLeft("default", f, g, c, r)
  PROVE  /\ g.default # None /\ g.default \in Tokens /\ g.default \in LiteralOf(g.kind)
         /\ Leaves(g, c, r, g.default, "after", [f EXCEPT !.default = g.default])
<1> DEFINE e == [f EXCEPT !.default = g.default]
<1>1. g.default # None /\ r = Cons(g.default, c)
  BY DEF FieldLeft
<1>2. g.default \in Tokens /\ g.default \in LiteralOf(g.kind)
  BY <1>1, LiteralShape DEF FieldOK
<1>3. /\ e.name = f.name /\ e.kind = f.kind /\ e.values = f.values /\ e.on_conflict = f.on_conflict
      /\ e.default = g.default
  BY DEF FieldRecord
<1> HIDE DEF e
<1>4. Agreed("after", e, g)
  BY <1>3 DEF Agreed
<1>5. FieldLeft("after", e, g, c, c)
  BY DEF FieldLeft
<1>6. Leaves(g, c, r, g.default, "after", e)
  BY <1>1, <1>4, <1>5 DEF Leaves
<1> QED BY <1>1, <1>2, <1>6 DEF e

\* A field that was read to its end is the field that was written.
LEMMA FieldSame ==
  ASSUME NEW f \in FieldRecord, NEW g \in FieldRecord, Agreed("after", f, g)
  PROVE  f = g
<1>1. /\ f = [name |-> f.name, kind |-> f.kind, values |-> f.values, on_conflict |-> f.on_conflict, default |-> f.default]
      /\ g = [name |-> g.name, kind |-> g.kind, values |-> g.values, on_conflict |-> g.on_conflict, default |-> g.default]
  BY DEF FieldRecord
<1>2. f.name = g.name /\ f.kind = g.kind /\ f.values = g.values /\ f.on_conflict = g.on_conflict /\ f.default = g.default
  BY DEF Agreed
<1> QED BY <1>1, <1>2
-----------------------------------------------------------------------------
(* The second parse follows the type that was displayed.                    *)

AllLegible(fs) == \A j \in DOMAIN fs : Legible(fs[j])
\* The field g of the type is being read, after fs and before gs.
Inside(type, fs, g, gs) ==
  /\ g \in FieldRecord /\ gs \in Seq(FieldRecord) /\ type.fields = fs \o Cons(g, gs)
  /\ FieldOK(g) /\ AllOK(gs)
Between(type, fs, gs) == gs \in Seq(FieldRecord) /\ AllOK(gs) /\ type.fields = fs \o gs
NamesAt(pc, ns, type, r) ==
  /\ pc = "type" => r = Display(type)
  /\ pc = "name" => \E h \in Idents, ms \in Seq(Idents) :
                       type.name = ns \o Cons(h, ms) /\ r = Cons(<<"id", h>>, NamesLeft(ms, Body(type)))
  /\ pc = "separator" => \E ms \in Seq(Idents) : type.name = ns \o ms /\ r = NamesLeft(ms, Body(type))
  /\ pc \notin {"type", "name", "separator"} => ns = type.name
FieldsAt(pc, f, fs, type, r) ==
  /\ pc = "fields" => \E gs : Between(type, fs, gs) /\ r = FieldsLeft(gs)
  /\ pc \in InField => \E g, gs : /\ Inside(type, fs, g, gs) /\ Agreed(pc, f, g)
                                  /\ FieldLeft(pc, f, g, Comma(gs), r)
  /\ pc = "done" => fs = type.fields
Remains(pc, ns, f, fs, type, r) ==
  /\ NamesAt(pc, ns, type, r) /\ FieldsAt(pc, f, fs, type, r)
  /\ AllLegible(fs) /\ Legible(f)
Follows(q, type) ==
  /\ Given(q, type) /\ q.pc # "error"
  /\ \E r \in Text : After(Display(type), q.pos, r) /\ Remains(q.pc, q.name, q.field, q.fields, type, r)

LEMMA TakesFollows ==
  ASSUME NEW type, Given(p, type), NEW x \in Tokens, NEW r \in Text, After(Display(type), p.pos, Cons(x, r)),
         NEW t, NEW l, l # "error", NEW ns, NEW f, NEW fs, Takes(t, l, ns, f, fs), Remains(l, ns, f, fs, type, r)
  PROVE  Follows(p', type)
<1>1. p'.pos = p.pos + 1 /\ Kept(p, p') /\ p'.pc = l /\ p'.name = ns /\ p'.field = f /\ p'.fields = fs
  BY DEF Takes, Took
<1>2. Given(p', type)
  BY <1>1 DEF Given, Kept
<1>3. After(Display(type), p.pos + 1, r)
  BY AfterCons
<1> QED BY <1>1, <1>2, <1>3 DEF Follows

LEMMA LooksFollows ==
  ASSUME NEW type, Given(p, type), NEW r \in Text, After(Display(type), p.pos, r),
         NEW t, NEW l, l # "error", NEW f, NEW fs, Looks(t, l, f, fs), Remains(l, p.name, f, fs, type, r)
  PROVE  Follows(p', type)
<1>1. p'.pos = p.pos /\ Kept(p, p') /\ p'.pc = l /\ p'.name = p.name /\ p'.field = f /\ p'.fields = fs
  BY DEF Looks, Saw
<1>2. Given(p', type)
  BY <1>1 DEF Given, Kept
<1> QED BY <1>1, <1>2 DEF Follows

\* A token of a field, taken or only looked at.
LEMMA FieldTakesFollows ==
  ASSUME NEW type, Given(p, type), p.name = type.name, AllLegible(p.fields),
         NEW g, NEW gs, Inside(type, p.fields, g, gs), NEW r \in Text, After(Display(type), p.pos, r),
         NEW x \in Tokens, NEW l \in InField, NEW e, Leaves(g, Comma(gs), r, x, l, e), Legible(e),
         NEW t, Takes(t, l, p.name, e, p.fields)
  PROVE  Follows(p', type)
<1>1. PICK s \in Text : r = Cons(x, s) /\ Agreed(l, e, g) /\ FieldLeft(l, e, g, Comma(gs), s)
  BY DEF Leaves
<1>2. NamesAt(l, p.name, type, s)
  BY DEF NamesAt, InField
<1>3. FieldsAt(l, e, p.fields, type, s)
  BY <1>1 DEF FieldsAt, InField
<1>4. Remains(l, p.name, e, p.fields, type, s)
  BY <1>2, <1>3 DEF Remains
<1>5. l # "error"
  BY DEF InField
<1> QED BY <1>1, <1>4, <1>5, TakesFollows

LEMMA FieldLooksFollows ==
  ASSUME NEW type, Given(p, type), p.name = type.name, AllLegible(p.fields),
         NEW g, NEW gs, Inside(type, p.fields, g, gs), NEW r \in Text, After(Display(type), p.pos, r),
         NEW x, NEW l \in InField, NEW e, Passes(g, Comma(gs), r, x, l, e), Legible(e),
         NEW t, Looks(t, l, e, p.fields)
  PROVE  Follows(p', type)
<1>1. Agreed(l, e, g) /\ FieldLeft(l, e, g, Comma(gs), r)
  BY DEF Passes
<1>2. NamesAt(l, p.name, type, r)
  BY DEF NamesAt, InField
<1>3. FieldsAt(l, e, p.fields, type, r)
  BY <1>1 DEF FieldsAt, InField
<1>4. Remains(l, p.name, e, p.fields, type, r)
  BY <1>2, <1>3 DEF Remains
<1>5. l # "error"
  BY DEF InField
<1> QED BY <1>4, <1>5, LooksFollows

\* The place in the type where parse_field stands.
Reading(type, g, gs, r) ==
  /\ Given(p, type) /\ p.pc \in InField /\ p.name = type.name /\ AllLegible(p.fields) /\ Legible(p.field)
  /\ Inside(type, p.fields, g, gs) /\ r \in Text /\ After(Display(type), p.pos, r)
  /\ Agreed(p.pc, p.field, g) /\ FieldLeft(p.pc, p.field, g, Comma(gs), r)

LEMMA ReadingField ==
  ASSUME NEW type, Follows(p, type), p.pc \in InField
  PROVE  \E g, gs, r : Reading(type, g, gs, r)
<1>1. PICK r \in Text : After(Display(type), p.pos, r) /\ Remains(p.pc, p.name, p.field, p.fields, type, r)
  BY DEF Follows
<1>2. FieldsAt(p.pc, p.field, p.fields, type, r) /\ NamesAt(p.pc, p.name, type, r) /\ AllLegible(p.fields) /\ Legible(p.field)
  BY <1>1 DEF Remains
<1>3. PICK g, gs : /\ Inside(type, p.fields, g, gs) /\ Agreed(p.pc, p.field, g)
                   /\ FieldLeft(p.pc, p.field, g, Comma(gs), r)
  BY <1>2 DEF FieldsAt
<1>4. p.name = type.name
  BY <1>2 DEF NamesAt, InField
<1>5. Given(p, type)
  BY DEF Follows
<1> QED BY <1>1, <1>2, <1>3, <1>4, <1>5 DEF Reading

LEMMA ReadingFacts ==
  ASSUME Typed(p), NEW type, NEW g, NEW gs, NEW r, Reading(type, g, gs, r)
  PROVE  /\ FieldOK(g) /\ g \in FieldRecord /\ p.field \in FieldRecord /\ FieldAt(p.pc, p.field)
         /\ FieldsLeft(gs) \in Text /\ Comma(gs) \in Text /\ r \in Text
         /\ Agreed(p.pc, p.field, g) /\ FieldLeft(p.pc, p.field, g, Comma(gs), r)
         /\ Legible(p.field)
<1>1. AllOK(gs) /\ FieldOK(g) /\ g \in FieldRecord
  BY DEF Reading, Inside
<1>2. FieldsLeft(gs) \in Text /\ Comma(gs) \in Text
  BY <1>1, FieldsLeftType
<1> QED BY <1>1, <1>2 DEF Reading, Typed, ParserRecord

\* What is peeked at is the token that was written.
Seen(t, x) ==
  /\ x \in Keywords \/ x[1] \in {"id", "str"} => t = x
  /\ x[1] = "str" => ~Garbled(x[2])
  /\ x # <<"num", "inf">> => t = x
  /\ x # <<"num", "-inf">>
  /\ t = Relexed(x)

LEMMA LeavesSeen ==
  ASSUME Typed(p), NEW type, TypeFits(type), NEW g, NEW gs, NEW r, Reading(type, g, gs, r),
         NEW x \in Tokens, NEW l, NEW e, NEW c, Leaves(g, c, r, x, l, e) \/ Passes(g, c, r, x, l, e),
         NEW t, Peekable(t)
  PROVE  Seen(t, x)
<1>1. PICK s \in Text : r = Cons(x, s)
  BY DEF Leaves, Passes
<1>2. Given(p, type) /\ After(Display(type), p.pos, Cons(x, s))
  BY <1>1 DEF Reading
<1> QED BY <1>2, NextToken DEF Seen

LEMMA TakesField ==
  ASSUME NEW type, NEW g, NEW gs, NEW r, Reading(type, g, gs, r), NEW x \in Tokens, NEW l \in InField,
         NEW e, Leaves(g, Comma(gs), r, x, l, e), Legible(e), NEW t, Takes(t, l, p.name, e, p.fields)
  PROVE  Follows(p', type)
<1>1. /\ Given(p, type) /\ p.name = type.name /\ AllLegible(p.fields) /\ Inside(type, p.fields, g, gs)
      /\ r \in Text /\ After(Display(type), p.pos, r)
  BY DEF Reading
<1> QED BY <1>1, FieldTakesFollows

LEMMA LooksField ==
  ASSUME NEW type, NEW g, NEW gs, NEW r, Reading(type, g, gs, r), NEW x, NEW l \in InField,
         NEW e, Passes(g, Comma(gs), r, x, l, e), Legible(e), NEW t, Looks(t, l, e, p.fields)
  PROVE  Follows(p', type)
<1>1. /\ Given(p, type) /\ p.name = type.name /\ AllLegible(p.fields) /\ Inside(type, p.fields, g, gs)
      /\ r \in Text /\ After(Display(type), p.pos, r)
  BY DEF Reading
<1> QED BY <1>1, FieldLooksFollows

LEMMA LegibleSame ==
  ASSUME NEW f, NEW e, Legible(f), e.default = f.default, e.values = f.values
  PROVE  Legible(e)
  BY DEF Legible

LEMMA LegibleValue ==
  ASSUME NEW f \in FieldRecord, NEW e, NEW v \in Strings, ~Garbled(v), Legible(f),
         e.default = f.default, e.values = Append(f.values, v)
  PROVE  Legible(e)
<1> DEFINE vs == f.values
           ws == Append(vs, v)
           n == Len(vs)
<1>1. vs \in Seq(Strings)
  BY DEF FieldRecord
<1> HIDE DEF vs
<1>2. n \in Nat /\ DOMAIN vs = 1..n /\ DOMAIN ws = 1..(n + 1) /\ ws[n + 1] = v /\ \A j \in 1..n : ws[j] = vs[j]
  BY <1>1
<1>3. \A j \in DOMAIN vs : ~Garbled(vs[j])
  BY DEF Legible, vs
<1>4. \A j \in 1..(n + 1) : j \in 1..n \/ j = n + 1
  BY <1>2
<1>5. e.values = ws
  BY DEF vs
<1> HIDE DEF ws
<1>6. \A j \in DOMAIN ws : ~Garbled(ws[j])
  BY <1>2, <1>3, <1>4
<1> QED BY <1>5, <1>6 DEF Legible

LEMMA LegibleFirst ==
  ASSUME NEW f, NEW e, NEW v, ~Garbled(v), Legible(f), e.default = f.default, e.values = <<v>>
  PROVE  Legible(e)
<1>1. DOMAIN <<v>> = {1} /\ <<v>>[1] = v
  OBVIOUS
<1>2. \A j \in DOMAIN <<v>> : ~Garbled(<<v>>[j])
  BY <1>1
<1> QED BY <1>2 DEF Legible

LEMMA KeywordSet ==
  /\ <<"type">> \in Keywords /\ <<"{">> \in Keywords /\ <<"}">> \in Keywords /\ <<"[">> \in Keywords
  /\ <<"]">> \in Keywords /\ <<":">> \in Keywords /\ <<",">> \in Keywords /\ <<"=">> \in Keywords
  /\ <<"@">> \in Keywords /\ <<"::">> \in Keywords /\ <<"string">> \in Keywords /\ <<"bool">> \in Keywords
  /\ <<"number">> \in Keywords /\ <<"agreement">> \in Keywords /\ <<"sticky">> \in Keywords
  /\ <<"wins">> \in Keywords /\ <<"last">> \in Keywords /\ <<"highest">> \in Keywords
  BY DEF Keywords

LEMMA FollowColon ==
  ASSUME Typed(p), NEW type, TypeFits(type), NEW g, NEW gs, NEW r, Reading(type, g, gs, r),
         NEW t \in Tokens \cup {End}, Peekable(t), ExpectColon(t)
  PROVE  Follows(p', type)
<1> DEFINE x == <<":">>
<1>0. x \in Tokens /\ x \in Keywords /\ "kind" \in InField
  BY KeywordTokens, KeywordSet DEF InField
<1>1. p.pc = "colon"
  BY DEF ExpectColon
<1>2. Leaves(g, Comma(gs), r, x, "kind", p.field) /\ Legible(p.field)
  BY <1>1, ReadingFacts, ReadColon
<1>3. t = x
  BY <1>0, <1>2, LeavesSeen DEF Seen
<1>4. Takes(t, "kind", p.name, p.field, p.fields)
  BY <1>3, ColonStep
<1> HIDE DEF x
<1> QED BY <1>0, <1>2, <1>4, TakesField

LEMMA FollowKind ==
  ASSUME Typed(p), NEW type, TypeFits(type), NEW g, NEW gs, NEW r, Reading(type, g, gs, r),
         NEW t \in Tokens \cup {End}, Peekable(t), ParseKind(t)
  PROVE  Follows(p', type)
<1>1. p.pc = "kind" /\ "bracket" \in InField /\ "conflict" \in InField
  BY DEF ParseKind, InField
<1>2. /\ FieldOK(g) /\ p.field \in FieldRecord /\ FieldAt("kind", p.field) /\ Comma(gs) \in Text
      /\ Agreed("kind", p.field, g) /\ FieldLeft("kind", p.field, g, Comma(gs), r) /\ Legible(p.field)
  BY <1>1, ReadingFacts
<1>3. CASE g.kind \in {"array", "enum"}
  <2> DEFINE x == <<"[">>
  <2>0. x \in Tokens /\ x \in Keywords
    BY KeywordTokens, KeywordSet
  <2>1. Leaves(g, Comma(gs), r, x, "bracket", p.field)
    BY <1>2, <1>3, ReadKind
  <2>2. t = x
    BY <2>0, <2>1, LeavesSeen DEF Seen
  <2>3. Takes(t, "bracket", p.name, p.field, p.fields)
    BY <2>2, KindStep
  <2> HIDE DEF x
  <2> QED BY <1>1, <1>2, <2>0, <2>1, <2>3, TakesField
<1>4. CASE g.kind \in {"bool", "string", "number"}
  <2> DEFINE x == <<g.kind>>
             e == [p.field EXCEPT !.kind = g.kind]
  <2>0. x \in Tokens /\ x \in Keywords /\ x[1] = g.kind /\ x \in {<<"bool">>, <<"string">>, <<"number">>}
    BY <1>4, KeywordTokens, KeywordSet
  <2>1. Leaves(g, Comma(gs), r, x, "conflict", e)
    BY <1>2, <1>4, ReadKind
  <2>2. t = x
    <3> HIDE DEF e
    <3> QED BY <2>0, <2>1, LeavesSeen DEF Seen
  <2>3. Takes(t, "conflict", p.name, e, p.fields)
    BY <2>0, <2>2, KindStep
  <2>4. e.default = p.field.default /\ e.values = p.field.values
    BY <1>2 DEF FieldRecord
  <2> HIDE DEF x, e
  <2>5. Legible(e)
    BY <1>2, <2>4, LegibleSame
  <2> QED BY <1>1, <2>0, <2>1, <2>3, <2>5, TakesField
<1> QED BY <1>2, <1>3, <1>4 DEF FieldOK

LEMMA FollowBracket ==
  ASSUME Typed(p), NEW type, TypeFits(type), NEW g, NEW gs, NEW r, Reading(type, g, gs, r),
         NEW t \in Tokens \cup {End}, Peekable(t), ParseBracket(t)
  PROVE  Follows(p', type)
<1>1. p.pc = "bracket" /\ "close" \in InField /\ "values" \in InField
  BY DEF ParseBracket, InField
<1>2. /\ FieldOK(g) /\ p.field \in FieldRecord /\ FieldAt("bracket", p.field) /\ Comma(gs) \in Text /\ r \in Text
      /\ Agreed("bracket", p.field, g) /\ FieldLeft("bracket", p.field, g, Comma(gs), r) /\ Legible(p.field)
  BY <1>1, ReadingFacts
<1>3. CASE g.kind = "array"
  <2> DEFINE x == <<"string">>
             e == [p.field EXCEPT !.kind = "array"]
  <2>0. x \in Tokens /\ x \in Keywords
    BY KeywordTokens, KeywordSet
  <2>1. Leaves(g, Comma(gs), r, x, "close", e)
    BY <1>2, <1>3, ReadBracket
  <2>2. t = x
    <3> HIDE DEF e
    <3> QED BY <2>0, <2>1, LeavesSeen DEF Seen
  <2>3. Takes(t, "close", p.name, e, p.fields)
    BY <2>2, BracketStep
  <2>4. e.default = p.field.default /\ e.values = p.field.values
    BY <1>2 DEF FieldRecord
  <2> HIDE DEF x, e
  <2>5. Legible(e)
    BY <1>2, <2>4, LegibleSame
  <2> QED BY <1>1, <2>0, <2>1, <2>3, <2>5, TakesField
<1>4. CASE g.kind = "enum"
  <2> DEFINE v == g.values[1]
             x == <<"str", v>>
             e == [p.field EXCEPT !.kind = "enum", !.values = <<v>>]
  <2>1. v \in Strings /\ Leaves(g, Comma(gs), r, x, "values", e)
    BY <1>2, <1>4, ReadBracket
  <2> HIDE DEF v
  <2>0. x \in Tokens /\ x[1] = "str" /\ x[2] = v
    BY <2>1, TokenForms
  <2>2. t = x /\ ~Garbled(v)
    <3>1. Seen(t, x)
      <4> HIDE DEF e, x
      <4> QED BY <2>0, <2>1, LeavesSeen
    <3> HIDE DEF x
    <3> QED BY <2>0, <3>1 DEF Seen
  <2>3. Takes(t, "values", p.name, e, p.fields)
    <3>1. t[1] = "str" /\ t[2] = v
      BY <2>0, <2>2
    <3>2. Takes(t, "values", p.name, [p.field EXCEPT !.kind = "enum", !.values = <<t[2]>>], p.fields)
      BY <3>1, BracketStep
    <3> QED BY <3>1, <3>2
  <2>4. e.default = p.field.default /\ e.values = <<v>>
    BY <1>2 DEF FieldRecord
  <2> HIDE DEF x, e
  <2>5. Legible(e)
    BY <1>2, <2>2, <2>4, LegibleFirst
  <2> QED BY <1>1, <2>0, <2>1, <2>3, <2>5, TakesField
<1> QED BY <1>2, <1>3, <1>4, ReadBracket

LEMMA FollowClose ==
  ASSUME Typed(p), NEW type, TypeFits(type), NEW g, NEW gs, NEW r, Reading(type, g, gs, r),
         NEW t \in Tokens \cup {End}, Peekable(t), ExpectClose(t)
  PROVE  Follows(p', type)
<1> DEFINE x == <<"]">>
<1>0. x \in Tokens /\ x \in Keywords /\ "after" \in InField
  BY KeywordTokens, KeywordSet DEF InField
<1>1. p.pc = "close"
  BY DEF ExpectClose
<1>2. Leaves(g, Comma(gs), r, x, "after", p.field) /\ Legible(p.field)
  BY <1>1, ReadingFacts, ReadClose
<1>3. t = x
  BY <1>0, <1>2, LeavesSeen DEF Seen
<1>4. Takes(t, "after", p.name, p.field, p.fields)
  BY <1>3, CloseStep
<1> HIDE DEF x
<1> QED BY <1>0, <1>2, <1>4, TakesField

LEMMA FollowValues ==
  ASSUME Typed(p), NEW type, TypeFits(type), NEW g, NEW gs, NEW r, Reading(type, g, gs, r),
         NEW t \in Tokens \cup {End}, Peekable(t), ParseValues(t)
  PROVE  Follows(p', type)
<1>1. p.pc = "values" /\ "conflict" \in InField /\ "value" \in InField
  BY DEF ParseValues, InField
<1>2. /\ FieldOK(g) /\ p.field \in FieldRecord /\ FieldAt("values", p.field) /\ Comma(gs) \in Text
      /\ Agreed("values", p.field, g) /\ FieldLeft("values", p.field, g, Comma(gs), r) /\ Legible(p.field)
  BY <1>1, ReadingFacts
<1>3. CASE Leaves(g, Comma(gs), r, <<"]">>, "conflict", p.field)
  <2> DEFINE x == <<"]">>
  <2>0. x \in Tokens /\ x \in Keywords
    BY KeywordTokens, KeywordSet
  <2>1. t = x
    BY <1>3, <2>0, LeavesSeen DEF Seen
  <2>2. Takes(t, "conflict", p.name, p.field, p.fields)
    BY <2>1, ValuesStep
  <2>3. Leaves(g, Comma(gs), r, x, "conflict", p.field)
    BY <1>3
  <2> HIDE DEF x
  <2> QED BY <1>1, <1>2, <2>0, <2>2, <2>3, TakesField
<1>4. CASE Leaves(g, Comma(gs), r, <<",">>, "value", p.field)
  <2> DEFINE x == <<",">>
  <2>0. x \in Tokens /\ x \in Keywords
    BY KeywordTokens, KeywordSet
  <2>1. t = x
    BY <1>4, <2>0, LeavesSeen DEF Seen
  <2>2. Takes(t, "value", p.name, p.field, p.fields)
    BY <2>1, ValuesStep
  <2>3. Leaves(g, Comma(gs), r, x, "value", p.field)
    BY <1>4
  <2> HIDE DEF x
  <2> QED BY <1>1, <1>2, <2>0, <2>2, <2>3, TakesField
<1> QED BY <1>2, <1>3, <1>4, ReadValues

LEMMA FollowValue ==
  ASSUME Typed(p), NEW type, TypeFits(type), NEW g, NEW gs, NEW r, Reading(type, g, gs, r),
         NEW t \in Tokens \cup {End}, Peekable(t), ParseValue(t)
  PROVE  Follows(p', type)
<1>1. p.pc = "value" /\ "values" \in InField
  BY DEF ParseValue, InField
<1>2. /\ FieldOK(g) /\ p.field \in FieldRecord /\ Comma(gs) \in Text
      /\ Agreed("value", p.field, g) /\ FieldLeft("value", p.field, g, Comma(gs), r) /\ Legible(p.field)
  BY <1>1, ReadingFacts
<1>3. PICK v \in Strings :
         Leaves(g, Comma(gs), r, <<"str", v>>, "values", [p.field EXCEPT !.values = Append(p.field.values, v)])
  BY <1>2, ReadValue
<1> DEFINE x == <<"str", v>>
           e == [p.field EXCEPT !.values = Append(p.field.values, v)]
<1>4. x \in Tokens /\ x[1] = "str" /\ x[2] = v
  BY TokenForms
<1>5. t = x /\ ~Garbled(v)
  <2>1. Leaves(g, Comma(gs), r, x, "values", e)
    BY <1>3
  <2> HIDE DEF x, e
  <2>2. Seen(t, x)
    BY <1>4, <2>1, LeavesSeen
  <2> QED BY <1>4, <2>2 DEF Seen
<1>6. Takes(t, "values", p.name, e, p.fields)
  <2>1. t[1] = "str" /\ t[2] = v
    BY <1>4, <1>5
  <2>2. Takes(t, "values", p.name, [p.field EXCEPT !.values = Append(p.field.values, t[2])], p.fields)
    BY <2>1, ValueStep
  <2> QED BY <2>1, <2>2
<1>7. e.default = p.field.default /\ e.values = Append(p.field.values, v) /\ Leaves(g, Comma(gs), r, x, "values", e)
  BY <1>2, <1>3 DEF FieldRecord
<1> HIDE DEF x, e
<1>8. Legible(e)
  BY <1>2, <1>5, <1>7, LegibleValue
<1> QED BY <1>1, <1>4, <1>6, <1>7, <1>8, TakesField

LEMMA FollowConflict ==
  ASSUME Typed(p), NEW type, TypeFits(type), NEW g, NEW gs, NEW r, Reading(type, g, gs, r),
         NEW t \in Tokens \cup {End}, Peekable(t), ParseConflict(t)
  PROVE  Follows(p', type)
<1>1. p.pc = "conflict" /\ "strategy" \in InField /\ "equals" \in InField
  BY DEF ParseConflict, InField
<1>2. /\ FieldOK(g) /\ p.field \in FieldRecord /\ FieldAt("conflict", p.field)
      /\ FieldsLeft(gs) \in Text /\ Comma(gs) \in Text /\ Comma(gs) = Cons(<<",">>, FieldsLeft(gs))
      /\ Agreed("conflict", p.field, g) /\ FieldLeft("conflict", p.field, g, Comma(gs), r) /\ Legible(p.field)
  BY <1>1, ReadingFacts DEF Comma
<1>3. CASE g.on_conflict # "Default"
  <2> DEFINE x == <<"@">>
  <2>0. x \in Tokens /\ x \in Keywords
    BY KeywordTokens, KeywordSet
  <2>1. Leaves(g, Comma(gs), r, x, "strategy", p.field)
    BY <1>2, <1>3, ReadConflict
  <2>2. t = x
    BY <2>0, <2>1, LeavesSeen DEF Seen
  <2>3. Takes(t, "strategy", p.name, p.field, p.fields)
    BY <2>2, ConflictStep
  <2> HIDE DEF x
  <2> QED BY <1>1, <1>2, <2>0, <2>1, <2>3, TakesField
<1>4. CASE g.on_conflict = "Default"
  <2> DEFINE x == IF g.default = None THEN <<",">> ELSE <<"=">>
  <2>0. x \in Tokens /\ x \in Keywords /\ x # <<"@">>
    BY KeywordTokens, KeywordSet
  <2>1. Passes(g, Comma(gs), r, x, "equals", p.field)
    BY <1>2, <1>4, ReadConflict
  <2> HIDE DEF x
  <2>2. t = x
    BY <2>0, <2>1, LeavesSeen DEF Seen
  <2>3. Looks(t, "equals", p.field, p.fields)
    BY <2>0, <2>2, ConflictStep
  <2> QED BY <1>1, <1>2, <2>1, <2>3, LooksField
<1> QED BY <1>3, <1>4

LEMMA FollowStrategy ==
  ASSUME Typed(p), NEW type, TypeFits(type), NEW g, NEW gs, NEW r, Reading(type, g, gs, r),
         NEW t \in Tokens \cup {End}, Peekable(t), ParseStrategy(t)
  PROVE  Follows(p', type)
<1>1. p.pc = "strategy" /\ "wins" \in InField /\ "equals" \in InField
  BY DEF ParseStrategy, InField
<1>2. /\ FieldOK(g) /\ p.field \in FieldRecord /\ FieldAt("strategy", p.field) /\ Comma(gs) \in Text
      /\ Agreed("strategy", p.field, g) /\ FieldLeft("strategy", p.field, g, Comma(gs), r) /\ Legible(p.field)
  BY <1>1, ReadingFacts
<1>3. p.field.kind = g.kind /\ g.kind \in {"bool", "string", "number", "enum"}
  BY <1>2 DEF Agreed, FieldAt, FieldOK
<1> DEFINE e(o) == [p.field EXCEPT !.on_conflict = o]
<1>4. \A o : e(o).default = p.field.default /\ e(o).values = p.field.values
  BY <1>2 DEF FieldRecord
<1>5. \A o : Legible(e(o))
  <2> HIDE DEF e
  <2> QED BY <1>2, <1>4, LegibleSame
<1>6. CASE g.on_conflict = "Agreement"
  <2> DEFINE x == <<"agreement">>
             d == e("Agreement")
  <2>0. x \in Tokens /\ x \in Keywords
    BY KeywordTokens, KeywordSet
  <2>1. Leaves(g, Comma(gs), r, x, "equals", d)
    BY <1>2, <1>6, ReadStrategy
  <2>2. t = x
    <3> HIDE DEF d
    <3> QED BY <2>0, <2>1, LeavesSeen DEF Seen
  <2>3. Takes(t, "equals", p.name, d, p.fields)
    BY <2>2, StrategyStep
  <2>4. Legible(d)
    BY <1>5
  <2> HIDE DEF x, d
  <2> QED BY <1>1, <2>0, <2>1, <2>3, <2>4, TakesField
<1>7. CASE g.on_conflict = "LargestValue" /\ g.kind = "bool"
  <2> DEFINE x == <<"sticky">>
             d == e("LargestValue")
  <2>0. x \in Tokens /\ x \in Keywords /\ x \in LargestWord(p.field.kind)
    BY <1>3, <1>7, KeywordTokens, KeywordSet DEF LargestWord
  <2>1. Leaves(g, Comma(gs), r, x, "equals", d)
    BY <1>2, <1>7, ReadStrategy
  <2>2. t = x
    <3> HIDE DEF d
    <3> QED BY <2>0, <2>1, LeavesSeen DEF Seen
  <2>3. Takes(t, "equals", p.name, d, p.fields)
    BY <2>0, <2>2, StrategyStep
  <2>4. Legible(d)
    BY <1>5
  <2> HIDE DEF x, d
  <2> QED BY <1>1, <2>0, <2>1, <2>3, <2>4, TakesField
<1>8. CASE g.on_conflict = "LargestValue" /\ g.kind # "bool"
  <2> DEFINE x == FirstOf(g.kind)
             d == e("LargestValue")
  <2>0. x \in Tokens /\ x \in Keywords /\ x \in LargestWord(p.field.kind) /\ x # <<"sticky">>
    <3>1. x \in Tokens /\ x \in Keywords
      BY FirstOfToken, KeywordSet DEF FirstOf
    <3>2. x \in LargestWord(p.field.kind) /\ x # <<"sticky">>
      BY <1>3, <1>8 DEF LargestWord, FirstOf
    <3> QED BY <3>1, <3>2
  <2>1. Leaves(g, Comma(gs), r, x, "wins", d)
    BY <1>2, <1>8, ReadStrategy
  <2> HIDE DEF x
  <2>2. t = x
    <3> HIDE DEF d
    <3> QED BY <2>0, <2>1, LeavesSeen DEF Seen
  <2>3. Takes(t, "wins", p.name, d, p.fields)
    BY <2>0, <2>2, StrategyStep
  <2>4. Legible(d)
    BY <1>5
  <2> HIDE DEF d
  <2> QED BY <1>1, <2>0, <2>1, <2>3, <2>4, TakesField
<1>9. g.on_conflict \in {"Agreement", "LargestValue"}
  BY <1>2, ReadStrategy
<1> QED BY <1>6, <1>7, <1>8, <1>9

LEMMA FollowWins ==
  ASSUME Typed(p), NEW type, TypeFits(type), NEW g, NEW gs, NEW r, Reading(type, g, gs, r),
         NEW t \in Tokens \cup {End}, Peekable(t), ExpectWins(t)
  PROVE  Follows(p', type)
<1> DEFINE x == <<"wins">>
<1>0. x \in Tokens /\ x \in Keywords /\ "equals" \in InField
  BY KeywordTokens, KeywordSet DEF InField
<1>1. p.pc = "wins"
  BY DEF ExpectWins
<1>2. Leaves(g, Comma(gs), r, x, "equals", p.field) /\ Legible(p.field)
  BY <1>1, ReadingFacts, ReadWins
<1>3. t = x
  BY <1>0, <1>2, LeavesSeen DEF Seen
<1>4. Takes(t, "equals", p.name, p.field, p.fields)
  BY <1>3, WinsStep
<1> HIDE DEF x
<1> QED BY <1>0, <1>2, <1>4, TakesField

LEMMA FollowEquals ==
  ASSUME Typed(p), NEW type, TypeFits(type), NEW g, NEW gs, NEW r, Reading(type, g, gs, r),
         NEW t \in Tokens \cup {End}, Peekable(t), ParseEquals(t)
  PROVE  Follows(p', type)
<1>1. p.pc = "equals" /\ "default" \in InField /\ "after" \in InField
  BY DEF ParseEquals, InField
<1>2. /\ FieldOK(g) /\ p.field \in FieldRecord /\ FieldAt("equals", p.field)
      /\ FieldsLeft(gs) \in Text /\ Comma(gs) \in Text /\ Comma(gs) = Cons(<<",">>, FieldsLeft(gs))
      /\ Agreed("equals", p.field, g) /\ FieldLeft("equals", p.field, g, Comma(gs), r) /\ Legible(p.field)
  BY <1>1, ReadingFacts DEF Comma
<1>3. CASE g.default # None
  <2> DEFINE x == <<"=">>
  <2>0. x \in Tokens /\ x \in Keywords
    BY KeywordTokens, KeywordSet
  <2>1. Leaves(g, Comma(gs), r, x, "default", p.field)
    BY <1>2, <1>3, ReadEquals
  <2>2. t = x
    BY <2>0, <2>1, LeavesSeen DEF Seen
  <2>3. Takes(t, "default", p.name, p.field, p.fields)
    BY <2>2, EqualsStep
  <2> HIDE DEF x
  <2> QED BY <1>1, <1>2, <2>0, <2>1, <2>3, TakesField
<1>4. CASE g.default = None
  <2> DEFINE x == <<",">>
  <2>0. x \in Tokens /\ x \in Keywords /\ x # <<"=">>
    BY KeywordTokens, KeywordSet
  <2>1. Passes(g, Comma(gs), r, x, "after", p.field)
    BY <1>2, <1>4, ReadEquals
  <2> HIDE DEF x
  <2>2. t = x
    BY <2>0, <2>1, LeavesSeen DEF Seen
  <2>3. Looks(t, "after", p.field, p.fields)
    BY <2>0, <2>2, EqualsStep
  <2> QED BY <1>1, <1>2, <2>1, <2>3, LooksField
<1> QED BY <1>3, <1>4

LEMMA LiteralNotIdent ==
  ASSUME NEW kind, NEW t \in LiteralOf(kind)
  PROVE  t # <<"id", "inf">>
<1>0. <<"id", "inf">>[1] = "id"
  OBVIOUS
<1>1. CASE kind = "bool"
  <2>1. CASE t = <<"true">>
    BY <2>1
  <2>2. CASE t = <<"false">>
    BY <2>2
  <2> QED BY <1>1, <2>1, <2>2 DEF LiteralOf
<1>2. CASE kind = "number"
  <2>1. t \in {"num"} \X Numbers
    BY <1>2 DEF LiteralOf
  <2>2. t[1] = "num"
    BY <2>1
  <2> QED BY <1>0, <2>2
<1>3. CASE kind # "bool" /\ kind # "number"
  <2>1. t \in {"str"} \X Strings
    BY <1>3 DEF LiteralOf
  <2>2. t[1] = "str"
    BY <2>1
  <2> QED BY <1>0, <2>2
<1> QED BY <1>1, <1>2, <1>3

\* Where the field stands in the type.
LEMMA InsideAt ==
  ASSUME NEW type, NEW fs \in Seq(FieldRecord), NEW g, NEW gs, Inside(type, fs, g, gs)
  PROVE  /\ Len(fs) + 1 \in DOMAIN type.fields /\ type.fields[Len(fs) + 1] = g
         /\ \A j \in DOMAIN fs : j \in DOMAIN type.fields /\ type.fields[j] = fs[j] /\ j # Len(fs) + 1
<1> DEFINE n == Len(fs)
           u == Cons(g, gs)
           m == Len(gs)
           d == type.fields
<1>1. g \in FieldRecord /\ gs \in Seq(FieldRecord) /\ d = fs \o u
  BY DEF Inside
<1>2. u \in Seq(FieldRecord) /\ Leads(u, g, gs)
  BY <1>1, ConsFacts
<1>3. n \in Nat /\ m \in Nat /\ DOMAIN fs = 1..n
  BY <1>1
<1> HIDE DEF u, n, m
<1>4. Len(u) = m + 1 /\ u[1] = g
  BY <1>2 DEF Leads, m
<1>5. /\ d \in Seq(FieldRecord) /\ Len(d) = n + (m + 1)
      /\ \A j \in 1..(n + (m + 1)) : d[j] = IF j <= n THEN fs[j] ELSE u[j - n]
  <2>1. /\ fs \o u \in Seq(FieldRecord) /\ Len(fs \o u) = Len(fs) + Len(u)
        /\ \A j \in 1..(Len(fs) + Len(u)) : (fs \o u)[j] = IF j <= Len(fs) THEN fs[j] ELSE u[j - Len(fs)]
    BY <1>2, ConcatProperties
  <2> HIDE DEF d
  <2> QED BY <1>1, <1>4, <2>1 DEF n
<1> HIDE DEF d
<1>6. DOMAIN d = 1..(n + (m + 1))
  BY <1>3, <1>5
<1>7. n + 1 \in 1..(n + (m + 1)) /\ ~(n + 1 <= n) /\ (n + 1) - n = 1
  BY <1>3
<1>8. d[n + 1] = g
  BY <1>4, <1>5, <1>7
<1>9. \A j \in 1..n : j \in 1..(n + (m + 1)) /\ j <= n /\ j # n + 1
  BY <1>3
<1>10. \A j \in 1..n : j \in DOMAIN d /\ d[j] = fs[j] /\ j # n + 1
  BY <1>5, <1>6, <1>9
<1> QED BY <1>3, <1>6, <1>7, <1>8, <1>10 DEF d, n

\* An infinite number is written as a word, and the word is rejected.
LEMMA FollowDefault ==
  ASSUME Typed(p), NEW type, TypeFits(type), NEW g, NEW gs, NEW r, Reading(type, g, gs, r),
         NEW t \in Tokens \cup {End}, Peekable(t), ParseDefault(t)
  PROVE  Follows(p', type) \/ (Fails /\ ~AllLegible(type.fields))
<1>1. p.pc = "default" /\ "after" \in InField
  BY DEF ParseDefault, InField
<1>2. /\ FieldOK(g) /\ p.field \in FieldRecord /\ FieldAt("default", p.field) /\ Comma(gs) \in Text
      /\ Agreed("default", p.field, g) /\ FieldLeft("default", p.field, g, Comma(gs), r) /\ Legible(p.field)
  BY <1>1, ReadingFacts
<1> DEFINE x == g.default
           e == [p.field EXCEPT !.default = x]
<1>3. x \in Tokens /\ x # None /\ x \in LiteralOf(g.kind) /\ Leaves(g, Comma(gs), r, x, "after", e)
  BY <1>2, ReadDefault
<1>4. p.field.kind = g.kind
  BY <1>2 DEF Agreed
<1>5. e.default = x /\ e.values = p.field.values
  BY <1>2 DEF FieldRecord
<1>6. Seen(t, x)
  <2> HIDE DEF e, x
  <2> QED BY <1>3, LeavesSeen
<1>7. CASE x = <<"num", "inf">>
  <2>1. t = <<"id", "inf">>
    BY <1>3, <1>6, <1>7, RelexedToken DEF Seen
  <2>2. t \notin LiteralOf(p.field.kind)
    BY <2>1, LiteralNotIdent
  <2>3. Fails
    BY <2>2, DefaultStep
  <2>4. ~Legible(g)
    BY <1>7 DEF Legible
  <2>5. p.fields \in Seq(FieldRecord) /\ Inside(type, p.fields, g, gs)
    BY DEF Typed, ParserRecord, Reading
  <2>6. Len(p.fields) + 1 \in DOMAIN type.fields /\ type.fields[Len(p.fields) + 1] = g
    BY <2>5, InsideAt
  <2> QED BY <2>3, <2>4, <2>6 DEF AllLegible
<1>8. CASE x # <<"num", "inf">>
  <2>1. t = x /\ (x[1] = "str" => ~Garbled(x[2])) /\ x # <<"num", "-inf">>
    BY <1>6, <1>8 DEF Seen
  <2>2. t \in LiteralOf(p.field.kind)
    BY <1>3, <1>4, <2>1
  <2>3. Takes(t, "after", p.name, e, p.fields)
    BY <2>1, <2>2, DefaultStep
  <2>4. Legible(e)
    <3> HIDE DEF x, e
    <3> QED BY <1>2, <1>5, <1>8, <2>1 DEF Legible
  <2> HIDE DEF x, e
  <2> QED BY <1>1, <1>3, <2>3, <2>4, TakesField
<1> QED BY <1>7, <1>8

LEMMA AllLegibleAppend ==
  ASSUME NEW fs \in Seq(FieldRecord), NEW f \in FieldRecord, AllLegible(fs), Legible(f)
  PROVE  AllLegible(Append(fs, f))
<1> DEFINE n == Len(fs)
           d == Append(fs, f)
<1>1. n \in Nat /\ DOMAIN fs = 1..n /\ DOMAIN d = 1..(n + 1) /\ d[n + 1] = f /\ \A j \in 1..n : d[j] = fs[j]
  OBVIOUS
<1>2. \A j \in 1..(n + 1) : j \in 1..n \/ j = n + 1
  BY <1>1
<1> HIDE DEF d, n
<1>3. \A j \in 1..(n + 1) : Legible(d[j])
  BY <1>1, <1>2 DEF AllLegible
<1> QED BY <1>1, <1>3 DEF AllLegible, d

LEMMA LegibleNoField ==
  Legible(NoField)
<1>1. NoField.default = None /\ NoField.values = <<>> /\ DOMAIN <<>> = {}
  BY DEF NoField
<1>2. None # <<"num", "inf">> /\ None # <<"num", "-inf">>
  BY DEF None
<1> QED BY <1>1, <1>2 DEF Legible

LEMMA FollowEnd ==
  ASSUME Typed(p), NEW type, TypeFits(type), FieldsFit(type.fields), NEW g, NEW gs, NEW r,
         Reading(type, g, gs, r), NEW t \in Tokens \cup {End}, Peekable(t), EndField(t)
  PROVE  Follows(p', type)
<1> DEFINE x == <<",">>
           fs == p.fields
           more == Append(fs, p.field)
           s == FieldsLeft(gs)
<1>0. x \in Tokens /\ x \in Keywords
  BY KeywordTokens, KeywordSet
<1>1. p.pc = "after"
  BY DEF EndField
<1>2. /\ g \in FieldRecord /\ p.field \in FieldRecord /\ s \in Text
      /\ Agreed("after", p.field, g) /\ FieldLeft("after", p.field, g, Comma(gs), r) /\ Legible(p.field)
  BY <1>1, ReadingFacts
<1>3. p.field = g
  BY <1>2, FieldSame
<1>4. r = Cons(x, s)
  BY <1>2 DEF FieldLeft, Comma
<1>5. /\ Given(p, type) /\ p.name = type.name /\ AllLegible(fs) /\ Inside(type, fs, g, gs)
      /\ After(Display(type), p.pos, Cons(x, s))
  BY <1>4 DEF Reading
<1>6. fs \in Seq(FieldRecord)
  BY DEF Typed, ParserRecord
<1>7. t = x
  BY <1>0, <1>2, <1>5, NextToken
<1>8. p.field.name \notin FieldNames
  <2>1. /\ Len(fs) + 1 \in DOMAIN type.fields /\ type.fields[Len(fs) + 1] = g
        /\ \A j \in DOMAIN fs : j \in DOMAIN type.fields /\ type.fields[j] = fs[j] /\ j # Len(fs) + 1
    BY <1>5, <1>6, InsideAt
  <2>2. \A j, k \in DOMAIN type.fields : type.fields[j].name = type.fields[k].name => j = k
    BY DEF FieldsFit
  <2>3. \A j \in DOMAIN fs : fs[j].name # g.name
    BY <2>1, <2>2
  <2> QED BY <1>3, <2>3 DEF FieldNames
<1>9. Takes(t, "fields", p.name, NoField, more)
  BY <1>7, <1>8, EndFieldStep
<1>10. Between(type, more, gs)
  <2>1. gs \in Seq(FieldRecord) /\ AllOK(gs) /\ type.fields = fs \o Cons(g, gs)
    BY <1>5 DEF Inside
  <2>2. fs \o Cons(g, gs) = Append(fs, g) \o gs
    <3> HIDE DEF fs
    <3> QED BY <1>2, <1>6, <2>1, ConsMoves, ZenonT(60)
  <2> QED BY <1>3, <2>1, <2>2 DEF Between
<1>11. AllLegible(more) /\ Legible(NoField)
  BY <1>2, <1>5, <1>6, AllLegibleAppend, LegibleNoField
<1> HIDE DEF fs, more, x, s
<1>12. FieldsAt("fields", NoField, more, type, s)
  BY <1>10 DEF FieldsAt, InField, s
<1>13. NamesAt("fields", p.name, type, s)
  BY <1>5 DEF NamesAt
<1>14. Remains("fields", p.name, NoField, more, type, s)
  BY <1>11, <1>12, <1>13 DEF Remains
<1> QED BY <1>0, <1>2, <1>5, <1>9, <1>14, TakesFollows

LEMMA FollowType ==
  ASSUME Typed(p), NEW type, TypeFits(type), Follows(p, type),
         NEW t \in Tokens \cup {End}, Peekable(t), ExpectType(t)
  PROVE  Follows(p', type)
<1> DEFINE x == <<"type">>
<1>0. x \in Tokens /\ x \in Keywords
  BY KeywordTokens, KeywordSet
<1>1. p.pc = "type"
  BY DEF ExpectType
<1>2. p.name = <<>> /\ p.fields = <<>> /\ p.field = NoField
  BY <1>1 DEF Typed, NameFits, FieldAt
<1>3. PICK r \in Text : After(Display(type), p.pos, r) /\ Remains("type", p.name, p.field, p.fields, type, r)
  BY <1>1 DEF Follows
<1>4. r = Display(type) /\ AllLegible(p.fields) /\ Legible(p.field) /\ Given(p, type)
  BY <1>3 DEF Remains, NamesAt, Follows
<1>5. type.name \in Seq(Idents) /\ type.name # <<>>
  BY DEF TypeFits
<1>6. PICK h \in Idents, ms \in Seq(Idents) : type.name = Cons(h, ms)
  BY <1>5, SeqCons
<1> DEFINE s == Cons(<<"id", h>>, NamesLeft(ms, Body(type)))
<1>7. s \in Text /\ Display(type) = Cons(x, s)
  BY <1>6, DisplayLeft
<1>8. NamesAt("name", p.name, type, s)
  <2>1. <<>> \o Cons(h, ms) = Cons(h, ms)
    <3>1. Cons(h, ms) \in Seq(Idents)
      BY ConsFacts
    <3> QED BY <3>1, ConcatEmptySeq
  <2>2. type.name = p.name \o Cons(h, ms)
    BY <1>2, <1>6, <2>1
  <2> QED BY <2>2 DEF NamesAt
<1> HIDE DEF s, x
<1>9. FieldsAt("name", p.field, p.fields, type, s)
  BY DEF FieldsAt, InField
<1>10. Remains("name", p.name, p.field, p.fields, type, s)
  BY <1>4, <1>8, <1>9 DEF Remains
<1>11. After(Display(type), p.pos, Cons(x, s))
  BY <1>3, <1>4, <1>7
<1>12. t = x
  BY <1>0, <1>4, <1>7, <1>11, NextToken
<1>13. Takes(t, "name", p.name, p.field, p.fields)
  BY <1>12, TypeStep DEF x
<1> QED BY <1>0, <1>4, <1>7, <1>10, <1>11, <1>13, TakesFollows

LEMMA NamesLeftText ==
  ASSUME NEW type, TypeFits(type), NEW ms \in Seq(Idents)
  PROVE  Body(type) \in Text /\ NamesLeft(ms, Body(type)) \in Text
<1>1. AllOK(type.fields)
  BY DEF TypeFits
<1>2. Body(type) \in Text
  BY <1>1, FieldsLeftType, TextCons, KeywordTokens DEF Body
<1>3. FlattenSeq(PairWords(<<"::">>, "id", ms)) \in Text
  BY PairWordsType, NamePairs
<1> QED BY <1>2, <1>3, TextCat DEF NamesLeft, PairsLeft

LEMMA FollowName ==
  ASSUME Typed(p), NEW type, TypeFits(type), Follows(p, type),
         NEW t \in Tokens \cup {End}, Peekable(t), ParseName(t)
  PROVE  Follows(p', type)
<1>1. p.pc = "name"
  BY DEF ParseName
<1>2. PICK r \in Text : After(Display(type), p.pos, r) /\ Remains("name", p.name, p.field, p.fields, type, r)
  BY <1>1 DEF Follows
<1>3. AllLegible(p.fields) /\ Legible(p.field) /\ Given(p, type) /\ NamesAt("name", p.name, type, r)
  BY <1>2 DEF Remains, Follows
<1>4. PICK h \in Idents, ms \in Seq(Idents) :
         type.name = p.name \o Cons(h, ms) /\ r = Cons(<<"id", h>>, NamesLeft(ms, Body(type)))
  BY <1>3 DEF NamesAt
<1> DEFINE x == <<"id", h>>
           s == NamesLeft(ms, Body(type))
           ns == Append(p.name, h)
<1>5. s \in Text
  BY NamesLeftText
<1>6. x \in Tokens /\ x[1] = "id" /\ x[2] = h
  BY TokenForms
<1>7. type.name = ns \o ms
  <2> DEFINE u == p.name
  <2>1. u \in Seq(Idents)
    BY DEF Typed, ParserRecord
  <2> HIDE DEF u
  <2>2. u \o Cons(h, ms) = Append(u, h) \o ms
    BY <2>1, ConsMoves, ZenonT(60)
  <2> QED BY <1>4, <2>2 DEF u
<1>8. NamesAt("separator", ns, type, s)
  BY <1>7 DEF NamesAt
<1>9. After(Display(type), p.pos, Cons(x, s))
  BY <1>2, <1>4
<1> HIDE DEF s
<1>10. FieldsAt("separator", p.field, p.fields, type, s)
  BY DEF FieldsAt, InField
<1>11. Remains("separator", ns, p.field, p.fields, type, s)
  BY <1>3, <1>8, <1>10 DEF Remains
<1>12. t = x
  <2> HIDE DEF x
  <2> QED BY <1>3, <1>5, <1>6, <1>9, NextToken
<1>13. Takes(t, "separator", ns, p.field, p.fields)
  <2>1. t[1] = "id" /\ t[2] = h
    BY <1>6, <1>12
  <2>2. Takes(t, "separator", Append(p.name, t[2]), p.field, p.fields)
    BY <2>1, NameStep
  <2> QED BY <2>1, <2>2
<1> HIDE DEF x, ns
<1> QED BY <1>3, <1>5, <1>6, <1>9, <1>11, <1>13, TakesFollows

LEMMA FollowSeparator ==
  ASSUME Typed(p), NEW type, TypeFits(type), Follows(p, type),
         NEW t \in Tokens \cup {End}, Peekable(t), ParseSeparator(t)
  PROVE  Follows(p', type)
<1>1. p.pc = "separator"
  BY DEF ParseSeparator
<1>2. PICK r \in Text : After(Display(type), p.pos, r) /\ Remains("separator", p.name, p.field, p.fields, type, r)
  BY <1>1 DEF Follows
<1>3. AllLegible(p.fields) /\ Legible(p.field) /\ Given(p, type) /\ NamesAt("separator", p.name, type, r)
  BY <1>2 DEF Remains, Follows
<1>4. PICK ms \in Seq(Idents) : type.name = p.name \o ms /\ r = NamesLeft(ms, Body(type))
  BY <1>3 DEF NamesAt
<1>5. Body(type) \in Text /\ AllOK(type.fields)
  BY NamesLeftText DEF TypeFits
<1>6. p.name \in Seq(Idents) /\ p.fields = <<>>
  BY <1>1 DEF Typed, ParserRecord, NameFits
<1>7. CASE ms = <<>>
  <2> DEFINE x == <<"{">>
             s == FieldsLeft(type.fields)
  <2>0. x \in Tokens /\ x \in Keywords
    BY KeywordTokens, KeywordSet
  <2>1. s \in Text
    BY <1>5, FieldsLeftType
  <2>2. r = Cons(x, s)
    <3>1. r = Body(type)
      BY <1>4, <1>5, <1>7, PairsNil DEF NamesLeft
    <3> QED BY <3>1 DEF Body
  <2>3. p.name = type.name
    BY <1>4, <1>6, <1>7, ConcatEmptySeq
  <2>4. NamesAt("fields", p.name, type, s)
    BY <2>3 DEF NamesAt
  <2>5. Between(type, p.fields, type.fields)
    <3>1. type.fields \in Seq(FieldRecord)
      BY <1>5 DEF AllOK
    <3>2. <<>> \o type.fields = type.fields
      BY <3>1, ConcatEmptySeq
    <3> QED BY <1>5, <1>6, <3>1, <3>2 DEF Between
  <2>6. FieldsAt("fields", p.field, p.fields, type, s)
    BY <2>5 DEF FieldsAt, InField
  <2> HIDE DEF x, s
  <2>7. Remains("fields", p.name, p.field, p.fields, type, s)
    BY <1>3, <2>4, <2>6 DEF Remains
  <2>8. After(Display(type), p.pos, Cons(x, s))
    BY <1>2, <2>2
  <2>9. t = x
    BY <1>3, <2>0, <2>1, <2>8, NextToken
  <2>10. Takes(t, "fields", p.name, p.field, p.fields)
    BY <2>9, SeparatorStep DEF x
  <2> QED BY <1>3, <2>0, <2>1, <2>7, <2>8, <2>10, TakesFollows
<1>8. CASE ms # <<>>
  <2>1. PICK h \in Idents, ks \in Seq(Idents) : ms = Cons(h, ks)
    BY <1>8, SeqCons
  <2> DEFINE x == <<"::">>
             s == Cons(<<"id", h>>, NamesLeft(ks, Body(type)))
  <2>0. x \in Tokens /\ x \in Keywords
    BY KeywordTokens, KeywordSet
  <2>2. s \in Text
    BY NamesLeftText, TokenForms, TextCons
  <2>3. r = Cons(x, s)
    <3> DEFINE tag == "id"
    <3>1. Pairs(Idents, x, tag)
      BY NamePairs
    <3>2. r = PairsLeft(x, tag, Cons(h, ks), Body(type)) /\ s = Cons(<<tag, h>>, PairsLeft(x, tag, ks, Body(type)))
      BY <1>4, <2>1 DEF NamesLeft
    <3> HIDE DEF x, tag, s
    <3>3. PairsLeft(x, tag, Cons(h, ks), Body(type)) = Cons(x, Cons(<<tag, h>>, PairsLeft(x, tag, ks, Body(type))))
      BY <1>5, <3>1, PairsCons
    <3> QED BY <3>2, <3>3
  <2>4. NamesAt("name", p.name, type, s)
    BY <1>4, <2>1 DEF NamesAt
  <2> HIDE DEF x, s
  <2>5. FieldsAt("name", p.field, p.fields, type, s)
    BY DEF FieldsAt, InField
  <2>6. Remains("name", p.name, p.field, p.fields, type, s)
    BY <1>3, <2>4, <2>5 DEF Remains
  <2>7. After(Display(type), p.pos, Cons(x, s))
    BY <1>2, <2>3
  <2>8. t = x
    BY <1>3, <2>0, <2>2, <2>7, NextToken
  <2>9. Takes(t, "name", p.name, p.field, p.fields)
    BY <2>8, SeparatorStep DEF x
  <2> QED BY <1>3, <2>0, <2>2, <2>6, <2>7, <2>9, TakesFollows
<1> QED BY <1>7, <1>8

LEMMA FollowFieldName ==
  ASSUME Typed(p), NEW type, TypeFits(type), Follows(p, type),
         NEW t \in Tokens \cup {End}, Peekable(t), ParseFieldName(t)
  PROVE  Follows(p', type)
<1>1. p.pc = "fields"
  BY DEF ParseFieldName
<1>2. PICK r \in Text : After(Display(type), p.pos, r) /\ Remains("fields", p.name, p.field, p.fields, type, r)
  BY <1>1 DEF Follows
<1>3. /\ AllLegible(p.fields) /\ Legible(p.field) /\ Given(p, type) /\ NamesAt("fields", p.name, type, r)
      /\ FieldsAt("fields", p.field, p.fields, type, r)
  BY <1>2 DEF Remains, Follows
<1>4. PICK gs : Between(type, p.fields, gs) /\ r = FieldsLeft(gs)
  BY <1>3 DEF FieldsAt
<1>5. p.name = type.name
  BY <1>3 DEF NamesAt
<1>6. gs \in Seq(FieldRecord) /\ AllOK(gs) /\ type.fields = p.fields \o gs
  BY <1>4 DEF Between
<1>7. p.field \in FieldRecord /\ p.field = NoField /\ p.fields \in Seq(FieldRecord)
  BY <1>1 DEF Typed, ParserRecord, FieldAt
<1>8. CASE gs = <<>>
  <2> DEFINE x == <<"}">>
             s == <<>>
  <2>0. x \in Tokens /\ x \in Keywords
    BY KeywordTokens, KeywordSet
  <2>1. s \in Text /\ r = Cons(x, s)
    BY <1>4, <1>8, FieldsLeftNil
  <2>2. p.fields = type.fields
    BY <1>6, <1>7, <1>8, ConcatEmptySeq
  <2>3. NamesAt("done", p.name, type, s) /\ FieldsAt("done", p.field, p.fields, type, s)
    BY <1>5, <2>2 DEF NamesAt, FieldsAt, InField
  <2> HIDE DEF x, s
  <2>4. Remains("done", p.name, p.field, p.fields, type, s)
    BY <1>3, <2>3 DEF Remains
  <2>5. After(Display(type), p.pos, Cons(x, s))
    BY <1>2, <2>1
  <2>6. t = x
    BY <1>3, <2>0, <2>1, <2>5, NextToken
  <2>7. Takes(t, "done", p.name, p.field, p.fields)
    BY <2>6, FieldNameStep DEF x
  <2> QED BY <1>3, <2>0, <2>1, <2>4, <2>5, <2>7, TakesFollows
<1>9. CASE gs # <<>>
  <2>1. PICK g \in FieldRecord, hs \in Seq(FieldRecord) : gs = Cons(g, hs)
    BY <1>6, <1>9, SeqCons
  <2>2. FieldOK(g) /\ AllOK(hs) /\ AllOK(Cons(g, hs))
    BY <1>6, <2>1, AllOKCons
  <2> DEFINE x == <<"id", g.name>>
             s == Cons(<<":">>, KindLeft(g, AfterKind(g, Comma(hs))))
             e == [p.field EXCEPT !.name = g.name]
  <2>3. r = Cons(x, s)
    BY <1>4, <2>1, <2>2, FieldsLeftCons
  <2>4. s \in Text
    <3>1. Comma(hs) \in Text
      BY <2>2, FieldsLeftType
    <3>2. KindLeft(g, AfterKind(g, Comma(hs))) \in Text
      BY <2>2, <3>1, FieldLeftText
    <3> QED BY <3>2, TextCons, KeywordTokens
  <2>5. g.name \in Idents
    BY <2>2 DEF FieldOK
  <2>6. x \in Tokens /\ x[1] = "id" /\ x[2] = g.name
    BY <2>5, TokenForms
  <2>7. Inside(type, p.fields, g, hs)
    BY <1>6, <2>1, <2>2 DEF Inside
  <2>8. FieldLeft("colon", e, g, Comma(hs), s)
    BY DEF FieldLeft
  <2>9. e.name = g.name /\ e.default = p.field.default /\ e.values = p.field.values
    BY <1>7 DEF FieldRecord
  <2> HIDE DEF s, e
  <2>10. Agreed("colon", e, g)
    BY <2>9 DEF Agreed
  <2>11. Legible(e)
    BY <1>3, <2>9, LegibleSame
  <2>12. NamesAt("colon", p.name, type, s) /\ FieldsAt("colon", e, p.fields, type, s)
    BY <1>5, <2>7, <2>8, <2>10 DEF NamesAt, FieldsAt, InField
  <2>13. Remains("colon", p.name, e, p.fields, type, s)
    BY <1>3, <2>11, <2>12 DEF Remains
  <2>14. After(Display(type), p.pos, Cons(x, s))
    BY <1>2, <2>3
  <2>15. t = x
    <3> HIDE DEF x
    <3> QED BY <1>3, <2>4, <2>6, <2>14, NextToken
  <2>16. Takes(t, "colon", p.name, e, p.fields)
    <3>1. t[1] = "id" /\ t[2] = g.name
      BY <2>6, <2>15
    <3>2. Takes(t, "colon", p.name, [p.field EXCEPT !.name = t[2]], p.fields)
      BY <3>1, FieldNameStep
    <3> QED BY <3>1, <3>2 DEF e
  <2> HIDE DEF x
  <2> QED BY <1>3, <2>4, <2>6, <2>13, <2>14, <2>16, TakesFollows
<1> QED BY <1>8, <1>9

\* What of the text the lexer accepts.
Clear == {t \in Tokens : Relexed(t) # Bad}

LEMMA ClearTokens ==
  /\ Keywords \subseteq Clear
  /\ \A x \in Idents : <<"id", x>> \in Clear
  /\ \A x \in Strings : ~Garbled(x) => <<"str", x>> \in Clear
  /\ \A t \in Tokens : (t[1] # "str" \/ ~Garbled(t[2])) /\ t # <<"num", "-inf">> => t \in Clear
<1>0. <<"num", "-inf">>[1] = "num"
  OBVIOUS
<1>1. \A t \in Tokens : (t[1] # "str" \/ ~Garbled(t[2])) /\ t # <<"num", "-inf">> => t \in Clear
  BY RelexedToken DEF Clear
<1>2. ASSUME NEW t \in Keywords PROVE t \in Clear
  <2>1. PICK w \in Words : t = <<w>> /\ t[1] = w
    BY KeywordShape
  <2>2. t[1] # "str" /\ t[1] # "num" /\ t \in Tokens
    BY <2>1, TokenForms DEF Words
  <2> QED BY <1>0, <1>1, <2>2
<1>3. ASSUME NEW x \in Idents PROVE <<"id", x>> \in Clear
  <2> DEFINE t == <<"id", x>>
  <2>1. t \in Tokens /\ t[1] = "id"
    BY TokenForms
  <2> HIDE DEF t
  <2>2. t \in Clear
    BY <1>0, <1>1, <2>1
  <2> QED BY <2>2 DEF t
<1>4. ASSUME NEW x \in Strings, ~Garbled(x) PROVE <<"str", x>> \in Clear
  <2> DEFINE t == <<"str", x>>
  <2>1. t \in Tokens /\ t[1] = "str" /\ t[2] = x
    BY TokenForms
  <2> HIDE DEF t
  <2>2. t \in Clear
    BY <1>0, <1>1, <1>4, <2>1
  <2> QED BY <2>2 DEF t
<1> QED BY <1>1, <1>2, <1>3, <1>4

LEMMA ClearShort ==
  ASSUME NEW x \in Clear, NEW y \in Clear
  PROVE  <<x>> \in Seq(Clear) /\ <<x, y>> \in Seq(Clear)
  OBVIOUS

LEMMA ClearCat ==
  ASSUME NEW a \in Seq(Clear), NEW b \in Seq(Clear)
  PROVE  a \o b \in Seq(Clear)
  BY ConcatProperties

LEMMA ClearKind ==
  ASSUME NEW f, FieldOK(f), Legible(f)
  PROVE  DisplayKind(f) \in Seq(Clear)
<1>1. <<"[">> \in Clear /\ <<"]">> \in Clear /\ <<"string">> \in Clear /\ <<",">> \in Clear
  BY ClearTokens, KeywordSet
<1>2. CASE f.kind = "array"
  <2>1. DisplayKind(f) = <<<<"[">>, <<"string">>, <<"]">>>>
    BY <1>2 DEF DisplayKind
  <2> DEFINE x == <<"[">>
             y == <<"string">>
             z == <<"]">>
  <2>2. x \in Clear /\ y \in Clear /\ z \in Clear
    BY <1>1
  <2> HIDE DEF x, y, z
  <2>3. <<x, y, z>> \in Seq(Clear)
    BY <2>2
  <2> QED BY <2>1, <2>3 DEF x, y, z
<1>3. CASE f.kind = "enum"
  <2> DEFINE n == Len(f.values)
             h == <<<<"[">>, <<"str", f.values[1]>>>>
             ws == ValueWords(f.values)
             z == <<<<"]">>>>
  <2>1. f.values \in Seq(Strings) /\ f.values # <<>>
    BY <1>3 DEF FieldOK
  <2>2. n \in Nat \ {0} /\ DOMAIN f.values = 1..n /\ \A j \in 1..n : f.values[j] \in Strings
    <3> DEFINE vs == f.values
    <3>1. vs \in Seq(Strings) /\ vs # <<>>
      BY <2>1
    <3> HIDE DEF vs
    <3>2. Len(vs) \in Nat \ {0} /\ DOMAIN vs = 1..Len(vs) /\ \A j \in 1..Len(vs) : vs[j] \in Strings
      BY <3>1, EmptySeq
    <3> QED BY <3>2 DEF vs
  <2> HIDE DEF n
  <2>3. \A j \in 1..n : <<"str", f.values[j]>> \in Clear
    BY <2>2, ClearTokens DEF Legible
  <2>4. h \in Seq(Clear) /\ z \in Seq(Clear)
    <3>1. 1 \in 1..n
      BY <2>2
    <3> QED BY <1>1, <2>3, <3>1, ClearShort
  <2>5. ws = [j \in 1..(n - 1) |-> <<<<",">>, <<"str", f.values[j + 1]>>>>]
    BY DEF ValueWords, n
  <2>6. ws \in [1..(n - 1) -> Seq(Clear)]
    <3>1. \A j \in 1..(n - 1) : j + 1 \in 1..n
      BY <2>2
    <3>2. \A j \in 1..(n - 1) : <<<<",">>, <<"str", f.values[j + 1]>>>> \in Seq(Clear)
      BY <1>1, <2>3, <3>1, ClearShort
    <3> QED BY <2>5, <3>2
  <2> HIDE DEF ws
  <2>7. ws \in Seq(Seq(Clear))
    <3>1. n - 1 \in Nat
      BY <2>2
    <3> QED BY <2>6, <3>1
  <2>8. FlattenSeq(ws) \in Seq(Clear)
    BY <2>7, FlattenType
  <2>9. DisplayKind(f) = (h \o FlattenSeq(ws)) \o z
    BY <1>3 DEF DisplayKind, ws, ValueWords
  <2> HIDE DEF h, z
  <2>10. h \o FlattenSeq(ws) \in Seq(Clear)
    BY <2>4, <2>8, ClearCat
  <2> QED BY <2>4, <2>9, <2>10, ClearCat
<1>4. CASE f.kind \in {"bool", "string", "number"}
  <2>1. <<f.kind>> \in Clear
    BY <1>4, ClearTokens, KeywordSet
  <2>2. DisplayKind(f) = <<<<f.kind>>>>
    BY <1>4 DEF DisplayKind
  <2> QED BY <2>1, <2>2, ClearShort
<1> QED BY <1>2, <1>3, <1>4 DEF FieldOK

LEMMA ClearConflict ==
  ASSUME NEW f, FieldOK(f)
  PROVE  DisplayConflict(f) \in Seq(Clear)
<1>1. /\ <<"@">> \in Clear /\ <<"agreement">> \in Clear /\ <<"sticky">> \in Clear /\ <<"highest">> \in Clear
      /\ <<"last">> \in Clear /\ <<"wins">> \in Clear
  BY ClearTokens, KeywordSet
<1>2. DisplayLargest(f.kind) \in Seq(Clear)
  BY <1>1, ClearShort DEF DisplayLargest
<1>3. <<<<"@">>>> \in Seq(Clear) /\ <<<<"@">>, <<"agreement">>>> \in Seq(Clear) /\ <<>> \in Seq(Clear)
  BY <1>1, ClearShort
<1>4. CASE f.on_conflict = "Default"
  BY <1>3, <1>4 DEF DisplayConflict
<1>5. CASE f.on_conflict = "Agreement"
  BY <1>3, <1>5 DEF DisplayConflict
<1>6. CASE f.on_conflict = "LargestValue"
  <2>1. DisplayConflict(f) = <<<<"@">>>> \o DisplayLargest(f.kind)
    BY <1>6 DEF DisplayConflict
  <2> QED BY <1>2, <1>3, <2>1, ClearCat
<1> QED BY <1>4, <1>5, <1>6 DEF FieldOK

LEMMA ClearField ==
  ASSUME NEW f, FieldOK(f), Legible(f)
  PROVE  Append(DisplayField(f), <<",">>) \in Seq(Clear)
<1> DEFINE h == <<<<"id", f.name>>, <<":">>>>
           k == DisplayKind(f)
           c == DisplayConflict(f)
           d == IF f.default = None THEN <<>> ELSE <<<<"=">>, f.default>>
<1>1. <<"=">> \in Clear /\ <<":">> \in Clear /\ <<",">> \in Clear /\ <<"id", f.name>> \in Clear
  BY ClearTokens, KeywordSet DEF FieldOK
<1>2. h \in Seq(Clear)
  BY <1>1, ClearShort
<1>3. k \in Seq(Clear) /\ c \in Seq(Clear)
  BY ClearKind, ClearConflict
<1>4. d \in Seq(Clear)
  <2>1. CASE f.default = None
    BY <2>1
  <2>2. CASE f.default # None
    <3>1. f.default \in Tokens
      BY <2>2, DefaultWords
    <3>2. f.default \in Clear
      BY <2>2, <3>1, ClearTokens DEF Legible
    <3> QED BY <1>1, <2>2, <3>2, ClearShort
  <2> QED BY <2>1, <2>2
<1>5. DisplayField(f) = ((h \o k) \o c) \o d
  BY DEF DisplayField
<1> HIDE DEF h, k, c, d
<1>6. h \o k \in Seq(Clear)
  BY <1>2, <1>3, ClearCat
<1>7. (h \o k) \o c \in Seq(Clear)
  BY <1>3, <1>6, ClearCat
<1>8. DisplayField(f) \in Seq(Clear)
  BY <1>4, <1>5, <1>7, ClearCat
<1> QED BY <1>1, <1>8, AppendProperties

LEMMA LegibleText ==
  ASSUME NEW type, TypeFits(type), AllLegible(type.fields)
  PROVE  ~Contains(Lexed(type), Bad)
<1> DEFINE fs == type.fields
           ws == FieldWords(fs)
           ns == type.name
           ks == NameWords(ns)
           h == <<<<"type">>, <<"id", ns[1]>>>>
           a == <<<<"{">>>>
           b == <<<<"}">>>>
<1>1. ns \in Seq(Idents) /\ ns # <<>> /\ fs \in Seq(FieldRecord) /\ \A j \in DOMAIN fs : FieldOK(fs[j]) /\ Legible(fs[j])
  BY DEF TypeFits, AllOK, AllLegible
<1>2. /\ <<"type">> \in Clear /\ <<"{">> \in Clear /\ <<"}">> \in Clear /\ <<"::">> \in Clear
      /\ \A x \in Idents : <<"id", x>> \in Clear
  BY ClearTokens, KeywordSet
<1>3. FlattenSeq(ws) \in Seq(Clear)
  <2> HIDE DEF fs
  <2>1. Len(fs) \in Nat /\ DOMAIN fs = 1..Len(fs)
    BY <1>1
  <2>2. \A j \in 1..Len(fs) : Append(DisplayField(fs[j]), <<",">>) \in Seq(Clear)
    BY <1>1, <2>1, ClearField
  <2>3. ws \in [1..Len(fs) -> Seq(Clear)]
    BY <2>1, <2>2 DEF FieldWords
  <2> HIDE DEF ws
  <2>4. ws \in Seq(Seq(Clear))
    BY <2>1, <2>3
  <2> QED BY <2>4, FlattenType
<1>4. h \in Seq(Clear) /\ FlattenSeq(ks) \in Seq(Clear)
  <2> HIDE DEF ns
  <2>1. Len(ns) \in Nat \ {0} /\ \A j \in 1..Len(ns) : ns[j] \in Idents
    BY <1>1, EmptySeq
  <2>2. 1 \in 1..Len(ns) /\ Len(ns) - 1 \in Nat /\ \A j \in 1..(Len(ns) - 1) : j + 1 \in 1..Len(ns)
    BY <2>1
  <2>3. h \in Seq(Clear)
    BY <1>2, <2>1, <2>2, ClearShort
  <2>4. \A j \in 1..(Len(ns) - 1) : <<<<"::">>, <<"id", ns[j + 1]>>>> \in Seq(Clear)
    BY <1>2, <2>1, <2>2, ClearShort
  <2>5. ks \in [1..(Len(ns) - 1) -> Seq(Clear)]
    BY <2>4 DEF NameWords
  <2> HIDE DEF ks
  <2>6. ks \in Seq(Seq(Clear))
    BY <2>2, <2>5
  <2> QED BY <2>3, <2>6, FlattenType
<1>5. a \in Seq(Clear) /\ b \in Seq(Clear)
  BY <1>2, ClearShort
<1>6. Display(type) = (((h \o FlattenSeq(ks)) \o a) \o FlattenSeq(ws)) \o b
  BY DEF Display, NameWords, FieldWords
<1> DEFINE d == Display(type)
<1>7. d \in Seq(Clear)
  <2> HIDE DEF h, a, b, ks, ws
  <2>1. h \o FlattenSeq(ks) \in Seq(Clear)
    BY <1>4, ClearCat
  <2>2. (h \o FlattenSeq(ks)) \o a \in Seq(Clear)
    BY <1>5, <2>1, ClearCat
  <2>3. ((h \o FlattenSeq(ks)) \o a) \o FlattenSeq(ws) \in Seq(Clear)
    BY <1>3, <2>2, ClearCat
  <2> QED BY <1>5, <1>6, <2>3, ClearCat
<1>8. /\ Len(d) \in Nat /\ Len(Lexed(type)) = Len(d)
      /\ \A j \in 1..Len(d) : Lexed(type)[j] = Relexed(d[j])
  BY LexedShape
<1> HIDE DEF d
<1>9. \A j \in 1..Len(d) : Lexed(type)[j] # Bad
  BY <1>7, <1>8 DEF Clear
<1> QED BY <1>8, <1>9 DEF Contains

LEMMA FollowStep ==
  ASSUME Typed(p), NEW type, TypeFits(type), FieldsFit(type.fields), Follows(p, type),
         NEW t \in Tokens \cup {End}, ParseToken(t)
  PROVE  Follows(p', type) \/ (Fails /\ ~AllLegible(type.fields))
<1>0. Peekable(t)
  BY DEF ParseToken
<1>1. CASE ExpectType(t)
  BY <1>0, <1>1, FollowType
<1>2. CASE ParseName(t)
  BY <1>0, <1>2, FollowName
<1>3. CASE ParseSeparator(t)
  BY <1>0, <1>3, FollowSeparator
<1>4. CASE ParseFieldName(t)
  BY <1>0, <1>4, FollowFieldName
<1>5. CASE p.pc \in InField
  <2>1. PICK g, gs, r : Reading(type, g, gs, r)
    BY <1>5, ReadingField
  <2>2. CASE ExpectColon(t)
    BY <1>0, <2>1, <2>2, FollowColon
  <2>3. CASE ParseKind(t)
    BY <1>0, <2>1, <2>3, FollowKind
  <2>4. CASE ParseBracket(t)
    BY <1>0, <2>1, <2>4, FollowBracket
  <2>5. CASE ExpectClose(t)
    BY <1>0, <2>1, <2>5, FollowClose
  <2>6. CASE ParseValues(t)
    BY <1>0, <2>1, <2>6, FollowValues
  <2>7. CASE ParseValue(t)
    BY <1>0, <2>1, <2>7, FollowValue
  <2>8. CASE ParseConflict(t)
    BY <1>0, <2>1, <2>8, FollowConflict
  <2>9. CASE ParseStrategy(t)
    BY <1>0, <2>1, <2>9, FollowStrategy
  <2>10. CASE ExpectWins(t)
    BY <1>0, <2>1, <2>10, FollowWins
  <2>11. CASE ParseEquals(t)
    BY <1>0, <2>1, <2>11, FollowEquals
  <2>12. CASE ParseDefault(t)
    BY <1>0, <2>1, <2>12, FollowDefault
  <2>13. CASE EndField(t)
    BY <1>0, <2>1, <2>13, FollowEnd
  <2>14. \/ ExpectColon(t) \/ ParseKind(t) \/ ParseBracket(t) \/ ExpectClose(t) \/ ParseValues(t)
         \/ ParseValue(t) \/ ParseConflict(t) \/ ParseStrategy(t) \/ ExpectWins(t) \/ ParseEquals(t)
         \/ ParseDefault(t) \/ EndField(t) \/ ExpectType(t) \/ ParseName(t) \/ ParseSeparator(t)
         \/ ParseFieldName(t)
    BY DEF ParseToken
  <2> QED BY <1>1, <1>2, <1>3, <1>4, <2>2, <2>3, <2>4, <2>5, <2>6, <2>7, <2>8, <2>9, <2>10, <2>11, <2>12,
             <2>13, <2>14
<1>6. \/ ExpectType(t) \/ ParseName(t) \/ ParseSeparator(t) \/ ParseFieldName(t) \/ p.pc \in InField
  BY DEF ParseToken, ExpectColon, ParseKind, ParseBracket, ExpectClose, ParseValues, ParseValue,
         ParseConflict, ParseStrategy, ExpectWins, ParseEquals, ParseDefault, EndField, InField
<1> QED BY <1>1, <1>2, <1>3, <1>4, <1>5, <1>6

\* Where the second parse begins.
LEMMA FollowStart ==
  ASSUME NEW type, TypeFits(type), ~Contains(Lexed(type), Bad), NEW q, q = NewParser(Lexed(type))
  PROVE  Follows(q, type)
<1>1. /\ q.pc = "type" /\ q.input = Lexed(type) /\ q.pos = 0 /\ ~q.open /\ q.fields = <<>>
      /\ q.field = NoField
  BY DEF NewParser
<1>2. Display(type) \in Text
  BY DisplayText
<1>3. After(Display(type), 0, Display(type))
  BY <1>2, AfterAll
<1>4. NamesAt("type", q.name, type, Display(type))
  BY DEF NamesAt
<1>5. FieldsAt("type", NoField, <<>>, type, Display(type))
  BY DEF FieldsAt, InField
<1>6. AllLegible(<<>>)
  BY DEF AllLegible
<1>7. Remains("type", q.name, NoField, <<>>, type, Display(type))
  BY <1>4, <1>5, <1>6, LegibleNoField DEF Remains
<1>8. Given(q, type)
  BY <1>1 DEF Given
<1> QED BY <1>1, <1>2, <1>3, <1>7, <1>8 DEF Follows

\* Once a type is displayed, the parser follows it, or has failed on what is not legible.
Retraces(q, type) ==
  /\ FieldsFit(type.fields)
  /\ (q.pc = "error" /\ ~AllLegible(type.fields)) \/ Follows(q, type)
Returning == original # NoType => Retraces(p, original)

LEMMA NoTokenAfterError ==
  ASSUME NEW t, ParseToken(t)
  PROVE  p.pc # "error"
  BY DEF ParseToken, ExpectType, ParseName, ParseSeparator, ParseFieldName, ExpectColon, ParseKind,
         ParseBracket, ExpectClose, ParseValues, ParseValue, ParseConflict, ParseStrategy, ExpectWins,
         ParseEquals, ParseDefault, EndField

LEMMA ReturningStep ==
  ASSUME WellFormed, Returning, [Next]_vars
  PROVE  Returning'
<1>0. Typed(p)
  BY DEF WellFormed
<1>1. CASE \E t \in Tokens \cup {End} : ParseToken(t)
  <2>1. PICK t \in Tokens \cup {End} : ParseToken(t)
    BY <1>1
  <2>2. original' = original
    BY <2>1 DEF ParseToken
  <2>3. CASE original # NoType
    <3>1. TypeFits(original)
      BY <2>3 DEF WellFormed, OriginalFits
    <3>2. FieldsFit(original.fields) /\ Follows(p, original)
      BY <2>1, <2>3, NoTokenAfterError DEF Returning, Retraces
    <3>3. Follows(p', original) \/ (Fails /\ ~AllLegible(original.fields))
      BY <1>0, <2>1, <3>1, <3>2, FollowStep
    <3>4. Retraces(p', original)
      BY <3>2, <3>3, FailsTyped DEF Retraces
    <3> QED BY <2>2, <3>4 DEF Returning
  <2> QED BY <2>2, <2>3 DEF Returning
<1>2. CASE ParseDisplayed
  <2> DEFINE type == PolicyType
  <2>1. /\ TypeFits(type) /\ original' = type /\ p.pc = "done"
        /\ Contains(Lexed(type), Bad) => Fails
        /\ ~Contains(Lexed(type), Bad) => p' = NewParser(Lexed(type))
    BY <1>2, DisplayedStep
  <2>2. type.fields = p.fields
    BY <1>0, <2>1, PolicyTypeFits
  <2>3. FieldsFit(type.fields)
    BY <1>0, <2>2 DEF Typed
  <2> HIDE DEF type
  <2>4. CASE Contains(Lexed(type), Bad)
    <3>1. ~AllLegible(type.fields)
      BY <2>1, <2>4, LegibleText
    <3>2. p'.pc = "error"
      BY <2>1, <2>4, FailsTyped
    <3> QED BY <2>1, <2>3, <3>1, <3>2 DEF Returning, Retraces
  <2>5. CASE ~Contains(Lexed(type), Bad)
    <3>1. Follows(p', type)
      BY <2>1, <2>5, FollowStart
    <3> QED BY <2>1, <2>3, <3>1 DEF Returning, Retraces
  <2> QED BY <2>4, <2>5
<1>3. CASE UNCHANGED vars
  BY <1>3 DEF Returning, vars
<1> QED BY <1>1, <1>2, <1>3 DEF Next

\* What PolicyType::parse accepts it reads back from its own Display as the same type; it fails on what
\* Display wrote only if a string of the type holds a character that {:?} escapes, other than a quote
\* and a backslash, or a number is infinite, and then it always fails and never reads another type.
\* For inputs of every length, with any number of fields and of values in an enum.
THEOREM ParserRoundTrip ==
  Spec => []RoundTrip
<1>1. WellFormed /\ Returning => RoundTrip
  <2> SUFFICES ASSUME WellFormed, Returning, original # NoType
               PROVE  /\ p.pc = "error" => ~AllLegible(original.fields)
                      /\ p.pc = "done" => AllLegible(original.fields) /\ PolicyType = original
    BY DEF RoundTrip, AllLegible
  <2>1. original = [name |-> original.name, fields |-> original.fields]
    BY DEF WellFormed, OriginalFits
  <2>2. (p.pc = "error" /\ ~AllLegible(original.fields)) \/ Follows(p, original)
    BY DEF Returning, Retraces
  <2>3. CASE p.pc = "done"
    <3>1. PICK r \in Text : Remains("done", p.name, p.field, p.fields, original, r)
      BY <2>2, <2>3 DEF Follows
    <3>2. p.name = original.name /\ p.fields = original.fields /\ AllLegible(p.fields)
      BY <3>1 DEF Remains, NamesAt, FieldsAt
    <3>3. PolicyType = original
      BY <2>1, <3>2 DEF PolicyType
    <3> QED BY <2>3, <3>2, <3>3
  <2>4. CASE p.pc # "done"
    BY <2>2, <2>4 DEF Follows
  <2> QED BY <2>3, <2>4
<1>2. Init => WellFormed /\ Returning
  BY WellFormedInit DEF Init, Returning
<1>3. WellFormed /\ Returning /\ [Next]_vars => WellFormed' /\ Returning'
  BY WellFormedStep, ReturningStep
<1> QED BY <1>1, <1>2, <1>3, PTL DEF Spec
=============================================================================
