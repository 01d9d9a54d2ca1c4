------------------------------- MODULE MCParser -------------------------------
(* Inputs with two identifiers and three strings: one that Display writes as  *)
(* it is, one it has to escape, and one whose escape the lexer does not know. *)
EXTENDS Parser

MCStrings == {<<"c">>, <<"quote", "backslash">>, <<"c", "tab">>}

\* debug and the lexer on every string of up to three characters.
ASSUME LiteralsReadBack ==
  \A n \in 0..3 : \A s \in [1..n -> Characters] :
    read_string_literal(debug(s)) = IF Garbled(s) THEN Bad ELSE <<"str", s>>
=============================================================================
