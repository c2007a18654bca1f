---------------------------- MODULE WireFormats ----------------------------
(***************************************************************************)
(* Texts as a request carries them, and the typed values read back from    *)
(* them (packages/api/src/request-contract.ts).                            *)
(*                                                                         *)
(* A text is a sequence of lexemes.  Only what the validator tells apart   *)
(* is one: a digit "1", a literal "true", letters "a" and "k", a named "p",*)
(* and the marks that a serialization uses as delimiters.                  *)
(***************************************************************************)
EXTENDS Naturals, Sequences, FiniteSets

Digits == {"1"}

Lexemes == Digits \cup {"true", "a", "k", "p=", ",", ".", ";", " ", "|"}

IsDigits(text) == text # <<>> /\ \A i \in DOMAIN text : text[i] \in Digits

\* The places of a lexeme in a text.
Places(text, mark) == {i \in DOMAIN text : text[i] = mark}

IsInteger(text) == IsDigits(text)

\* Digits with at most one point, and at least one digit.
IsNumber(text) ==
  /\ \E i \in DOMAIN text : text[i] \in Digits
  /\ \A i \in DOMAIN text : text[i] \in Digits \cup {"."}
  /\ Cardinality(Places(text, ".")) <= 1

IsBoolean(text) == text = <<"true">>

\* value.split(mark): the parts of the first n lexemes, the last of them open.
Split(text, mark) ==
  LET parts[n \in 0 .. Len(text)] ==
        IF n = 0 THEN << <<>> >>
        ELSE LET before == parts[n - 1]
             IN  IF text[n] = mark THEN Append(before, <<>>)
                 ELSE [before EXCEPT ![Len(before)] = Append(@, text[n])]
  IN  parts[Len(text)]

\* The texts put one behind the other with a mark between them.
Join(texts, mark) ==
  LET upto[n \in 0 .. Len(texts)] ==
        IF n = 0 THEN <<>> ELSE IF n = 1 THEN texts[1] ELSE upto[n - 1] \o <<mark>> \o texts[n]
  IN  upto[Len(texts)]

\* text.trim(): without the blanks at its two ends.
Trim(text) ==
  LET solid == {i \in DOMAIN text : text[i] # " "}
  IN  IF solid = {} THEN <<>>
      ELSE SubSeq(text, CHOOSE i \in solid : \A j \in solid : i <= j,
                        CHOOSE i \in solid : \A j \in solid : j <= i)

StartsWith(text, lexeme) == text # <<>> /\ Head(text) = lexeme

-----------------------------------------------------------------------------
(* Scalar schemas: the declared types, whether multipleOf is a fraction,   *)
(* and whether the schema accepts no other number than 1.                  *)

Nullable(s) == \E i \in DOMAIN s.types : s.types[i] = "null"

\* Whether a type's own syntax accepts a text.
Reads(type, text) ==
  \/ type = "string"
  \/ type = "integer" /\ IsInteger(text)
  \/ type = "number"  /\ IsNumber(text)
  \/ type = "boolean" /\ IsBoolean(text)

NotCoerced == "none"

\* coerceScalar: the type as which a text is taken.
CoerceScalar(text, types) ==
  LET ok == {i \in DOMAIN types : Reads(types[i], text)}
  IN  IF text = <<>> /\ \E i \in DOMAIN types : types[i] = "null" THEN "null"
      ELSE IF ok = {} THEN NotCoerced
      ELSE types[CHOOSE i \in ok : \A j \in ok : i <= j]

\* validateSchema on the value a text was taken for.
Accepts(s, type, text) == s.narrow /\ type \in {"integer", "number"} => text = <<"1">>

Checks(s, text) ==
  CoerceScalar(text, s.types) # NotCoerced /\ Accepts(s, CoerceScalar(text, s.types), text)

\* The reference: the text is what some value of the schema is written as.
Fits(s, text) ==
  \/ text = <<>> /\ Nullable(s)
  \/ \E i \in DOMAIN s.types : Reads(s.types[i], text) /\ Accepts(s, s.types[i], text)

\* itemTypesSplittable: no element can contain the delimiter.
Splittable(types, dotted) ==
  LET nonNull == {i \in DOMAIN types : types[i] # "null"}
  IN  /\ nonNull # {}
      /\ \A i \in nonNull : \/ types[i] \in {"integer", "boolean"}
                            \/ types[i] = "number" /\ ~ dotted
=============================================================================
