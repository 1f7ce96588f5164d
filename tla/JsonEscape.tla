----------------------------- MODULE JsonEscape -----------------------------
(***************************************************************************)
(* One step of the string rule of the JSON parser (json_parser_inst.cc):   *)
(* the rule `escaped' with its alternatives (an HTML entity, a backslash   *)
(* and a character, a \u escape, a pair of them), ucn_to_utf8, and the     *)
(* plain character that is tried last.  Shifts and masks are divisions and *)
(* remainders; no sum leaves 0 .. 2^31 - 1, so the width of uint32_t does  *)
(* not show.                                                               *)
(***************************************************************************)
EXTENDS Integers, Sequences

(***************************************************************************)
(* What the rule may be at: [rule |-> "ucn", codes], one \uXXXX or two in  *)
(* a row, as the numbers of their digits; [rule |-> "backslash", char],    *)
(* a u among them when it begins no \uXXXX; [rule |-> "ampersand", name],  *)
(* with the name of an entity or "none";                                   *)
(* [rule |-> "char", char], any other byte but the closing quote.          *)
(***************************************************************************)
CONSTANT Escapes

Below(n, bound) == n \in Nat /\ n < bound

ASSUME EscapesAssumption ==
         \A e \in Escapes :
           \/ /\ e.rule = "ucn" /\ e.codes \in Seq(Nat) /\ Len(e.codes) \in {1, 2}
              /\ \A i \in DOMAIN e.codes : Below(e.codes[i], 65536)
           \/ e.rule = "backslash" /\ Below(e.char, 256)
           \/ e.rule = "ampersand" /\ e.name \in {"gt", "lt", "amp", "none"}
           \/ e.rule = "char" /\ Below(e.char, 256) /\ e.char \notin {34, 38, 92}

VARIABLES
  escape,   \* what the rule is at
  outcome,  \* "unread"; "bytes"; "literal": `escaped' fails and the backslash is taken for a
            \* character like others; "throws": an expectation fails, and parse_json with it
  bytes     \* the text the rule gives

escapeVars == <<escape, outcome, bytes>>

-----------------------------------------------------------------------------
(* ucn_to_utf8. *)

IsSurrogate(code) == 55296 <= code /\ code < 57344

HeadOf(code) == CASE code < 128                        -> code
                  [] 128 <= code /\ code < 2048        -> 192 + ((code \div 64) % 32)
                  [] 2048 <= code /\ code < 65536      -> 224 + ((code \div 4096) % 16)
                  [] 65536 <= code /\ code < 2097152   -> 240 + ((code \div 262144) % 8)
                  [] 2097152 <= code                   -> 248 + ((code \div 16777216) % 4)

\* The loop takes six bits at a time, from the low end, as long as seven are too few.
Continuation[code \in Nat] ==
  IF code < 128 THEN <<>> ELSE Append(Continuation[code \div 64], 128 + (code % 64))

\* Mutant of UcnToUtf8: the loop stops at six bits, as many as a continuation byte holds.
UcnToUtf8OfSix(code) ==
  LET Rest[c \in Nat] ==
        IF c < 64 THEN <<>> ELSE Append(Rest[c \div 64], 128 + (c % 64))
  IN <<HeadOf(code)>> \o Rest[code]

UcnToUtf8(code) == <<HeadOf(code)>> \o Continuation[code]

-----------------------------------------------------------------------------
(* The rules `escaped' and `string_'. *)

Gives(text) == outcome' = "bytes" /\ bytes' = text

Fails(how) == outcome' = how /\ UNCHANGED bytes

Ampersand ==
  /\ escape.rule = "ampersand"
  /\ Gives(<<[gt |-> 62, lt |-> 60, amp |-> 38, none |-> 38][escape.name]>>)

\* b, f, n, r and t
Letters == {98, 102, 110, 114, 116}

\* Mutant of Letter: the letter itself.
LetterAsIs(char) == char

\* The value of a letter: its place in the alphabet, from 0.
Letter(char) == char - 97

\* A u (117) that four hex digits do not follow: ucn_code expects them.
Backslash ==
  /\ escape.rule = "backslash"
  /\ \/ escape.char \in Letters /\ Gives(<<Letter(escape.char)>>)
     \/ escape.char \in {34, 47, 92} /\ Gives(<<escape.char>>)
     \/ escape.char = 117 /\ Fails("throws")
     \/ escape.char \notin Letters \cup {34, 47, 92, 117} /\ Fails("literal")

\* The first code was refused, and a second escape has to follow.
PairCode(e) == (e[1] - 55296) * 1024 + (e[2] - 56320) + 65536

Ucn ==
  /\ escape.rule = "ucn"
  /\ LET e == escape.codes
     IN \/ ~IsSurrogate(e[1]) /\ Gives(UcnToUtf8(e[1]))
        \/ IsSurrogate(e[1]) /\ Len(e) = 1 /\ Fails("throws")
        \/ /\ IsSurrogate(e[1]) /\ Len(e) = 2
           /\ \/ ~IsSurrogate(PairCode(e)) /\ Gives(UcnToUtf8(PairCode(e)))
              \/ IsSurrogate(PairCode(e)) /\ Fails("literal")

\* ascii::char_ takes seven bits; at another byte the closing quote is expected.
Char ==
  /\ escape.rule = "char"
  /\ \/ escape.char < 128 /\ Gives(<<escape.char>>)
     \/ escape.char >= 128 /\ Fails("throws")

EscapeInit == escape \in Escapes /\ outcome = "unread" /\ bytes = <<>>

EscapeNext ==
  /\ outcome = "unread"
  /\ Ampersand \/ Backslash \/ Ucn \/ Char
  /\ UNCHANGED escape

EscapeSpec == EscapeInit /\ [][EscapeNext]_escapeVars

-----------------------------------------------------------------------------
(* Properties. *)

\* The bytes that follow the first one in the encoding of the character c.
Following(c) == IF c < 128 THEN 0 ELSE IF c < 2048 THEN 1 ELSE IF c < 65536 THEN 2 ELSE 3

\* The bits of the first byte that tell how many follow, and the powers of 64.
Leads  == <<0, 192, 224, 240>>
Powers == <<1, 64, 4096, 262144>>

\* UTF-8 by its definition: a byte that follows has six bits of the character, the first the rest.
Utf8(c) ==
  LET n == Following(c)
      Shifted(bits) == c \div Powers[bits + 1]
  IN <<Leads[n + 1] + Shifted(n)>> \o [k \in 1 .. n |-> 128 + (Shifted(n - k) % 64)]

\* What the first byte announces.
Announced(b) == IF b < 128 THEN 0 ELSE IF b < 224 THEN 1 ELSE IF b < 240 THEN 2 ELSE 3

\* The characters whose escapes come out one byte short: the loop ends as soon as what is left
\* fits in seven bits, though the first byte has room for four or three of them.
CutShort(c) ==
  \/ 2048 <= c /\ c < 8192
  \/ 65536 <= c /\ c < 524288

IsHigh(code) == 55296 <= code /\ code < 56320
IsLow(code)  == 56320 <= code /\ code < 57344

\* The characters an escape stands for in JSON, or in Twitter's use of entities; none if a
\* surrogate is on its own, or the character is not one JSON escapes.
Meant(e) ==
  CASE e.rule = "ucn" ->
         IF ~IsSurrogate(e.codes[1]) THEN {e.codes[1]}
         ELSE IF Len(e.codes) = 2 /\ IsHigh(e.codes[1]) /\ IsLow(e.codes[2])
              THEN {PairCode(e.codes)} ELSE {}
    [] e.rule = "backslash" ->
         {c[2] : c \in {d \in {<<34, 34>>, <<47, 47>>, <<92, 92>>, <<98, 8>>, <<102, 12>>,
                               <<110, 10>>, <<114, 13>>, <<116, 9>>} : d[1] = e.char}}
    [] e.rule = "ampersand" -> {CASE e.name = "gt" -> 62 [] e.name = "lt" -> 60 [] OTHER -> 38}
    [] e.rule = "char"      -> {c \in {e.char} : c < 128}

\* The constructor of tweet_object puts a line feed for every carriage return.
InTweet(text) == [i \in DOMAIN text |-> IF text[i] = 13 THEN 10 ELSE text[i]]

\* Backspace, tab, form feed and carriage return, of which the rule makes others.
Mistaken == {8, 9, 12, 13}

\* Every escape comes out as the UTF-8 of the character it stands for, with two exceptions.
\* In two ranges, which hold scripts in use and all emoji, a byte is missing in the middle, so
\* that the result is never taken for another character.  And the letter escapes give wrong
\* codes (json_parser_inst.cc:53): \n comes right in a tweet only because its code is that of a
\* carriage return, which twitter.cc:89 replaces; the others never come out as a line end.
EscapesDecoded ==
  \A c \in Meant(escape) :
    outcome # "unread" =>
      /\ outcome = "bytes"
      /\ escape.rule = "backslash" /\ c \notin Mistaken => InTweet(bytes) = Utf8(c)
      /\ escape.rule = "backslash" /\ c \in Mistaken => InTweet(bytes) \notin {<<8>>, <<10>>}
      /\ escape.rule # "backslash" /\ ~CutShort(c) => bytes = Utf8(c)
      /\ escape.rule # "backslash" /\ CutShort(c) => Len(bytes) = Announced(bytes[1])

=============================================================================
