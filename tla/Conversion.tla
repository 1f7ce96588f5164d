----------------------------- MODULE Conversion -----------------------------
(***************************************************************************)
(* The three conversions of conversion.cc where there is an iconv:         *)
(* narrow_to_narrow, narrow_to_wide and wide_to_narrow, which are one loop *)
(* over passes of iconv with a buffer of 1024 bytes for the output.  A pass*)
(* ends at the end of the input, at a byte that is part of no character, or*)
(* with the buffer full, and the loop takes the last two for the same.     *)
(*                                                                         *)
(* In the model iconv converts a character in a step.  Text is a sequence  *)
(* of characters, told apart by their positions, and the program's strings *)
(* are their bytes: as many as the encoding has in a narrow string, a      *)
(* wchar_t in a wide one.  The narrow input is UTF-8, where no byte inside *)
(* a character looks like the first one of another.                        *)
(***************************************************************************)
EXTENDS Integers, Sequences, SequencesExt, Selection

CONSTANTS
  Texts,     \* the texts converted
  Buffer     \* bytes of output in a pass

WideSize == 4   \* sizeof(wchar_t)

\* size: bytes in a narrow string.  valid: FALSE for a stray byte, and for a character that
\* the other encoding does not have.
Character == [size : 1 .. 3, valid : BOOLEAN]

ASSUME ConversionAssumption == Texts \subseteq Seq(Character) /\ Buffer \in Nat \ (0 .. WideSize - 1)

VARIABLES
  text,     \* what the input stands for
  from, to, \* "narrow" or "wide"
  inbuf,    \* bytes of the input that are done
  outbuf,   \* bytes in the buffer of this pass
  ret,      \* the output: the position in text of each character, 0 for one that is not in text
  done

vars == <<text, from, to, inbuf, outbuf, ret, done>>

-----------------------------------------------------------------------------

SizeIn(enc, c) == IF enc = "wide" THEN WideSize ELSE c.size

\* The bytes of the input, each with its character and its place there.
Bytes == FlattenSeq([i \in DOMAIN text |->
                       [k \in 1 .. SizeIn(from, text[i]) |-> [char |-> i, place |-> k]]])

BytesLeft == Len(Bytes) - inbuf

Here == Bytes[inbuf + 1]

\* At the first byte of a character that can be converted.
AtCharacter == BytesLeft > 0 /\ Here.place = 1 /\ text[Here.char].valid

\* In the middle of a wchar_t, with enough left for another.
Misaligned == from = "wide" /\ BytesLeft >= WideSize /\ Here.place # 1

\* Mutant of Fits: the last byte of the buffer is not used.
FitsBelow(bytes) == outbuf + bytes < Buffer

Fits(bytes) == outbuf + bytes <= Buffer

Emit(i, taken, bytes) == /\ inbuf' = inbuf + taken
                         /\ outbuf' = outbuf + bytes
                         /\ ret' = Append(ret, i)

Convert ==
  /\ ~done /\ AtCharacter
  /\ LET c == text[Here.char]
     IN /\ Fits(SizeIn(to, c))
        /\ Emit(Here.char, SizeIn(from, c), SizeIn(to, c))
  /\ UNCHANGED <<text, from, to, done>>

\* The bytes of two characters read as one, which may or may not be a character.
Misread ==
  /\ ~done /\ Misaligned
  /\ \E bytes \in 1 .. 3 : Fits(bytes) /\ Emit(0, WideSize, bytes)
  /\ UNCHANGED <<text, from, to, done>>

\* Mutants of Skip: no byte is skipped, and two are.
SkipNothing == outbuf' = 0 /\ UNCHANGED <<inbuf, ret>>

SkipTwo == outbuf' = 0 /\ inbuf' = inbuf + 2 /\ UNCHANGED ret

\* The byte after the ones converted.
Skip == outbuf' = 0 /\ inbuf' = inbuf + 1 /\ UNCHANGED ret

\* iconv returned -1: EILSEQ or EINVAL, or E2BIG.  A new pass begins after the byte skipped.
Fail ==
  /\ ~done /\ BytesLeft > 0
  /\ \/ ~AtCharacter
     \/ AtCharacter /\ ~Fits(SizeIn(to, text[Here.char]))
  /\ Skip
  /\ UNCHANGED <<text, from, to, done>>

Finish ==
  /\ ~done /\ BytesLeft = 0
  /\ done' = TRUE
  /\ UNCHANGED <<text, from, to, inbuf, outbuf, ret>>

\* A wide string is what narrow_to_wide made of a narrow one, so all of it can be converted.
Init ==
  /\ text \in Texts
  /\ \/ from = "narrow" /\ to \in {"narrow", "wide"}
     \/ from = "wide" /\ to = "narrow" /\ \A i \in DOMAIN text : text[i].valid
  /\ inbuf = 0 /\ outbuf = 0 /\ ret = <<>> /\ done = FALSE

Next == Convert \/ Misread \/ Fail \/ Finish

Spec == Init /\ [][Next]_vars

FairSpec == Spec /\ WF_vars(Next)

-----------------------------------------------------------------------------
(* Properties. *)

\* The bytes that characters i .. j come to, those that cannot be converted left out.
Cost(i, j) ==
  LET cost[k \in i - 1 .. j] ==
        IF k = i - 1 THEN 0
        ELSE cost[k - 1] + (IF text[k].valid THEN SizeIn(to, text[k]) ELSE 0)
  IN IF j < i THEN 0 ELSE cost[j]

\* A text whose conversion fits in the buffer is converted as it is, but for what cannot be
\* converted.
ShortTextExact ==
  done /\ Cost(1, Len(text)) <= Buffer =>
    ret = Select([i \in DOMAIN text |-> i], {i \in DOMAIN text : text[i].valid})

Lost == {i \in DOMAIN text : text[i].valid /\ ~Contains(ret, i)}

\* From a narrow string no more than one character is lost for each buffer that is filled, the
\* others are kept and in order, and nothing is made up: skipping one byte of a character ends
\* at the next one.
OneLostPerBuffer ==
  done /\ from = "narrow" =>
    /\ \A i, j \in DOMAIN ret : 0 < ret[i] /\ (i < j => ret[i] < ret[j])
    /\ \A j \in Lost : \A i \in (Lost \cap 1 .. j - 1) \cup {0} : Cost(i + 1, j) > Buffer

\* Every conversion comes to an end, whatever bytes it is given.
ConversionEnds == <>done

=============================================================================
