------------------------------ MODULE Encoding ------------------------------
(***************************************************************************)
(* A signed request, byte for byte: url_escape, hexanizer and base64_encode*)
(* (util.hpp), the message that is signed and the renderings that are sent *)
(* (oauth.hpp), and the method that follows from the body                  *)
(* (http_client_inst.cc).  OAuth takes a signature to be what was signed;  *)
(* here is what that rests on: a message is written in one way only, and   *)
(* the server can write it again from what it gets.                        *)
(*                                                                         *)
(* A parameter's name, a method and a uri are as short as they can be:     *)
(* none has a byte that is escaped, but for the uri's.                     *)
(***************************************************************************)
EXTENDS Integers, FiniteSets, SequencesExt

CONSTANT Requests   \* [token, random, digest: bytes; status: <<>> or a sequence of one text]

Byte == 0 .. 255

\* random is the MD5 gen_nonce takes of random bytes and the time, digest the HMAC.
ASSUME EncodingAssumption ==
         \A r \in Requests : /\ {r.token, r.random, r.digest} \subseteq Seq(Byte)
                             /\ r.status = <<>> \/ r.status[1] \in Seq(Byte)

VARIABLES
  request,  \* what is to be sent
  params,   \* token_requester::params, by name
  message,  \* what was signed
  wire      \* the request: method, query, header (Authorization) and body

encodingVars == <<request, params, message, wire>>

Nonce     == 110   \* n
Signature == 115   \* s
Token     == 116   \* t
Status    == 117   \* u

Get  == <<71>>            \* G
Post == <<80>>            \* P
Uri  == <<104, 58, 47>>   \* h:/

-----------------------------------------------------------------------------
(* util.hpp *)

\* char is signed.
Signed(b) == IF b < 128 THEN b ELSE b - 256

\* Mutant of Hex: lower case.
LowerHex(digit) == IF digit < 10 THEN 48 + digit ELSE 87 + digit

Hex(digit) == IF digit < 10 THEN 48 + digit ELSE 55 + digit

\* A shift to the right keeps the sign, which the mask takes away.
Hexanizer(head, b) == head \o <<Hex((Signed(b) \div 16) % 16), Hex(Signed(b) % 16)>>

IsAlnum(b) == \/ 48 <= b /\ b <= 57
              \/ 97 <= b /\ b <= 122
              \/ 65 <= b /\ b <= 90

DoEscape(b) == IF IsAlnum(b) \/ b \in {45, 46, 95, 126} THEN <<b>> ELSE Hexanizer(<<37>>, b)

\* accumulate() appends what the function object gives for a byte.
UrlEscape(s) == FlattenSeq([i \in DOMAIN s |-> DoEscape(s[i])])

Base64ConvertSingle(c) == CASE c < 26 -> 65 + c
                            [] 26 <= c /\ c < 52 -> 97 + c - 26
                            [] 52 <= c /\ c < 62 -> 48 + c - 52
                            [] c = 62 -> 43
                            [] c = 63 -> 47
                            [] OTHER  -> 61

\* Mutant of Base64Group: the padding is counted one short.
Base64GroupOfZeros(s, pad) ==
  LET tmp    == s[1] * 65536 + s[2] * 256 + s[3]
      Six(n) == Base64ConvertSingle((tmp \div n) % 64)
  IN <<Six(262144), Six(4096), IF pad > 2 THEN 61 ELSE Six(64), IF pad > 1 THEN 61 ELSE Six(1)>>

\* Three bytes, of which the last pad are not there.
Base64Group(s, pad) ==
  LET tmp    == s[1] * 65536 + s[2] * 256 + s[3]
      Six(n) == Base64ConvertSingle((tmp \div n) % 64)
  IN <<Six(262144), Six(4096), IF pad > 1 THEN 61 ELSE Six(64), IF pad > 0 THEN 61 ELSE Six(1)>>

Base64Encode(src) ==
  LET pad    == (-Len(src)) % 3
      padded == src \o [i \in 1 .. pad |-> 0]
      groups == Len(padded) \div 3
  IN FlattenSeq([g \in 1 .. groups |->
                   Base64Group(SubSeq(padded, 3 * g - 2, 3 * g), IF g = groups THEN pad ELSE 0)])

-----------------------------------------------------------------------------
(* oauth.hpp *)

CombineAsGetParam(name, value) == <<name, 61>> \o UrlEscape(value)

CombineAsPostParam(name, value) == <<name, 61, 34>> \o UrlEscape(value) \o <<34>>

\* The numbers in S in their order.
Ordered(S) ==
  CHOOSE t \in [1 .. Cardinality(S) -> S] : \A i, j \in DOMAIN t : i < j => t[i] < t[j]

\* A map is in the order of its keys.
MakeRequest(combined, joiner) ==
  LET names == Ordered(DOMAIN combined)
  IN FlattenSeq([i \in DOMAIN names |-> (IF i = 1 THEN <<>> ELSE joiner) \o combined[names[i]]])

GetRequest(ps) == MakeRequest([n \in DOMAIN ps |-> CombineAsGetParam(n, ps[n])], <<38>>)

PostRequest(ps) == MakeRequest([n \in DOMAIN ps |-> CombineAsPostParam(n, ps[n])], <<44, 32>>)

GenNonce == FlattenSeq([i \in DOMAIN request.random |-> Hexanizer(<<>>, request.random[i])])

\* Mutant of Message: the parameters are escaped once.
MessageEscapedOnce(method, ps) ==
  method \o <<38>> \o UrlEscape(Uri) \o <<38>> \o GetRequest(ps)

Message(method, ps) ==
  method \o <<38>> \o UrlEscape(Uri) \o <<38>> \o UrlEscape(GetRequest(ps))

Without(ps, name) == [n \in DOMAIN ps \ {name} |-> ps[n]]

With(ps, name, value) == [n \in DOMAIN ps \cup {name} |-> IF n = name THEN value ELSE ps[n]]

GenRequestSignature(ps, method) ==
  LET signed == With(Without(ps, Signature), Nonce, GenNonce)
  IN /\ message' = Message(method, signed)
     /\ params' = With(signed, Signature, Base64Encode(request.digest))

-----------------------------------------------------------------------------
(* The requests of twitter_client. *)

TokenAlone == [n \in {Token} |-> request.token]

EncodingInit ==
  /\ request \in Requests
  /\ params = TokenAlone
  /\ message = <<>> /\ wire = <<>>

Sign ==
  /\ message = <<>>
  /\ \/ request.status = <<>> /\ GenRequestSignature(params, Get)
     \/ /\ request.status # <<>>
        /\ GenRequestSignature(With(params, Status, request.status[1]), Post)
  /\ UNCHANGED <<request, wire>>

\* generate_http_header: what has a body is a POST.
Sent(query, header, body) ==
  wire' = [method |-> IF body = <<>> THEN Get ELSE Post,
           query |-> query, header |-> header, body |-> body]

SendTimelineRequest ==
  /\ message # <<>> /\ wire = <<>> /\ request.status = <<>>
  /\ Sent(GetRequest(params), <<>>, <<>>)
  /\ UNCHANGED <<request, params, message>>

SendStatus ==
  /\ message # <<>> /\ wire = <<>> /\ request.status # <<>>
  /\ params' = Without(params, Status)
  /\ Sent(<<>>, PostRequest(params'), <<Status, 61>> \o UrlEscape(request.status[1]))
  /\ UNCHANGED <<request, message>>

EncodingNext == Sign \/ SendTimelineRequest \/ SendStatus

EncodingSpec == EncodingInit /\ [][EncodingNext]_encodingVars

-----------------------------------------------------------------------------
(* The server: RFC 5849 on the escapes, the message and the header, RFC 4648 on base64, and   *)
(* the form encoding, in which a plus sign is a space.                                        *)

Split(s, b) ==
  LET cuts == <<0>> \o Ordered({i \in DOMAIN s : s[i] = b}) \o <<Len(s) + 1>>
  IN [k \in 1 .. Len(cuts) - 1 |-> SubSeq(s, cuts[k] + 1, cuts[k + 1] - 1)]

UpperHex == <<48, 49, 50, 51, 52, 53, 54, 55, 56, 57, 65, 66, 67, 68, 69, 70>>

Digit(b) == (IF b \in 97 .. 102 THEN b - 87 ELSE IF b > 57 THEN b - 55 ELSE b - 48) % 16

\* An escape that is cut short is text.
Unescaped(s, plus) ==
  LET Coded(i) == s[i] = 37 /\ i + 2 <= Len(s)
      from[i \in 1 .. Len(s) + 1] ==
        IF i > Len(s) THEN <<>>
        ELSE IF Coded(i) THEN <<16 * Digit(s[i + 1]) + Digit(s[i + 2])>> \o from[i + 3]
        ELSE <<IF s[i] = 43 THEN plus ELSE s[i]>> \o from[i + 1]
  IN from[1]

Unreserved == {45, 46, 95, 126} \cup 48 .. 57 \cup 65 .. 90 \cup 97 .. 122

Escaped(s) ==
  FlattenSeq([i \in DOMAIN s |-> IF s[i] \in Unreserved THEN <<s[i]>>
                                 ELSE <<37, UpperHex[s[i] \div 16 + 1], UpperHex[(s[i] % 16) + 1]>>])

\* What stands for the value of each name in pairs that a byte joins.
Pairs(text, joint) ==
  LET parts == {Split(p, 61) : p \in {q \in ToSet(Split(text, joint)) : q # <<>>}}
      Name(p) == Last(p[1])
  IN [n \in {Name(p) : p \in parts} |-> (CHOOSE p \in parts : Name(p) = n)[2]]

FormPairs(text) ==
  LET pairs == Pairs(text, 38) IN [n \in DOMAIN pairs |-> Unescaped(pairs[n], 32)]

\* The value of a pair in the header is in quotes.
HeaderPairs(text) ==
  LET pairs == Pairs(text, 44) IN [n \in DOMAIN pairs |-> Unescaped(Split(pairs[n], 34)[2], 43)]

Either(f, g) == [n \in DOMAIN f \cup DOMAIN g |-> IF n \in DOMAIN f THEN f[n] ELSE g[n]]

Received == Either(FormPairs(wire.query), Either(HeaderPairs(wire.header), FormPairs(wire.body)))

\* The message, from a method and parameters.
ServerMessage(method, ps) ==
  LET names == Ordered(DOMAIN ps)
      Pair(i) == <<names[i], 61>> \o Escaped(ps[names[i]])
      joined == FlattenSeq([i \in DOMAIN names |-> IF i = 1 THEN Pair(i) ELSE <<38>> \o Pair(i)])
  IN method \o <<38>> \o Escaped(Uri) \o <<38>> \o Escaped(joined)

Base64Digits ==
  [i \in 1 .. 64 |-> CASE i <= 26 -> 64 + i
                       [] 27 <= i /\ i <= 52 -> 70 + i
                       [] 53 <= i /\ i <= 62 -> i - 5
                       [] i = 63 -> 43
                       [] i = 64 -> 47]

\* A bit of a digit, from the highest.
BitOf(digit, i) ==
  LET d == (CHOOSE k \in 1 .. 64 : Base64Digits[k] = digit) - 1
  IN (d \div <<32, 16, 8, 4, 2, 1>>[i + 1]) % 2

\* The bytes whose bits are those of the digits of text, at whose end there may be padding.
Base64Decoded(text) ==
  LET padding == Cardinality({i \in DOMAIN text : text[i] = 61})
      bit(i)  == BitOf(text[(i \div 6) + 1], i % 6)
      at(i)   == 8 * (i - 1)
  IN [i \in 1 .. (6 * (Len(text) - padding)) \div 8 |->
        128 * bit(at(i)) + 64 * bit(at(i) + 1) + 32 * bit(at(i) + 2) + 16 * bit(at(i) + 3)
          + 8 * bit(at(i) + 4) + 4 * bit(at(i) + 5) + 2 * bit(at(i) + 6) + bit(at(i) + 7)]

-----------------------------------------------------------------------------
(* Properties. *)

\* Whatever bytes the token and the status have, the message the server writes from the
\* request it got is the one that was signed, to the case of a hexadecimal digit.
ServerWritesMessage ==
  wire # <<>> => ServerMessage(wire.method, Without(Received, Signature)) = message

\* The signature comes through base64 and the escapes, where it may hold a plus sign, a slash
\* and equals signs, as the digest that was made.
DigestArrives ==
  wire # <<>> => /\ Len(Received[Signature]) % 4 = 0
                 /\ Base64Decoded(Received[Signature]) = request.digest

\* The message can be read in one way only: no value of a parameter makes it look like that of
\* other parameters.
MessageHasOneReading ==
  message # <<>> =>
    LET parts == Split(message, 38)
    IN /\ Len(parts) = 3
       /\ parts[1] = IF request.status = <<>> THEN Get ELSE Post
       /\ Without(FormPairs(Unescaped(parts[3], 43)), Nonce)
            = IF request.status = <<>> THEN TokenAlone
              ELSE With(TokenAlone, Status, request.status[1])

=============================================================================
