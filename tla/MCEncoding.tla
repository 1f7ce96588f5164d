----------------------------- MODULE MCEncoding -----------------------------
(* Every byte and pairs of the telling ones in each place, and digests of every length modulo 3. *)
EXTENDS Encoding

\* NUL, %, &, +, comma, 1, =, a, DEL, and the ends of the upper half.
Telling == {0, 34, 37, 38, 43, 44, 49, 61, 97, 127, 128, 255}

TextSet == {<<>>} \cup {<<b>> : b \in Byte} \cup {<<a, b>> : a, b \in Telling}

Digests == TextSet \cup {<<a, b, c>> : a, b, c \in {0, 63, 128, 251, 255}}
             \cup {<<0, 16, 131, 16, 81, 135, 32, 146, 139, 48, 211, 143, 65, 20, 147, 81, 85, 151, 97, 150>>,
                   <<255, 239, 190, 251>>}

Base == [token |-> <<97>>, random |-> <<0, 255>>, digest |-> <<255, 254>>, status |-> <<>>]

MCRequests ==
  {[Base EXCEPT !.token = t, !.status = s] : t \in TextSet, s \in {<<>>, <<<<38>>>>}}
    \cup {[Base EXCEPT !.status = <<t>>] : t \in TextSet}
    \cup {[Base EXCEPT !.random = <<a>>] : a \in Byte}
    \cup {[Base EXCEPT !.digest = d, !.status = s] : d \in Digests, s \in {<<>>, <<<<49>>>>}}

=============================================================================
