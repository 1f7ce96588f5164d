---------------------------- MODULE MCJsonEscape ----------------------------
(* Every code, pairs at the boundaries of the ranges, and every other thing the rule may be at. *)
EXTENDS JsonEscape

Single == {<<c>> : c \in 0 .. 65535}

Highs == {55296, 55297, 55356, 55357, 55743, 55744, 56319}
Lows  == {56320, 56321, 56800, 57342, 57343}

\* The first half alone, two halves in the wrong order, and a half before something else.
Pairs == (Highs \cup Lows) \X (Highs \cup Lows \cup {0, 65, 46079, 46080, 48127, 48128, 65535})

Proper == {<<high, low>> : high \in 55296 .. 56319, low \in {56320, 57343}}

MCEscapes ==
  {[rule |-> "ucn", codes |-> codes] : codes \in Single \cup Pairs \cup Proper}
    \cup {[rule |-> "backslash", char |-> c] : c \in 0 .. 255}
    \cup {[rule |-> "ampersand", name |-> n] : n \in {"gt", "lt", "amp", "none"}}
    \cup {[rule |-> "char", char |-> c] : c \in 0 .. 255 \ {34, 38, 92}}

=============================================================================
