---------------------------- MODULE MCConversion ----------------------------
(* Texts of up to MaxText characters, of one to three bytes, with stray bytes. *)
EXTENDS Conversion

CONSTANTS MaxText

MCTexts == UNION {[1 .. n -> Character \ {[size |-> 2, valid |-> FALSE]}] : n \in 0 .. MaxText}

=============================================================================
