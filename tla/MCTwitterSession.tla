-------------------------- MODULE MCTwitterSession --------------------------
(* One token, two texts to post and a few requests. *)
EXTENDS TwitterSession

CONSTANTS token, hello, world

MCTokens == {token}
MCTexts  == {hello, world}
MCPins   == {}

=============================================================================
