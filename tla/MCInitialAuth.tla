--------------------------- MODULE MCInitialAuth ---------------------------
(* The request token in one chunk and in any two, the access token in one or  *)
(* in two that meet inside the secret, and both cut anywhere.                 *)
EXTENDS InitialAuth

CONSTANTS pin

MCRequestToken == <<"r1", "r2">>
MCAccessToken  == <<"a1", "a2">>
MCPins    == {pin}
MCSymbols == {"=", "&", "oauth_token", "oauth_token_secret", "other", "x",
              "r1", "r2", "a1", "a2"}

\* The reply ends with another parameter, or with the secret.
MCRests == {<<"&", "other", "=", "x">>, <<>>}

Splits(body, places) ==
  {<<body>>} \cup {<<SubSeq(body, 1, n), SubSeq(body, n + 1, Len(body))>> : n \in places}

MCReplies ==
  [uri \in AuthUris |->
     UNION {LET body == Reply(uri, rest)
            IN Splits(body, IF uri = "request_token" THEN 1 .. Len(body) - 1 ELSE {8}) :
            rest \in MCRests}]

\* Behind a cut chunk: the rest of a value, or the end of another reply.
MCJunk == {<<"x", "&">>, <<"&", "oauth_token_secret", "=", "x", "&">>}

\* A token, or its beginning, as far as it came, and what was taken for the rest.
MCTokens ==
  {SubSeq(t, 1, n) \o end : t \in {MCRequestToken, MCAccessToken}, n \in 0 .. 2,
                           end \in {<<>>, <<"x">>}}

=============================================================================
