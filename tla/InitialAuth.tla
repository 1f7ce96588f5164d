----------------------------- MODULE InitialAuth -----------------------------
(***************************************************************************)
(* The run of the program with --auth: do_initial_auth asks for a request  *)
(* token, auth_req_handler shows it, reads the PIN and asks for the access *)
(* token, and auth_pin_handler prints that (black_circle.cc).              *)
(*                                                                         *)
(* A reply is a sequence of symbols: "=", "&", the names and the parts of  *)
(* the values, two or more of which make a value.  http_client calls back  *)
(* once per chunk, with the headers and the status repeated and only that  *)
(* chunk as data, and a chunk may end anywhere.  When the peer closes      *)
(* inside one, it calls back with what has come and with the bytes behind  *)
(* that in memory (http_client_inst.cc:87, and :114 without assertions).   *)
(* An exception leaves io_service::run() and ends the program.             *)
(***************************************************************************)
EXTENDS OAuth, Sequences

CONSTANTS
  Symbols,       \* what replies are made of
  Replies,       \* by uri, the chunks a reply with status 200 may come in
  RequestToken,  \* the value of oauth_token, and of its secret, in the first reply
  AccessToken,   \* the same in the second
  Rests,         \* what may come after the secret
  Junk           \* what may follow the received part of a cut chunk in memory

AuthUris == {"request_token", "access_token"}

Names == {"oauth_token", "oauth_token_secret"}

ASSUME AuthAssumption ==
         /\ AuthUris \subseteq Uris
         /\ Names \cup {"=", "&"} \subseteq Symbols
         /\ Rests \cup Junk \subseteq Seq(Symbols)
         /\ Replies \in [AuthUris -> SUBSET Seq(Seq(Symbols))]
         /\ {<<>>, RequestToken, AccessToken} \subseteq Tokens /\ Tokens \subseteq Seq(Symbols)
         /\ MaxClients \in Nat /\ None \notin Tokens \cup Pins \cup Signature

(***************************************************************************)
(* The server's side: a reply has the token, the secret and then whatever  *)
(* else there is, each name once and the values free of separators, and    *)
(* every chunk is a part of it.                                            *)
(***************************************************************************)
Token(uri) == IF uri = "request_token" THEN RequestToken ELSE AccessToken

Reply(uri, rest) ==
  <<"oauth_token", "=">> \o Token(uri)
    \o <<"&", "oauth_token_secret", "=">> \o Token(uri) \o rest

PartOf(s, t) ==
  \E n \in 0 .. Len(t) : \A i \in 1 .. Len(s) : n + i <= Len(t) /\ s[i] = t[n + i]

ASSUME ReplyAssumption ==
  /\ \A token \in {RequestToken, AccessToken} :
       token # <<>> /\ \A i \in 1 .. Len(token) : token[i] \notin Names \cup {"=", "&"}
  /\ \A rest \in Rests :
       (rest # <<>> => rest[1] = "&") /\ \A i \in 1 .. Len(rest) : rest[i] \notin Names
  /\ \A uri \in AuthUris : \A chunks \in Replies[uri] :
       \E rest \in Rests : \A i \in 1 .. Len(chunks) : PartOf(chunks[i], Reply(uri, rest))

VARIABLES
  clients,  \* every http_client made: [uri, chunks], the chunks it has not called back with
  cause,    \* history: the callback that led to each request
  printed   \* history: the pairs auth_pin_handler printed, with the callback each is from

\* main is "starting", "running", "returned", or "failed".  req is the global one.

authVars == <<main, req, clients, sent, cause, printed>>

-----------------------------------------------------------------------------
(* split_params. *)

\* The position of x in s from i on, one past the end if there is none.
Find(s, x, i) ==
  CHOOSE p \in i .. Len(s) + 1 :
    /\ p = Len(s) + 1 \/ s[p] = x
    /\ \A q \in i .. p - 1 : s[q] # x

\* Mutant of PairAt: the end of the data ends a value as well.
PairAtEnd(s, i) ==
  LET eq  == Find(s, "=", i)
      amp == Find(s, "&", eq + 1)
  IN IF eq < Len(s) /\ eq > i /\ amp > eq + 1
     THEN {[name |-> SubSeq(s, i, eq - 1), value |-> SubSeq(s, eq + 1, amp - 1),
           end |-> IF amp > Len(s) THEN Len(s) ELSE amp]}
     ELSE {}

\* Name, value and end of the pair at i: a name runs to the first "=", whatever is in between, a
\* value to the first "&".  Without both, or with nothing before one, there is no pair.
PairAt(s, i) ==
  LET eq  == Find(s, "=", i)
      amp == Find(s, "&", eq + 1)
  IN IF eq < Len(s) /\ eq > i /\ amp <= Len(s) /\ amp > eq + 1
     THEN {[name |-> SubSeq(s, i, eq - 1), value |-> SubSeq(s, eq + 1, amp - 1), end |-> amp]}
     ELSE {}

\* The pairs the parser takes one after the other, up to the first that is none.
SplitParams(s) ==
  LET from[i \in 1 .. Len(s) + 1] == UNION {{p} \cup from[p.end + 1] : p \in PairAt(s, i)}
  IN from[1]

\* par[name]: the first pair of that name was inserted, and without one it is an empty string.
Par(s, name) ==
  LET named == {p \in SplitParams(s) : p.name = <<name>>}
  IN IF named = {} THEN <<>>
     ELSE (CHOOSE p \in named : \A q \in named : p.end <= q.end).value

-----------------------------------------------------------------------------
(* The callbacks. *)

WholeCall(chunk) == [data |-> chunk, received |-> chunk, over |-> FALSE]

\* With the beginning of a chunk and what is behind that in memory.
Overread(chunk) ==
  {[data |-> SubSeq(chunk, 1, n) \o junk, received |-> SubSeq(chunk, 1, n), over |-> TRUE] :
     n \in 0 .. Len(chunk), junk \in Junk}

\* What http_client may call back with where the next chunk is this one.
Calls(chunk) == {WholeCall(chunk)} \cup Overread(chunk)

\* A token is a string: Tokens has whatever split_params may find in the data.
ASSUME TokensAssumption ==
  \A uri \in AuthUris : \A chunks \in Replies[uri] : \A i \in DOMAIN chunks :
    \A call \in Overread(chunks[i]) : \A name \in Names : Par(call.data, name) \in Tokens

-----------------------------------------------------------------------------
(* The flow. *)

\* Connect, sign and send; cs are the clients there are, and the reply comes in any of Replies.
Ask(cs, r, uri, call) ==
  \/ /\ main' = "running"
     /\ req' = GenRequestSignature(r, "GET", uri)
     /\ sent' = Append(sent, GetWire(req', uri))
     /\ cause' = Append(cause, call)
     /\ \E chunks \in Replies[uri] : clients' = Append(cs, [uri |-> uri, chunks |-> chunks])
  \/ /\ main' = "failed"    \* connecting or signing throws
     /\ req' \in {r, Unsigned(r)}
     /\ clients' = cs
     /\ UNCHANGED <<sent, cause>>

\* do_initial_auth.  The url it makes first is not used, but its nonce is.
DoInitialAuth ==
  /\ main = "starting"
  /\ Ask(clients, GenRequestSignature(req, "GET", "request_token"), "request_token", WholeCall(<<>>))
  /\ UNCHANGED printed

\* Mutant of Authorized: the secret stays that of the last token.
AuthorizedKeepingSecret(data, pin) ==
  SetPinNumber(SetToken(req, Par(data, "oauth_token"), req.secret), pin)

Authorized(data, pin) ==
  SetPinNumber(SetToken(req, Par(data, "oauth_token"), Par(data, "oauth_token_secret")), pin)

Pending(uri) == {c \in DOMAIN clients : clients[c].uri = uri /\ clients[c].chunks # <<>>}

\* The clients after c has called back: with its next chunk, or for the last time.
Taken(c, call) == [clients EXCEPT ![c].chunks = IF call.over THEN <<>> ELSE Tail(@)]

\* auth_req_handler.  The PIN is what the user types, or what is in pin_number if that fails.
AuthReqHandler ==
  /\ main = "running" /\ Len(clients) < MaxClients
  /\ \E c \in Pending("request_token"), pin \in Pins :
       \E call \in Calls(Head(clients[c].chunks)) :
         Ask(Taken(c, call), Authorized(call.data, pin), "access_token", call)
  /\ UNCHANGED printed

AuthPinHandler ==
  /\ main = "running"
  /\ \E c \in Pending("access_token") :
       \E call \in Calls(Head(clients[c].chunks)) :
         /\ printed' = Append(printed, [token  |-> Par(call.data, "oauth_token"),
                                        secret |-> Par(call.data, "oauth_token_secret"),
                                        from   |-> call])
         /\ clients' = Taken(c, call)
  /\ UNCHANGED <<main, req, sent, cause>>

\* A status other than 200.
Rejected ==
  /\ main = "running"
  /\ \E c \in DOMAIN clients :
       /\ clients[c].chunks # <<>>
       /\ clients' = Taken(c, WholeCall(Head(clients[c].chunks)))
  /\ main' = "failed"
  /\ UNCHANGED <<req, sent, cause, printed>>

\* The server closes before a reply, in its head or between two chunks: nothing is called back,
\* or the parser of the head throws, as the assertion of :113 stops the program inside a chunk.
ServerCloses ==
  /\ main = "running"
  /\ main' \in {"running", "failed"}
  /\ \E c \in DOMAIN clients :
       clients[c].chunks # <<>> /\ clients' = [clients EXCEPT ![c].chunks = <<>>]
  /\ UNCHANGED <<req, sent, cause, printed>>

\* io_service::run() has nothing left to wait for.
Return ==
  /\ main = "running"
  /\ \A c \in DOMAIN clients : clients[c].chunks = <<>>
  /\ main' = "returned"
  /\ UNCHANGED <<req, clients, sent, cause, printed>>

AuthInit ==
  /\ main = "starting"
  /\ req = NewRequester
  /\ clients = <<>> /\ sent = <<>> /\ cause = <<>> /\ printed = <<>>

AuthNext ==
  \/ DoInitialAuth
  \/ AuthReqHandler
  \/ AuthPinHandler
  \/ Rejected
  \/ ServerCloses
  \/ Return

AuthSpec == AuthInit /\ [][AuthNext]_authVars

-----------------------------------------------------------------------------
(* Properties. *)

\* The data begins with a pair and has name=value& in it.
HasPair(data, name, value) ==
  /\ data # <<>> /\ data[1] \in Names
  /\ \E i \in 1 .. Len(data) - 2 - Len(value) :
       SubSeq(data, i, i + 2 + Len(value)) = <<name, "=">> \o value \o <<"&">>

HasBoth(data, value) ==
  HasPair(data, "oauth_token", value) /\ HasPair(data, "oauth_token_secret", value)

Granted(w) ==
  /\ Verifies(w)
  /\ w.params.token = RequestToken
  /\ w.params.verifier # None

\* A request for the access token carries the request token, the PIN and a signature that
\* verifies exactly when the callback it comes from had both pairs whole: a reply in several
\* chunks makes a request, and asks for a PIN, for each, and at most one of them is any good.
\* What is read behind a cut chunk cannot undo that, but it may stand in for what did not come.
GrantedIffWhole ==
  \A i \in DOMAIN sent :
    sent[i].uri = "access_token" =>
      /\ HasBoth(cause[i].received, RequestToken) => Granted(sent[i])
      /\ Granted(sent[i]) => HasBoth(cause[i].received, RequestToken) \/ cause[i].over

\* What is printed as a token or as a secret is the one the server granted, or nothing at all.
\* It is another one only if the reply was cut inside a chunk, read past its end, and had not
\* both pairs whole in what came of it.
PrintedIsGranted ==
  \A i \in DOMAIN printed :
    \/ {printed[i].token, printed[i].secret} \subseteq {<<>>, AccessToken}
    \/ printed[i].from.over /\ ~HasBoth(printed[i].from.received, AccessToken)

=============================================================================
