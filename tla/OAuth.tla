------------------------------- MODULE OAuth -------------------------------
(***************************************************************************)
(* oauth::token_requester (oauth.hpp) as operators on its value, and the   *)
(* state of the two runs of the program that sign requests with it,        *)
(* TwitterSession's and InitialAuth's.  The parameter map is a record of   *)
(* the members that come and go; consumer key, signature method and        *)
(* version never change and are left out, and nonce and timestamp, which   *)
(* are always set together, are one number.  A signature is what was       *)
(* signed: the HMAC is taken to be injective, and url_escape and           *)
(* base64_encode, which both ends apply, are left out.                     *)
(***************************************************************************)
EXTENDS Naturals

CONSTANTS
  Tokens,   \* a token and the secret that belongs to it are one value
  Pins,
  Texts,    \* statuses to post
  Uris,
  None,     \* a parameter that is not in the map
  MaxClients  \* bounds the requests of a behaviour

VARIABLES
  main,  \* where main() is
  req,   \* the requester
  sent   \* history: the requests, in order

Methods == {"GET", "POST"}

Params == [token : Tokens \cup {None}, verifier : Pins \cup {None},
           nonce : Nat, status : Texts \cup {None}]

\* The message and the key of sign_hmac_sha1.
Signature == [method : Methods, uri : Uris, params : Params, key : Tokens \cup {None}]

Requester == [params : Params, signature : Signature \cup {None}, secret : Tokens \cup {None}]

NewRequester ==
  [params |-> [token |-> None, verifier |-> None, nonce |-> 0, status |-> None],
   signature |-> None, secret |-> None]

SetToken(r, token, secret) == [r EXCEPT !.params.token = token, !.secret = secret]

SetPinNumber(r, pin) == [r EXCEPT !.params.verifier = pin]

SetStatus(r, text) == [r EXCEPT !.params.status = text]

EraseStatus(r) == [r EXCEPT !.params.status = None]

\* gen_request_signature up to the HMAC, which may throw: a new nonce, and no signature.
Unsigned(r) == [r EXCEPT !.params.nonce = @ + 1, !.signature = None]

GenRequestSignature(r, method, uri) ==
  LET u == Unsigned(r)
  IN [u EXCEPT !.signature = [method |-> method, uri |-> uri, params |-> u.params, key |-> u.secret]]

(***************************************************************************)
(* A request as the server gets it: the parameters of the query or of the  *)
(* Authorization header, the status in the body, and the signature.        *)
(***************************************************************************)
Wire == [method : Methods, uri : Uris, params : Params, body : Texts \cup {None},
         signature : Signature \cup {None}]

\* gen_getquery() appended to the uri.
GetWire(r, uri) ==
  [method |-> "GET", uri |-> uri, params |-> r.params, body |-> None, signature |-> r.signature]

\* gen_postparam() in the header, the status in the body.
PostWire(r, uri, text) ==
  [method |-> "POST", uri |-> uri, params |-> r.params, body |-> text, signature |-> r.signature]

\* The server's check: what was signed is what was sent, with the secret of the token sent.
\* A form body counts among the parameters.
Verifies(w) ==
  LET received == IF w.body = None THEN w.params ELSE [w.params EXCEPT !.status = w.body]
  IN /\ w.body # None => w.params.status = None
     /\ w.signature = [method |-> w.method, uri |-> w.uri, params |-> received, key |-> w.params.token]

=============================================================================
