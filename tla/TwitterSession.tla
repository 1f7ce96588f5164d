--------------------------- MODULE TwitterSession ---------------------------
(***************************************************************************)
(* The life of the program: main() (black_circle.cc), the requests         *)
(* twitter_client makes, the commands console_handler runs, exceptions     *)
(* that come out of handlers into the loop around io_service::run(), and   *)
(* shutdown.                                                               *)
(*                                                                         *)
(* One thread runs every handler to its end, so a handler is a step.  What *)
(* varies is which handler is next and where in it an exception is thrown: *)
(* resolving, connecting and the TLS handshake are done inside the         *)
(* handler and throw, and so may the HMAC.  How a client reads a response  *)
(* is HttpClient; here it calls back any number of times and then stops.   *)
(***************************************************************************)
EXTENDS OAuth, Sequences

CONSTANT UserToken  \* --token and --secret

Apis == {"user_stream", "friends_timeline", "statuses_update"}

ASSUME SessionAssumption ==
         /\ Apis \subseteq Uris
         /\ UserToken \in Tokens
         /\ None \notin Tokens \cup Texts \cup Pins \cup Signature
         /\ MaxClients \in Nat \ {0}

VARIABLES
  stopPosted,  \* shutdown() has posted io_service::stop
  console,     \* "armed": async_read_until outstanding; "dead": readline_handler threw;
               \* "done": it returned on exit
  made,        \* the api of every http_client made; a client is its index
  reading,     \* clients with a read outstanding, which keeps them alive
  ust          \* the user stream's client, 0 when reset

\* main is "constructing", "running", "returned", or "failed": main() caught an exception.
\* req is twitter_client's, a copy of the global one.

vars == <<main, stopPosted, console, req, made, reading, ust, sent>>

-----------------------------------------------------------------------------
(* http_client as its owner sees it. *)

Latest == Len(made) + 1

\* make_http_client and start_read().  A failed connect throws before either.
Open(api) == /\ made' = Append(made, api)
             /\ reading' = reading \cup {Latest}

Alive == reading \cup ({ust} \ {0})

\* Mutant of Connected: a client is connected as long as it reads.
ConnectedReading(c) == c \in reading

\* is_open() asks the local socket, which only ~connection closes, never the peer.
Connected(c) == c \in Alive

SendGet(api) ==
  LET r == GenRequestSignature(req, "GET", api)
  IN req' = r /\ sent' = Append(sent, GetWire(r, api))

\* Mutant of SendPost: the status is erased before the signature is made.
SendPostErasedFirst(text) ==
  LET r == GenRequestSignature(EraseStatus(SetStatus(req, text)), "POST", "statuses_update")
  IN req' = r /\ sent' = Append(sent, PostWire(r, "statuses_update", text))

\* The status is a parameter while the signature is made, and is erased before the header is.
SendPost(text) ==
  LET r == EraseStatus(GenRequestSignature(SetStatus(req, text), "POST", "statuses_update"))
  IN req' = r /\ sent' = Append(sent, PostWire(r, "statuses_update", text))

SigningThrows(r) == req' = Unsigned(r) /\ UNCHANGED sent

NothingMade == UNCHANGED <<made, reading, req, sent>>

-----------------------------------------------------------------------------
(* make_userstream. *)

\* It sets ust as soon as the client is there.
MakeUserStream == /\ Open("user_stream") /\ ust' = Latest
                  /\ SendGet("user_stream")

MakeUserStreamThrows ==
  \/ NothingMade /\ UNCHANGED ust
  \/ Open("user_stream") /\ ust' = Latest /\ SigningThrows(req)

Reconnect == MakeUserStream \/ MakeUserStreamThrows

\* set_token on the global requester, twitter_client's constructor, then console_handler's.
Construct ==
  /\ main = "constructing"
  /\ \/ MakeUserStream /\ main' = "running" /\ console' = "armed"
     \/ MakeUserStreamThrows /\ main' = "failed" /\ UNCHANGED console
  /\ UNCHANGED stopPosted

-----------------------------------------------------------------------------
(* Handlers of io_service::run().  An exception goes to the loop in main(), which runs on. *)

\* Twitter replied on c.  http_client never calls back without data.  Parsing and storing
\* the reply is TweetStore; what they throw is caught here.
HttpHandler ==
  /\ main = "running"
  /\ \E c \in reading :
       IF ust # 0 /\ ~Connected(ust) THEN Reconnect ELSE NothingMade /\ UNCHANGED ust
  /\ UNCHANGED <<main, stopPosted, console>>

\* The reader of c came to an end, or threw.  The client lives on if it is the user stream's.
ReaderStops ==
  /\ main = "running"
  /\ \E c \in reading : reading' = reading \ {c}
  /\ UNCHANGED <<main, stopPosted, console, req, made, ust, sent>>

Command == main = "running" /\ console = "armed"

\* Only the end of readline_handler reads the next line.
Rearm == console' = "armed" /\ UNCHANGED <<main, stopPosted, ust>>
\* Mutant of Throw: the console reads on after an exception.
ThrowRearmed == console' = "armed" /\ UNCHANGED <<main, stopPosted, ust>>

Throw == console' = "dead" /\ UNCHANGED <<main, stopPosted, ust>>

GetCommand ==
  /\ Command /\ Len(made) < MaxClients
  /\ \/ NothingMade /\ Throw
     \/ Open("friends_timeline") /\ SigningThrows(req) /\ Throw
     \/ Open("friends_timeline") /\ SendGet("friends_timeline") /\ Rearm

PostCommand ==
  /\ Command /\ Len(made) < MaxClients
  /\ \E text \in Texts :
       \/ NothingMade /\ Throw
       \/ Open("statuses_update") /\ SigningThrows(SetStatus(req, text)) /\ Throw
       \/ Open("statuses_update") /\ SendPost(text) /\ Rearm

\* print, and a line that is no command.
OtherCommand == Command /\ NothingMade /\ Rearm

\* The read of standard input failed, and throw_error(ec) throws.
InputFails == Command /\ NothingMade /\ Throw

\* Mutant of ExitCommand: without the return.
ExitRearmed ==
  /\ Command
  /\ console' = "armed"
  /\ ust' = 0
  /\ stopPosted' = TRUE
  /\ UNCHANGED <<main, req, made, reading, sent>>

ExitCommand ==
  /\ Command
  /\ console' = "done"
  /\ ust' = 0
  /\ stopPosted' = TRUE
  /\ UNCHANGED <<main, req, made, reading, sent>>

\* The posted stop: run() returns, main() leaves its scope and the io_service drops the clients.
StopRun ==
  /\ main = "running" /\ stopPosted
  /\ main' = "returned"
  /\ reading' = {}
  /\ UNCHANGED <<stopPosted, console, req, made, ust, sent>>

Init == /\ main = "constructing" /\ stopPosted = FALSE /\ console = "none"
        /\ req = SetToken(NewRequester, UserToken, UserToken)
        /\ made = <<>> /\ reading = {} /\ ust = 0
        /\ sent = <<>>

Next == \/ Construct
        \/ HttpHandler
        \/ ReaderStops
        \/ GetCommand
        \/ PostCommand
        \/ OtherCommand
        \/ InputFails
        \/ ExitCommand
        \/ StopRun

Spec == Init /\ [][Next]_vars

-----------------------------------------------------------------------------
(* Properties. *)

\* The requester, the clients (the user stream's among those made) and the requests stay in their
\* sets, however constructing, connecting and signing fail.
TypeOK ==
  /\ main \in {"constructing", "running", "returned", "failed"}
  /\ stopPosted \in BOOLEAN
  /\ console \in {"none", "armed", "dead", "done"}
  /\ req \in Requester
  /\ made \in Seq(Apis)
  /\ reading \subseteq 1 .. Len(made)
  /\ ust \in 0 .. Len(made)
  /\ sent \in Seq(Wire)

\* Every request the server gets carries a signature of exactly the parameters it carries,
\* the status among them when it is posted, made with the secret of its token.
EveryRequestVerifies == \A i \in DOMAIN sent : Verifies(sent[i])

\* No two requests have the same nonce, so none looks like a replay.
NoncesUnique ==
  \A i, j \in DOMAIN sent : i # j => sent[i].params.nonce # sent[j].params.nonce

\* The text of a post never shows in the query of another request.  It stays in the map when
\* the signing throws, but the same exception stops the console, and nothing else asks for
\* a request any more.
StatusOnlyInItsPost ==
  /\ \A i \in DOMAIN sent : sent[i].params.status = None
  /\ req.params.status # None => main # "running" \/ console = "dead"

\* The user stream is asked for once in the life of the process: neither its end nor a reply
\* on another connection makes a new one, because a client that is there is connected().
StreamRequestedOnce ==
  \A i \in DOMAIN sent : sent[i].uri = "user_stream" <=> i = 1

\* From the exit command on no request goes out, whatever handlers still run before the stop.
QuietAfterExit == [][stopPosted => UNCHANGED <<sent, made>> /\ ust' = 0]_vars

=============================================================================
