------------------------------ MODULE OAuthProofs ------------------------------
(***************************************************************************)
(* What TLAPS proves of the two runs of the program that sign requests:    *)
(* of TwitterSession for every token, every set of texts and any number of *)
(* requests, and of InitialAuth for every reply a server may send and      *)
(* every way to cut it into chunks.                                        *)
(***************************************************************************)
EXTENDS TwitterSession, InitialAuth, Induction, TLAPS

\* The requester's token and secret are of one set_token, and its nonce is the last one used.
RequesterInv ==
  /\ req.secret = req.params.token
  /\ \A i \in DOMAIN sent : sent[i].params.nonce <= req.params.nonce
  /\ main = "constructing" => req.params.status = None

\* The first request is the constructor's.
FirstInv ==
  /\ main = "constructing" => sent = <<>> /\ made = <<>>
  /\ main = "running" => Len(sent) >= 1
  /\ stopPosted => main # "constructing" /\ console = "done" /\ ust = 0

ConsoleInv == console = "done" => stopPosted

IInv == /\ TypeOK
        /\ RequesterInv
        /\ FirstInv
        /\ ConsoleInv
        /\ EveryRequestVerifies
        /\ NoncesUnique
        /\ StatusOnlyInItsPost
        /\ StreamRequestedOnce

-----------------------------------------------------------------------------
(* The requester. *)

LEMMA NoneIsNoText == None \notin Texts /\ None \notin Tokens /\ Apis \subseteq Uris
  BY SessionAssumption

\* gen_request_signature keeps every parameter but the nonce, which it advances.
LEMMA UnsignedEffect ==
  ASSUME NEW r \in Requester
  PROVE  /\ Unsigned(r) \in Requester
         /\ Unsigned(r).params.nonce = r.params.nonce + 1
         /\ Unsigned(r).params.token = r.params.token
         /\ Unsigned(r).params.verifier = r.params.verifier
         /\ Unsigned(r).params.status = r.params.status
         /\ Unsigned(r).secret = r.secret
  <1> DEFINE p == [r.params EXCEPT !.nonce = @ + 1]
  <1>1. r.params \in Params
    BY DEF Requester
  <1>2. /\ p \in Params /\ p.nonce = r.params.nonce + 1
        /\ p.token = r.params.token /\ p.verifier = r.params.verifier
        /\ p.status = r.params.status
    BY <1>1 DEF Params
  <1>3. Unsigned(r) = [r EXCEPT !.params = p, !.signature = None]
    BY DEF Unsigned
  <1> HIDE DEF p
  <1>4. /\ Unsigned(r) \in Requester /\ Unsigned(r).params = p
        /\ Unsigned(r).secret = r.secret
    BY <1>2, <1>3 DEF Requester
  <1>5. QED
    BY <1>2, <1>4

LEMMA SigningEffect ==
  ASSUME NEW r \in Requester, NEW method \in Methods, NEW uri \in Uris
  PROVE  LET g == GenRequestSignature(r, method, uri)
         IN /\ g \in Requester
            /\ g.params = Unsigned(r).params
            /\ g.secret = r.secret
            /\ g.signature \in Signature
            /\ g.signature = [method |-> method, uri |-> uri, params |-> g.params, key |-> g.secret]
  <1> DEFINE u == Unsigned(r)
             sig == [method |-> method, uri |-> uri, params |-> u.params, key |-> u.secret]
             g == GenRequestSignature(r, method, uri)
  <1>1. u \in Requester /\ u.secret = r.secret
    BY UnsignedEffect
  <1> HIDE DEF u
  <1>2. g = [u EXCEPT !.signature = sig]
    BY DEF GenRequestSignature, u
  <1>3. sig \in Signature
    BY <1>1 DEF Signature, Requester
  <1> HIDE DEF sig
  <1>4. g \in Requester /\ g.params = u.params /\ g.secret = u.secret /\ g.signature = sig
    BY <1>1, <1>2, <1>3 DEF Requester
  <1>5. QED
    BY <1>1, <1>3, <1>4 DEF u, sig

LEMMA StatusEffect ==
  ASSUME NEW r \in Requester, NEW text \in Texts \cup {None}
  PROVE  /\ SetStatus(r, text) \in Requester
         /\ SetStatus(r, text).params = [r.params EXCEPT !.status = text]
         /\ SetStatus(r, text).secret = r.secret
         /\ SetStatus(r, text).signature = r.signature
  BY DEF SetStatus, Requester, Params

\* A signed GET verifies.
LEMMA GetVerifies ==
  ASSUME NEW r \in Requester, NEW uri \in Uris, r.secret = r.params.token
  PROVE  LET g == GenRequestSignature(r, "GET", uri)
             w == GetWire(g, uri)
         IN /\ w \in Wire /\ Verifies(w)
            /\ w.params = g.params /\ w.uri = uri
  <1> DEFINE g == GenRequestSignature(r, "GET", uri)
             w == GetWire(g, uri)
  <1>1. /\ g \in Requester /\ g.params = Unsigned(r).params /\ g.secret = r.secret
        /\ g.signature \in Signature
        /\ g.signature = [method |-> "GET", uri |-> uri, params |-> g.params, key |-> g.secret]
    BY SigningEffect DEF Methods
  <1>2. g.secret = g.params.token
    BY <1>1, UnsignedEffect
  <1> HIDE DEF g
  <1>3. /\ w.method = "GET" /\ w.uri = uri /\ w.params = g.params /\ w.body = None
        /\ w.signature = g.signature
    BY DEF GetWire
  <1>4. w \in Wire
    BY <1>1 DEF GetWire, Wire, Methods, Requester
  <1>5. Verifies(w)
    BY <1>1, <1>2, <1>3 DEF Verifies
  <1>6. QED
    BY <1>3, <1>4, <1>5 DEF g

\* A post signed with the status and sent without it verifies.
LEMMA PostVerifies ==
  ASSUME NEW r \in Requester, NEW uri \in Uris, NEW text \in Texts, r.secret = r.params.token
  PROVE  LET g == EraseStatus(GenRequestSignature(SetStatus(r, text), "POST", uri))
             w == PostWire(g, uri, text)
         IN /\ g \in Requester /\ g.params.nonce = r.params.nonce + 1
            /\ g.params.status = None /\ g.secret = g.params.token
            /\ w \in Wire /\ Verifies(w)
            /\ w.params = g.params /\ w.uri = uri
  <1> DEFINE s == SetStatus(r, text)
             h == GenRequestSignature(s, "POST", uri)
             g == EraseStatus(h)
             w == PostWire(g, uri, text)
  <1>1. /\ s \in Requester /\ s.secret = r.secret
        /\ s.params.nonce = r.params.nonce /\ s.params.token = r.params.token
        /\ s.params.status = text
    <2>1. /\ s \in Requester /\ s.secret = r.secret
          /\ s.params = [r.params EXCEPT !.status = text]
      BY StatusEffect
    <2>2. r.params \in Params
      BY DEF Requester
    <2>3. QED
      BY <2>1, <2>2 DEF Params
  <1> HIDE DEF s
  <1>2. /\ h \in Requester /\ h.params = Unsigned(s).params /\ h.secret = s.secret
        /\ h.signature \in Signature
        /\ h.signature = [method |-> "POST", uri |-> uri, params |-> h.params, key |-> h.secret]
    BY <1>1, SigningEffect DEF Methods
  <1>3. /\ h.params.nonce = r.params.nonce + 1 /\ h.params.token = r.params.token
        /\ h.params.status = text /\ h.secret = h.params.token
    BY <1>1, <1>2, UnsignedEffect
  <1> HIDE DEF h
  <1>4. /\ g \in Requester /\ g.params = [h.params EXCEPT !.status = None]
        /\ g.secret = h.secret /\ g.signature = h.signature
    BY <1>2 DEF EraseStatus, Requester, Params
  <1>5. /\ g.params.nonce = r.params.nonce + 1 /\ g.params.token = h.params.token
        /\ g.params.status = None
    BY <1>2, <1>3, <1>4 DEF Requester, Params
  <1> HIDE DEF g
  <1>6. /\ w.method = "POST" /\ w.uri = uri /\ w.params = g.params /\ w.body = text
        /\ w.signature = h.signature
    BY <1>4 DEF PostWire
  <1>7. w \in Wire
    BY <1>2, <1>4 DEF PostWire, Wire, Methods, Requester
  <1>8. [w.params EXCEPT !.status = w.body] = h.params
    BY <1>2, <1>3, <1>4, <1>6 DEF Requester, Params
  <1>9. Verifies(w)
    BY <1>2, <1>3, <1>5, <1>6, <1>8, NoneIsNoText DEF Verifies
  <1>10. QED
    BY <1>3, <1>4, <1>5, <1>6, <1>7, <1>9 DEF g, h, s

-----------------------------------------------------------------------------
(* The steps. *)

\* What every step does: no request or one more, by a signed requester.
Quiet == /\ UNCHANGED sent
         /\ req' \in Requester /\ req'.secret = req'.params.token
         /\ req'.params.nonce >= req.params.nonce
         /\ req'.params.status # None => main' # "running" \/ console' = "dead"

OneMore == \E w \in Wire :
             /\ sent' = Append(sent, w)
             /\ Verifies(w) /\ w.params.status = None
             /\ w.params.nonce = req.params.nonce + 1
             /\ w.uri = "user_stream" <=> sent = <<>>
             /\ req' \in Requester /\ req'.secret = req'.params.token
             /\ req'.params.nonce = req.params.nonce + 1
             /\ req'.params.status = None

History == /\ RequesterInv /\ EveryRequestVerifies /\ NoncesUnique
           /\ StatusOnlyInItsPost /\ StreamRequestedOnce

LEMMA NewSession ==
  /\ SetToken(NewRequester, UserToken, UserToken) \in Requester
  /\ SetToken(NewRequester, UserToken, UserToken).secret = UserToken
  /\ SetToken(NewRequester, UserToken, UserToken).params.token = UserToken
  /\ SetToken(NewRequester, UserToken, UserToken).params.status = None
  <1> DEFINE r == NewRequester
             p == [r.params EXCEPT !.token = UserToken]
  <1>1. r \in Requester /\ r.params \in Params /\ r.params.status = None
    BY DEF NewRequester, Requester, Params
  <1>2. SetToken(r, UserToken, UserToken) = [r EXCEPT !.params = p, !.secret = UserToken]
    BY DEF SetToken
  <1> HIDE DEF r
  <1>3. p \in Params /\ p.token = UserToken /\ p.status = None
    BY <1>1, SessionAssumption DEF Params
  <1> HIDE DEF p
  <1>4. /\ SetToken(r, UserToken, UserToken) \in Requester
        /\ SetToken(r, UserToken, UserToken).params = p
        /\ SetToken(r, UserToken, UserToken).secret = UserToken
    BY <1>1, <1>2, <1>3, SessionAssumption DEF Requester
  <1>5. QED
    BY <1>3, <1>4 DEF r

LEMMA SendGetStep ==
  ASSUME IInv, NEW api \in Apis, SendGet(api), req.params.status = None,
         api = "user_stream" <=> sent = <<>>
  PROVE  OneMore
  <1> DEFINE g == GenRequestSignature(req, "GET", api)
             w == GetWire(g, api)
  <1>1. req \in Requester /\ req.secret = req.params.token /\ api \in Uris
    BY NoneIsNoText DEF IInv, TypeOK, RequesterInv
  <1>2. w \in Wire /\ Verifies(w) /\ w.params = g.params /\ w.uri = api
    BY <1>1, GetVerifies
  <1>3. /\ g \in Requester /\ g.params = Unsigned(req).params /\ g.secret = req.secret
    BY <1>1, SigningEffect DEF Methods
  <1>4. /\ g.params.nonce = req.params.nonce + 1 /\ g.params.status = None
        /\ g.secret = g.params.token
    BY <1>1, <1>3, UnsignedEffect
  <1>5. req' = g /\ sent' = Append(sent, w)
    BY DEF SendGet
  <1> HIDE DEF g, w
  <1>6. QED
    BY <1>2, <1>3, <1>4, <1>5 DEF OneMore

LEMMA SendPostStep ==
  ASSUME IInv, NEW text \in Texts, SendPost(text), sent # <<>>
  PROVE  OneMore
  <1> DEFINE g == EraseStatus(GenRequestSignature(SetStatus(req, text), "POST", "statuses_update"))
             w == PostWire(g, "statuses_update", text)
  <1>1. req \in Requester /\ req.secret = req.params.token /\ "statuses_update" \in Uris
    BY NoneIsNoText DEF IInv, TypeOK, RequesterInv, Apis
  <1>2. /\ g \in Requester /\ g.params.nonce = req.params.nonce + 1
        /\ g.params.status = None /\ g.secret = g.params.token
        /\ w \in Wire /\ Verifies(w)
        /\ w.params = g.params /\ w.uri = "statuses_update"
    BY <1>1, PostVerifies
  <1>3. req' = g /\ sent' = Append(sent, w)
    BY DEF SendPost
  <1> HIDE DEF g, w
  <1>4. QED
    BY <1>2, <1>3 DEF OneMore

\* The signing threw on r, the requester before it.
LEMMA ThrowStep ==
  ASSUME IInv, NEW r \in Requester, SigningThrows(r),
         r.secret = r.params.token, r.params.nonce = req.params.nonce,
         r.params.status # None => main' # "running" \/ console' = "dead"
  PROVE  Quiet
  <1>1. req' = Unsigned(r) /\ sent' = sent
    BY DEF SigningThrows
  <1>2. /\ req' \in Requester /\ req'.params.nonce = req.params.nonce + 1
        /\ req'.secret = req'.params.token /\ req'.params.status = r.params.status
    BY <1>1, UnsignedEffect
  <1>3. req.params.nonce \in Nat
    BY DEF IInv, TypeOK, Requester, Params
  <1>4. QED
    BY <1>1, <1>2, <1>3 DEF Quiet

LEMMA HistoryKept ==
  ASSUME IInv, Quiet \/ OneMore, main' # "constructing"
  PROVE  History' /\ sent' \in Seq(Wire) /\ Len(sent') >= Len(sent)
  <1>1. /\ sent \in Seq(Wire) /\ Len(sent) \in Nat /\ DOMAIN sent = 1 .. Len(sent)
        /\ req.params.nonce \in Nat
    BY DEF IInv, TypeOK, Requester, Params
  <1>2. \A i \in DOMAIN sent : sent[i].params.nonce \in Nat
    <2>1. ASSUME NEW i \in DOMAIN sent PROVE sent[i].params.nonce \in Nat
      <3>1. sent[i] \in Wire
        BY <1>1
      <3>2. QED
        BY <3>1 DEF Wire, Params
    <2>2. QED
      BY <2>1
  <1>3. CASE Quiet
    <2>1. /\ sent' = sent /\ req' \in Requester /\ req'.secret = req'.params.token
          /\ req'.params.nonce >= req.params.nonce /\ req'.params.nonce \in Nat
          /\ req'.params.status # None => main' # "running" \/ console' = "dead"
      BY <1>3 DEF Quiet, Requester, Params
    <2>2. RequesterInv'
      BY <1>1, <1>2, <2>1 DEF IInv, RequesterInv
    <2>3. EveryRequestVerifies' /\ NoncesUnique' /\ StreamRequestedOnce'
      BY <2>1 DEF IInv, EveryRequestVerifies, NoncesUnique, StreamRequestedOnce
    <2>4. StatusOnlyInItsPost'
      BY <2>1 DEF IInv, StatusOnlyInItsPost
    <2>5. QED
      BY <1>1, <2>1, <2>2, <2>3, <2>4 DEF History
  <1>4. CASE OneMore
    <2>1. PICK w \in Wire :
             /\ sent' = Append(sent, w)
             /\ Verifies(w) /\ w.params.status = None
             /\ w.params.nonce = req.params.nonce + 1
             /\ w.uri = "user_stream" <=> sent = <<>>
             /\ req' \in Requester /\ req'.secret = req'.params.token
             /\ req'.params.nonce = req.params.nonce + 1
             /\ req'.params.status = None
      BY <1>4 DEF OneMore
    <2>2. /\ sent' \in Seq(Wire) /\ Len(sent') = Len(sent) + 1
          /\ DOMAIN sent' = 1 .. Len(sent) + 1
          /\ sent'[Len(sent) + 1] = w
          /\ \A i \in 1 .. Len(sent) : sent'[i] = sent[i]
      BY <1>1, <2>1
    <2>3. \A i \in 1 .. Len(sent) : sent[i].params.nonce <= req.params.nonce
      BY <1>1 DEF IInv, RequesterInv
    <2>4. RequesterInv'
      <3>1. ASSUME NEW i \in DOMAIN sent' PROVE sent'[i].params.nonce <= req'.params.nonce
        <4>1. CASE i = Len(sent) + 1
          BY <1>1, <2>1, <2>2, <4>1
        <4>2. CASE i # Len(sent) + 1
          BY <1>1, <1>2, <2>1, <2>2, <2>3, <4>2
        <4>3. QED
          BY <4>1, <4>2
      <3>2. QED
        BY <2>1, <3>1 DEF RequesterInv
    <2>5. EveryRequestVerifies'
      <3>1. ASSUME NEW i \in DOMAIN sent' PROVE Verifies(sent'[i])
        <4>1. CASE i = Len(sent) + 1
          BY <2>1, <2>2, <4>1
        <4>2. CASE i # Len(sent) + 1
          <5>1. i \in DOMAIN sent /\ sent'[i] = sent[i]
            BY <1>1, <2>2, <4>2
          <5>2. QED
            BY <5>1 DEF IInv, EveryRequestVerifies
        <4>3. QED
          BY <4>1, <4>2
      <3>2. QED
        BY <3>1 DEF EveryRequestVerifies, Verifies
    <2>6. NoncesUnique'
      <3>1. ASSUME NEW i \in DOMAIN sent', NEW j \in DOMAIN sent', i # j
            PROVE  sent'[i].params.nonce # sent'[j].params.nonce
        <4>1. CASE i \in 1 .. Len(sent) /\ j \in 1 .. Len(sent)
          BY <1>1, <2>2, <3>1, <4>1 DEF IInv, NoncesUnique
        <4>2. CASE i = Len(sent) + 1 /\ j \in 1 .. Len(sent)
          BY <1>1, <1>2, <2>1, <2>2, <2>3, <4>2
        <4>3. CASE j = Len(sent) + 1 /\ i \in 1 .. Len(sent)
          BY <1>1, <1>2, <2>1, <2>2, <2>3, <4>3
        <4>4. QED
          BY <1>1, <2>2, <3>1, <4>1, <4>2, <4>3
      <3>2. QED
        BY <3>1 DEF NoncesUnique
    <2>7. StatusOnlyInItsPost'
      <3>1. ASSUME NEW i \in DOMAIN sent' PROVE sent'[i].params.status = None
        <4>1. CASE i = Len(sent) + 1
          BY <2>1, <2>2, <4>1
        <4>2. CASE i # Len(sent) + 1
          <5>1. i \in DOMAIN sent /\ sent'[i] = sent[i]
            BY <1>1, <2>2, <4>2
          <5>2. QED
            BY <5>1 DEF IInv, StatusOnlyInItsPost
        <4>3. QED
          BY <4>1, <4>2
      <3>2. QED
        BY <2>1, <3>1 DEF StatusOnlyInItsPost
    <2>8. StreamRequestedOnce'
      <3>1. ASSUME NEW i \in DOMAIN sent' PROVE sent'[i].uri = "user_stream" <=> i = 1
        <4>1. CASE i = Len(sent) + 1
          <5>1. sent = <<>> <=> Len(sent) + 1 = 1
            BY <1>1
          <5>2. QED
            BY <2>1, <2>2, <4>1, <5>1
        <4>2. CASE i # Len(sent) + 1
          <5>1. i \in DOMAIN sent /\ sent'[i] = sent[i]
            BY <1>1, <2>2, <4>2
          <5>2. QED
            BY <5>1 DEF IInv, StreamRequestedOnce
        <4>3. QED
          BY <4>1, <4>2
      <3>2. QED
        BY <3>1 DEF StreamRequestedOnce
    <2>9. QED
      BY <1>1, <2>2, <2>4, <2>5, <2>6, <2>7, <2>8 DEF History
  <1>5. QED
    BY <1>3, <1>4
LEMMA IndicesGrow ==
  ASSUME TypeOK, NEW api \in Apis, Open(api)
  PROVE  /\ made' \in Seq(Apis) /\ Len(made') = Len(made) + 1 /\ Len(made) \in Nat
         /\ reading' \subseteq 1 .. Len(made')
         /\ Latest \in 0 .. Len(made') /\ ust \in 0 .. Len(made')
  <1>1. /\ made \in Seq(Apis) /\ Len(made) \in Nat /\ ust \in 0 .. Len(made)
        /\ reading \subseteq 1 .. Len(made)
    BY DEF TypeOK
  <1>2. /\ made' = Append(made, api) /\ reading' = reading \cup {Latest}
        /\ Latest = Len(made) + 1
    BY DEF Open, Latest
  <1>3. made' \in Seq(Apis) /\ Len(made') = Len(made) + 1
    BY <1>1, <1>2
  <1>4. Latest \in 1 .. Len(made') /\ 1 .. Len(made) \subseteq 1 .. Len(made')
    BY <1>1, <1>2, <1>3
  <1>5. reading' \subseteq 1 .. Len(made')
    BY <1>1, <1>2, <1>4
  <1>6. Latest \in 0 .. Len(made') /\ ust \in 0 .. Len(made')
    BY <1>1, <1>2, <1>3
  <1>7. QED
    BY <1>1, <1>3, <1>5, <1>6

\* The steps that make no client.
LEMMA IdleStep ==
  ASSUME IInv, NothingMade, main' \in {"running", "failed"}, stopPosted' = stopPosted,
         ust' = ust, main = "running" \/ main' = "failed",
         console' = console \/ (~stopPosted /\ console' \in {"armed", "dead"}),
         console = "dead" => console' = "dead"
  PROVE  IInv'
  <1>1. UNCHANGED <<made, reading, req, sent>>
    BY DEF NothingMade
  <1>2. Quiet
    BY <1>1 DEF IInv, TypeOK, RequesterInv, StatusOnlyInItsPost, Quiet, Requester, Params
  <1>3. History'
    BY <1>2, HistoryKept
  <1>4. TypeOK'
    BY <1>1 DEF IInv, TypeOK
  <1>5. FirstInv' /\ ConsoleInv'
    BY <1>1 DEF IInv, FirstInv, ConsoleInv
  <1>6. QED
    BY <1>3, <1>4, <1>5 DEF IInv, History

\* The steps that make one client, and may send a request.
LEMMA ClientStep ==
  ASSUME IInv, NEW api \in Apis, Open(api), Quiet \/ OneMore,
         main' \in {"running", "failed"}, stopPosted' = stopPosted, ~stopPosted,
         ust' \in {ust, Latest}, console' \in {"none", "armed", "dead"},
         main' = "running" => Len(sent') >= 1
  PROVE  IInv'
  <1>1. /\ made' \in Seq(Apis) /\ reading' \subseteq 1 .. Len(made') /\ ust' \in 0 .. Len(made')
    BY IndicesGrow DEF IInv
  <1>2. History' /\ sent' \in Seq(Wire)
    BY HistoryKept
  <1>3. req' \in Requester
    BY DEF Quiet, OneMore
  <1>4. TypeOK'
    BY <1>1, <1>2, <1>3 DEF IInv, TypeOK
  <1>5. FirstInv' /\ ConsoleInv'
    BY DEF IInv, FirstInv, ConsoleInv
  <1>6. QED
    BY <1>2, <1>4, <1>5 DEF IInv, History

LEMMA ConstructStep ==
  ASSUME IInv, Construct
  PROVE  IInv'
  <1>1. /\ req \in Requester /\ req.secret = req.params.token /\ req.params.status = None
        /\ sent = <<>> /\ ~stopPosted /\ stopPosted' = stopPosted /\ main = "constructing"
        /\ console \in {"none", "armed", "dead", "done"}
    BY DEF IInv, TypeOK, RequesterInv, FirstInv, Construct
  <1>2. CASE MakeUserStream /\ main' = "running" /\ console' = "armed"
    <2>1. OneMore
      BY <1>1, <1>2, SendGetStep DEF MakeUserStream, Apis
    <2>2. Len(sent') >= 1
      BY <1>1, <2>1 DEF OneMore
    <2>3. QED
      BY <1>1, <1>2, <2>1, <2>2, ClientStep DEF MakeUserStream, Apis
  <1>3. CASE NothingMade /\ UNCHANGED ust /\ main' = "failed" /\ UNCHANGED console
    BY <1>1, <1>3, IdleStep
  <1>4. CASE /\ Open("user_stream") /\ ust' = Latest /\ SigningThrows(req)
             /\ main' = "failed" /\ UNCHANGED console
    <2>1. Quiet
      BY <1>1, <1>4, ThrowStep
    <2>2. console' # "done"
      BY <1>1, <1>4 DEF IInv, ConsoleInv
    <2>3. QED
      BY <1>1, <1>4, <2>1, <2>2, ClientStep DEF Apis
  <1>5. QED
    BY <1>2, <1>3, <1>4 DEF Construct, MakeUserStreamThrows

LEMMA GetStep ==
  ASSUME IInv, GetCommand
  PROVE  IInv'
  <1>1. /\ req \in Requester /\ req.secret = req.params.token /\ req.params.status = None
        /\ sent # <<>> /\ Len(sent) >= 1 /\ Len(sent) \in Nat /\ sent \in Seq(Wire)
        /\ ~stopPosted /\ main = "running" /\ console = "armed"
    BY DEF IInv, TypeOK, RequesterInv, FirstInv, StatusOnlyInItsPost, GetCommand, Command
  <1>2. CASE NothingMade /\ Throw
    BY <1>1, <1>2, IdleStep DEF Throw
  <1>3. CASE Open("friends_timeline") /\ SigningThrows(req) /\ Throw
    <2>1. Quiet
      BY <1>1, <1>3, ThrowStep DEF Throw
    <2>2. QED
      BY <1>1, <1>3, <2>1, ClientStep DEF Throw, Apis, Quiet
  <1>4. CASE Open("friends_timeline") /\ SendGet("friends_timeline") /\ Rearm
    <2>1. OneMore
      BY <1>1, <1>4, SendGetStep DEF Apis
    <2>2. Len(sent') >= 1
      BY <1>1, <2>1 DEF OneMore
    <2>3. QED
      BY <1>1, <1>4, <2>1, <2>2, ClientStep DEF Rearm, Apis
  <1>5. QED
    BY <1>2, <1>3, <1>4 DEF GetCommand

LEMMA PostStep ==
  ASSUME IInv, PostCommand
  PROVE  IInv'
  <1>1. /\ req \in Requester /\ req.secret = req.params.token
        /\ sent # <<>> /\ Len(sent) >= 1 /\ Len(sent) \in Nat /\ sent \in Seq(Wire)
        /\ ~stopPosted /\ main = "running" /\ console = "armed"
    BY DEF IInv, TypeOK, RequesterInv, FirstInv, PostCommand, Command
  <1>2. CASE NothingMade /\ Throw
    BY <1>1, <1>2, IdleStep DEF Throw
  <1>3. ASSUME NEW text \in Texts,
               Open("statuses_update") /\ SigningThrows(SetStatus(req, text)) /\ Throw
        PROVE  IInv'
    <2>1. /\ SetStatus(req, text) \in Requester
          /\ SetStatus(req, text).secret = SetStatus(req, text).params.token
          /\ SetStatus(req, text).params.nonce = req.params.nonce
      <3>1. /\ SetStatus(req, text) \in Requester /\ req.params \in Params
            /\ SetStatus(req, text).params = [req.params EXCEPT !.status = text]
            /\ SetStatus(req, text).secret = req.secret
        BY <1>1, StatusEffect DEF Requester
      <3>2. QED
        BY <1>1, <3>1 DEF Params
    <2>2. Quiet
      BY <1>1, <1>3, <2>1, ThrowStep DEF Throw
    <2>3. QED
      BY <1>1, <1>3, <2>2, ClientStep DEF Throw, Apis, Quiet
  <1>4. ASSUME NEW text \in Texts, Open("statuses_update") /\ SendPost(text) /\ Rearm
        PROVE  IInv'
    <2>1. OneMore
      BY <1>1, <1>4, SendPostStep
    <2>2. Len(sent') >= 1
      BY <1>1, <2>1 DEF OneMore
    <2>3. QED
      BY <1>1, <1>4, <2>1, <2>2, ClientStep DEF Rearm, Apis
  <1>5. QED
    BY <1>2, <1>3, <1>4 DEF PostCommand

\* The dead branch: a client that ust holds is connected.
LEMMA HandlerStep ==
  ASSUME IInv, HttpHandler
  PROVE  IInv'
  <1>1. ust # 0 => Connected(ust)
    BY DEF Connected, Alive
  <1>2. NothingMade /\ ust' = ust /\ UNCHANGED <<main, stopPosted, console>> /\ main = "running"
    BY <1>1 DEF HttpHandler
  <1>3. QED
    BY <1>2, IdleStep DEF IInv, TypeOK

LEMMA ReadlineStep ==
  ASSUME IInv, OtherCommand \/ InputFails
  PROVE  IInv'
  <1>1. /\ main = "running" /\ console = "armed" /\ ~stopPosted /\ NothingMade
        /\ console' \in {"armed", "dead"} /\ UNCHANGED <<main, stopPosted, ust>>
    BY DEF OtherCommand, InputFails, Command, Rearm, Throw, IInv, FirstInv
  <1>2. QED
    BY <1>1, IdleStep

LEMMA EndSteps ==
  ASSUME IInv, ReaderStops \/ ExitCommand \/ StopRun
  PROVE  IInv'
  <1>1. /\ UNCHANGED <<made, req, sent>> /\ reading' \subseteq reading
        /\ main = "running" /\ main' \in {"running", "returned"}
        /\ \/ UNCHANGED <<ust, stopPosted, console>>
           \/ ust' = 0 /\ stopPosted' = TRUE /\ console' = "done" /\ console = "armed"
    BY DEF ReaderStops, ExitCommand, StopRun, Command
  <1>2. Quiet
    BY <1>1 DEF IInv, TypeOK, RequesterInv, StatusOnlyInItsPost, Quiet, Requester, Params
  <1>3. History'
    BY <1>1, <1>2, HistoryKept
  <1>4. TypeOK'
    <2>1. CASE UNCHANGED <<ust, stopPosted, console>>
      BY <1>1, <2>1 DEF IInv, TypeOK
    <2>2. CASE ust' = 0 /\ stopPosted' = TRUE /\ console' = "done"
      <3>1. stopPosted' \in BOOLEAN
        BY <2>2, Zenon
      <3>2. Len(made) \in Nat
        BY DEF IInv, TypeOK
      <3>3. QED
        BY <1>1, <2>2, <3>1, <3>2 DEF IInv, TypeOK
    <2>3. QED
      BY <1>1, <2>1, <2>2
  <1>5. FirstInv' /\ ConsoleInv'
    BY <1>1 DEF IInv, FirstInv, ConsoleInv
  <1>6. QED
    BY <1>3, <1>4, <1>5 DEF IInv, History

LEMMA InitEstablishes == Init => IInv
  <1> SUFFICES ASSUME Init PROVE IInv
    OBVIOUS
  <1>1. /\ req \in Requester /\ req.secret = UserToken /\ req.params.token = UserToken
        /\ req.params.status = None
    BY NewSession DEF Init
  <1>2. sent \in Seq(Wire) /\ DOMAIN sent = {} /\ made \in Seq(Apis) /\ Len(made) = 0
    BY DEF Init
  <1>3. TypeOK
    <2>1. stopPosted \in BOOLEAN
      BY Zenon DEF Init
    <2>2. QED
      BY <1>1, <1>2, <2>1 DEF Init, TypeOK
  <1>4. RequesterInv /\ FirstInv /\ ConsoleInv
    BY <1>1, <1>2 DEF Init, RequesterInv, FirstInv, ConsoleInv
  <1>5. EveryRequestVerifies /\ NoncesUnique /\ StatusOnlyInItsPost /\ StreamRequestedOnce
    BY <1>1, <1>2 DEF EveryRequestVerifies, NoncesUnique, StatusOnlyInItsPost, StreamRequestedOnce
  <1>6. QED
    BY <1>3, <1>4, <1>5 DEF IInv

LEMMA NextPreserves == IInv /\ [Next]_vars => IInv'
  <1> SUFFICES ASSUME IInv, [Next]_vars PROVE IInv'
    OBVIOUS
  <1>1. CASE UNCHANGED vars
    BY <1>1 DEF vars, IInv, TypeOK, RequesterInv, FirstInv, ConsoleInv, EveryRequestVerifies,
                NoncesUnique, StatusOnlyInItsPost, StreamRequestedOnce
  <1>2. CASE Next
    BY <1>2, ConstructStep, GetStep, PostStep, HandlerStep, ReadlineStep, EndSteps DEF Next
  <1>3. QED
    BY <1>1, <1>2

\* The strengthened invariant holds in every state.
THEOREM Invariance == Spec => []IInv
  BY InitEstablishes, NextPreserves, PTL DEF Spec

\* Type correctness.
THEOREM TypeCorrect == Spec => []TypeOK
  BY Invariance, PTL DEF IInv

\* Every request carries a signature of what it carries (black_circle.cc:95,104-108,122).
THEOREM Signed == Spec => []EveryRequestVerifies
  BY Invariance, PTL DEF IInv

\* A new nonce for every signature (oauth.hpp:63).
THEOREM NoReplay == Spec => []NoncesUnique
  BY Invariance, PTL DEF IInv

\* A post's text does not leak, even when its signing throws (black_circle.cc:104-106,216-223).
THEOREM NoStatusLeak == Spec => []StatusOnlyInItsPost
  BY Invariance, PTL DEF IInv

\* The reconnection in http_handler is never taken (black_circle.cc:127,130).
THEOREM NoReconnection == Spec => []StreamRequestedOnce
  BY Invariance, PTL DEF IInv

\* Nothing is requested after exit (black_circle.cc:111-114,219-222).
THEOREM QuietShutdown == Spec => QuietAfterExit
  <1>1. IInv /\ [Next]_vars => [stopPosted => UNCHANGED <<sent, made>> /\ ust' = 0]_vars
    <2> SUFFICES ASSUME IInv, Next, stopPosted
                 PROVE  UNCHANGED <<sent, made>> /\ ust' = 0
      OBVIOUS
    <2>1. main # "constructing" /\ console = "done" /\ ust = 0
      BY DEF IInv, FirstInv
    <2>2. QED
      BY <2>1 DEF Next, Construct, HttpHandler, ReaderStops, GetCommand, PostCommand,
                  OtherCommand, InputFails, ExitCommand, StopRun, Command, NothingMade
  <1>2. QED
    BY <1>1, Invariance, PTL DEF Spec, QuietAfterExit

-----------------------------------------------------------------------------
(***************************************************************************)
(* The run with --auth.  The server's replies are whatever AuthAssumption  *)
(* and ReplyAssumption allow, and what is behind a cut chunk in memory is  *)
(* whatever TokensAssumption allows.                                       *)
(***************************************************************************)

(* split_params, on any data. *)

LEMMA FindIs ==
  ASSUME NEW s \in Seq(Symbols), NEW x, NEW i \in 1 .. Len(s) + 1
  PROVE  /\ Find(s, x, i) \in i .. Len(s) + 1
         /\ Find(s, x, i) = Len(s) + 1 \/ s[Find(s, x, i)] = x
         /\ \A q \in i .. Find(s, x, i) - 1 : s[q] # x
  <1> DEFINE D == {p \in i .. Len(s) + 1 : p = Len(s) + 1 \/ s[p] = x}
             Is(p) == /\ p = Len(s) + 1 \/ s[p] = x
                      /\ \A q \in i .. p - 1 : s[q] # x
             f == Find(s, x, i)
  <1>1. D \in SUBSET Nat /\ Len(s) + 1 \in D
    OBVIOUS
  <1>2. PICK m \in D : \A k \in D : m <= k
    <2> HIDE DEF D
    <2>1. QED
      BY <1>1, LeastNumber
  <1>3. Is(m) /\ m \in i .. Len(s) + 1
    <2>1. ASSUME NEW q \in i .. m - 1, s[q] = x PROVE FALSE
      <3>1. q \in D
        BY <2>1
      <3>2. QED
        BY <1>2, <3>1
    <2>2. QED
      BY <2>1
  <1>4. f = CHOOSE p \in i .. Len(s) + 1 : Is(p)
    BY Zenon DEF Find
  <1> HIDE DEF Is, f
  <1>5. Is(f) /\ f \in i .. Len(s) + 1
    BY <1>3, <1>4
  <1>6. QED
    BY <1>5 DEF f, Is

\* There is only one place like that.
LEMMA FindThere ==
  ASSUME NEW s \in Seq(Symbols), NEW x, NEW i \in 1 .. Len(s) + 1, NEW p \in i .. Len(s),
         s[p] = x, \A q \in i .. p - 1 : s[q] # x
  PROVE  Find(s, x, i) = p
  <1> DEFINE f == Find(s, x, i)
  <1>1. /\ f \in i .. Len(s) + 1 /\ (f = Len(s) + 1 \/ s[f] = x)
        /\ \A q \in i .. f - 1 : s[q] # x
    BY FindIs
  <1> HIDE DEF f
  <1>2. ~(f < p)
    BY <1>1
  <1>3. ~(p < f)
    BY <1>1
  <1>4. f = p
    BY <1>1, <1>2, <1>3
  <1>5. QED
    BY <1>4 DEF f

Pair(s, i, eq, amp) ==
  [name |-> SubSeq(s, i, eq - 1), value |-> SubSeq(s, eq + 1, amp - 1), end |-> amp]

\* A pair from i on, with its "=" at eq and its "&" at amp.
PairIn(s, i, eq, amp) ==
  /\ eq \in Nat /\ amp \in Nat /\ i < eq /\ eq + 1 < amp /\ amp <= Len(s)
  /\ s[eq] = "=" /\ \A q \in i .. eq - 1 : s[q] # "="
  /\ s[amp] = "&" /\ \A q \in eq + 1 .. amp - 1 : s[q] # "&"

LEMMA PairIs ==
  ASSUME NEW s \in Seq(Symbols), NEW i \in 1 .. Len(s) + 1, NEW p \in PairAt(s, i)
  PROVE  \E eq, amp \in Nat : PairIn(s, i, eq, amp) /\ p = Pair(s, i, eq, amp)
  <1> DEFINE eq == Find(s, "=", i)
             amp == Find(s, "&", eq + 1)
  <1>1. /\ eq < Len(s) /\ eq > i /\ amp <= Len(s) /\ amp > eq + 1
        /\ p = Pair(s, i, eq, amp)
    BY DEF PairAt, Pair
  <1>2. /\ eq \in i .. Len(s) + 1 /\ (eq = Len(s) + 1 \/ s[eq] = "=")
        /\ \A q \in i .. eq - 1 : s[q] # "="
    BY FindIs
  <1>3. /\ amp \in eq + 1 .. Len(s) + 1 /\ (amp = Len(s) + 1 \/ s[amp] = "&")
        /\ \A q \in eq + 1 .. amp - 1 : s[q] # "&"
    <2> HIDE DEF eq
    <2> DEFINE k == eq + 1
    <2>1. k \in 1 .. Len(s) + 1
      BY <1>1, <1>2
    <2> HIDE DEF k
    <2>2. /\ Find(s, "&", k) \in k .. Len(s) + 1
          /\ Find(s, "&", k) = Len(s) + 1 \/ s[Find(s, "&", k)] = "&"
          /\ \A q \in k .. Find(s, "&", k) - 1 : s[q] # "&"
      BY <2>1, FindIs
    <2>3. QED
      BY <2>2 DEF k
  <1> HIDE DEF eq, amp
  <1>4. eq \in Nat /\ amp \in Nat
    BY <1>1, <1>2, <1>3
  <1>5. PairIn(s, i, eq, amp)
    BY <1>1, <1>2, <1>3, <1>4 DEF PairIn
  <1>6. QED
    BY <1>1, <1>4, <1>5

LEMMA PairThere ==
  ASSUME NEW s \in Seq(Symbols), NEW i \in 1 .. Len(s) + 1, NEW eq \in Nat, NEW amp \in Nat,
         PairIn(s, i, eq, amp)
  PROVE  PairAt(s, i) = {Pair(s, i, eq, amp)}
  <1>1. /\ i < eq /\ eq + 1 < amp /\ amp <= Len(s)
        /\ s[eq] = "=" /\ \A q \in i .. eq - 1 : s[q] # "="
        /\ s[amp] = "&" /\ \A q \in eq + 1 .. amp - 1 : s[q] # "&"
    BY DEF PairIn
  <1>2. Find(s, "=", i) = eq
    <2>1. eq \in i .. Len(s)
      BY <1>1
    <2>2. QED
      BY <1>1, <2>1, FindThere
  <1>3. Find(s, "&", eq + 1) = amp
    <2> DEFINE k == eq + 1
    <2>1. k \in 1 .. Len(s) + 1 /\ amp \in k .. Len(s) /\ \A q \in k .. amp - 1 : s[q] # "&"
      BY <1>1
    <2> HIDE DEF k
    <2>2. Find(s, "&", k) = amp
      BY <1>1, <2>1, FindThere
    <2>3. QED
      BY <2>2 DEF k
  <1>4. eq < Len(s)
    BY <1>1
  <1>5. QED
    BY <1>1, <1>2, <1>3, <1>4 DEF PairAt, Pair

LEMMA PairEnds ==
  ASSUME NEW s \in Seq(Symbols), NEW i \in 1 .. Len(s) + 1, NEW p \in PairAt(s, i)
  PROVE  p.end + 1 \in i + 1 .. Len(s) + 1
  <1>1. PICK eq \in Nat, amp \in Nat : PairIn(s, i, eq, amp) /\ p = Pair(s, i, eq, amp)
    BY PairIs
  <1>2. p.end = amp
    BY <1>1 DEF Pair
  <1>3. i < eq /\ eq + 1 < amp /\ amp <= Len(s)
    BY <1>1 DEF PairIn
  <1>4. QED
    BY <1>2, <1>3

\* The pairs from each place on, which SplitParams takes from the first.
Splits(f, s) ==
  f = [i \in 1 .. Len(s) + 1 |-> UNION {{p} \cup f[p.end + 1] : p \in PairAt(s, i)}]

LEMMA SplitExists ==
  ASSUME NEW s \in Seq(Symbols)
  PROVE  \E f : Splits(f, s)
  <1> DEFINE M == Len(s) + 1
             next(f, i) == UNION {{p} \cup f[p.end + 1] : p \in PairAt(s, i)}
             From(f, n) == \A i \in M - n .. M : f[i] = next(f, i)
             G == {n \in Nat : n <= Len(s) => \E f : From(f, n)}
  <1>1. M \in Nat /\ M = Len(s) + 1 /\ Len(s) \in Nat
    OBVIOUS
  <1>2. \A i \in 1 .. M : \A p \in PairAt(s, i) : p.end + 1 \in i + 1 .. M
    BY PairEnds
  <1> HIDE DEF M
  <1>3. 0 \in G
    <2> DEFINE f == [i \in M .. M |-> {}]
    <2>1. PairAt(s, M) = {}
      <3>1. M \in 1 .. M /\ M + 1 .. M = {}
        BY <1>1
      <3>2. QED
        BY <1>2, <3>1
    <2>2. \A i \in M - 0 .. M : i = M
      BY <1>1
    <2>3. f[M] = {} /\ next(f, M) = {}
      BY <1>1, <2>1
    <2> HIDE DEF f, next
    <2>4. From(f, 0)
      BY <2>2, <2>3
    <2>5. QED
      BY <2>4
  <1>4. ASSUME NEW n \in G PROVE n + 1 \in G
    <2>1. ASSUME n + 1 <= Len(s) PROVE \E f : From(f, n + 1)
      <3>1. n \in Nat /\ n <= Len(s)
        BY <1>1, <2>1
      <3>2. PICK f : From(f, n)
        <4> HIDE DEF From
        <4>1. QED
          BY <3>1
      <3> HIDE DEF G
      <3> DEFINE k == M - (n + 1)
                 g == [i \in k .. M |-> IF i = k THEN next(f, k) ELSE f[i]]
      <3>3. k \in 1 .. M /\ k \in k .. M /\ k + 1 = M - n /\ k \in Nat
        BY <1>1, <2>1, <3>1
      <3> HIDE DEF k, next
      <3>4. /\ \A i \in k .. M : i # k => i \in M - n .. M
            /\ \A i \in M - n .. M : i \in k .. M /\ i # k
        BY <1>1, <3>1, <3>3
      <3>5. /\ \A i \in k .. M : i \in 1 .. M
            /\ \A i \in k .. M : \A j \in i + 1 .. M : j \in M - n .. M
        BY <1>1, <3>1, <3>3
      <3>6. g[k] = next(f, k) /\ \A i \in M - n .. M : g[i] = f[i]
        BY <3>3, <3>4
      <3> HIDE DEF g
      <3>7. ASSUME NEW i \in k .. M PROVE next(g, i) = next(f, i)
        <4>1. \A p \in PairAt(s, i) : p.end + 1 \in M - n .. M
          BY <1>2, <3>5
        <4>2. \A p \in PairAt(s, i) : g[p.end + 1] = f[p.end + 1]
          BY <3>6, <4>1
        <4>3. {{p} \cup g[p.end + 1] : p \in PairAt(s, i)}
                = {{p} \cup f[p.end + 1] : p \in PairAt(s, i)}
          BY <4>2
        <4>4. QED
          BY <4>3 DEF next
      <3>8. ASSUME NEW i \in k .. M PROVE g[i] = next(g, i)
        <4>1. CASE i = k
          BY <3>6, <3>7, <4>1
        <4>2. CASE i # k
          <5>1. i \in M - n .. M
            BY <3>4, <4>2
          <5>2. f[i] = next(f, i)
            BY <3>2, <5>1
          <5>3. QED
            BY <3>6, <3>7, <5>1, <5>2
        <4>3. QED
          BY <4>1, <4>2
      <3>9. From(g, n + 1)
        BY <3>8 DEF k
      <3>10. QED
        BY <3>9
    <2>2. n + 1 \in Nat
      OBVIOUS
    <2> HIDE DEF From
    <2>3. QED
      BY <2>1, <2>2
  <1>5. G = Nat
    <2>1. G \in SUBSET Nat
      OBVIOUS
    <2> HIDE DEF G
    <2>2. QED
      BY <1>3, <1>4, <2>1, NatSetInduction
  <1>6. PICK f : From(f, Len(s))
    <2>1. Len(s) \in G
      <3> HIDE DEF G
      <3>1. QED
        BY <1>1, <1>5
    <2> HIDE DEF From
    <2>2. QED
      BY <1>1, <2>1
  <1> DEFINE g == [i \in 1 .. M |-> f[i]]
  <1>7. M - Len(s) .. M = 1 .. M
    BY <1>1
  <1>8. \A i \in 1 .. M : f[i] = next(f, i)
    BY <1>6, <1>7
  <1>9. ASSUME NEW i \in 1 .. M PROVE g[i] = next(g, i)
    <2>1. \A p \in PairAt(s, i) : p.end + 1 \in 1 .. M
      <3>1. \A j \in i + 1 .. M : j \in 1 .. M
        BY <1>1
      <3>2. QED
        BY <1>2, <3>1
    <2>2. \A p \in PairAt(s, i) : g[p.end + 1] = f[p.end + 1]
      BY <2>1
    <2>3. g[i] = f[i]
      OBVIOUS
    <2> HIDE DEF g
    <2>4. {{p} \cup g[p.end + 1] : p \in PairAt(s, i)}
              = {{p} \cup f[p.end + 1] : p \in PairAt(s, i)}
      BY <2>2
    <2>5. QED
      BY <1>8, <2>3, <2>4
  <1>10. g = [i \in 1 .. M |-> g[i]]
    OBVIOUS
  <1> HIDE DEF g, next
  <1>11. g = [i \in 1 .. M |-> next(g, i)]
    BY <1>9, <1>10
  <1>12. Splits(g, s)
    BY <1>11 DEF Splits, next, M
  <1>13. QED
    BY <1>12

LEMMA SplitIs ==
  ASSUME NEW s \in Seq(Symbols)
  PROVE  \E f : /\ SplitParams(s) = f[1]
                /\ \A i \in 1 .. Len(s) + 1 :
                     f[i] = UNION {{p} \cup f[p.end + 1] : p \in PairAt(s, i)}
  <1> DEFINE f == CHOOSE g : Splits(g, s)
  <1>1. Splits(f, s)
    BY SplitExists, Zenon
  <1>2. SplitParams(s) = f[1]
    BY Zenon DEF SplitParams, Splits
  <1> HIDE DEF f
  <1>3. \A i \in 1 .. Len(s) + 1 : f[i] = UNION {{p} \cup f[p.end + 1] : p \in PairAt(s, i)}
    BY <1>1, Zenon DEF Splits
  <1>4. QED
    BY <1>2, <1>3

\* Whatever split_params finds is a pair somewhere in the data.
LEMMA SplitFinds ==
  ASSUME NEW s \in Seq(Symbols), NEW p \in SplitParams(s)
  PROVE  \E i \in 1 .. Len(s) + 1 : p \in PairAt(s, i)
  <1> DEFINE M == Len(s) + 1
             D == 1 .. M
  <1>1. PICK f : /\ SplitParams(s) = f[1]
                 /\ \A i \in D : f[i] = UNION {{q} \cup f[q.end + 1] : q \in PairAt(s, i)}
    BY SplitIs
  <1> DEFINE Found == \E j \in D : p \in PairAt(s, j)
             G == {n \in Nat : \A i \in D : M - n <= i => (p \in f[i] => Found)}
  <1>2. M \in Nat /\ 1 \in D /\ \A i \in D : i \in Nat /\ M - M <= i
    OBVIOUS
  <1>3. ASSUME NEW i \in D, p \in f[i], ~Found PROVE \E j \in D : j > i /\ p \in f[j]
    <2>1. PICK q \in PairAt(s, i) : p \in {q} \cup f[q.end + 1]
      BY <1>1, <1>3
    <2>2. p \in f[q.end + 1]
      BY <1>3, <2>1
    <2>3. q.end + 1 \in i + 1 .. M
      BY <2>1, PairEnds
    <2>4. q.end + 1 \in D /\ q.end + 1 > i
      BY <2>3
    <2>5. QED
      BY <2>2, <2>4
  <1> HIDE DEF Found
  <1>4. 0 \in G
    <2>1. ASSUME NEW i \in D, M - 0 <= i, p \in f[i], ~Found PROVE FALSE
      <3>1. PICK j \in D : j > i
        BY <1>3, <2>1
      <3>2. QED
        BY <2>1, <3>1
    <2>2. QED
      BY <2>1
  <1>5. ASSUME NEW n \in G PROVE n + 1 \in G
    <2>1. ASSUME NEW i \in D, M - (n + 1) <= i, p \in f[i], ~Found PROVE FALSE
      <3>1. PICK j \in D : j > i /\ p \in f[j]
        BY <1>3, <2>1
      <3>2. M - n <= j
        BY <2>1, <3>1
      <3>3. QED
        BY <2>1, <3>1, <3>2
    <2>2. QED
      BY <2>1
  <1>6. G = Nat
    <2>1. G \in SUBSET Nat
      OBVIOUS
    <2> HIDE DEF G
    <2>2. QED
      BY <1>4, <1>5, <2>1, NatSetInduction
  <1>7. M \in G
    <2> HIDE DEF G
    <2>1. QED
      BY <1>2, <1>6
  <1>8. p \in f[1]
    BY <1>1
  <1>9. Found
    <2> HIDE DEF D, M
    <2>1. QED
      BY <1>2, <1>7, <1>8
  <1>10. QED
    BY <1>9 DEF Found

\* It finds the pair the data begins with, and the one right after that.
LEMMA SplitBegins ==
  ASSUME NEW s \in Seq(Symbols), NEW p \in PairAt(s, 1)
  PROVE  p \in SplitParams(s) /\ PairAt(s, p.end + 1) \subseteq SplitParams(s)
  <1>1. PICK f : /\ SplitParams(s) = f[1]
                 /\ \A i \in 1 .. Len(s) + 1 :
                      f[i] = UNION {{q} \cup f[q.end + 1] : q \in PairAt(s, i)}
    BY SplitIs
  <1>2. 1 \in 1 .. Len(s) + 1
    OBVIOUS
  <1>3. p \in f[1] /\ f[p.end + 1] \subseteq f[1]
    BY <1>1, <1>2
  <1>4. p.end + 1 \in 1 .. Len(s) + 1
    <2>1. p.end + 1 \in 1 + 1 .. Len(s) + 1
      BY <1>2, PairEnds
    <2>2. QED
      BY <2>1
  <1>5. PairAt(s, p.end + 1) \subseteq f[p.end + 1]
    BY <1>1, <1>4
  <1>6. QED
    BY <1>1, <1>3, <1>5

\* A pair p with a name of one symbol, x at i, up to its "&" at amp.
PairNamed(s, x, p, i, amp) ==
  /\ 1 <= i /\ i + 2 < amp /\ amp <= Len(s)
  /\ s[i] = x /\ s[amp] = "&" /\ \A q \in i + 2 .. amp - 1 : s[q] # "&"
  /\ p.value = SubSeq(s, i + 2, amp - 1) /\ p.end = amp

LEMMA NamedPair ==
  ASSUME NEW s \in Seq(Symbols), NEW x, NEW p \in SplitParams(s), p.name = <<x>>
  PROVE  \E i, amp \in Nat : PairNamed(s, x, p, i, amp)
  <1>1. PICK i \in 1 .. Len(s) + 1 : p \in PairAt(s, i)
    BY SplitFinds
  <1>2. PICK eq \in Nat, amp \in Nat : PairIn(s, i, eq, amp) /\ p = Pair(s, i, eq, amp)
    BY <1>1, PairIs
  <1>3. /\ i < eq /\ eq + 1 < amp /\ amp <= Len(s) /\ s[amp] = "&"
        /\ \A q \in eq + 1 .. amp - 1 : s[q] # "&"
    BY <1>2 DEF PairIn
  <1>4. p.name = SubSeq(s, i, eq - 1) /\ p.value = SubSeq(s, eq + 1, amp - 1) /\ p.end = amp
    BY <1>2 DEF Pair
  <1>5. eq = i + 1 /\ s[i] = x
    <2> DEFINE n == SubSeq(s, i, eq - 1)
    <2>1. i < eq /\ eq - 1 <= Len(s) /\ i \in Nat /\ i >= 1 /\ eq \in Nat
      BY <1>3
    <2>2. Len(n) = eq - i
      BY <2>1, SMTT(30)
    <2>3. n[1] = s[i]
      BY <2>1
    <2>4. n = <<x>>
      BY <1>4
    <2> HIDE DEF n
    <2>5. Len(n) = 1 /\ n[1] = x
      BY <2>4
    <2>6. eq = i + 1
      <3>1. eq - i = 1
        BY <2>2, <2>5
      <3>2. QED
        BY <2>1, <3>1
    <2>7. QED
      BY <2>3, <2>5, <2>6
  <1>6. i \in Nat /\ 1 <= i /\ eq + 1 = i + 2
    BY <1>5
  <1>7. PairNamed(s, x, p, i, amp)
    BY <1>3, <1>4, <1>5, <1>6 DEF PairNamed
  <1>8. QED
    BY <1>2, <1>6, <1>7

\* par[name], where every pair of that name has the same value.
LEMMA ParIs ==
  ASSUME NEW s \in Seq(Symbols), NEW x, NEW v,
         \A p \in SplitParams(s) : p.name = <<x>> => p.value = v /\ p.end \in Nat
  PROVE  /\ Par(s, x) \in {<<>>, v}
         /\ (\E p \in SplitParams(s) : p.name = <<x>>) => Par(s, x) = v
         /\ (\A p \in SplitParams(s) : p.name # <<x>>) => Par(s, x) = <<>>
  <1> DEFINE named == {p \in SplitParams(s) : p.name = <<x>>}
             First(p) == \A q \in named : p.end <= q.end
             p0 == CHOOSE p \in named : First(p)
  <1>1. Par(s, x) = IF named = {} THEN <<>> ELSE p0.value
    BY Zenon DEF Par
  <1>2. ASSUME named # {} PROVE \E p \in named : First(p)
    <2> DEFINE E == {p.end : p \in named}
    <2>1. E \in SUBSET Nat /\ E # {}
      BY <1>2
    <2>2. PICK m \in E : \A k \in E : m <= k
      <3> HIDE DEF E
      <3>1. QED
        BY <2>1, LeastNumber
    <2>3. PICK p \in named : p.end = m
      BY <2>2
    <2>4. \A q \in named : q.end \in E
      OBVIOUS
    <2>5. QED
      BY <2>2, <2>3, <2>4
  <1>3. ASSUME named # {} PROVE p0 \in named
    <2> HIDE DEF First, named
    <2>1. QED
      BY <1>2, <1>3
  <1> HIDE DEF p0
  <1>4. QED
    BY <1>1, <1>3

-----------------------------------------------------------------------------
(* The reply, and the parts of it. *)

LEMMA CatIs ==
  ASSUME NEW s \in Seq(Symbols), NEW t \in Seq(Symbols)
  PROVE  /\ s \o t \in Seq(Symbols) /\ Len(s \o t) = Len(s) + Len(t)
         /\ \A i \in 1 .. Len(s) : (s \o t)[i] = s[i]
         /\ \A i \in 1 .. Len(t) : (s \o t)[Len(s) + i] = t[i]
  OBVIOUS

\* A pair name=value in a reply, with its name, which is nowhere else, at b.
PairOf(R, name, value, b) ==
  /\ b \in Nat /\ 1 <= b /\ b + 1 + Len(value) <= Len(R)
  /\ R[b] = name /\ R[b + 1] = "="
  /\ \A k \in 1 .. Len(R) : R[k] = name => k = b
  /\ \A k \in 1 .. Len(value) : R[b + 1 + k] = value[k]
  /\ b + 2 + Len(value) <= Len(R) => R[b + 2 + Len(value)] = "&"

Value(v) ==
  /\ v \in Seq(Symbols) /\ v # <<>> /\ \A k \in 1 .. Len(v) : v[k] \notin Names \cup {"=", "&"}

LEMMA TokenIs ==
  ASSUME NEW uri
  PROVE  Value(Token(uri))
  <1>1. Token(uri) \in {RequestToken, AccessToken}
    BY DEF Token
  <1>2. {RequestToken, AccessToken} \subseteq Seq(Symbols)
    BY AuthAssumption
  <1>3. \A token \in {RequestToken, AccessToken} :
          token # <<>> /\ \A i \in 1 .. Len(token) : token[i] \notin Names \cup {"=", "&"}
    BY ReplyAssumption
  <1>4. QED
    BY <1>1, <1>2, <1>3 DEF Value

LEMMA ReplyIs ==
  ASSUME NEW uri, NEW rest \in Rests
  PROVE  /\ Reply(uri, rest) \in Seq(Symbols)
         /\ PairOf(Reply(uri, rest), "oauth_token", Token(uri), 1)
         /\ PairOf(Reply(uri, rest), "oauth_token_secret", Token(uri),
                   4 + Len(Token(uri)))
  <1> DEFINE v == Token(uri)
             L == Len(v)
             a == <<"oauth_token", "=">>
             m == <<"&", "oauth_token_secret", "=">>
             A == a \o v
             B == A \o m
             C == B \o v
             R == C \o rest
  <1>1. R = Reply(uri, rest)
    BY Zenon DEF Reply
  <1>2. /\ v \in Seq(Symbols) /\ v # <<>>
        /\ \A k \in 1 .. Len(v) : v[k] \notin Names \cup {"=", "&"}
    BY TokenIs DEF Value
  <1>3. /\ rest \in Seq(Symbols) /\ (rest # <<>> => rest[1] = "&")
        /\ \A k \in 1 .. Len(rest) : rest[k] \notin Names
    BY AuthAssumption, ReplyAssumption
  <1>4. a \in Seq(Symbols) /\ m \in Seq(Symbols)
    <2>1. {"oauth_token", "oauth_token_secret", "=", "&"} \subseteq Symbols
      BY AuthAssumption DEF Names
    <2>2. QED
      BY <2>1
  <1>5. Len(a) = 2 /\ a[1] = "oauth_token" /\ a[2] = "="
    OBVIOUS
  <1>6. Len(m) = 3 /\ m[1] = "&" /\ m[2] = "oauth_token_secret" /\ m[3] = "="
    OBVIOUS
  <1> HIDE DEF v, a, m
  <1>7. L \in Nat /\ L >= 1 /\ L = Len(v)
    BY <1>2
  <1> HIDE DEF L
  <1>8. A \in Seq(Symbols) /\ Len(A) = 2 + L
    <2>1. A \in Seq(Symbols) /\ Len(A) = Len(a) + Len(v)
      BY <1>2, <1>4, CatIs
    <2> HIDE DEF A
    <2>2. QED
      BY <1>5, <1>7, <2>1
  <1>9. A[1] = "oauth_token" /\ A[2] = "=" /\ \A k \in 1 .. L : A[2 + k] = v[k]
    <2>1. (\A i \in 1 .. Len(a) : A[i] = a[i]) /\ \A j \in 1 .. Len(v) : A[Len(a) + j] = v[j]
      BY <1>2, <1>4, CatIs
    <2> HIDE DEF A
    <2>2. QED
      BY <1>5, <1>7, <2>1
  <1> HIDE DEF A
  <1>10. B \in Seq(Symbols) /\ Len(B) = 5 + L
    <2>1. A \in Seq(Symbols) /\ m \in Seq(Symbols)
      BY <1>4, <1>8
    <2>2. B \in Seq(Symbols) /\ Len(B) = Len(A) + Len(m)
      BY <2>1, CatIs
    <2> HIDE DEF B
    <2>3. QED
      BY <1>6, <1>7, <1>8, <2>2
  <1>11. /\ \A k \in 1 .. 2 + L : B[k] = A[k]
         /\ B[3 + L] = "&" /\ B[4 + L] = "oauth_token_secret" /\ B[5 + L] = "="
    <2>1. A \in Seq(Symbols) /\ m \in Seq(Symbols)
      BY <1>4, <1>8
    <2>2. (\A i \in 1 .. Len(A) : B[i] = A[i]) /\ \A j \in 1 .. Len(m) : B[Len(A) + j] = m[j]
      BY <2>1
    <2> HIDE DEF B
    <2>3. B[Len(A) + 1] = m[1] /\ B[Len(A) + 2] = m[2] /\ B[Len(A) + 3] = m[3]
      BY <1>6, <2>2
    <2>4. Len(A) + 1 = 3 + L /\ Len(A) + 2 = 4 + L /\ Len(A) + 3 = 5 + L
      BY <1>7, <1>8
    <2>5. QED
      BY <1>6, <1>8, <2>2, <2>3, <2>4
  <1> HIDE DEF B
  <1>12. C \in Seq(Symbols) /\ Len(C) = 5 + L + L
    <2>1. B \in Seq(Symbols) /\ v \in Seq(Symbols)
      BY <1>2, <1>10
    <2>2. C \in Seq(Symbols) /\ Len(C) = Len(B) + Len(v)
      BY <2>1, CatIs
    <2> HIDE DEF C
    <2>3. QED
      BY <1>7, <1>10, <2>2
  <1>13. (\A k \in 1 .. 5 + L : C[k] = B[k]) /\ \A k \in 1 .. L : C[5 + L + k] = v[k]
    <2>1. B \in Seq(Symbols) /\ v \in Seq(Symbols)
      BY <1>2, <1>10
    <2>2. (\A i \in 1 .. Len(B) : C[i] = B[i]) /\ \A j \in 1 .. Len(v) : C[Len(B) + j] = v[j]
      BY <2>1
    <2> HIDE DEF C
    <2>3. QED
      BY <1>7, <1>10, <2>2
  <1> HIDE DEF C
  <1>14. R \in Seq(Symbols) /\ Len(R) = 5 + L + L + Len(rest)
    <2>1. C \in Seq(Symbols) /\ rest \in Seq(Symbols)
      BY <1>3, <1>12
    <2>2. R \in Seq(Symbols) /\ Len(R) = Len(C) + Len(rest)
      BY <2>1, CatIs
    <2> HIDE DEF R
    <2>3. QED
      BY <1>7, <1>12, <2>2
  <1>15. /\ \A k \in 1 .. 5 + L + L : R[k] = C[k]
         /\ \A k \in 1 .. Len(rest) : R[5 + L + L + k] = rest[k]
    <2>1. C \in Seq(Symbols) /\ rest \in Seq(Symbols)
      BY <1>3, <1>12
    <2>2. (\A i \in 1 .. Len(C) : R[i] = C[i]) /\ \A j \in 1 .. Len(rest) : R[Len(C) + j] = rest[j]
      BY <2>1, CatIs
    <2> HIDE DEF R
    <2>3. QED
      BY <1>7, <1>12, <2>2
  <1> HIDE DEF R
  <1>16. \A k \in 1 .. 5 + L : R[k] = B[k]
    <2>1. \A k \in 1 .. 5 + L : k \in 1 .. 5 + L + L
      BY <1>7
    <2>2. QED
      BY <1>13, <1>15, <2>1
  <1>17. \A k \in 1 .. 2 + L : R[k] = A[k]
    <2>1. \A k \in 1 .. 2 + L : k \in 1 .. 5 + L
      BY <1>7
    <2>2. QED
      BY <1>11, <1>16, <2>1
  <1>18. /\ R[1] = "oauth_token" /\ R[2] = "=" /\ R[3 + L] = "&"
         /\ R[4 + L] = "oauth_token_secret" /\ R[5 + L] = "="
    <2>1. /\ 1 \in 1 .. 2 + L /\ 2 \in 1 .. 2 + L
          /\ 3 + L \in 1 .. 5 + L /\ 4 + L \in 1 .. 5 + L /\ 5 + L \in 1 .. 5 + L
      BY <1>7
    <2>2. QED
      BY <1>9, <1>11, <1>16, <1>17, <2>1
  <1>19. \A k \in 1 .. L : R[2 + k] = v[k]
    <2>1. \A k \in 1 .. L : 2 + k \in 1 .. 2 + L
      BY <1>7
    <2>2. QED
      BY <1>9, <1>17, <2>1
  <1>20. \A k \in 1 .. L : R[5 + L + k] = v[k]
    <2>1. \A k \in 1 .. L : 5 + L + k \in 1 .. 5 + L + L
      BY <1>7
    <2>2. QED
      BY <1>13, <1>15, <2>1
  <1>21. Len(rest) \in Nat /\ Len(R) \in Nat /\ 5 + L + L <= Len(R)
    BY <1>3, <1>7, <1>14
  <1>22. 6 + L + L <= Len(R) => R[6 + L + L] = "&"
    <2> SUFFICES ASSUME 6 + L + L <= Len(R) PROVE R[6 + L + L] = "&"
      OBVIOUS
    <2>1. Len(rest) >= 1
      BY <1>7, <1>14, <1>21
    <2>2. rest[1] = "&"
      BY <1>3, <2>1
    <2>3. R[5 + L + L + 1] = rest[1] /\ 5 + L + L + 1 = 6 + L + L
      BY <1>7, <1>14, <1>15, <1>21, <2>1
    <2>4. QED
      BY <2>2, <2>3
  <1>23. ASSUME NEW k \in 1 .. Len(R), k # 1, k # 4 + L PROVE R[k] \notin Names
    <2>1. Names = {"oauth_token", "oauth_token_secret"}
      BY DEF Names
    <2>2. CASE k \in {2, 3 + L, 5 + L}
      BY <1>18, <2>1, <2>2
    <2>3. CASE k \in 3 .. 2 + L
      <3>1. k - 2 \in 1 .. L /\ k = 2 + (k - 2)
        BY <1>7, <2>3
      <3>2. R[k] = v[k - 2]
        BY <1>19, <3>1
      <3>3. QED
        BY <1>2, <1>7, <3>1, <3>2
    <2>4. CASE k \in 6 + L .. 5 + L + L
      <3>1. k - (5 + L) \in 1 .. L /\ k = 5 + L + (k - (5 + L))
        BY <1>7, <2>4
      <3>2. R[k] = v[k - (5 + L)]
        BY <1>20, <3>1
      <3>3. QED
        BY <1>2, <1>7, <3>1, <3>2
    <2>5. CASE k > 5 + L + L
      <3> DEFINE j == k - (5 + L + L)
      <3>1. j \in 1 .. Len(rest) /\ k = 5 + L + L + j
        BY <1>7, <1>14, <1>21, <2>5
      <3> HIDE DEF j
      <3>2. R[k] = rest[j]
        BY <1>15, <3>1
      <3>3. QED
        BY <1>3, <3>1, <3>2
    <2>6. k \in {2, 3 + L, 5 + L} \/ k \in 3 .. 2 + L \/ k \in 6 + L .. 5 + L + L \/ k > 5 + L + L
      BY <1>7, <1>21, <1>23
    <2>7. QED
      BY <2>2, <2>3, <2>4, <2>5, <2>6
  <1>24. \A k \in 1 .. Len(R) : /\ R[k] = "oauth_token" => k = 1
                                /\ R[k] = "oauth_token_secret" => k = 4 + L
    BY <1>18, <1>23 DEF Names
  <1>25. PairOf(R, "oauth_token", v, 1)
    <2>1. 1 + 1 + L <= Len(R) /\ 1 + 2 + L = 3 + L
      BY <1>7, <1>21
    <2>2. \A k \in 1 .. L : R[1 + 1 + k] = v[k]
      BY <1>19
    <2>3. QED
      BY <1>7, <1>18, <1>24, <2>1, <2>2 DEF PairOf
  <1>26. PairOf(R, "oauth_token_secret", v, 4 + L)
    <2>1. /\ 4 + L + 1 + L <= Len(R) /\ 4 + L \in Nat /\ 1 <= 4 + L
          /\ 4 + L + 1 = 5 + L /\ 4 + L + 2 + L = 6 + L + L
      BY <1>7, <1>21
    <2>2. \A k \in 1 .. L : R[4 + L + 1 + k] = v[k]
      BY <1>7, <1>20, <2>1
    <2>3. QED
      BY <1>7, <1>18, <1>22, <1>24, <2>1, <2>2 DEF PairOf
  <1>27. QED
    BY <1>1, <1>14, <1>25, <1>26 DEF v, L

\* The n symbols before the part d of R.
PartAt(d, R, n) == n \in Nat /\ \A i \in 1 .. Len(d) : n + i <= Len(R) /\ d[i] = R[n + i]

\* Two sequences of the same length with the same elements.
LEMMA SameElements ==
  ASSUME NEW s \in Seq(Symbols), NEW t \in Seq(Symbols), Len(s) = Len(t),
         \A k \in 1 .. Len(s) : s[k] = t[k]
  PROVE  s = t
  OBVIOUS

LEMMA SubSeqIs ==
  ASSUME NEW s \in Seq(Symbols), NEW a \in Nat, NEW z \in Nat, 1 <= a, a <= z + 1, z <= Len(s)
  PROVE  /\ SubSeq(s, a, z) \in Seq(Symbols) /\ Len(SubSeq(s, a, z)) = z - a + 1
         /\ \A k \in 1 .. z - a + 1 : SubSeq(s, a, z)[k] = s[a + k - 1]
  OBVIOUS

\* What split_params finds under a name of the reply is that pair, whole.
LEMMA ChunkPair ==
  ASSUME NEW d \in Seq(Symbols), NEW R \in Seq(Symbols), NEW n, PartAt(d, R, n),
         NEW v, Value(v), NEW x, NEW b, PairOf(R, x, v, b),
         NEW p \in SplitParams(d), p.name = <<x>>
  PROVE  n < b /\ b + 2 + Len(v) <= n + Len(d) /\ p.value = v /\ p.end \in Nat
  <1> DEFINE L == Len(v)
  <1>1. PICK i \in Nat, amp \in Nat : PairNamed(d, x, p, i, amp)
    BY NamedPair
  <1>2. /\ 1 <= i /\ i + 2 < amp /\ amp <= Len(d)
        /\ d[i] = x /\ d[amp] = "&" /\ \A q \in i + 2 .. amp - 1 : d[q] # "&"
        /\ p.value = SubSeq(d, i + 2, amp - 1) /\ p.end = amp
    BY <1>1 DEF PairNamed
  <1>3. n \in Nat /\ \A k \in 1 .. Len(d) : n + k <= Len(R) /\ d[k] = R[n + k]
    BY DEF PartAt
  <1>4. v \in Seq(Symbols) /\ v # <<>> /\ \A k \in 1 .. Len(v) : v[k] # "&"
    BY DEF Value
  <1>5. L \in Nat /\ L >= 1 /\ Len(d) \in Nat /\ Len(R) \in Nat
    BY <1>4
  <1>6. /\ b \in Nat /\ 1 <= b
        /\ \A k \in 1 .. Len(R) : R[k] = x => k = b
    BY DEF PairOf
  <1>7. \A k \in 1 .. L : R[b + 1 + k] = v[k]
    BY DEF PairOf
  <1>8. b + 2 + L <= Len(R) => R[b + 2 + L] = "&"
    BY DEF PairOf
  <1>9. v \in Seq(Symbols) /\ \A k \in 1 .. L : v[k] # "&"
    BY <1>4
  <1>10. Len(v) = L
    OBVIOUS
  <1> HIDE DEF L
  <1>11. n + i = b
    <2>1. i \in 1 .. Len(d)
      BY <1>2, <1>5
    <2>2. d[i] = R[n + i] /\ n + i \in 1 .. Len(R)
      BY <1>3, <1>5, <2>1
    <2>3. R[n + i] = x
      BY <1>2, <2>2
    <2>4. QED
      BY <1>6, <2>2, <2>3
  <1>12. amp \in 1 .. Len(d) /\ amp > i + 2
    BY <1>2, <1>5
  <1>13. n + amp <= Len(R) /\ R[n + amp] = "&"
    <2>1. d[amp] = R[n + amp] /\ n + amp <= Len(R)
      BY <1>3, <1>12
    <2>2. QED
      BY <1>2, <2>1
  <1>14. ~(n + amp < b + 2 + L)
    <2> SUFFICES ASSUME n + amp < b + 2 + L PROVE FALSE
      OBVIOUS
    <2> DEFINE k == n + amp - b - 1
    <2>1. k \in 1 .. L /\ b + 1 + k = n + amp
      BY <1>3, <1>5, <1>6, <1>11, <1>12
    <2> HIDE DEF k
    <2>2. R[n + amp] = v[k]
      BY <1>7, <2>1
    <2>3. QED
      BY <1>9, <1>13, <2>1, <2>2
  <1>15. ~(n + amp > b + 2 + L)
    <2> SUFFICES ASSUME n + amp > b + 2 + L PROVE FALSE
      OBVIOUS
    <2> DEFINE q == i + 2 + L
    <2>1. q \in i + 2 .. amp - 1 /\ q \in 1 .. Len(d) /\ n + q = b + 2 + L /\ b + 2 + L <= Len(R)
      BY <1>3, <1>5, <1>6, <1>11, <1>12, <1>13
    <2> HIDE DEF q
    <2>2. d[q] = "&"
      BY <1>3, <1>8, <2>1
    <2>3. QED
      BY <1>2, <2>1, <2>2
  <1>16. n + amp = b + 2 + L
    BY <1>3, <1>5, <1>6, <1>12, <1>14, <1>15
  <1>17. n < b /\ b + 2 + L <= n + Len(d) /\ amp - 1 \in Nat /\ amp - 1 - (i + 2) + 1 = L
    BY <1>2, <1>3, <1>5, <1>6, <1>11, <1>12, <1>16
  <1>18. p.value = v
    <2> DEFINE u == SubSeq(d, i + 2, amp - 1)
    <2>1. /\ u \in Seq(Symbols) /\ Len(u) = L
          /\ \A k \in 1 .. L : u[k] = d[i + 2 + k - 1]
      <3> DEFINE a == i + 2
                 z == amp - 1
      <3>1. a \in Nat /\ z \in Nat /\ 1 <= a /\ a <= z + 1 /\ z <= Len(d) /\ z - a + 1 = L
        BY <1>2, <1>5, <1>12, <1>17
      <3>2. u = SubSeq(d, a, z)
        OBVIOUS
      <3> HIDE DEF a, z, u
      <3>3. /\ SubSeq(d, a, z) \in Seq(Symbols) /\ Len(SubSeq(d, a, z)) = z - a + 1
            /\ \A k \in 1 .. z - a + 1 : SubSeq(d, a, z)[k] = d[a + k - 1]
        BY <3>1, SubSeqIs
      <3>4. \A k \in 1 .. L : u[k] = d[a + k - 1]
        BY <3>1, <3>2, <3>3
      <3>5. QED
        BY <3>1, <3>2, <3>3, <3>4 DEF a
    <2> HIDE DEF u
    <2>2. ASSUME NEW k \in 1 .. L PROVE u[k] = v[k]
      <3> DEFINE j == i + 2 + k - 1
      <3>1. j \in 1 .. Len(d) /\ n + j = b + 1 + k
        BY <1>2, <1>3, <1>5, <1>6, <1>11, <1>12, <1>17
      <3>2. u[k] = d[j]
        BY <2>1
      <3> HIDE DEF j
      <3>3. d[j] = R[b + 1 + k]
        BY <1>3, <3>1
      <3>4. QED
        BY <1>7, <3>2, <3>3
    <2>3. u = v
      BY <1>9, <1>10, <2>1, <2>2, SameElements
    <2>4. QED
      BY <1>2, <2>3 DEF u
  <1>19. p.end \in Nat
    BY <1>2
  <1>20. QED
    BY <1>10, <1>17, <1>18, <1>19

\* par[name] of a chunk is the reply's value or nothing, and the value only if the pair is whole.
LEMMA ParOfChunk ==
  ASSUME NEW d \in Seq(Symbols), NEW R \in Seq(Symbols), NEW n, PartAt(d, R, n),
         NEW v, Value(v), NEW x, NEW b, PairOf(R, x, v, b)
  PROVE  /\ Par(d, x) \in {<<>>, v}
         /\ Par(d, x) = v => n < b /\ b + 2 + Len(v) <= n + Len(d)
         /\ (\E p \in SplitParams(d) : p.name = <<x>>) => Par(d, x) = v
  <1>1. \A p \in SplitParams(d) : p.name = <<x>> =>
          n < b /\ b + 2 + Len(v) <= n + Len(d) /\ p.value = v /\ p.end \in Nat
    BY ChunkPair
  <1>2. \A p \in SplitParams(d) : p.name = <<x>> => p.value = v /\ p.end \in Nat
    BY <1>1
  <1>3. /\ Par(d, x) \in {<<>>, v}
        /\ (\E p \in SplitParams(d) : p.name = <<x>>) => Par(d, x) = v
        /\ (\A p \in SplitParams(d) : p.name # <<x>>) => Par(d, x) = <<>>
    BY <1>2, ParIs
  <1>4. v # <<>>
    BY DEF Value
  <1>5. QED
    BY <1>1, <1>3, <1>4, Zenon

\* A reply's pair with its name in the chunk and the chunk going on to its end.
Whole(d, n, v, b) == n < b /\ b + 2 + Len(v) <= n + Len(d)

\* The pair split_params takes at b, which ends at z.
TakenAt(d, x, b, z) ==
  b \in 1 .. Len(d) + 1 /\ \E p : PairAt(d, b) = {p} /\ p.name = <<x>> /\ p.end = z

LEMMA ChunkHasPair ==
  ASSUME NEW d \in Seq(Symbols), NEW R \in Seq(Symbols), PartAt(d, R, 0),
         NEW v, Value(v), NEW x, x # "=", NEW b \in Nat, PairOf(R, x, v, b), Whole(d, 0, v, b),
         NEW z, z = b + 2 + Len(v)
  PROVE  TakenAt(d, x, b, z)
  <1> DEFINE L == Len(v)
             eq == b + 1
             amp == b + 2 + L
  <1>1. \A k \in 1 .. Len(d) : k <= Len(R) /\ d[k] = R[k]
    BY DEF PartAt
  <1>2. v \in Seq(Symbols) /\ v # <<>>
    BY DEF Value
  <1>3. L \in Nat /\ L >= 1 /\ Len(d) \in Nat /\ Len(R) \in Nat
    BY <1>2
  <1>4. b \in Nat /\ 1 <= b /\ b + 2 + L <= Len(d)
    BY DEF PairOf, Whole
  <1>5. R[b] = x /\ R[b + 1] = "="
    BY DEF PairOf
  <1>6. /\ \A k \in 1 .. L : R[b + 1 + k] = v[k]
        /\ b + 2 + L <= Len(R) => R[b + 2 + L] = "&"
    BY DEF PairOf
  <1>7. \A k \in 1 .. L : v[k] # "&"
    BY DEF Value
  <1>8. Len(v) = L /\ eq = b + 1 /\ amp = b + 2 + L /\ z = b + 2 + L
    OBVIOUS
  <1> HIDE DEF L, eq, amp
  <1>9. b \in 1 .. Len(d) /\ b + 1 \in 1 .. Len(d) /\ b + 2 + L \in 1 .. Len(d)
    BY <1>3, <1>4
  <1>10. d[b] = x /\ d[b + 1] = "=" /\ d[b + 2 + L] = "&"
    <2>1. d[b] = R[b] /\ d[b + 1] = R[b + 1] /\ d[b + 2 + L] = R[b + 2 + L] /\ b + 2 + L <= Len(R)
      BY <1>1, <1>9
    <2>2. QED
      BY <1>5, <1>6, <2>1
  <1>11. ASSUME NEW q \in (b + 1) + 1 .. (b + 2 + L) - 1 PROVE d[q] # "&"
    <2> DEFINE k == q - b - 1
    <2>1. k \in 1 .. L /\ b + 1 + k = q /\ q \in 1 .. Len(d)
      BY <1>3, <1>4
    <2> HIDE DEF k
    <2>2. d[q] = v[k]
      BY <1>1, <1>6, <2>1
    <2>3. QED
      BY <1>7, <2>1, <2>2
  <1>12. \A q \in b .. (b + 1) - 1 : d[q] # "="
    <2>1. \A q \in b .. (b + 1) - 1 : q = b
      BY <1>4
    <2>2. QED
      BY <1>10, <2>1
  <1>13. /\ b + 1 \in Nat /\ b + 2 + L \in Nat /\ b < b + 1 /\ b + 1 + 1 < b + 2 + L
         /\ b + 2 + L <= Len(d)
    BY <1>3, <1>4
  <1>14. PairIn(d, b, eq, amp)
    <2>1. eq \in Nat /\ amp \in Nat /\ b < eq /\ eq + 1 < amp /\ amp <= Len(d)
      BY <1>13, <1>8
    <2>2. d[eq] = "=" /\ d[amp] = "&"
      BY <1>10, <1>8
    <2>3. \A q \in b .. eq - 1 : d[q] # "="
      BY <1>12, <1>8
    <2>4. \A q \in eq + 1 .. amp - 1 : d[q] # "&"
      BY <1>11, <1>8
    <2>5. QED
      BY <2>1, <2>2, <2>3, <2>4 DEF PairIn
  <1>15. Pair(d, b, eq, amp).name = <<x>>
    <2> DEFINE u == SubSeq(d, b, b)
    <2>1. b \in Nat /\ 1 <= b /\ b <= b + 1 /\ b <= Len(d) /\ b - b + 1 = 1 /\ eq - 1 = b
      BY <1>4, <1>8, <1>9
    <2>2. u \in Seq(Symbols) /\ Len(u) = b - b + 1 /\ \A k \in 1 .. b - b + 1 : u[k] = d[b + k - 1]
      BY <2>1, SubSeqIs
    <2> HIDE DEF u
    <2>3. u \in Seq(Symbols) /\ Len(u) = 1 /\ u[1] = x
      BY <1>10, <2>1, <2>2
    <2>4. u = <<x>>
      BY <2>3
    <2>5. Pair(d, b, eq, amp).name = SubSeq(d, b, eq - 1)
      BY DEF Pair
    <2>6. QED
      BY <2>1, <2>4, <2>5 DEF u
  <1>16. b \in 1 .. Len(d) + 1
    BY <1>3, <1>9
  <1>17. eq \in Nat /\ amp \in Nat /\ amp = z
    BY <1>8, <1>13
  <1>18. PairAt(d, b) = {Pair(d, b, eq, amp)}
    BY <1>14, <1>16, <1>17, PairThere
  <1>19. Pair(d, b, eq, amp).end = z
    BY <1>17 DEF Pair
  <1>20. QED
    BY <1>15, <1>16, <1>18, <1>19 DEF TakenAt

LEMMA HasPairIff ==
  ASSUME NEW d \in Seq(Symbols), NEW R \in Seq(Symbols), NEW n, PartAt(d, R, n),
         NEW v, Value(v), NEW x \in Symbols, {"=", "&"} \subseteq Symbols, NEW b, PairOf(R, x, v, b)
  PROVE  HasPair(d, x, v) <=> d # <<>> /\ d[1] \in Names /\ Whole(d, n, v, b)
  <1> DEFINE L == Len(v)
             A == <<x, "=">> \o v
             W == A \o <<"&">>
  <1>1. n \in Nat /\ \A k \in 1 .. Len(d) : n + k <= Len(R) /\ d[k] = R[n + k]
    BY DEF PartAt
  <1>2. v \in Seq(Symbols) /\ v # <<>>
    BY DEF Value
  <1>3. L \in Nat /\ L >= 1 /\ Len(d) \in Nat /\ Len(R) \in Nat
    BY <1>2
  <1>4. b \in Nat /\ 1 <= b /\ R[b] = x /\ R[b + 1] = "="
    BY DEF PairOf
  <1>5. \A k \in 1 .. Len(R) : R[k] = x => k = b
    BY DEF PairOf
  <1>6. /\ \A k \in 1 .. L : R[b + 1 + k] = v[k]
        /\ b + 2 + L <= Len(R) => R[b + 2 + L] = "&"
    BY DEF PairOf
  <1>7. /\ A \in Seq(Symbols) /\ Len(A) = 2 + L /\ A[1] = x /\ A[2] = "="
        /\ \A k \in 1 .. L : A[2 + k] = v[k]
    <2> DEFINE a == <<x, "=">>
    <2>1. a \in Seq(Symbols) /\ Len(a) = 2 /\ a[1] = x /\ a[2] = "="
      OBVIOUS
    <2> HIDE DEF a
    <2>2. /\ a \o v \in Seq(Symbols) /\ Len(a \o v) = Len(a) + Len(v)
          /\ \A i \in 1 .. Len(a) : (a \o v)[i] = a[i]
          /\ \A i \in 1 .. Len(v) : (a \o v)[Len(a) + i] = v[i]
      BY <1>2, <2>1, CatIs
    <2>3. A = a \o v
      BY DEF a
    <2> HIDE DEF A
    <2>4. QED
      BY <1>3, <2>1, <2>2, <2>3
  <1> HIDE DEF A
  <1>8. /\ W \in Seq(Symbols) /\ Len(W) = 3 + L /\ W[1] = x /\ W[2] = "="
        /\ (\A k \in 1 .. L : W[2 + k] = v[k]) /\ W[3 + L] = "&"
    <2> DEFINE z == <<"&">>
    <2>1. z \in Seq(Symbols) /\ Len(z) = 1 /\ z[1] = "&"
      OBVIOUS
    <2> HIDE DEF z
    <2>2. /\ A \o z \in Seq(Symbols) /\ Len(A \o z) = Len(A) + Len(z)
          /\ \A i \in 1 .. Len(A) : (A \o z)[i] = A[i]
          /\ \A i \in 1 .. Len(z) : (A \o z)[Len(A) + i] = z[i]
      BY <1>7, <2>1, CatIs
    <2>3. W = A \o z
      BY DEF z
    <2> HIDE DEF W
    <2>4. QED
      BY <1>3, <1>7, <2>1, <2>2, <2>3
  <1>9. HasPair(d, x, v) <=>
          /\ d # <<>> /\ d[1] \in Names
          /\ \E i \in 1 .. Len(d) - 2 - L : SubSeq(d, i, i + 2 + L) = W
    BY Zenon DEF HasPair, Names, A
  <1>10. Len(v) = L
    OBVIOUS
  <1> HIDE DEF W, L
  <1>11. ASSUME NEW i \in 1 .. Len(d) - 2 - L
         PROVE  /\ SubSeq(d, i, i + 2 + L) \in Seq(Symbols) /\ Len(SubSeq(d, i, i + 2 + L)) = 3 + L
                /\ \A k \in 1 .. 3 + L : SubSeq(d, i, i + 2 + L)[k] = d[i + k - 1]
    <2> DEFINE z == i + 2 + L
    <2>1. i \in Nat /\ z \in Nat /\ 1 <= i /\ i <= z + 1 /\ z <= Len(d) /\ z - i + 1 = 3 + L
      BY <1>3
    <2> HIDE DEF z
    <2>2. /\ SubSeq(d, i, z) \in Seq(Symbols) /\ Len(SubSeq(d, i, z)) = z - i + 1
          /\ \A k \in 1 .. z - i + 1 : SubSeq(d, i, z)[k] = d[i + k - 1]
      BY <2>1, SubSeqIs
    <2>3. QED
      BY <2>1, <2>2 DEF z
  <1>12. ASSUME NEW i \in 1 .. Len(d) - 2 - L, SubSeq(d, i, i + 2 + L) = W PROVE Whole(d, n, v, b)
    <2>1. W[1] = d[i]
      <3>1. 1 \in 1 .. 3 + L /\ i + 1 - 1 = i
        BY <1>3
      <3>2. W[1] = d[i + 1 - 1]
        BY <1>11, <1>12, <3>1
      <3>3. QED
        BY <3>1, <3>2
    <2>2. i \in 1 .. Len(d) /\ i \in Nat /\ i >= 1 /\ i <= Len(d) - 2 - L
      BY <1>3
    <2>3. R[n + i] = x /\ n + i \in 1 .. Len(R)
      BY <1>1, <1>3, <1>8, <2>1, <2>2
    <2>4. n + i = b
      BY <1>5, <2>3
    <2>5. n < b /\ b + 2 + L <= n + Len(d)
      BY <1>1, <1>3, <1>4, <2>2, <2>4, SMTT(30)
    <2>6. QED
      BY <1>10, <2>5 DEF Whole
  <1>13. ASSUME Whole(d, n, v, b)
         PROVE  \E i \in 1 .. Len(d) - 2 - L : SubSeq(d, i, i + 2 + L) = W
    <2>1. n < b /\ b + 2 + L <= n + Len(d)
      BY <1>10, <1>13 DEF Whole
    <2> DEFINE i == b - n
               u == SubSeq(d, i, i + 2 + L)
    <2>2. i \in 1 .. Len(d) - 2 - L /\ i \in Nat /\ n + i = b
      BY <1>1, <1>3, <1>4, <2>1
    <2> HIDE DEF i
    <2>3. u \in Seq(Symbols) /\ Len(u) = 3 + L /\ \A k \in 1 .. 3 + L : u[k] = d[i + k - 1]
      BY <1>11, <2>2
    <2> HIDE DEF u
    <2>4. ASSUME NEW k \in 1 .. 3 + L PROVE u[k] = R[b + k - 1] /\ b + k - 1 <= Len(R)
      <3>1. /\ i + k - 1 \in 1 .. Len(d) /\ n + (i + k - 1) = b + k - 1
        BY <1>1, <1>3, <1>4, <2>2
      <3>2. u[k] = d[i + k - 1]
        BY <2>3
      <3> DEFINE j == i + k - 1
      <3> HIDE DEF j
      <3>3. j \in 1 .. Len(d) /\ n + j = b + k - 1 /\ u[k] = d[j]
        BY <3>1, <3>2 DEF j
      <3>4. QED
        BY <1>1, <3>3
    <2>5. ASSUME NEW k \in 1 .. 3 + L PROVE u[k] = W[k]
      <3>1. CASE k = 1
        <4>1. b + k - 1 = b
          BY <1>4, <3>1
        <4>2. QED
          BY <1>4, <1>8, <2>4, <3>1, <4>1
      <3>2. CASE k = 2
        <4>1. b + k - 1 = b + 1
          BY <1>4, <3>2
        <4>2. QED
          BY <1>4, <1>8, <2>4, <3>2, <4>1
      <3>3. CASE k = 3 + L
        <4>1. b + k - 1 = b + 2 + L
          BY <1>3, <1>4, <3>3
        <4>2. R[b + 2 + L] = "&"
          BY <1>6, <2>4, <4>1
        <4>3. QED
          BY <1>8, <2>4, <3>3, <4>1, <4>2
      <3>4. CASE k \in 3 .. 2 + L
        <4> DEFINE j == k - 2
        <4>1. j \in 1 .. L /\ b + k - 1 = b + 1 + j /\ k = 2 + j
          BY <1>3, <1>4, <3>4
        <4> HIDE DEF j
        <4>2. u[k] = v[j] /\ W[k] = v[j]
          BY <1>6, <1>8, <2>4, <4>1
        <4>3. QED
          BY <4>2
      <3>5. k = 1 \/ k = 2 \/ k = 3 + L \/ k \in 3 .. 2 + L
        BY <1>3
      <3>6. QED
        BY <3>1, <3>2, <3>3, <3>4, <3>5
    <2>6. u = W
      BY <1>8, <2>3, <2>5, SameElements
    <2>7. QED
      BY <2>2, <2>6 DEF u
  <1>14. QED
    BY <1>9, <1>12, <1>13

\* The reply R from its start, and at least to the end of its second pair.
HeadOf(d, R, x, y, v) ==
  /\ R \in Seq(Symbols) /\ PartAt(d, R, 0) /\ Value(v) /\ "=" \notin {x, y}
  /\ PairOf(R, x, v, 1) /\ Whole(d, 0, v, 1)
  /\ PairOf(R, y, v, 4 + Len(v)) /\ Whole(d, 0, v, 4 + Len(v))

\* A chunk with both pairs whole begins with them, and split_params finds them.
LEMMA BothFound ==
  ASSUME NEW d \in Seq(Symbols), NEW R, NEW x, NEW y, NEW v, HeadOf(d, R, x, y, v)
  PROVE  /\ \E p \in SplitParams(d) : p.name = <<x>>
         /\ \E p \in SplitParams(d) : p.name = <<y>>
  <1> DEFINE L == Len(v)
             a == 1
             b == 4 + L
  <1>1. R \in Seq(Symbols) /\ PartAt(d, R, 0) /\ Value(v) /\ x # "=" /\ y # "="
    BY DEF HeadOf
  <1>2. L \in Nat
    BY <1>1 DEF Value
  <1>3. PairOf(R, x, v, a) /\ Whole(d, 0, v, a) /\ PairOf(R, y, v, b) /\ Whole(d, 0, v, b)
    BY DEF HeadOf
  <1>4. a \in Nat /\ b \in Nat /\ (a + 2 + L) + 1 = b /\ a = 1
    BY <1>2
  <1> HIDE DEF a, b
  <1>5. TakenAt(d, x, a, a + 2 + Len(v))
    BY <1>1, <1>3, <1>4, ChunkHasPair
  <1>6. TakenAt(d, y, b, b + 2 + Len(v))
    BY <1>1, <1>3, <1>4, ChunkHasPair
  <1> HIDE DEF L
  <1>7. PICK p : PairAt(d, 1) = {p} /\ p.name = <<x>> /\ p.end + 1 = b
    BY <1>4, <1>5 DEF TakenAt, L
  <1>8. PICK q : PairAt(d, b) = {q} /\ q.name = <<y>>
    BY <1>6 DEF TakenAt
  <1>9. p \in SplitParams(d) /\ PairAt(d, p.end + 1) \subseteq SplitParams(d)
    BY <1>7, SplitBegins
  <1>10. q \in SplitParams(d)
    BY <1>7, <1>8, <1>9
  <1>11. QED
    BY <1>7, <1>8, <1>9, <1>10

\* The chunks for which both parameters are the reply's are those that have both pairs whole.
LEMMA BothIff ==
  ASSUME NEW uri, NEW rest \in Rests,
         NEW d \in Seq(Symbols), PartOf(d, Reply(uri, rest))
  PROVE  /\ Par(d, "oauth_token") \in {<<>>, Token(uri)}
         /\ Par(d, "oauth_token_secret") \in {<<>>, Token(uri)}
         /\ HasBoth(d, Token(uri)) <=>
              /\ Par(d, "oauth_token") = Token(uri)
              /\ Par(d, "oauth_token_secret") = Token(uri)
  <1> DEFINE v == Token(uri)
             R == Reply(uri, rest)
             L == Len(v)
             T == "oauth_token"
             S == "oauth_token_secret"
  <1>1. Value(v)
    BY TokenIs
  <1>2. R \in Seq(Symbols) /\ PairOf(R, T, v, 1) /\ PairOf(R, S, v, 4 + L)
    BY ReplyIs
  <1>3. PICK n : PartAt(d, R, n)
    <2>1. PICK n \in 0 .. Len(R) : \A i \in 1 .. Len(d) : n + i <= Len(R) /\ d[i] = R[n + i]
      BY Zenon DEF PartOf
    <2>2. n \in Nat
      BY <1>2
    <2>3. QED
      BY <2>1, <2>2 DEF PartAt
  <1>4. {T, S} = Names /\ {T, S, "=", "&"} \subseteq Symbols
    BY AuthAssumption DEF Names
  <1>5. T \in Symbols /\ S \in Symbols /\ {"=", "&"} \subseteq Symbols
    BY <1>4
  <1>6. HasBoth(d, v) <=> HasPair(d, T, v) /\ HasPair(d, S, v)
    BY Zenon DEF HasBoth
  <1>7. L \in Nat /\ Len(d) \in Nat /\ n \in Nat /\ L = Len(v)
    BY <1>1, <1>3 DEF Value, PartAt
  <1>8. T # "=" /\ S # "="
    OBVIOUS
  <1> HIDE DEF v, R, L, T, S
  <1>9. /\ HasPair(d, T, v) <=> d # <<>> /\ d[1] \in Names /\ Whole(d, n, v, 1)
        /\ HasPair(d, S, v) <=> d # <<>> /\ d[1] \in Names /\ Whole(d, n, v, 4 + L)
    <2>1. HasPair(d, T, v) <=> d # <<>> /\ d[1] \in Names /\ Whole(d, n, v, 1)
      BY <1>1, <1>2, <1>3, <1>5, HasPairIff
    <2>2. HasPair(d, S, v) <=> d # <<>> /\ d[1] \in Names /\ Whole(d, n, v, 4 + L)
      BY <1>1, <1>2, <1>3, <1>5, HasPairIff
    <2>3. QED
      BY <2>1, <2>2
  <1>10. /\ Par(d, T) \in {<<>>, v}
         /\ Par(d, T) = v => 1 > n /\ 1 + 2 + Len(v) <= n + Len(d)
         /\ (\E p \in SplitParams(d) : p.name = <<T>>) => Par(d, T) = v
    BY <1>1, <1>2, <1>3, ParOfChunk
  <1>11. /\ Par(d, S) \in {<<>>, v}
         /\ Par(d, S) = v => n < 4 + L /\ 4 + L + 2 + Len(v) <= n + Len(d)
         /\ (\E p \in SplitParams(d) : p.name = <<S>>) => Par(d, S) = v
    BY <1>1, <1>2, <1>3, ParOfChunk
  <1>12. Whole(d, n, v, 1) => n = 0
    BY <1>7 DEF Whole
  <1>13. ASSUME Par(d, T) = v, Par(d, S) = v
         PROVE  HasPair(d, T, v) /\ HasPair(d, S, v)
    <2>1. Whole(d, n, v, 1) /\ Whole(d, n, v, 4 + L)
      BY <1>7, <1>10, <1>11, <1>13 DEF Whole
    <2>2. n = 0 /\ 1 \in 1 .. Len(d)
      BY <1>7, <1>12, <2>1 DEF Whole
    <2>3. d[1] = R[1]
      BY <1>3, <2>2 DEF PartAt
    <2>4. R[1] = T
      BY <1>2 DEF PairOf
    <2>5. d # <<>> /\ d[1] \in Names
      BY <1>4, <2>2, <2>3, <2>4
    <2>6. QED
      BY <1>9, <2>1, <2>5
  <1>14. ASSUME HasPair(d, T, v), HasPair(d, S, v)
         PROVE  Par(d, T) = v /\ Par(d, S) = v
    <2>1. Whole(d, n, v, 1) /\ Whole(d, n, v, 4 + L)
      BY <1>9, <1>14
    <2>2. n = 0
      BY <1>12, <2>1
    <2>3. PartAt(d, R, 0) /\ Whole(d, 0, v, 1) /\ Whole(d, 0, v, 4 + L)
      BY <1>3, <2>1, <2>2
    <2>4. /\ \E p \in SplitParams(d) : p.name = <<T>>
          /\ \E p \in SplitParams(d) : p.name = <<S>>
      <3>1. PairOf(R, T, v, 1) /\ PairOf(R, S, v, 4 + Len(v))
        BY <1>2 DEF L
      <3>2. Whole(d, 0, v, 1) /\ Whole(d, 0, v, 4 + Len(v))
        BY <2>3 DEF L
      <3>3. R \in Seq(Symbols) /\ PartAt(d, R, 0)
        BY <1>2, <2>3
      <3>4. HeadOf(d, R, T, S, v)
        BY <1>1, <1>8, <3>1, <3>2, <3>3 DEF HeadOf
      <3>5. QED
        BY <3>4, BothFound
    <2>5. QED
      BY <1>10, <1>11, <2>4
  <1>15. /\ Par(d, T) \in {<<>>, v} /\ Par(d, S) \in {<<>>, v}
         /\ HasBoth(d, v) <=> Par(d, T) = v /\ Par(d, S) = v
    BY <1>6, <1>10, <1>11, <1>13, <1>14
  <1>16. QED
    BY <1>15 DEF v, T, S

-----------------------------------------------------------------------------
(* What is read behind a cut chunk. *)

LEMMA SubSeqOfPrefix ==
  ASSUME NEW s \in Seq(Symbols), NEW t \in Seq(Symbols), NEW u, u = s \o t,
         NEW a \in Nat, NEW z \in Nat, 1 <= a, a <= z + 1, z <= Len(s)
  PROVE  SubSeq(u, a, z) = SubSeq(s, a, z)
  <1>1. /\ u \in Seq(Symbols) /\ Len(u) = Len(s) + Len(t) /\ Len(s) \in Nat /\ Len(t) \in Nat
        /\ \A k \in 1 .. Len(s) : u[k] = s[k]
    BY CatIs
  <1> DEFINE x == SubSeq(u, a, z)
             y == SubSeq(s, a, z)
  <1>2. /\ x \in Seq(Symbols) /\ Len(x) = z - a + 1
        /\ \A k \in 1 .. z - a + 1 : x[k] = u[a + k - 1]
    <2>1. z <= Len(u)
      BY <1>1
    <2>2. QED
      BY <1>1, <2>1, SubSeqIs
  <1>3. /\ y \in Seq(Symbols) /\ Len(y) = z - a + 1
        /\ \A k \in 1 .. z - a + 1 : y[k] = s[a + k - 1]
    BY SubSeqIs
  <1> HIDE DEF x, y
  <1>4. \A k \in 1 .. z - a + 1 : a + k - 1 \in 1 .. Len(s)
    BY <1>1
  <1>5. \A k \in 1 .. Len(x) : x[k] = y[k]
    BY <1>1, <1>2, <1>3, <1>4
  <1>6. x = y
    BY <1>2, <1>3, <1>5
  <1>7. QED
    BY <1>6 DEF x, y

\* The pairs of a prefix are those of the whole that end in it.
LEMMA PairOfPrefix ==
  ASSUME NEW s \in Seq(Symbols), NEW t \in Seq(Symbols), NEW u, u = s \o t,
         NEW i \in 1 .. Len(s) + 1
  PROVE  /\ PairAt(s, i) \subseteq PairAt(u, i)
         /\ \A p \in PairAt(u, i) : p.end <= Len(s) => p \in PairAt(s, i)
  <1>1. /\ u \in Seq(Symbols) /\ Len(u) = Len(s) + Len(t) /\ Len(s) \in Nat /\ Len(t) \in Nat
        /\ \A k \in 1 .. Len(s) : u[k] = s[k]
    BY CatIs
  <1>2. i \in 1 .. Len(u) + 1 /\ i \in Nat /\ 1 <= i
    BY <1>1
  <1>3. ASSUME NEW eq \in Nat, NEW amp \in Nat,
               PairIn(s, i, eq, amp) \/ (PairIn(u, i, eq, amp) /\ amp <= Len(s))
        PROVE  /\ PairIn(s, i, eq, amp) /\ PairIn(u, i, eq, amp)
               /\ Pair(s, i, eq, amp) = Pair(u, i, eq, amp)
    <2>1. i < eq /\ eq + 1 < amp /\ amp <= Len(s)
      BY <1>3 DEF PairIn
    <2>2. \A q \in i .. amp : q \in 1 .. Len(s)
      BY <1>2, <2>1
    <2>3. /\ \A q \in i .. eq - 1 : q \in i .. amp
          /\ \A q \in eq + 1 .. amp - 1 : q \in i .. amp
          /\ eq \in i .. amp /\ amp \in i .. amp
      BY <1>2, <2>1
    <2>4. amp <= Len(u)
      BY <1>1, <2>1
    <2>5. PairIn(s, i, eq, amp) /\ PairIn(u, i, eq, amp)
      BY <1>1, <1>3, <2>2, <2>3, <2>4 DEF PairIn
    <2>6. SubSeq(u, i, eq - 1) = SubSeq(s, i, eq - 1)
      <3>1. eq - 1 \in Nat /\ i <= (eq - 1) + 1 /\ eq - 1 <= Len(s)
        BY <1>1, <1>2, <2>1
      <3>2. QED
        BY <1>2, <3>1, SubSeqOfPrefix
    <2>7. SubSeq(u, eq + 1, amp - 1) = SubSeq(s, eq + 1, amp - 1)
      <3>1. /\ amp - 1 \in Nat /\ eq + 1 \in Nat /\ 1 <= eq + 1
            /\ eq + 1 <= (amp - 1) + 1 /\ amp - 1 <= Len(s)
        BY <1>1, <1>2, <2>1
      <3>2. QED
        BY <3>1, SubSeqOfPrefix
    <2>8. QED
      BY <2>5, <2>6, <2>7 DEF Pair
  <1>4. ASSUME NEW p \in PairAt(s, i) PROVE p \in PairAt(u, i)
    <2>1. PICK eq \in Nat, amp \in Nat : PairIn(s, i, eq, amp) /\ p = Pair(s, i, eq, amp)
      BY PairIs
    <2>2. PairIn(u, i, eq, amp) /\ p = Pair(u, i, eq, amp)
      BY <1>3, <2>1
    <2>3. u \in Seq(Symbols) /\ i \in 1 .. Len(u) + 1
      BY <1>1, <1>2
    <2>4. PairAt(u, i) = {Pair(u, i, eq, amp)}
      BY <2>2, <2>3, PairThere, Zenon
    <2>5. QED
      BY <2>2, <2>4
  <1>5. ASSUME NEW p \in PairAt(u, i), p.end <= Len(s) PROVE p \in PairAt(s, i)
    <2>1. PICK eq \in Nat, amp \in Nat : PairIn(u, i, eq, amp) /\ p = Pair(u, i, eq, amp)
      BY <1>1, <1>2, PairIs
    <2>2. p.end = amp
      BY <2>1 DEF Pair
    <2>3. PairIn(s, i, eq, amp) /\ p = Pair(s, i, eq, amp)
      BY <1>3, <1>5, <2>1, <2>2
    <2>4. QED
      BY <2>3, PairThere
  <1>6. QED
    BY <1>4, <1>5

\* Induction from the last place down.
LEMMA DownwardInduction ==
  ASSUME NEW N \in Nat, NEW P, \A i \in 1 .. N : (\A j \in i + 1 .. N : j \in P) => i \in P
  PROVE  \A i \in 1 .. N : i \in P
  <1> DEFINE G == {n \in Nat : \A i \in 1 .. N : N - n < i => i \in P}
  <1>1. 0 \in G
    OBVIOUS
  <1>2. ASSUME NEW n \in G PROVE n + 1 \in G
    <2>1. ASSUME NEW i \in 1 .. N, N - (n + 1) < i PROVE i \in P
      <3>1. \A j \in i + 1 .. N : j \in 1 .. N /\ N - n < j
        BY <2>1
      <3>2. QED
        BY <3>1
    <2>2. QED
      BY <2>1
  <1>3. G = Nat
    <2>1. G \in SUBSET Nat
      OBVIOUS
    <2> HIDE DEF G
    <2>2. QED
      BY <1>1, <1>2, <2>1, NatSetInduction
  <1>4. N \in G
    <2> HIDE DEF G
    <2>1. QED
      BY <1>3
  <1>5. QED
    BY <1>4

\* split_params finds in a prefix what it finds of the whole that ends there.
LEMMA SplitOfPrefix ==
  ASSUME NEW s \in Seq(Symbols), NEW t \in Seq(Symbols), NEW u, u = s \o t
  PROVE  /\ SplitParams(s) \subseteq SplitParams(u)
         /\ \A q \in SplitParams(u) : q.end <= Len(s) => q \in SplitParams(s)
  <1> DEFINE M == Len(s) + 1
             N == Len(u) + 1
  <1>1. u \in Seq(Symbols) /\ M \in Nat /\ N \in Nat /\ 1 <= M /\ M <= N /\ M = Len(s) + 1
    BY CatIs
  <1>2. PICK f : /\ SplitParams(s) = f[1]
                 /\ \A i \in 1 .. M : f[i] = UNION {{p} \cup f[p.end + 1] : p \in PairAt(s, i)}
    BY SplitIs
  <1>3. PICK g : /\ SplitParams(u) = g[1]
                 /\ \A i \in 1 .. N : g[i] = UNION {{p} \cup g[p.end + 1] : p \in PairAt(u, i)}
    BY <1>1, SplitIs
  <1>4. /\ \A i \in 1 .. M : \A p \in PairAt(s, i) : p.end + 1 \in i + 1 .. M
        /\ \A i \in 1 .. N : \A p \in PairAt(u, i) : p.end + 1 \in i + 1 .. N
    BY <1>1, PairEnds
  <1>5. \A i \in 1 .. M : /\ PairAt(s, i) \subseteq PairAt(u, i) /\ i \in 1 .. N
                         /\ \A p \in PairAt(u, i) : p.end <= Len(s) => p \in PairAt(s, i)
    <2>1. ASSUME NEW i \in 1 .. M
          PROVE  /\ PairAt(s, i) \subseteq PairAt(u, i) /\ i \in 1 .. N
                 /\ \A p \in PairAt(u, i) : p.end <= Len(s) => p \in PairAt(s, i)
      <3>1. i \in 1 .. Len(s) + 1 /\ i \in 1 .. N
        BY <1>1
      <3>2. /\ PairAt(s, i) \subseteq PairAt(u, i)
            /\ \A p \in PairAt(u, i) : p.end <= Len(s) => p \in PairAt(s, i)
        BY <3>1, PairOfPrefix, Zenon
      <3>3. QED
        BY <3>1, <3>2
    <2>2. QED
      BY <2>1, Zenon
  <1>6. \A i \in 1 .. N : \A p \in PairAt(u, i) : p.end \in Nat
    <2>1. ASSUME NEW i \in 1 .. N, NEW p \in PairAt(u, i) PROVE p.end \in Nat
      <3>1. PICK eq \in Nat, amp \in Nat : PairIn(u, i, eq, amp) /\ p = Pair(u, i, eq, amp)
        BY <1>1, <2>1, PairIs
      <3>2. QED
        BY <3>1 DEF Pair
    <2>2. QED
      BY <2>1
  <1> HIDE DEF M, N
  <1> DEFINE E == {i \in 1 .. N : \A q \in g[i] : q.end \in Nat /\ i <= q.end}
             A == {i \in 1 .. M : /\ f[i] \subseteq g[i]
                                  /\ \A q \in g[i] : q.end <= Len(s) => q \in f[i]}
  <1>7. \A i \in 1 .. N : i \in E
    <2>1. ASSUME NEW i \in 1 .. N, \A j \in i + 1 .. N : j \in E PROVE i \in E
      <3>1. ASSUME NEW q \in g[i] PROVE q.end \in Nat /\ i <= q.end
        <4>1. PICK p \in PairAt(u, i) : q = p \/ q \in g[p.end + 1]
          BY <1>3
        <4>2. p.end + 1 \in i + 1 .. N /\ p.end \in Nat /\ i <= p.end
          BY <1>4, <1>6
        <4>3. CASE q \in g[p.end + 1]
          <5>1. q.end \in Nat /\ p.end + 1 <= q.end
            BY <2>1, <4>2, <4>3
          <5>2. QED
            BY <4>2, <5>1
        <4>4. QED
          BY <4>1, <4>2, <4>3
      <3>2. QED
        BY <3>1
    <2> HIDE DEF E
    <2>2. QED
      BY <1>1, <2>1, DownwardInduction
  <1>8. \A i \in 1 .. M : i \in A
    <2>1. ASSUME NEW i \in 1 .. M, \A j \in i + 1 .. M : j \in A PROVE i \in A
      <3>1. ASSUME NEW q \in f[i] PROVE q \in g[i]
        <4>1. PICK p \in PairAt(s, i) : q = p \/ q \in f[p.end + 1]
          BY <1>2
        <4>2. p \in PairAt(u, i) /\ p.end + 1 \in i + 1 .. M
          BY <1>4, <1>5
        <4>3. q = p \/ q \in g[p.end + 1]
          BY <2>1, <4>1, <4>2
        <4>4. QED
          BY <1>3, <1>5, <4>2, <4>3
      <3>2. ASSUME NEW q \in g[i], q.end <= Len(s) PROVE q \in f[i]
        <4>1. PICK p \in PairAt(u, i) : q = p \/ q \in g[p.end + 1]
          BY <1>3, <1>5
        <4>2. p.end <= Len(s)
          <5>1. CASE q = p
            BY <3>2, <5>1
          <5>2. CASE q \in g[p.end + 1]
            <6>1. p.end + 1 \in 1 .. N /\ p.end \in Nat /\ Len(s) \in Nat
              BY <1>4, <1>5, <1>6
            <6>2. q.end \in Nat /\ p.end + 1 <= q.end
              BY <1>7, <5>2, <6>1
            <6>3. QED
              BY <3>2, <6>1, <6>2
          <5>3. QED
            BY <4>1, <5>1, <5>2
        <4>3. p \in PairAt(s, i) /\ p.end + 1 \in i + 1 .. M
          BY <1>4, <1>5, <4>2
        <4>4. q = p \/ q \in f[p.end + 1]
          BY <2>1, <3>2, <4>1, <4>3
        <4>5. QED
          BY <1>2, <4>3, <4>4
      <3>3. QED
        BY <3>1, <3>2
    <2> HIDE DEF A
    <2>2. QED
      BY <1>1, <2>1, DownwardInduction
  <1>9. 1 \in 1 .. M
    BY <1>1
  <1>10. QED
    BY <1>2, <1>3, <1>8, <1>9

\* par[name] of what follows a prefix that has the name is the prefix's.
LEMMA ParOfPrefix ==
  ASSUME NEW s \in Seq(Symbols), NEW t \in Seq(Symbols), NEW u, u = s \o t, NEW x, NEW v,
         \A p \in SplitParams(s) : p.name = <<x>> => p.value = v,
         \E p \in SplitParams(s) : p.name = <<x>>
  PROVE  Par(u, x) = v
  <1> DEFINE named == {p \in SplitParams(u) : p.name = <<x>>}
             First(p) == \A q \in named : p.end <= q.end
             p0 == CHOOSE p \in named : First(p)
             E == {p.end : p \in named}
  <1>1. u \in Seq(Symbols)
    BY CatIs
  <1>2. \A p \in named : p.end \in Nat
    <2>1. ASSUME NEW p \in SplitParams(u), p.name = <<x>> PROVE p.end \in Nat
      <3>1. PICK i \in Nat, amp \in Nat : PairNamed(u, x, p, i, amp)
        BY <1>1, <2>1, NamedPair
      <3>2. QED
        BY <3>1 DEF PairNamed
    <2>2. QED
      BY <2>1
  <1>3. /\ SplitParams(s) \subseteq SplitParams(u)
        /\ \A q \in SplitParams(u) : q.end <= Len(s) => q \in SplitParams(s)
    BY SplitOfPrefix
  <1>4. PICK w \in SplitParams(s) : w.name = <<x>>
    OBVIOUS
  <1>5. w \in named /\ w.end <= Len(s) /\ Len(s) \in Nat
    <2>1. PICK i \in Nat, amp \in Nat : PairNamed(s, x, w, i, amp)
      BY <1>4, NamedPair
    <2>2. QED
      BY <1>3, <1>4, <2>1 DEF PairNamed
  <1>6. Par(u, x) = IF named = {} THEN <<>> ELSE p0.value
    BY Zenon DEF Par
  <1>7. \E p \in named : First(p)
    <2>1. E \in SUBSET Nat /\ E # {}
      BY <1>2, <1>5
    <2>2. PICK m \in E : \A k \in E : m <= k
      <3> HIDE DEF E
      <3>1. QED
        BY <2>1, LeastNumber
    <2>3. PICK p \in named : p.end = m
      BY <2>2
    <2>4. \A q \in named : q.end \in E
      OBVIOUS
    <2>5. QED
      BY <2>2, <2>3, <2>4
  <1>8. p0 \in named /\ First(p0)
    <2> HIDE DEF First, named
    <2>1. QED
      BY <1>7
  <1> HIDE DEF p0
  <1>9. p0.end <= Len(s)
    <2>1. p0.end <= w.end /\ p0.end \in Nat /\ w.end \in Nat
      BY <1>2, <1>5, <1>8
    <2>2. QED
      BY <1>5, <2>1
  <1>10. p0 \in SplitParams(s) /\ p0.name = <<x>>
    BY <1>3, <1>8, <1>9
  <1>11. QED
    BY <1>5, <1>6, <1>10

\* Both parameters that came whole are found, whatever is read behind them.
LEMMA BothKept ==
  ASSUME NEW uri, NEW rest \in Rests, NEW d \in Seq(Symbols), PartOf(d, Reply(uri, rest)),
         HasBoth(d, Token(uri)), NEW j \in Seq(Symbols)
  PROVE  /\ Par(d \o j, "oauth_token") = Token(uri)
         /\ Par(d \o j, "oauth_token_secret") = Token(uri)
  <1> DEFINE v == Token(uri)
             R == Reply(uri, rest)
             L == Len(v)
  <1>1. Value(v)
    BY TokenIs
  <1>2. R \in Seq(Symbols) /\ PairOf(R, "oauth_token", v, 1) /\ PairOf(R, "oauth_token_secret", v, 4 + L)
    BY ReplyIs
  <1>3. PICK n : PartAt(d, R, n)
    <2>1. PICK n \in 0 .. Len(R) : \A i \in 1 .. Len(d) : n + i <= Len(R) /\ d[i] = R[n + i]
      BY Zenon DEF PartOf
    <2>2. n \in Nat
      BY <1>2
    <2>3. QED
      BY <2>1, <2>2 DEF PartAt
  <1>4. Par(d, "oauth_token") = v /\ Par(d, "oauth_token_secret") = v /\ v # <<>>
    BY <1>1, BothIff DEF Value
  <1> HIDE DEF v, R, L
  <1>5. ASSUME NEW x, Par(d, x) = v, NEW b, PairOf(R, x, v, b)
        PROVE  Par(d \o j, x) = v
    <2>1. \A p \in SplitParams(d) : p.name = <<x>> => p.value = v
      BY <1>1, <1>2, <1>3, <1>5, ChunkPair
    <2>2. \E p \in SplitParams(d) : p.name = <<x>>
      BY <1>4, <1>5 DEF Par
    <2>3. QED
      BY <2>1, <2>2, ParOfPrefix
  <1>6. QED
    BY <1>2, <1>4, <1>5 DEF v

-----------------------------------------------------------------------------
(* The requester. *)

LEMMA AuthConstants ==
  /\ "request_token" \in AuthUris /\ "access_token" \in AuthUris
  /\ AuthUris \subseteq Uris /\ {<<>>, RequestToken, AccessToken} \subseteq Tokens
  BY AuthAssumption DEF AuthUris

LEMMA AuthNone == None \notin Tokens /\ None \notin Pins
  BY AuthAssumption

\* What the server grants of a signed GET.
LEMMA AuthGrants ==
  ASSUME NEW r \in Requester, NEW uri \in Uris, NEW g, NEW w,
         g = GenRequestSignature(r, "GET", uri), w = GetWire(g, uri)
  PROVE  /\ w \in Wire /\ w.uri = uri
         /\ Granted(w) <=> /\ r.params.token = RequestToken /\ r.secret = r.params.token
                           /\ r.params.verifier # None
  <1>1. /\ g \in Requester /\ g.params = Unsigned(r).params
        /\ g.signature = [method |-> "GET", uri |-> uri, params |-> g.params, key |-> r.secret]
    <2>1. "GET" \in Methods
      BY DEF Methods
    <2>2. /\ g \in Requester /\ g.params = Unsigned(r).params /\ g.secret = r.secret
          /\ g.signature =
               [method |-> "GET", uri |-> uri, params |-> g.params, key |-> g.secret]
      BY <2>1, SigningEffect
    <2>3. QED
      BY <2>2
  <1>2. g.params.token = r.params.token /\ g.params.verifier = r.params.verifier
    BY <1>1, UnsignedEffect
  <1>3. /\ w.method = "GET" /\ w.uri = uri /\ w.params = g.params /\ w.body = None
        /\ w.signature = g.signature
    BY DEF GetWire
  <1>4. w \in Wire
    BY <1>1 DEF GetWire, Wire, Methods, Requester
  <1>5. Verifies(w) <=> r.secret = r.params.token
    <2> DEFINE sig(key) == [method |-> "GET", uri |-> uri, params |-> g.params, key |-> key]
    <2>1. Verifies(w) <=> w.signature = sig(r.params.token)
      BY <1>2, <1>3 DEF Verifies
    <2>2. \A k, l : sig(k) = sig(l) => k = l
      <3>1. \A k : sig(k).key = k
        OBVIOUS
      <3>2. QED
        BY <3>1
    <2>3. w.signature = sig(r.secret)
      BY <1>1, <1>3
    <2> HIDE DEF sig
    <2>4. QED
      BY <2>1, <2>2, <2>3
  <1>6. QED
    BY <1>2, <1>3, <1>4, <1>5 DEF Granted

LEMMA AuthorizedIs ==
  ASSUME NEW data, NEW pin \in Pins, req \in Requester, NEW r, r = Authorized(data, pin),
         Par(data, "oauth_token") \in Tokens,
         Par(data, "oauth_token_secret") \in Tokens
  PROVE  /\ r \in Requester /\ r.params.token = Par(data, "oauth_token")
         /\ r.secret = Par(data, "oauth_token_secret") /\ r.params.verifier = pin
  <1> DEFINE t == Par(data, "oauth_token")
             k == Par(data, "oauth_token_secret")
             p == [req.params EXCEPT !.token = t]
             q == [p EXCEPT !.verifier = pin]
             s == SetToken(req, t, k)
  <1>1. t \in Tokens /\ k \in Tokens
    OBVIOUS
  <1>2. r = SetPinNumber(s, pin)
    BY DEF Authorized
  <1> HIDE DEF t, k
  <1>3. req.params \in Params
    BY DEF Requester
  <1>4. p \in Params /\ p.token = t
    BY <1>1, <1>3 DEF Params
  <1>5. q \in Params /\ q.token = t /\ q.verifier = pin
    <2> HIDE DEF p
    <2>1. QED
      BY <1>4 DEF Params
  <1>6. s = [req EXCEPT !.params = p, !.secret = k]
    BY DEF SetToken
  <1> HIDE DEF s
  <1>7. r = [s EXCEPT !.params = [s.params EXCEPT !.verifier = pin]]
    BY <1>2 DEF SetPinNumber
  <1> HIDE DEF p
  <1>8. s \in Requester /\ s.params = p /\ s.secret = k
    BY <1>1, <1>4, <1>6 DEF Requester
  <1>9. r = [s EXCEPT !.params = q]
    BY <1>7, <1>8
  <1> HIDE DEF q
  <1>10. r \in Requester /\ r.params = q /\ r.secret = k
    BY <1>5, <1>8, <1>9 DEF Requester
  <1>11. QED
    BY <1>5, <1>10 DEF t, k

-----------------------------------------------------------------------------
(* The flow. *)

AuthClient == [uri : AuthUris, chunks : Seq(Seq(Symbols))]

Call == [data : Seq(Symbols), received : Seq(Symbols), over : BOOLEAN]

PrintedPair == [token : Tokens, secret : Tokens, from : Call]

ChunkOf(chunk, uri) == \E chunks \in Replies[uri] : \E j \in DOMAIN chunks : chunk = chunks[j]

\* What a client has still to call back with are chunks of a reply to it.
InParts(cs) ==
  \A c \in 1 .. Len(cs) : \A i \in 1 .. Len(cs[c].chunks) : ChunkOf(cs[c].chunks[i], cs[c].uri)

\* What the request w must be if the callback it comes from is call.
GrantedBy(w, call) ==
  w.uri = "access_token" =>
    /\ HasBoth(call.received, RequestToken) => Granted(w)
    /\ Granted(w) => HasBoth(call.received, RequestToken) \/ call.over

GrantedIn(requests, causes) ==
  \A i \in 1 .. Len(requests) : GrantedBy(requests[i], causes[i])

TrulyPrinted(pair) ==
  \/ {pair.token, pair.secret} \subseteq {<<>>, AccessToken}
  \/ pair.from.over /\ ~HasBoth(pair.from.received, AccessToken)

PrintedIn(pairs) == \A i \in 1 .. Len(pairs) : TrulyPrinted(pairs[i])

RequestsInv(requests, causes) ==
  /\ requests \in Seq(Wire) /\ causes \in Seq(Call) /\ Len(causes) = Len(requests)
  /\ GrantedIn(requests, causes)

ClientsInv(cs) == cs \in Seq(AuthClient) /\ InParts(cs)

AuthInv ==
  /\ main \in {"starting", "running", "returned", "failed"}
  /\ req \in Requester
  /\ ClientsInv(clients)
  /\ RequestsInv(sent, cause)
  /\ printed \in Seq(PrintedPair) /\ PrintedIn(printed)

\* What the parameters of a callback are, where those of the whole reply are v.
CallSound(call, v) ==
  LET t == Par(call.data, "oauth_token")
      k == Par(call.data, "oauth_token_secret")
  IN /\ call \in Call
     /\ t \in Tokens /\ k \in Tokens
     /\ HasBoth(call.received, v) => t = v /\ k = v
     /\ ~call.over => /\ {t, k} \subseteq {<<>>, v}
                      /\ t = v /\ k = v => HasBoth(call.received, v)

LEMMA PartOfPart ==
  ASSUME NEW s \in Seq(Symbols), NEW t \in Seq(Symbols), PartOf(s, t), NEW n \in 0 .. Len(s)
  PROVE  SubSeq(s, 1, n) \in Seq(Symbols) /\ PartOf(SubSeq(s, 1, n), t)
  <1> DEFINE d == SubSeq(s, 1, n)
  <1>1. d \in Seq(Symbols) /\ Len(d) = n /\ \A i \in 1 .. n : d[i] = s[i] /\ i \in 1 .. Len(s)
    OBVIOUS
  <1>2. PICK m \in 0 .. Len(t) : \A i \in 1 .. Len(s) : m + i <= Len(t) /\ s[i] = t[m + i]
    BY Zenon DEF PartOf
  <1> HIDE DEF d
  <1>3. \A i \in 1 .. Len(d) : m + i <= Len(t) /\ d[i] = t[m + i]
    BY <1>1, <1>2
  <1>4. PartOf(d, t)
    BY <1>3, Zenon DEF PartOf
  <1>5. QED
    BY <1>1, <1>4 DEF d

LEMMA ChunkIs ==
  ASSUME NEW uri \in AuthUris, NEW chunk, ChunkOf(chunk, uri)
  PROVE  /\ chunk \in Seq(Symbols)
         /\ \E rest \in Rests : PartOf(chunk, Reply(uri, rest))
         /\ \A call \in Overread(chunk) : \A name \in Names : Par(call.data, name) \in Tokens
  <1>1. PICK chunks \in Replies[uri] : \E j \in DOMAIN chunks : chunk = chunks[j]
    BY Zenon DEF ChunkOf
  <1>2. PICK j \in DOMAIN chunks : chunk = chunks[j]
    BY <1>1
  <1>3. chunks \in Seq(Seq(Symbols))
    <2>1. Replies[uri] \in SUBSET Seq(Seq(Symbols))
      BY AuthAssumption
    <2>2. QED
      BY <1>1, <2>1
  <1>4. j \in 1 .. Len(chunks) /\ chunk \in Seq(Symbols)
    BY <1>2, <1>3
  <1>5. \E rest \in Rests : PartOf(chunk, Reply(uri, rest))
    <2>1. PICK rest \in Rests : \A i \in 1 .. Len(chunks) : PartOf(chunks[i], Reply(uri, rest))
      BY <1>1, ReplyAssumption, Zenon
    <2>2. QED
      BY <1>2, <1>4, <2>1, Zenon
  <1>6. \A call \in Overread(chunk) : \A name \in Names : Par(call.data, name) \in Tokens
    BY <1>1, <1>2, TokensAssumption, Zenon
  <1>7. QED
    BY <1>4, <1>5, <1>6

LEMMA CallIs ==
  ASSUME NEW uri \in AuthUris, NEW chunk, ChunkOf(chunk, uri), NEW call \in Calls(chunk)
  PROVE  CallSound(call, Token(uri))
  <1> DEFINE v == Token(uri)
  <1>1. /\ chunk \in Seq(Symbols)
        /\ \A l \in Overread(chunk) : \A name \in Names : Par(l.data, name) \in Tokens
    BY ChunkIs
  <1>2. PICK rest \in Rests : PartOf(chunk, Reply(uri, rest))
    BY ChunkIs
  <1>3. Token(uri) \in Tokens /\ <<>> \in Tokens
    BY AuthConstants DEF Token
  <1>4. {"oauth_token", "oauth_token_secret"} = Names
    BY DEF Names
  <1>5. CASE call = WholeCall(chunk)
    <2>1. call \in Call /\ call.data = chunk /\ call.received = chunk /\ ~call.over
      BY <1>1, <1>5 DEF WholeCall, Call
    <2>2. /\ Par(chunk, "oauth_token") \in {<<>>, v}
          /\ Par(chunk, "oauth_token_secret") \in {<<>>, v}
          /\ HasBoth(chunk, v) <=>
               /\ Par(chunk, "oauth_token") = v
               /\ Par(chunk, "oauth_token_secret") = v
      BY <1>1, <1>2, BothIff
    <2> HIDE DEF v
    <2>3. v \in Tokens
      BY <1>3 DEF v
    <2>4. CallSound(call, v)
      BY <1>3, <2>1, <2>2, <2>3 DEF CallSound
    <2>5. QED
      BY <2>4 DEF v
  <1>6. CASE call \in Overread(chunk)
    <2>1. PICK n \in 0 .. Len(chunk), junk \in Junk :
            call = [data |-> SubSeq(chunk, 1, n) \o junk, received |-> SubSeq(chunk, 1, n),
                    over |-> TRUE]
      BY <1>6 DEF Overread
    <2> DEFINE d == SubSeq(chunk, 1, n)
    <2>2. Reply(uri, rest) \in Seq(Symbols)
      BY ReplyIs
    <2>3. d \in Seq(Symbols) /\ PartOf(d, Reply(uri, rest))
      BY <1>1, <1>2, <2>2, PartOfPart
    <2>4. junk \in Seq(Symbols)
      BY AuthAssumption
    <2> HIDE DEF d, v
    <2>5. call = [data |-> d \o junk, received |-> d, over |-> TRUE]
      BY <2>1 DEF d
    <2>6. d \o junk \in Seq(Symbols)
      BY <2>3, <2>4, CatIs
    <2>7. call \in Call /\ call.data = d \o junk /\ call.received = d /\ call.over
      BY <2>3, <2>5, <2>6 DEF Call
    <2>8. HasBoth(d, v) => /\ Par(d \o junk, "oauth_token") = v
                           /\ Par(d \o junk, "oauth_token_secret") = v
      BY <2>3, <2>4, BothKept DEF v
    <2>9. /\ Par(call.data, "oauth_token") \in Tokens
          /\ Par(call.data, "oauth_token_secret") \in Tokens
      BY <1>1, <1>4, <1>6
    <2>10. CallSound(call, v)
      BY <2>7, <2>8, <2>9 DEF CallSound
    <2>11. QED
      BY <2>10 DEF v
  <1>7. QED
    BY <1>5, <1>6 DEF Calls

AppendIs(s, x, t) ==
  /\ Len(t) = Len(s) + 1 /\ t[Len(s) + 1] = x /\ \A i \in 1 .. Len(s) : t[i] = s[i]
  /\ \A i \in 1 .. Len(t) : i \in 1 .. Len(s) \/ i = Len(s) + 1

LEMMA Appended ==
  ASSUME NEW T, NEW s \in Seq(T), NEW x \in T
  PROVE  Append(s, x) \in Seq(T) /\ AppendIs(s, x, Append(s, x))
  BY DEF AppendIs

LEMMA ChunkCalled ==
  ASSUME ClientsInv(clients), NEW c \in 1 .. Len(clients), clients[c].chunks # <<>>
  PROVE  clients[c].uri \in AuthUris /\ ChunkOf(Head(clients[c].chunks), clients[c].uri)
  <1> DEFINE k == clients[c].chunks
  <1>1. clients[c] \in AuthClient
    BY DEF ClientsInv
  <1>2. k \in Seq(Seq(Symbols)) /\ k # <<>> /\ clients[c].uri \in AuthUris
    BY <1>1 DEF AuthClient
  <1>3. \A i \in 1 .. Len(k) : ChunkOf(k[i], clients[c].uri)
    BY DEF ClientsInv, InParts
  <1> HIDE DEF k
  <1>4. Head(k) = k[1] /\ 1 \in 1 .. Len(k)
    BY <1>2
  <1>5. QED
    BY <1>2, <1>3, <1>4 DEF k

LEMMA ClientsKept ==
  ASSUME ClientsInv(clients), NEW c \in 1 .. Len(clients), clients[c].chunks # <<>>
  PROVE  /\ \A call : ClientsInv(Taken(c, call))
         /\ ClientsInv([clients EXCEPT ![c].chunks = <<>>])
  <1> DEFINE k == clients[c].chunks
  <1>1. clients \in Seq(AuthClient) /\ clients[c] \in AuthClient
    BY DEF ClientsInv
  <1>2. k \in Seq(Seq(Symbols)) /\ k # <<>>
    BY <1>1 DEF AuthClient
  <1>3. Tail(k) \in Seq(Seq(Symbols)) /\ \A i \in 1 .. Len(Tail(k)) : Tail(k)[i] = k[i + 1]
                                                                 /\ i + 1 \in 1 .. Len(k)
    BY <1>2, SMTT(30)
  <1>4. ASSUME NEW l \in Seq(Seq(Symbols)), NEW cs, cs = [clients EXCEPT ![c].chunks = l],
               \A i \in 1 .. Len(l) : \E j \in 1 .. Len(k) : l[i] = k[j]
        PROVE  ClientsInv(cs)
    <2> DEFINE x == [clients[c] EXCEPT !.chunks = l]
    <2>1. x \in AuthClient /\ x.uri = clients[c].uri /\ x.chunks = l
      BY <1>1 DEF AuthClient
    <2>2. cs = [clients EXCEPT ![c] = x]
      BY <1>4
    <2> HIDE DEF x, k
    <2>3. /\ cs \in Seq(AuthClient) /\ Len(cs) = Len(clients) /\ cs[c] = x
          /\ \A d \in 1 .. Len(cs) : d # c => cs[d] = clients[d]
      BY <1>1, <2>1, <2>2
    <2>4. ASSUME NEW d \in 1 .. Len(cs), NEW i \in 1 .. Len(cs[d].chunks)
          PROVE  ChunkOf(cs[d].chunks[i], cs[d].uri)
      <3>1. \A j \in 1 .. Len(clients[d].chunks) : ChunkOf(clients[d].chunks[j], clients[d].uri)
        BY <2>3 DEF ClientsInv, InParts
      <3>2. CASE d # c
        BY <2>3, <3>1, <3>2
      <3>3. CASE d = c
        <4>1. \A j \in 1 .. Len(k) : ChunkOf(k[j], clients[c].uri)
          BY <3>1, <3>3 DEF k
        <4>2. cs[d].chunks = l /\ cs[d].uri = clients[c].uri
          BY <2>1, <2>3, <3>3
        <4>3. PICK j \in 1 .. Len(k) : l[i] = k[j]
          BY <1>4, <4>2
        <4>4. QED
          BY <4>1, <4>2, <4>3
      <3>4. QED
        BY <3>2, <3>3
    <2>5. QED
      BY <2>3, <2>4 DEF ClientsInv, InParts
  <1>5. ClientsInv([clients EXCEPT ![c].chunks = Tail(k)])
    <2> HIDE DEF k
    <2>1. QED
      BY <1>3, <1>4
  <1>6. ClientsInv([clients EXCEPT ![c].chunks = <<>>])
    <2>1. <<>> \in Seq(Seq(Symbols)) /\ Len(<<>>) = 0
      OBVIOUS
    <2> HIDE DEF k
    <2>2. \A i \in 1 .. Len(<<>>) : \E j \in 1 .. Len(k) : <<>>[i] = k[j]
      BY <2>1
    <2>3. QED
      BY <1>4, <2>1, <2>2
  <1>7. ASSUME NEW call PROVE ClientsInv(Taken(c, call))
    <2>1. CASE call.over
      <3>1. Taken(c, call) = [clients EXCEPT ![c].chunks = <<>>]
        BY <2>1 DEF Taken
      <3>2. QED
        BY <1>6, <3>1
    <2>2. CASE ~call.over
      <3>1. Taken(c, call) = [clients EXCEPT ![c].chunks = Tail(k)]
        BY <2>2 DEF Taken
      <3>2. QED
        BY <1>5, <3>1
    <2>3. QED
      BY <2>1, <2>2
  <1>8. QED
    BY <1>6, <1>7

\* A request, made of the requester r in the callback call.
LEMMA AskStep ==
  ASSUME AuthInv, NEW cs, ClientsInv(cs), NEW r \in Requester,
         NEW uri \in AuthUris, NEW call \in Call, NEW good \in BOOLEAN,
         good <=> /\ r.params.token = RequestToken /\ r.secret = r.params.token
                  /\ r.params.verifier # None,
         uri = "access_token" => /\ HasBoth(call.received, RequestToken) => good
                                 /\ good => HasBoth(call.received, RequestToken) \/ call.over,
         Ask(cs, r, uri, call), printed' = printed
  PROVE  AuthInv'
  <1>1. CASE /\ main' = "running"
             /\ req' = GenRequestSignature(r, "GET", uri)
             /\ sent' = Append(sent, GetWire(req', uri))
             /\ cause' = Append(cause, call)
             /\ \E chunks \in Replies[uri] : clients' = Append(cs, [uri |-> uri, chunks |-> chunks])
    <2> DEFINE w == GetWire(req', uri)
    <2>1. w \in Wire /\ w.uri = uri /\ (Granted(w) <=> good)
      BY <1>1, AuthConstants, AuthGrants
    <2>2. req' \in Requester
      BY <1>1, AuthConstants, SigningEffect DEF Methods
    <2> HIDE DEF w
    <2>3. ClientsInv(clients')
      <3>1. PICK chunks \in Replies[uri] : clients' = Append(cs, [uri |-> uri, chunks |-> chunks])
        BY <1>1
      <3> DEFINE x == [uri |-> uri, chunks |-> chunks]
      <3>2. chunks \in Seq(Seq(Symbols))
        <4>1. Replies[uri] \in SUBSET Seq(Seq(Symbols))
          BY AuthAssumption
        <4>2. QED
          BY <3>1, <4>1
      <3>3. x \in AuthClient /\ x.uri = uri /\ x.chunks = chunks
        BY <3>2 DEF AuthClient
      <3>4. \A i \in 1 .. Len(x.chunks) : ChunkOf(x.chunks[i], x.uri)
        <4>1. \A i \in 1 .. Len(chunks) : i \in DOMAIN chunks
          BY <3>2
        <4>2. QED
          BY <3>1, <3>3, <4>1 DEF ChunkOf
      <3>5. clients' = Append(cs, x)
        BY <3>1
      <3> HIDE DEF x
      <3>6. cs \in Seq(AuthClient)
        BY DEF ClientsInv
      <3>7. clients' \in Seq(AuthClient) /\ AppendIs(cs, x, clients')
        BY <3>3, <3>5, <3>6, Appended
      <3>8. ASSUME NEW c \in 1 .. Len(clients')
            PROVE  \A i \in 1 .. Len(clients'[c].chunks) :
                     ChunkOf(clients'[c].chunks[i], clients'[c].uri)
        <4>1. CASE c \in 1 .. Len(cs)
          <5>1. clients'[c] = cs[c]
            BY <3>7, <4>1 DEF AppendIs
          <5>2. QED
            BY <4>1, <5>1 DEF ClientsInv, InParts
        <4>2. CASE clients'[c] = x
          BY <3>4, <4>2
        <4>3. QED
          BY <3>7, <4>1, <4>2 DEF AppendIs
      <3>9. QED
        BY <3>7, <3>8 DEF ClientsInv, InParts
    <2>4. RequestsInv(sent', cause')
      <3>1. /\ sent \in Seq(Wire) /\ cause \in Seq(Call) /\ Len(cause) = Len(sent)
            /\ GrantedIn(sent, cause)
        BY DEF AuthInv, RequestsInv
      <3>2. sent' = Append(sent, w) /\ cause' = Append(cause, call)
        BY <1>1 DEF w
      <3>3. sent' \in Seq(Wire) /\ AppendIs(sent, w, sent')
        BY <2>1, <3>1, <3>2, Appended
      <3>4. cause' \in Seq(Call) /\ AppendIs(cause, call, cause')
        BY <3>1, <3>2, Appended
      <3>5. GrantedBy(w, call)
        BY <2>1 DEF GrantedBy
      <3>6. ASSUME NEW i \in 1 .. Len(sent') PROVE GrantedBy(sent'[i], cause'[i])
        <4>1. CASE i \in 1 .. Len(sent)
          <5>1. sent'[i] = sent[i] /\ cause'[i] = cause[i]
            BY <3>1, <3>3, <3>4, <4>1 DEF AppendIs
          <5>2. QED
            BY <3>1, <4>1, <5>1 DEF GrantedIn
        <4>2. CASE i = Len(sent) + 1
          <5>1. sent'[i] = w /\ cause'[i] = call
            BY <3>1, <3>3, <3>4, <4>2 DEF AppendIs
          <5>2. QED
            BY <3>5, <5>1
        <4>3. QED
          BY <3>3, <4>1, <4>2 DEF AppendIs
      <3>7. Len(cause') = Len(sent')
        BY <3>1, <3>3, <3>4 DEF AppendIs
      <3>8. QED
        BY <3>3, <3>4, <3>6, <3>7 DEF RequestsInv, GrantedIn
    <2>5. QED
      BY <1>1, <2>2, <2>3, <2>4 DEF AuthInv
  <1>2. CASE /\ main' = "failed"
             /\ req' \in {r, Unsigned(r)}
             /\ clients' = cs
             /\ sent' = sent /\ cause' = cause
    BY <1>2, UnsignedEffect DEF AuthInv
  <1>3. QED
    BY <1>1, <1>2 DEF Ask

\* A client that still calls back.
LEMMA PendingIs ==
  ASSUME AuthInv, NEW uri, NEW c \in Pending(uri), NEW call \in Calls(Head(clients[c].chunks))
  PROVE  CallSound(call, Token(uri)) /\ ClientsInv(Taken(c, call))
  <1>1. ClientsInv(clients) /\ clients \in Seq(AuthClient)
    BY DEF AuthInv, ClientsInv
  <1>2. c \in DOMAIN clients /\ clients[c].uri = uri /\ clients[c].chunks # <<>>
    BY DEF Pending
  <1>3. c \in 1 .. Len(clients)
    BY <1>1, <1>2
  <1>4. uri \in AuthUris /\ ChunkOf(Head(clients[c].chunks), uri)
    BY <1>1, <1>2, <1>3, ChunkCalled
  <1>5. CallSound(call, Token(uri))
    BY <1>4, CallIs
  <1>6. QED
    BY <1>1, <1>2, <1>3, <1>5, ClientsKept

LEMMA InitialAuthStep ==
  ASSUME AuthInv, DoInitialAuth
  PROVE  AuthInv'
  <1> DEFINE r == GenRequestSignature(req, "GET", "request_token")
             uri == "request_token"
  <1>1. req \in Requester /\ ClientsInv(clients) /\ uri \in AuthUris
    BY AuthConstants DEF AuthInv
  <1>2. r \in Requester
    BY <1>1, AuthConstants, SigningEffect DEF Methods
  <1>3. Ask(clients, r, uri, WholeCall(<<>>)) /\ printed' = printed /\ uri # "access_token"
    BY DEF DoInitialAuth
  <1>4. WholeCall(<<>>) \in Call
    BY DEF WholeCall, Call
  <1> HIDE DEF r, uri
  <1> DEFINE good == /\ r.params.token = RequestToken /\ r.secret = r.params.token
                     /\ r.params.verifier # None
  <1>5. good \in BOOLEAN
    OBVIOUS
  <1>6. QED
    BY <1>1, <1>2, <1>3, <1>4, <1>5, AskStep

LEMMA AuthReqStep ==
  ASSUME AuthInv, AuthReqHandler
  PROVE  AuthInv'
  <1>1. PICK c \in Pending("request_token"), pin \in Pins :
          \E call \in Calls(Head(clients[c].chunks)) :
            Ask(Taken(c, call), Authorized(call.data, pin), "access_token", call)
    BY Zenon DEF AuthReqHandler
  <1>2. PICK call \in Calls(Head(clients[c].chunks)) :
          Ask(Taken(c, call), Authorized(call.data, pin), "access_token", call)
    BY <1>1
  <1> DEFINE r == Authorized(call.data, pin)
             uri == "access_token"
             t == Par(call.data, "oauth_token")
             k == Par(call.data, "oauth_token_secret")
             good == /\ r.params.token = RequestToken /\ r.secret = r.params.token
                     /\ r.params.verifier # None
  <1>3. Token("request_token") = RequestToken
    BY DEF Token
  <1>4. CallSound(call, RequestToken) /\ ClientsInv(Taken(c, call))
    BY <1>3, PendingIs
  <1>5. /\ call \in Call /\ t \in Tokens /\ k \in Tokens
        /\ HasBoth(call.received, RequestToken) => t = RequestToken /\ k = RequestToken
        /\ ~call.over /\ t = RequestToken /\ k = RequestToken =>
             HasBoth(call.received, RequestToken)
    BY <1>4 DEF CallSound
  <1>6. req \in Requester
    BY DEF AuthInv
  <1>7. r \in Requester /\ r.params.token = t /\ r.secret = k /\ r.params.verifier = pin
    BY <1>5, <1>6, AuthorizedIs
  <1>8. pin # None
    BY AuthNone
  <1>9. Ask(Taken(c, call), r, uri, call)
    BY <1>2
  <1>10. uri \in AuthUris
    BY AuthConstants
  <1>11. printed' = printed
    BY DEF AuthReqHandler
  <1>12. call.over \in BOOLEAN
    BY <1>5 DEF Call
  <1> HIDE DEF r, uri, t, k
  <1>13. good \in BOOLEAN
    OBVIOUS
  <1>14. good <=> t = RequestToken /\ k = RequestToken
    BY <1>7, <1>8
  <1> DEFINE whole == HasBoth(call.received, RequestToken)
  <1>15. (whole => good) /\ (good => whole \/ call.over)
    BY <1>5, <1>12, <1>14, Zenon
  <1>16. QED
    BY <1>4, <1>5, <1>7, <1>9, <1>10, <1>11, <1>13, <1>15, AskStep

LEMMA AuthPinStep ==
  ASSUME AuthInv, AuthPinHandler
  PROVE  AuthInv'
  <1>1. PICK c \in Pending("access_token") :
          \E call \in Calls(Head(clients[c].chunks)) :
            /\ printed' = Append(printed, [token  |-> Par(call.data, "oauth_token"),
                                           secret |-> Par(call.data, "oauth_token_secret"),
                                           from   |-> call])
            /\ clients' = Taken(c, call)
    BY Zenon DEF AuthPinHandler
  <1>2. PICK call \in Calls(Head(clients[c].chunks)) :
          /\ printed' = Append(printed, [token  |-> Par(call.data, "oauth_token"),
                                         secret |-> Par(call.data, "oauth_token_secret"),
                                         from   |-> call])
          /\ clients' = Taken(c, call)
    BY <1>1
  <1> DEFINE t == Par(call.data, "oauth_token")
             k == Par(call.data, "oauth_token_secret")
             x == [token |-> t, secret |-> k, from |-> call]
  <1>3. Token("access_token") = AccessToken
    BY DEF Token
  <1>4. CallSound(call, AccessToken) /\ ClientsInv(clients')
    BY <1>2, <1>3, PendingIs
  <1>5. /\ call \in Call /\ t \in Tokens /\ k \in Tokens
        /\ HasBoth(call.received, AccessToken) => t = AccessToken /\ k = AccessToken
        /\ ~call.over => {t, k} \subseteq {<<>>, AccessToken}
    BY <1>4 DEF CallSound
  <1>6. printed' = Append(printed, x)
    BY <1>2
  <1> HIDE DEF t, k
  <1>7. x \in PrintedPair /\ x.token = t /\ x.secret = k /\ x.from = call
    BY <1>5 DEF PrintedPair
  <1> HIDE DEF x
  <1>8. TrulyPrinted(x)
    <2>1. call.over \in BOOLEAN
      BY <1>5 DEF Call
    <2>2. \/ {t, k} \subseteq {<<>>, AccessToken}
          \/ call.over /\ ~HasBoth(call.received, AccessToken)
      BY <1>5, <2>1
    <2>3. QED
      BY <1>7, <2>2 DEF TrulyPrinted
  <1>9. printed \in Seq(PrintedPair) /\ PrintedIn(printed)
    BY DEF AuthInv
  <1>10. printed' \in Seq(PrintedPair) /\ AppendIs(printed, x, printed')
    BY <1>6, <1>7, <1>9, Appended
  <1>11. PrintedIn(printed')
    <2>1. ASSUME NEW i \in 1 .. Len(printed') PROVE TrulyPrinted(printed'[i])
      <3>1. CASE i \in 1 .. Len(printed)
        <4>1. printed'[i] = printed[i]
          BY <1>10, <3>1 DEF AppendIs
        <4>2. QED
          BY <1>9, <3>1, <4>1 DEF PrintedIn
      <3>2. CASE printed'[i] = x
        BY <1>8, <3>2
      <3>3. QED
        BY <1>10, <3>1, <3>2 DEF AppendIs
    <2>2. QED
      BY <2>1 DEF PrintedIn
  <1>12. main' = main /\ req' = req /\ sent' = sent /\ cause' = cause
    BY DEF AuthPinHandler
  <1>13. QED
    BY <1>4, <1>10, <1>11, <1>12 DEF AuthInv

\* The steps that read no chunk.
LEMMA NoDataStep ==
  ASSUME AuthInv, Rejected \/ ServerCloses \/ Return
  PROVE  AuthInv'
  <1>1. req' = req /\ sent' = sent /\ cause' = cause /\ printed' = printed
    BY DEF Rejected, ServerCloses, Return
  <1>2. main' \in {"running", "failed", "returned"}
    BY DEF Rejected, ServerCloses, Return
  <1>3. ClientsInv(clients) /\ DOMAIN clients = 1 .. Len(clients)
    BY DEF AuthInv, ClientsInv
  <1>4. ClientsInv(clients')
    <2>1. CASE Rejected
      <3>1. PICK c \in DOMAIN clients :
              /\ clients[c].chunks # <<>>
              /\ clients' = Taken(c, WholeCall(Head(clients[c].chunks)))
        BY <2>1 DEF Rejected
      <3>2. QED
        BY <1>3, <3>1, ClientsKept
    <2>2. CASE ServerCloses
      <3>1. PICK c \in DOMAIN clients :
              clients[c].chunks # <<>> /\ clients' = [clients EXCEPT ![c].chunks = <<>>]
        BY <2>2 DEF ServerCloses
      <3>2. QED
        BY <1>3, <3>1, ClientsKept
    <2>3. CASE Return
      BY <1>3, <2>3 DEF Return
    <2>4. QED
      BY <2>1, <2>2, <2>3
  <1>5. QED
    BY <1>1, <1>2, <1>4 DEF AuthInv

LEMMA AuthInitEstablishes == AuthInit => AuthInv
  <1> SUFFICES ASSUME AuthInit PROVE AuthInv
    OBVIOUS
  <1>1. /\ main = "starting" /\ req = NewRequester
        /\ clients = <<>> /\ sent = <<>> /\ cause = <<>> /\ printed = <<>>
    BY DEF AuthInit
  <1>2. req \in Requester
    BY <1>1 DEF NewRequester, Requester, Params
  <1>3. ClientsInv(clients)
    BY <1>1 DEF ClientsInv, InParts
  <1>4. RequestsInv(sent, cause)
    BY <1>1 DEF RequestsInv, GrantedIn
  <1>5. printed \in Seq(PrintedPair) /\ PrintedIn(printed)
    BY <1>1 DEF PrintedIn
  <1>6. QED
    BY <1>1, <1>2, <1>3, <1>4, <1>5 DEF AuthInv

LEMMA AuthNextPreserves == AuthInv /\ [AuthNext]_authVars => AuthInv'
  <1> SUFFICES ASSUME AuthInv, [AuthNext]_authVars PROVE AuthInv'
    OBVIOUS
  <1>1. CASE DoInitialAuth
    BY <1>1, InitialAuthStep
  <1>2. CASE AuthReqHandler
    BY <1>2, AuthReqStep
  <1>3. CASE AuthPinHandler
    BY <1>3, AuthPinStep
  <1>4. CASE Rejected \/ ServerCloses \/ Return
    BY <1>4, NoDataStep
  <1>5. CASE UNCHANGED authVars
    BY <1>5 DEF authVars, AuthInv
  <1>6. QED
    BY <1>1, <1>2, <1>3, <1>4, <1>5 DEF AuthNext

THEOREM AuthInvariance == AuthSpec => []AuthInv
  BY AuthInitEstablishes, AuthNextPreserves, PTL DEF AuthSpec

\* A request for the access token is granted if the callback it comes from had received both the
\* token and the secret whole, however the replies are cut and whatever follows the secret, and
\* only then, unless the callback was made of a cut chunk and what is behind that in memory.
THEOREM WholeIsGranted == AuthSpec => []GrantedIffWhole
  <1>1. AuthInv => GrantedIffWhole
    <2> SUFFICES ASSUME AuthInv PROVE GrantedIffWhole
      OBVIOUS
    <2>1. sent \in Seq(Wire) /\ GrantedIn(sent, cause)
      BY DEF AuthInv, RequestsInv
    <2>2. DOMAIN sent = 1 .. Len(sent)
      BY <2>1
    <2>3. QED
      BY <2>1, <2>2, Zenon DEF GrantedIn, GrantedBy, GrantedIffWhole
  <1>2. QED
    BY <1>1, AuthInvariance, PTL

\* What auth_pin_handler prints as a token or as a secret is the one granted, or nothing, save in
\* the callback of a cut chunk that had not received both whole, which reads past its end.
THEOREM GrantedIsPrinted == AuthSpec => []PrintedIsGranted
  <1>1. AuthInv => PrintedIsGranted
    <2> SUFFICES ASSUME AuthInv PROVE PrintedIsGranted
      OBVIOUS
    <2>1. printed \in Seq(PrintedPair) /\ PrintedIn(printed)
      BY DEF AuthInv
    <2>2. DOMAIN printed = 1 .. Len(printed)
      BY <2>1
    <2>3. QED
      BY <2>1, <2>2 DEF PrintedIn, TrulyPrinted, PrintedIsGranted
  <1>2. QED
    BY <1>1, AuthInvariance, PTL

=============================================================================
