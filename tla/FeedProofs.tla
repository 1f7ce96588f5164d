----------------------------- MODULE FeedProofs -----------------------------
(***************************************************************************)
(* What TLAPS proves of TweetStore, for every set of users, names, tweets  *)
(* and replies, and of Feed, for every catalogue of tweets, every way of   *)
(* cutting the stream into chunks and any number of timelines in flight.   *)
(* The stores come first: their inductive invariant adds to the properties *)
(* only that a tweet's id is a key of its store.  Feed implements them, so *)
(* what is proved of them holds of Feed; and there a stale tweet comes only*)
(* of a timeline that a notice overtook, or of what was read behind a cut  *)
(* body, which may be anything and whose ids are in `garbled'.  The        *)
(* invariant that carries this says that the text in transit keeps the     *)
(* order of the server's events: no tweet follows its own notice.  The last*)
(* two theorems follow the text to the stores: but for those ids, what is  *)
(* in transit, in a reply or stored is the server's (NothingMadeUp), and   *)
(* what has been announced and was neither lost nor late is stored         *)
(* (InSyncWhenQuiet).                                                      *)
(***************************************************************************)
EXTENDS Feed, TLAPS

-----------------------------------------------------------------------------
(* TweetStore. *)

TweetIdIsKey == \A s, t \in tweets : s.id = t.id => s = t

IInv == /\ TypeOK
        /\ TweetIdIsKey
        /\ AuthorKnownOrRefused
        /\ WildOnlyAfterCollision
        /\ RetweetKept
        /\ PassedAreStored

-----------------------------------------------------------------------------
(* The stores' operators. *)

\* insert() keeps what is there, and leaves the id known or the screen_name taken by another.
LEMMA InsertUserEffect ==
  ASSUME NEW us \in SUBSET User, NEW u \in User \cup {NoField}
  PROVE  /\ us \subseteq InsertUser(us, u)
         /\ InsertUser(us, u) \subseteq User
         /\ u # NoField => KnownId(InsertUser(us, u), u.id) \/ Collides(us, u)
  <1>1. u = NoField \/ u \in User
    OBVIOUS
  <1>2. QED
    BY <1>1 DEF InsertUser, Collides, KnownId

\* A collision has a witness: the user who holds the name.
LEMMA CollisionWitness ==
  ASSUME NEW us, NEW u, Collides(us, u)
  PROVE  \E v \in us : v.name = u.name /\ v.id # u.id
  BY DEF Collides, NameTaken, KnownId

\* insert() keeps what is there and keeps the id a key; afterwards the id is there.
LEMMA InsertTweetEffect ==
  ASSUME NEW ts \in SUBSET Tweet, NEW t \in Tweet,
         \A r, s \in ts : r.id = s.id => r = s
  PROVE  /\ ts \subseteq InsertTweet(ts, t)
         /\ InsertTweet(ts, t) \subseteq ts \cup {t}
         /\ \A r, s \in InsertTweet(ts, t) : r.id = s.id => r = s
         /\ \E s \in InsertTweet(ts, t) : s.id = t.id
  BY DEF InsertTweet

LEMMA AuthorType ==
  ASSUME NEW o \in TweetJson \cup {NoField}, NEW u \in Author(o)
  PROVE  /\ u \in User \cup {NoField}
         /\ o # NoField /\ o.user # NoField => u \in User /\ u # NoField
  <1>1. CASE o = NoField \/ o.user = NoField
    BY <1>1 DEF Author
  <1>2. CASE ~(o = NoField \/ o.user = NoField)
    BY <1>2, NoFieldAssumption DEF Author, User
  <1>3. QED
    BY <1>1, <1>2

LEMMA CurrentEntity ==
  ASSUME TypeOK, ~Idle
  PROVE  /\ next \in 1 .. Len(response) /\ Len(response) \in Nat
         /\ Current \in Entity
         /\ Current.body \in TweetJson
         /\ Current.rt \in TweetJson \cup {NoField}
  <1>1. next \in 1 .. Len(response) /\ Len(response) \in Nat /\ response \in Seq(Entity)
    BY DEF TypeOK, Idle
  <1>2. Current \in Entity
    BY <1>1 DEF Current
  <1>3. QED
    BY <1>1, <1>2 DEF Entity

\* Printing keeps the flags and finds a dangling author only after a collision.
LEMMA PrintEffect ==
  ASSUME NEW us, NEW authors, PrintTweetsOf(us, authors), TypeOK
  PROVE  /\ alive' \in BOOLEAN /\ wild' \in BOOLEAN
         /\ (wild' \/ ~alive') => wild \/ ~alive \/ \E id \in authors : ~KnownId(us, id)
  <1>1. CASE UNCHANGED <<alive, wild>>
    BY <1>1 DEF TypeOK
  <1>2. CASE wild' = TRUE /\ alive' \in BOOLEAN /\ ~(\A id \in authors : KnownId(us, id))
    BY <1>2
  <1>3. QED
    BY <1>1, <1>2 DEF PrintTweetsOf

-----------------------------------------------------------------------------
(* The constructors and the two insertions of one "text" entity. *)

\* What ProcessTweet's insertions leave, in one place for the conjuncts of the invariant.
LEMMA TweetInsertions ==
  ASSUME IInv, At("tweet"), ProcessTweet
  PROVE  /\ users \subseteq users' /\ users' \subseteq User
         /\ refused \subseteq refused' /\ refused' \subseteq User
         /\ tweets \subseteq tweets' /\ tweets' \subseteq Tweet
         /\ TweetIdIsKey'
         /\ claimed \subseteq claimed' /\ claimed' \subseteq TweetIds
         /\ \A t \in tweets' \ tweets :
              /\ KnownId(users', t.user) \/ \E r \in refused', u \in users' :
                                              r.id = t.user /\ u.name = r.name /\ u.id # r.id
              /\ t.rt # NoField => (\E s \in tweets' : s.id = t.rt) \/ t.rt \in claimed'
         /\ \/ Finish /\ (\E t \in tweets' : t.id = Current.body.id)
                      /\ \E id \in TweetIds : PrintTweetsOf(users', AuthorsOf(tweets', id))
            \/ Throw /\ UNCHANGED <<alive, wild>>
  <1> DEFINE e == Current
             Settled(id) == \/ KnownId(users', id)
                            \/ \E r \in refused', u \in users' :
                                 r.id = id /\ u.name = r.name /\ u.id # r.id
             Claims == ClaimedIn(e.body) \cup ClaimedIn(e.rt)
  <1>1. /\ e.body \in TweetJson /\ e.rt \in TweetJson \cup {NoField}
        /\ users \subseteq User /\ tweets \subseteq Tweet /\ refused \subseteq User
        /\ claimed \subseteq TweetIds
        /\ \A r, s \in tweets : r.id = s.id => r = s
    BY CurrentEntity DEF IInv, TypeOK, TweetIdIsKey, At
  <1>2. PICK author \in Author(e.body), rtAuthor \in Author(e.rt) :
          LET us1 == InsertUser(users, author)
              ts1 == WithRetweet(tweets, e, rtAuthor)
          IN /\ users' = WithAuthors(users, author, rtAuthor)
             /\ refused' = refused \cup {u \in {author} : Collides(users, u)}
                                   \cup {u \in {rtAuthor} : Collides(us1, u)}
             /\ \/ /\ Constructed(e)
                   /\ tweets' = InsertTweet(ts1, [id   |-> e.body.id,
                                                  user |-> author.id,
                                                  rt   |-> RetweetedId(e.body, e.rt)])
                   /\ PrintTweetsOf(users', AuthorsOf(tweets', e.body.id))
                   /\ Finish
                \/ /\ ~Constructed(e)
                   /\ tweets' = ts1
                   /\ Throw
                   /\ UNCHANGED <<alive, wild>>
    BY DEF ProcessTweet
  <1> DEFINE us1   == InsertUser(users, author)
             ts1   == WithRetweet(tweets, e, rtAuthor)
             inner == [id |-> e.rt.id, user |-> rtAuthor.id, rt |-> e.rt.rtId]
             outer == [id |-> e.body.id, user |-> author.id, rt |-> RetweetedId(e.body, e.rt)]
  <1>3. /\ author \in User \cup {NoField} /\ rtAuthor \in User \cup {NoField}
        /\ e.body.user # NoField => author \in User /\ author # NoField
        /\ e.rt # NoField /\ e.rt.user # NoField => rtAuthor \in User /\ rtAuthor # NoField
    <2>1. e.body # NoField
      BY <1>1, NoFieldAssumption
    <2>2. QED
      BY <1>1, <2>1, AuthorType
  <1>4. /\ users \subseteq us1 /\ us1 \subseteq User /\ us1 \subseteq users' /\ users' \subseteq User
        /\ author # NoField => KnownId(us1, author.id) \/ Collides(users, author)
        /\ rtAuthor # NoField => KnownId(users', rtAuthor.id) \/ Collides(us1, rtAuthor)
    <2>1. /\ users \subseteq us1 /\ us1 \subseteq User
          /\ author # NoField => KnownId(us1, author.id) \/ Collides(users, author)
      BY <1>1, <1>3, InsertUserEffect
    <2>2. users' = InsertUser(us1, rtAuthor)
      BY <1>2 DEF WithAuthors
    <2>3. QED
      BY <1>3, <2>1, <2>2, InsertUserEffect
  <1>5. /\ refused' = refused \cup {u \in {author} : Collides(users, u)}
                              \cup {u \in {rtAuthor} : Collides(us1, u)}
        /\ refused \subseteq refused'
    BY <1>2
  <1>6. refused' \subseteq User
    <2>1. \A us : ~Collides(us, NoField)
      BY DEF Collides
    <2>2. QED
      BY <1>1, <1>3, <1>5, <2>1
  <1>7. ASSUME NEW us, us \subseteq users', NEW u \in User, u # NoField,
               KnownId(users', u.id) \/ (Collides(us, u) /\ u \in refused')
        PROVE  Settled(u.id)
    <2>1. CASE KnownId(users', u.id)
      BY <2>1
    <2>2. CASE Collides(us, u) /\ u \in refused'
      <3>1. PICK v \in us : v.name = u.name /\ v.id # u.id
        BY <2>2, CollisionWitness
      <3>2. QED
        BY <2>2, <3>1, <1>7
    <2>3. QED
      BY <1>7, <2>1, <2>2
  <1>8. ASSUME author # NoField PROVE Settled(author.id)
    <2>1. KnownId(us1, author.id) => KnownId(users', author.id)
      BY <1>4 DEF KnownId
    <2>2. users \subseteq users'
      BY <1>4
    <2>3. author \in User
      BY <1>3, <1>8
    <2>4. Collides(users, author) => author \in refused'
      BY <1>5
    <2>5. QED
      BY <1>4, <1>7, <1>8, <2>1, <2>2, <2>3, <2>4
  <1>9. ASSUME rtAuthor # NoField PROVE Settled(rtAuthor.id)
    <2>1. rtAuthor \in User
      BY <1>3, <1>9
    <2>2. Collides(us1, rtAuthor) => rtAuthor \in refused'
      BY <1>5
    <2>3. QED
      BY <1>4, <1>7, <1>9, <2>1, <2>2
  <1>10. /\ claimed' = claimed \cup Claims
         /\ Claims \subseteq TweetIds
         /\ e.body.rtId # NoField => e.body.rtId \in Claims
         /\ e.rt # NoField /\ e.rt.rtId # NoField => e.rt.rtId \in Claims
    <2>1. claimed' = claimed \cup Claims
      BY DEF ProcessTweet
    <2>2. ASSUME NEW o \in TweetJson \cup {NoField}
          PROVE  /\ ClaimedIn(o) \subseteq TweetIds
                 /\ o # NoField /\ o.rtId # NoField => o.rtId \in ClaimedIn(o)
      BY <2>2 DEF ClaimedIn, TweetJson
    <2>3. e.body # NoField
      BY <1>1, NoFieldAssumption
    <2>4. QED
      BY <1>1, <2>1, <2>2, <2>3
  <1>11. ASSUME e.rt # NoField, Complete(e.rt)
         PROVE  /\ inner \in Tweet /\ inner.user = rtAuthor.id /\ rtAuthor # NoField
                /\ inner.rt # NoField => inner.rt \in claimed'
    BY <1>1, <1>3, <1>10, <1>11 DEF Complete, Tweet, TweetJson, User
  <1>12. /\ tweets \subseteq ts1 /\ ts1 \subseteq Tweet
         /\ \A r, s \in ts1 : r.id = s.id => r = s
         /\ \A t \in ts1 \ tweets : Settled(t.user) /\ (t.rt # NoField => t.rt \in claimed')
         /\ e.rt # NoField /\ Complete(e.rt) => \E s \in ts1 : s.id = e.rt.id
    <2>1. CASE e.rt # NoField /\ Complete(e.rt)
      <3>1. ts1 = InsertTweet(tweets, inner)
        BY <2>1 DEF WithRetweet
      <3>2. /\ tweets \subseteq ts1 /\ ts1 \subseteq tweets \cup {inner}
            /\ \A r, s \in ts1 : r.id = s.id => r = s
            /\ \E s \in ts1 : s.id = inner.id
        BY <1>1, <1>11, <2>1, <3>1, InsertTweetEffect
      <3>3. Settled(inner.user)
        BY <1>9, <1>11, <2>1
      <3>4. inner.id = e.rt.id
        OBVIOUS
      <3>5. QED
        BY <1>1, <1>11, <2>1, <3>2, <3>3, <3>4
    <2>2. CASE ~(e.rt # NoField /\ Complete(e.rt))
      <3>1. ts1 = tweets
        BY <2>2 DEF WithRetweet
      <3>2. QED
        BY <1>1, <2>2, <3>1
    <2>3. QED
      BY <2>1, <2>2
  <1>13. CASE ~Constructed(e)
    <2>1. tweets' = ts1 /\ Throw /\ UNCHANGED <<alive, wild>>
      BY <1>2, <1>13
    <2>2. \A t \in tweets' \ tweets :
            /\ Settled(t.user)
            /\ t.rt # NoField => (\E s \in tweets' : s.id = t.rt) \/ t.rt \in claimed'
      BY <1>12, <2>1
    <2>3. tweets \subseteq tweets' /\ tweets' \subseteq Tweet /\ TweetIdIsKey'
      BY <1>12, <2>1 DEF TweetIdIsKey
    <2>4. users \subseteq users' /\ users' \subseteq User
      BY <1>4
    <2>5. claimed \subseteq claimed' /\ claimed' \subseteq TweetIds
      BY <1>1, <1>10
    <2>6. QED
      BY <1>5, <1>6, <2>1, <2>2, <2>3, <2>4, <2>5, Zenon
  <1>14. CASE Constructed(e)
    <2>1. /\ tweets' = InsertTweet(ts1, outer) /\ Finish
          /\ PrintTweetsOf(users', AuthorsOf(tweets', e.body.id))
      BY <1>2, <1>14
    <2>2. Complete(e.body) /\ (e.rt # NoField => Complete(e.rt))
      BY <1>14 DEF Constructed
    <2>3. /\ e.body.id \in TweetIds /\ author \in User /\ author # NoField
      BY <1>1, <1>3, <2>2 DEF Complete, TweetJson
    <2>4. /\ RetweetedId(e.body, e.rt) \in TweetIds \cup {NoField}
          /\ RetweetedId(e.body, e.rt) # NoField =>
               \/ RetweetedId(e.body, e.rt) \in claimed'
               \/ \E s \in ts1 : s.id = RetweetedId(e.body, e.rt)
      <3>1. CASE e.body.rtId # NoField
        BY <1>1, <1>10, <3>1 DEF RetweetedId, TweetJson
      <3>2. CASE e.body.rtId = NoField /\ e.rt # NoField
        BY <1>1, <1>12, <2>2, <3>2 DEF RetweetedId, TweetJson
      <3>3. CASE e.body.rtId = NoField /\ e.rt = NoField
        BY <3>3 DEF RetweetedId
      <3>4. QED
        BY <3>1, <3>2, <3>3
    <2>5. outer \in Tweet
      BY <2>3, <2>4 DEF Tweet, User
    <2>6. /\ ts1 \subseteq tweets' /\ tweets' \subseteq ts1 \cup {outer}
          /\ \A r, s \in tweets' : r.id = s.id => r = s
          /\ \E s \in tweets' : s.id = outer.id
      BY <1>12, <2>1, <2>5, InsertTweetEffect
    <2>7. /\ outer.id = e.body.id /\ outer.user = author.id
          /\ outer.rt = RetweetedId(e.body, e.rt)
      OBVIOUS
    <2>8. Settled(outer.user) /\ (outer.rt # NoField =>
                                    (\E s \in tweets' : s.id = outer.rt) \/ outer.rt \in claimed')
      BY <1>8, <2>3, <2>4, <2>6, <2>7
    <2>9. \A t \in tweets' \ tweets :
            /\ Settled(t.user)
            /\ t.rt # NoField => (\E s \in tweets' : s.id = t.rt) \/ t.rt \in claimed'
      BY <1>12, <2>6, <2>8
    <2>10. tweets \subseteq tweets' /\ tweets' \subseteq Tweet
      BY <1>12, <2>5, <2>6
    <2>11. TweetIdIsKey'
      BY <2>6 DEF TweetIdIsKey
    <2>12. \E t \in tweets' : t.id = Current.body.id
      BY <2>6, <2>7
    <2>13. \E id \in TweetIds : PrintTweetsOf(users', AuthorsOf(tweets', id))
      BY <2>1, <2>3
    <2>14. users \subseteq users' /\ users' \subseteq User
      BY <1>4
    <2>15. claimed \subseteq claimed' /\ claimed' \subseteq TweetIds
      BY <1>1, <1>10
    <2>16. QED
      BY <1>5, <1>6, <2>1, <2>9, <2>10, <2>11, <2>12, <2>13, <2>14, <2>15, Zenon
  <1>15. QED
    BY <1>13, <1>14

-----------------------------------------------------------------------------
(* The steps. *)

LEMMA IntervalWidens ==
  ASSUME NEW n \in Int, NEW m \in Int, m = n \/ m = n - 1, NEW k \in Int
  PROVE  /\ n + 1 .. k - 1 \subseteq m + 1 .. k - 1
         /\ \A i \in m + 1 .. k : i \in Int /\ (i = n \/ i \in n + 1 .. k)
  OBVIOUS

\* A tweet whose author is settled stays so while both records of users only grow.
LEMMA SettledStays ==
  ASSUME AuthorKnownOrRefused, users \subseteq users', refused \subseteq refused',
         \A t \in tweets' \ tweets :
            KnownId(users', t.user) \/ \E r \in refused', u \in users' :
                                         r.id = t.user /\ u.name = r.name /\ u.id # r.id
  PROVE  AuthorKnownOrRefused'
  BY DEF AuthorKnownOrRefused, KnownId

\* Printing stored tweets is wild only after a collision.
LEMMA PrintStored ==
  ASSUME TypeOK, AuthorKnownOrRefused', WildOnlyAfterCollision,
         users \subseteq users', refused \subseteq refused',
         NEW authors, authors \subseteq {t.user : t \in tweets'}, PrintTweetsOf(users', authors)
  PROVE  /\ alive' \in BOOLEAN /\ wild' \in BOOLEAN
         /\ WildOnlyAfterCollision'
  <1>1. /\ alive' \in BOOLEAN /\ wild' \in BOOLEAN
        /\ (wild' \/ ~alive') => wild \/ ~alive \/ \E id \in authors : ~KnownId(users', id)
    BY PrintEffect
  <1>2. ASSUME wild \/ ~alive
        PROVE  \E r \in refused', u \in users' : u.name = r.name
    BY <1>2 DEF WildOnlyAfterCollision
  <1>3. ASSUME NEW id \in authors, ~KnownId(users', id)
        PROVE  \E r \in refused', u \in users' : u.name = r.name
    <2>1. PICK t \in tweets' : t.user = id
      OBVIOUS
    <2>2. QED
      BY <1>3, <2>1 DEF AuthorKnownOrRefused
  <1>4. QED
    BY <1>1, <1>2, <1>3 DEF WildOnlyAfterCollision

LEMMA TweetStep ==
  ASSUME IInv, ProcessTweet
  PROVE  IInv'
  <1>1. /\ users \subseteq users' /\ users' \subseteq User
        /\ refused \subseteq refused' /\ refused' \subseteq User
        /\ tweets \subseteq tweets' /\ tweets' \subseteq Tweet
        /\ TweetIdIsKey'
        /\ claimed \subseteq claimed' /\ claimed' \subseteq TweetIds
        /\ \A t \in tweets' \ tweets :
             /\ KnownId(users', t.user) \/ \E r \in refused', u \in users' :
                                             r.id = t.user /\ u.name = r.name /\ u.id # r.id
             /\ t.rt # NoField => (\E s \in tweets' : s.id = t.rt) \/ t.rt \in claimed'
        /\ \/ Finish /\ (\E t \in tweets' : t.id = Current.body.id)
                     /\ \E id \in TweetIds : PrintTweetsOf(users', AuthorsOf(tweets', id))
           \/ Throw /\ UNCHANGED <<alive, wild>>
    BY TweetInsertions DEF ProcessTweet
  <1>2. /\ next \in 1 .. Len(response) /\ Len(response) \in Nat
        /\ TypeOK /\ UNCHANGED deleted
    BY CurrentEntity DEF ProcessTweet, At, IInv
  <1>3. AuthorKnownOrRefused'
    BY <1>1, SettledStays DEF IInv
  <1>4. /\ alive' \in BOOLEAN /\ wild' \in BOOLEAN
        /\ WildOnlyAfterCollision'
    <2>1. CASE \E id \in TweetIds : PrintTweetsOf(users', AuthorsOf(tweets', id))
      <3>1. PICK id \in TweetIds : PrintTweetsOf(users', AuthorsOf(tweets', id))
        BY <2>1
      <3>2. AuthorsOf(tweets', id) \subseteq {t.user : t \in tweets'}
        BY DEF AuthorsOf
      <3>3. QED
        BY <1>1, <1>2, <1>3, <3>1, <3>2, PrintStored DEF IInv
    <2>2. CASE UNCHANGED <<alive, wild>>
      BY <1>1, <1>2, <2>2 DEF IInv, TypeOK, WildOnlyAfterCollision
    <2>3. QED
      BY <1>1, <2>1, <2>2
  <1>5. /\ response' = response /\ next' \in 0 .. Len(response') /\ threw' \in BOOLEAN
        /\ next' = next \/ (next' = next - 1 /\ \E t \in tweets' : t.id = response[next].body.id)
    <2>1. CASE Finish /\ \E t \in tweets' : t.id = Current.body.id
      BY <1>2, <2>1 DEF Finish, TypeOK, Current
    <2>2. CASE Throw
      BY <1>2, <2>2 DEF Throw, TypeOK
    <2>3. QED
      BY <1>1, <2>1, <2>2
  <1>6. TypeOK'
    BY <1>1, <1>2, <1>4, <1>5 DEF TypeOK
  <1>7. RetweetKept'
    BY <1>1, <1>2 DEF IInv, RetweetKept
  <1>8. PassedAreStored'
    <2>1. ASSUME NEW i \in next' + 1 .. Len(response'), response'[i].kind = "tweet"
          PROVE  \/ \E t \in tweets' : t.id = response'[i].body.id
                 \/ \E j \in next' + 1 .. i - 1 :
                      response'[j].kind = "delete" /\ response'[j].body.id = response'[i].body.id
      <3> DEFINE m == next'
      <3>a. m \in Int /\ (m = next \/ m = next - 1) /\ response' = response
        BY <1>2, <1>5
      <3>b. i \in m + 1 .. Len(response)
        BY <3>a
      <3>1. CASE i = next
        <4>1. m # next
          BY <1>2, <3>b, <3>1
        <4>2. \E t \in tweets' : t.id = response[i].body.id
          BY <1>5, <3>1, <4>1
        <4>3. QED
          BY <3>a, <4>2
      <3>2. CASE i # next
        <4>1. next \in Int /\ Len(response) \in Int
          BY <1>2
        <4> HIDE DEF m
        <4>2. i \in Int /\ i \in next + 1 .. Len(response)
          BY <3>2, <3>a, <3>b, <4>1, IntervalWidens
        <4>3. next + 1 .. i - 1 \subseteq m + 1 .. i - 1
          BY <3>a, <4>1, <4>2, IntervalWidens
        <4>4. QED
          BY <1>1, <3>a, <2>1, <4>2, <4>3 DEF IInv, PassedAreStored, m
      <3>3. QED
        BY <3>1, <3>2
    <2>2. QED
      BY <2>1 DEF PassedAreStored
  <1>9. QED
    BY <1>1, <1>3, <1>4, <1>6, <1>7, <1>8 DEF IInv

LEMMA DeleteStep ==
  ASSUME IInv, ProcessDelete
  PROVE  IInv'
  <1>1. /\ next \in 1 .. Len(response) /\ Len(response) \in Nat
        /\ TypeOK /\ Current.body \in TweetJson /\ Current.kind = "delete"
        /\ UNCHANGED <<users, refused, claimed>>
    BY CurrentEntity DEF ProcessDelete, At, IInv, Current
  <1>2. CASE Throw /\ UNCHANGED <<tweets, alive, wild, deleted>>
    BY <1>1, <1>2 DEF IInv, TypeOK, TweetIdIsKey, AuthorKnownOrRefused, KnownId,
                      WildOnlyAfterCollision, RetweetKept, PassedAreStored, Throw
  <1>3. CASE /\ Current.body.id # NoField
             /\ PrintTweetsOf(users, AuthorsOf(tweets, Current.body.id))
             /\ tweets' = {t \in tweets : t.id # Current.body.id}
             /\ deleted' = deleted \cup {Current.body.id}
             /\ Finish
    <2>1. Current.body.id \in TweetIds /\ tweets' \subseteq tweets
      BY <1>1, <1>3 DEF TweetJson
    <2>2. AuthorKnownOrRefused'
      BY <1>1, <2>1, SettledStays DEF IInv
    <2>3. /\ alive' \in BOOLEAN /\ wild' \in BOOLEAN
          /\ WildOnlyAfterCollision'
      <3>1. /\ alive' \in BOOLEAN /\ wild' \in BOOLEAN
            /\ (wild' \/ ~alive') => wild \/ ~alive
                 \/ \E id \in AuthorsOf(tweets, Current.body.id) : ~KnownId(users, id)
        BY <1>1, <1>3, PrintEffect
      <3>2. ASSUME NEW id \in AuthorsOf(tweets, Current.body.id), ~KnownId(users, id)
            PROVE  \E r \in refused, u \in users : u.name = r.name
        <4>1. PICK t \in tweets : t.user = id
          BY DEF AuthorsOf
        <4>2. QED
          BY <3>2, <4>1 DEF IInv, AuthorKnownOrRefused
      <3>3. QED
        BY <1>1, <3>1, <3>2 DEF IInv, WildOnlyAfterCollision
    <2>4. response' = response /\ next' = next - 1 /\ threw' = threw
      BY <1>3 DEF Finish
    <2>5. TypeOK'
      BY <1>1, <1>3, <2>1, <2>3, <2>4 DEF TypeOK
    <2>6. TweetIdIsKey'
      BY <2>1 DEF IInv, TweetIdIsKey
    <2>7. RetweetKept'
      BY <1>1, <1>3, <2>1 DEF IInv, RetweetKept
    <2>8. PassedAreStored'
      <3>1. ASSUME NEW i \in next' + 1 .. Len(response'), response'[i].kind = "tweet"
            PROVE  \/ \E t \in tweets' : t.id = response'[i].body.id
                   \/ \E j \in next' + 1 .. i - 1 :
                        response'[j].kind = "delete" /\ response'[j].body.id = response'[i].body.id
        <4>1. i # next /\ i \in next + 1 .. Len(response) /\ next \in next' + 1 .. i - 1
          BY <1>1, <2>4, <3>1 DEF Current
        <4>2. CASE response[i].body.id = Current.body.id
          BY <1>1, <2>4, <4>1, <4>2 DEF Current
        <4>3. CASE response[i].body.id # Current.body.id
          <5>1. \A j : j \in next + 1 .. i - 1 => j \in next' + 1 .. i - 1
            BY <1>1, <2>4, <4>1
          <5>2. QED
            BY <1>3, <2>4, <3>1, <4>1, <4>3, <5>1 DEF IInv, PassedAreStored
        <4>4. QED
          BY <4>2, <4>3
      <3>2. QED
        BY <3>1 DEF PassedAreStored
    <2>9. QED
      BY <2>2, <2>3, <2>5, <2>6, <2>7, <2>8 DEF IInv
  <1>4. QED
    BY <1>2, <1>3 DEF ProcessDelete, Erase

\* An entity that touches no store: the loop goes on, or ends.
LEMMA OtherStep ==
  ASSUME IInv, ProcessEvent \/ ProcessScalar
  PROVE  IInv'
  <1>1. /\ next \in 1 .. Len(response) /\ Len(response) \in Nat
        /\ response[next].kind # "tweet"
        /\ UNCHANGED <<stores, history, alive, wild>> /\ (Finish \/ Throw)
    BY CurrentEntity DEF ProcessEvent, ProcessScalar, At, IInv
  <1>2. /\ UNCHANGED <<users, tweets, refused, deleted, claimed, alive, wild, response>>
        /\ next' = next \/ next' = next - 1
        /\ threw' \in BOOLEAN
    BY <1>1 DEF stores, history, Finish, Throw, IInv, TypeOK
  <1>3. PassedAreStored'
    <2>1. ASSUME NEW i \in next' + 1 .. Len(response), response[i].kind = "tweet"
          PROVE  \/ \E t \in tweets : t.id = response[i].body.id
                 \/ \E j \in next' + 1 .. i - 1 :
                      response[j].kind = "delete" /\ response[j].body.id = response[i].body.id
      <3> DEFINE m == next'
      <3>1. /\ next \in Int /\ Len(response) \in Int
            /\ m \in Int /\ (m = next \/ m = next - 1)
        BY <1>1, <1>2
      <3>2. i # next /\ i \in m + 1 .. Len(response)
        BY <1>1, <2>1
      <3> HIDE DEF m
      <3>3. i \in Int /\ i \in next + 1 .. Len(response)
        BY <3>1, <3>2, IntervalWidens
      <3>4. next + 1 .. i - 1 \subseteq m + 1 .. i - 1
        BY <3>1, <3>3, IntervalWidens
      <3>5. QED
        BY <2>1, <3>3, <3>4 DEF IInv, PassedAreStored, m
    <2>2. QED
      BY <1>2, <2>1 DEF PassedAreStored
  <1>4. TypeOK'
    BY <1>1, <1>2 DEF IInv, TypeOK
  <1>5. QED
    BY <1>2, <1>3, <1>4 DEF IInv, TweetIdIsKey, AuthorKnownOrRefused, KnownId,
                            WildOnlyAfterCollision, RetweetKept

LEMMA ResponseStep ==
  ASSUME IInv, ReceiveResponse
  PROVE  IInv'
  <1>1. /\ response' \in Seq(Entity) /\ Len(response') \in Nat
        /\ next' = Len(response') /\ threw' = FALSE
        /\ UNCHANGED <<users, tweets, refused, deleted, claimed, alive, wild>>
    BY ResponsesAssumption DEF ReceiveResponse, stores, history
  <1>2. TypeOK'
    <2>1. next' \in 0 .. Len(response')
      BY <1>1
    <2>2. threw' \in BOOLEAN
      BY <1>1, Zenon
    <2>3. QED
      BY <1>1, <2>1, <2>2 DEF IInv, TypeOK
  <1>3. PassedAreStored'
    BY <1>1 DEF PassedAreStored
  <1>4. QED
    BY <1>1, <1>2, <1>3 DEF IInv, TweetIdIsKey, AuthorKnownOrRefused, KnownId,
                            WildOnlyAfterCollision, RetweetKept

LEMMA PrintStep ==
  ASSUME IInv, PrintTweet
  PROVE  IInv'
  <1>1. /\ UNCHANGED <<users, tweets, refused, deleted, claimed, response, next, threw>>
        /\ PrintTweetsOf(users, {t.user : t \in tweets})
    BY DEF PrintTweet, stores, history
  <1>2. AuthorKnownOrRefused'
    BY <1>1 DEF IInv, AuthorKnownOrRefused, KnownId
  <1>3. PrintTweetsOf(users', {t.user : t \in tweets'})
    BY <1>1
  <1>4. /\ alive' \in BOOLEAN /\ wild' \in BOOLEAN
        /\ WildOnlyAfterCollision'
    BY <1>1, <1>2, <1>3, PrintStored DEF IInv
  <1>5. TypeOK'
    BY <1>1, <1>4 DEF IInv, TypeOK
  <1>6. QED
    BY <1>1, <1>2, <1>4, <1>5 DEF IInv, TweetIdIsKey, RetweetKept, PassedAreStored

LEMMA InitEstablishes == Init => IInv
  <1> SUFFICES ASSUME Init PROVE IInv
    OBVIOUS
  <1>1. response \in Seq(Entity) /\ Len(response) = 0
    BY DEF Init
  <1>2. TypeOK
    <2>1. next \in 0 .. Len(response)
      BY <1>1 DEF Init
    <2>2. threw \in BOOLEAN /\ alive \in BOOLEAN /\ wild \in BOOLEAN
      BY Zenon DEF Init
    <2>3. QED
      BY <1>1, <2>1, <2>2 DEF Init, TypeOK
  <1>3. QED
    BY <1>1, <1>2 DEF Init, IInv, TweetIdIsKey, AuthorKnownOrRefused, WildOnlyAfterCollision,
                      RetweetKept, PassedAreStored

LEMMA NextPreserves == IInv /\ [Next]_vars => IInv'
  <1> SUFFICES ASSUME IInv, [Next]_vars PROVE IInv'
    OBVIOUS
  <1>1. CASE UNCHANGED vars
    BY <1>1 DEF vars, IInv, TypeOK, TweetIdIsKey, AuthorKnownOrRefused, KnownId,
                WildOnlyAfterCollision, RetweetKept, PassedAreStored
  <1>2. CASE Next
    BY <1>2, TweetStep, DeleteStep, OtherStep, ResponseStep, PrintStep DEF Next
  <1>3. QED
    BY <1>1, <1>2

\* The strengthened invariant holds in every state, whatever the replies contain.
THEOREM Invariance == Spec => []IInv
  BY InitEstablishes, NextPreserves, PTL DEF Spec

\* Type correctness.
THEOREM TypeCorrect == Spec => []TypeOK
  BY Invariance, PTL DEF IInv

\* A dangling user_proxy always comes of a shared screen_name (twitter.cc:71, twitter.hpp:146).
THEOREM DanglingNeedsCollision == Spec => []AuthorKnownOrRefused
  BY Invariance, PTL DEF IInv

\* No end() is dereferenced before a screen_name is shared (twitter.hpp:180).
THEOREM NoWildRead == Spec => []WildOnlyAfterCollision
  BY Invariance, PTL DEF IInv

\* A retweet's original is stored before it (twitter.cc:74-77).
THEOREM OriginalsKept == Spec => []RetweetKept
  BY Invariance, PTL DEF IInv

\* An exception in a reply loses no entity the loop has passed (black_circle.cc:147).
THEOREM PassedEntitiesKept == Spec => []PassedAreStored
  BY Invariance, PTL DEF IInv

\* Stored records are immutable and only a delete removes one (twitter.cc:71,76,94).
THEOREM RecordsImmutable == Spec => FirstVersionWins
  <1> DEFINE Immutable ==
        /\ users \subseteq users'
        /\ \A t \in tweets : \/ t \in tweets'
                             \/ At("delete") /\ Current.body.id = t.id
        /\ \A t \in tweets' : \A s \in tweets : s.id = t.id => s = t
  <1>1. ASSUME IInv, ProcessTweet PROVE Immutable
    <2>1. users \subseteq users' /\ tweets \subseteq tweets' /\ TweetIdIsKey'
      BY <1>1, TweetInsertions DEF ProcessTweet
    <2>2. QED
      BY <2>1 DEF TweetIdIsKey
  <1>2. ASSUME IInv, ProcessDelete PROVE Immutable
    <2>1. /\ users' = users /\ At("delete")
          /\ tweets' = tweets \/ tweets' = {t \in tweets : t.id # Current.body.id}
      BY <1>2 DEF ProcessDelete, Erase
    <2>2. tweets' \subseteq tweets /\ \A t \in tweets : t \in tweets' \/ Current.body.id = t.id
      BY <2>1
    <2>3. QED
      BY <1>2, <2>1, <2>2 DEF IInv, TweetIdIsKey
  <1>3. ASSUME IInv, UNCHANGED stores PROVE Immutable
    BY <1>3 DEF IInv, TweetIdIsKey, stores
  <1>4. IInv /\ [Next]_vars => [Immutable]_vars
    BY <1>1, <1>2, <1>3 DEF Next, ReceiveResponse, ProcessEvent, ProcessScalar, PrintTweet
  <1>5. QED
    BY <1>4, Invariance, PTL DEF Spec, FirstVersionWins

-----------------------------------------------------------------------------
(* Feed. *)

\* A step of Feed is a step of the stores or leaves them alone.
LEMMA FeedStep == [FeedNext]_<<vars, feedVars>> => [Next]_vars
  BY DEF FeedNext, Outside, Post, Delete, Notify, StreamEnds, Compose, LoseReply, TakeChunk,
         TakeCutChunk, TakeReply, TakeCutReply, Handle, Next

\* Feed implements TweetStore, with which everything proved of that holds of this.
THEOREM StoreRefined == FeedSpec => Spec
  <1>1. FeedInit => Init
    BY DEF FeedInit
  <1>2. QED
    BY <1>1, FeedStep, PTL DEF FeedSpec, Spec

-----------------------------------------------------------------------------
(* The invariant. *)

PartNames == {"head", "object", "rtHead", "rtTail", "tail", "eol"}

Segment == {s \in [part : PartNames, of : Catalogue \cup {Notice(id) : id \in TweetIds}] :
              s.part \in {"rtHead", "rtTail"} => s.of.rt # NoField}

FeedTypeOK ==
  /\ server \subseteq Catalogue
  /\ gone \subseteq TweetIds
  /\ deleted \subseteq gone \cup garbled
  /\ text \in Seq(Segment)
  /\ replies \subseteq Seq(Entity)
  /\ \A r \in replies : \A i \in DOMAIN r : r[i].kind = "tweet"

ServerClean == \A e \in server : IdsIn(e) \cap gone = {}

\* No tweet of the text is behind its notice, or in deleted by anything but a cut body.
TextInOrder ==
  /\ \A i \in DOMAIN text : text[i].of.kind = "delete" => text[i].of.body.id \in gone
  /\ \A i \in DOMAIN text : IdsIn(text[i].of) \cap deleted \subseteq garbled
  /\ \A i, j \in DOMAIN text :
       i < j /\ text[i].of.kind = "delete" => text[i].of.body.id \notin IdsIn(text[j].of)

\* A notice that was pushed, of a tweet that no text behind it holds.
Genuine(id) == id \in gone /\ \A j \in DOMAIN text : id \notin IdsIn(text[j].of)

\* What is left of a reply: tweets that were not deleted, or late ones; or one notice; or what
\* a cut body was completed with.
ReplyInOrder ==
  ~Idle => \A k \in 1 .. next :
    /\ response[k].kind = "tweet" => IdsIn(response[k]) \cap deleted \subseteq late \cup garbled
    /\ response[k].kind = "delete" =>
         response[k].body.id \in garbled \/ (next = 1 /\ Genuine(response[k].body.id))

FInv == /\ IInv
        /\ FeedTypeOK
        /\ ServerClean
        /\ TextInOrder
        /\ ReplyInOrder
        /\ StaleOnlyIfOvertaken

-----------------------------------------------------------------------------
(* Text and tweets. *)

LEMMA CatalogueTweets ==
  ASSUME NEW e \in Catalogue
  PROVE  /\ e.kind = "tweet"
         /\ e.body.id \in TweetIds
         /\ e.rt # NoField => e.rt.id \in TweetIds
  <1>1. ASSUME NEW o \in Catalogue
        PROVE  o.kind = "tweet" /\ o.body.id \in TweetIds
    BY <1>1, CatalogueAssumption DEF Complete, Entity, TweetJson
  <1>2. ASSUME e.rt # NoField PROVE e.rt.id \in TweetIds
    <2>1. PICK o \in Catalogue : o = Plain("tweet", e.rt)
      BY <1>2, CatalogueAssumption
    <2>2. o.body = e.rt
      BY <2>1 DEF Plain
    <2>3. QED
      BY <1>1, <2>1, <2>2
  <1>3. QED
    BY <1>1, <1>2

LEMMA NoticeFields ==
  ASSUME NEW id
  PROVE  Notice(id).kind = "delete" /\ Notice(id).body.id = id /\ Notice(id).rt = NoField
  BY DEF Notice, Plain, Nothing

LEMMA SegmentFields ==
  ASSUME NEW s \in Segment
  PROVE  /\ s.part \in PartNames
         /\ s.of \in Catalogue \/ \E id \in TweetIds : s.of = Notice(id)
         /\ s.of.kind = "tweet" \/ (s.of.kind = "delete" /\ s.of.rt = NoField)
         /\ s.part = "rtHead" => s.of.rt # NoField
  BY CatalogueTweets, NoticeFields DEF Segment

LEMMA TextOfType ==
  ASSUME NEW e \in Catalogue \cup {Notice(id) : id \in TweetIds}
  PROVE  /\ TextOf(e) \in Seq(Segment)
         /\ \A i \in DOMAIN TextOf(e) : TextOf(e)[i].of = e
  <1>1. CASE e.rt = NoField
    <2>1. Parts(e) = <<"head", "object", "tail", "eol">>
      BY <1>1 DEF Parts
    <2>2. DOMAIN Parts(e) = 1 .. 4
      BY <2>1
    <2>3. \A i \in 1 .. 4 : Parts(e)[i] \in PartNames \ {"rtHead", "rtTail"}
      BY <2>1 DEF PartNames
    <2>4. \A i \in 1 .. 4 : [part |-> Parts(e)[i], of |-> e] \in Segment
      BY <2>3 DEF Segment
    <2>5. TextOf(e) = [i \in 1 .. 4 |-> [part |-> Parts(e)[i], of |-> e]]
      BY <2>2 DEF TextOf
    <2>6. QED
      BY <2>4, <2>5
  <1>2. CASE e.rt # NoField
    <2>1. Parts(e) = <<"head", "object", "rtHead", "rtTail", "tail", "eol">>
      BY <1>2 DEF Parts
    <2>2. DOMAIN Parts(e) = 1 .. 6
      BY <2>1
    <2>3. \A i \in 1 .. 6 : Parts(e)[i] \in PartNames
      BY <2>1 DEF PartNames
    <2>4. \A i \in 1 .. 6 : [part |-> Parts(e)[i], of |-> e] \in Segment
      BY <1>2, <2>3 DEF Segment
    <2>5. TextOf(e) = [i \in 1 .. 6 |-> [part |-> Parts(e)[i], of |-> e]]
      BY <2>2 DEF TextOf
    <2>6. QED
      BY <2>4, <2>5
  <1>3. QED
    BY <1>1, <1>2

\* Text grows by one event at its end.
LEMMA Appended ==
  ASSUME NEW s \in Seq(Segment), NEW e \in Catalogue \cup {Notice(id) : id \in TweetIds}
  PROVE  LET t == s \o TextOf(e)
         IN /\ t \in Seq(Segment)
            /\ \A i \in DOMAIN t : \/ i \in DOMAIN s /\ t[i] = s[i]
                                   \/ i \notin DOMAIN s /\ t[i].of = e
            /\ \A i, j \in DOMAIN t : i < j /\ j \in DOMAIN s => i \in DOMAIN s
  <1> DEFINE x == TextOf(e)
             t == s \o x
  <1>1. x \in Seq(Segment) /\ \A i \in DOMAIN x : x[i].of = e
    BY TextOfType
  <1> HIDE DEF x
  <1>2. /\ t \in Seq(Segment) /\ Len(s) \in Nat /\ Len(x) \in Nat
        /\ DOMAIN s = 1 .. Len(s) /\ DOMAIN t = 1 .. Len(s) + Len(x) /\ DOMAIN x = 1 .. Len(x)
    BY <1>1
  <1>3. ASSUME NEW i \in DOMAIN t, i \in DOMAIN s
        PROVE  t[i] = s[i]
    BY <1>1, <1>2, <1>3
  <1>4. ASSUME NEW i \in DOMAIN t, i \notin DOMAIN s
        PROVE  t[i].of = e
    <2>1. i - Len(s) \in DOMAIN x /\ t[i] = x[i - Len(s)]
      BY <1>1, <1>2, <1>4
    <2>2. QED
      BY <1>1, <2>1
  <1>5. \A i, j \in DOMAIN t : i < j /\ j \in DOMAIN s => i \in DOMAIN s
    BY <1>2
  <1>6. QED
    BY <1>2, <1>3, <1>4, <1>5 DEF x

\* A chunk is a prefix of the text, and what it leaves is a suffix.
LEMMA Split ==
  ASSUME NEW s \in Seq(Segment), NEW n \in 1 .. Len(s)
  PROVE  LET a == SubSeq(s, 1, n)
             b == SubSeq(s, n + 1, Len(s))
         IN /\ a \in Seq(Segment) /\ b \in Seq(Segment)
            /\ \A i \in DOMAIN a : i \in DOMAIN s /\ a[i] = s[i]
            /\ \A j \in DOMAIN b : n + j \in DOMAIN s /\ b[j] = s[n + j] /\ j \in Nat /\ j > 0
            /\ \A i \in DOMAIN a : \A j \in DOMAIN b : i < n + j
  OBVIOUS

\* A chunk gives at most one entity: an event of it, the inside of one, or no tweet.
LEMMA ParsedForms ==
  ASSUME NEW chunk, NEW r \in Parsed(chunk)
  PROVE  \/ r = <<>> \/ r = <<EventEntity>> \/ r = <<NoEntity>>
         \/ \E i \in DOMAIN chunk : r = <<chunk[i].of>>
         \/ \E i \in DOMAIN chunk : chunk[i].part = "rtHead" /\ r = <<Plain("tweet", chunk[i].of.rt)>>
  BY DEF Parsed

LEMMA ParsedEffect ==
  ASSUME NEW chunk \in Seq(Segment), NEW r \in Parsed(chunk)
  PROVE  \/ r = <<>>
         \/ \E e : /\ r = <<e>>
                   /\ e.kind = "tweet" => \E i \in DOMAIN chunk : IdsIn(e) \subseteq IdsIn(chunk[i].of)
                   /\ e.kind = "delete" => \E i \in DOMAIN chunk : e = chunk[i].of
  <1> DEFINE Good(e) ==
        /\ e.kind = "tweet" => \E i \in DOMAIN chunk : IdsIn(e) \subseteq IdsIn(chunk[i].of)
        /\ e.kind = "delete" => \E i \in DOMAIN chunk : e = chunk[i].of
  <1>1. Good(EventEntity) /\ Good(NoEntity)
    BY DEF EventEntity, NoEntity, Plain
  <1>2. ASSUME NEW i \in DOMAIN chunk PROVE Good(chunk[i].of)
    OBVIOUS
  <1>3. ASSUME NEW i \in DOMAIN chunk, chunk[i].part = "rtHead"
        PROVE  Good(Plain("tweet", chunk[i].of.rt))
    <2> DEFINE o == chunk[i].of
    <2>1. o.kind = "tweet" /\ o.rt # NoField
      <3>1. chunk[i] \in Segment
        OBVIOUS
      <3>2. QED
        BY <1>3, <3>1, SegmentFields
    <2>2. IdsIn(Plain("tweet", o.rt)) = {o.rt.id}
      BY DEF IdsIn, Plain
    <2>3. IdsIn(o) = {o.body.id, o.rt.id}
      BY <2>1 DEF IdsIn
    <2>4. Plain("tweet", o.rt).kind = "tweet"
      BY DEF Plain
    <2>5. QED
      BY <2>2, <2>3, <2>4
  <1>4. \/ r = <<>> \/ r = <<EventEntity>> \/ r = <<NoEntity>>
        \/ \E i \in DOMAIN chunk : r = <<chunk[i].of>>
        \/ \E i \in DOMAIN chunk : chunk[i].part = "rtHead" /\ r = <<Plain("tweet", chunk[i].of.rt)>>
    BY ParsedForms
  <1> HIDE DEF Good
  <1>5. r = <<>> \/ \E e : r = <<e>> /\ Good(e)
    BY <1>1, <1>2, <1>3, <1>4
  <1>6. QED
    BY <1>5 DEF Good

\* insert_new_tweet adds no other ids than the tweet's and its retweet's.
LEMMA NewIds ==
  ASSUME ProcessTweet
  PROVE  \A t \in tweets' : t \in tweets \/ t.id \in IdsIn(Current)
  <1>1. Current.kind = "tweet"
    BY DEF ProcessTweet, At, Current
  <1>2. PICK author \in Author(Current.body), rtAuthor \in Author(Current.rt) :
          LET ts1 == WithRetweet(tweets, Current, rtAuthor)
          IN \/ tweets' = ts1
             \/ tweets' = InsertTweet(ts1, [id   |-> Current.body.id,
                                            user |-> author.id,
                                            rt   |-> RetweetedId(Current.body, Current.rt)])
    BY DEF ProcessTweet
  <1> DEFINE ts1 == WithRetweet(tweets, Current, rtAuthor)
  <1>3. \A t \in ts1 : t \in tweets \/ t.id \in IdsIn(Current)
    BY <1>1 DEF WithRetweet, InsertTweet, IdsIn
  <1> HIDE DEF ts1
  <1>4. \A t \in tweets' : t \in ts1 \/ t.id = Current.body.id
    BY <1>2 DEF InsertTweet, ts1
  <1>5. Current.body.id \in IdsIn(Current)
    BY <1>1 DEF IdsIn
  <1>6. QED
    BY <1>3, <1>4, <1>5

-----------------------------------------------------------------------------
(* The handler's steps. *)

LEMMA RunningReply ==
  ASSUME FInv, ~Idle
  PROVE  /\ next \in 1 .. Len(response) /\ Len(response) \in Nat
         /\ IInv
         /\ Current.kind = "tweet" => IdsIn(Current) \cap deleted \subseteq late \cup garbled
         /\ Current.kind = "delete" =>
              Current.body.id \in garbled \/ (next = 1 /\ Genuine(Current.body.id))
  <1>1. next \in 1 .. Len(response) /\ Len(response) \in Nat /\ IInv
    BY CurrentEntity DEF FInv, IInv
  <1>2. next \in 1 .. next
    BY <1>1
  <1>3. QED
    BY <1>1, <1>2 DEF FInv, ReplyInOrder, Current

\* The loop goes on to an older entity, or ends.
LEMMA LoopStep ==
  ASSUME FInv, ~Idle, Finish \/ Throw, UNCHANGED feedVars,
         deleted' \subseteq deleted \cup garbled \/ next = 1
  PROVE  ReplyInOrder'
  <1>1. /\ next \in 1 .. Len(response) /\ response' = response
        /\ (next' = next /\ threw' = TRUE) \/ next' = next - 1
    BY RunningReply DEF Finish, Throw
  <1>2. SUFFICES ASSUME ~Idle', NEW k \in 1 .. next'
                 PROVE  /\ response[k].kind = "tweet" =>
                             IdsIn(response[k]) \cap deleted' \subseteq late \cup garbled
                        /\ response[k].kind = "delete" => response[k].body.id \in garbled
    BY <1>1, RunningReply DEF ReplyInOrder, FInv, feedVars, IdsIn
  <1>3. next' = next - 1 /\ k \in 1 .. next /\ next # 1
    BY <1>1, <1>2 DEF Idle
  <1>4. QED
    BY <1>3 DEF FInv, ReplyInOrder

LEMMA TweetKeeps ==
  ASSUME FInv, ProcessTweet, UNCHANGED feedVars, IInv'
  PROVE  FInv'
  <1>1. ~Idle /\ UNCHANGED deleted /\ (Finish \/ Throw)
    BY DEF ProcessTweet, At
  <1>2. ReplyInOrder'
    BY <1>1, LoopStep
  <1>3. StaleOnlyIfOvertaken'
    <2>1. Current.kind = "tweet"
      BY DEF ProcessTweet, At, Current
    <2>2. ASSUME NEW t \in tweets', t.id \in deleted PROVE t.id \in late \cup garbled
      <3>1. CASE t \in tweets
        BY <2>2, <3>1 DEF FInv, StaleOnlyIfOvertaken
      <3>2. CASE t.id \in IdsIn(Current)
        BY <1>1, <2>1, <2>2, <3>2, RunningReply
      <3>3. QED
        BY <3>1, <3>2, NewIds
    <2>3. QED
      BY <1>1, <2>2 DEF StaleOnlyIfOvertaken, feedVars
  <1>4. QED
    BY <1>1, <1>2, <1>3 DEF FInv, FeedTypeOK, ServerClean, TextInOrder, feedVars

LEMMA DeleteKeeps ==
  ASSUME FInv, ProcessDelete, UNCHANGED feedVars, IInv'
  PROVE  FInv'
  <1>1. ~Idle /\ Current.kind = "delete" /\ (Finish \/ Throw)
    BY DEF ProcessDelete, At, Current
  <1> DEFINE id == Current.body.id
  <1>2. id \in garbled \/ (next = 1 /\ Genuine(id))
    BY <1>1, RunningReply
  <1>3. \/ UNCHANGED <<tweets, deleted>>
        \/ tweets' = {t \in tweets : t.id # id} /\ deleted' = deleted \cup {id}
    BY DEF ProcessDelete, Erase
  <1> HIDE DEF id
  <1>4. ReplyInOrder'
    BY <1>1, <1>2, <1>3, LoopStep
  <1>5. StaleOnlyIfOvertaken'
    BY <1>3 DEF FInv, StaleOnlyIfOvertaken, feedVars
  <1>6. deleted' \subseteq gone \cup garbled
    BY <1>2, <1>3 DEF FInv, FeedTypeOK, Genuine
  <1>7. \A i \in DOMAIN text : IdsIn(text[i].of) \cap deleted' \subseteq garbled
    BY <1>2, <1>3 DEF FInv, TextInOrder, Genuine
  <1>8. QED
    BY <1>4, <1>5, <1>6, <1>7 DEF FInv, FeedTypeOK, ServerClean, TextInOrder, feedVars

\* An event, an exception and printing leave the stores alone.
LEMMA OthersKeep ==
  ASSUME FInv, ProcessEvent \/ ProcessScalar \/ PrintTweet, UNCHANGED feedVars, IInv'
  PROVE  FInv'
  <1>1. UNCHANGED <<tweets, deleted>>
    BY DEF ProcessEvent, ProcessScalar, PrintTweet, stores, history
  <1>2. ReplyInOrder'
    <2>1. CASE ProcessEvent \/ ProcessScalar
      BY <1>1, <2>1, LoopStep DEF ProcessEvent, ProcessScalar, At
    <2>2. CASE PrintTweet
      BY <1>1, <2>2 DEF PrintTweet, FInv, ReplyInOrder, Genuine, Idle, feedVars
    <2>3. QED
      BY <2>1, <2>2
  <1>3. QED
    BY <1>1, <1>2 DEF FInv, FeedTypeOK, ServerClean, TextInOrder, StaleOnlyIfOvertaken, feedVars

\* What the handler gets out of a chunk was in the text in its place.
LEMMA ParsedInOrder ==
  ASSUME FInv, NEW n \in 1 .. Len(text), response' \in Parsed(SubSeq(text, 1, n)),
         next' = Len(response'), UNCHANGED <<gone, deleted, late>>, garbled \subseteq garbled',
         \A j \in DOMAIN text' : \E i \in DOMAIN text : n < i /\ text'[j] = text[i]
  PROVE  ReplyInOrder'
  <1> DEFINE chunk == SubSeq(text, 1, n)
  <1>1. /\ chunk \in Seq(Segment)
        /\ \A i \in DOMAIN chunk : i \in DOMAIN text /\ chunk[i] = text[i] /\ i <= n
        /\ DOMAIN text \subseteq Int /\ n \in Int
    BY Split DEF FInv, FeedTypeOK
  <1>2. response' \in Parsed(chunk)
    OBVIOUS
  <1> HIDE DEF chunk
  <1>3. CASE response' = <<>>
    BY <1>3 DEF ReplyInOrder, Idle
  <1>4. CASE response' # <<>>
    <2>1. PICK e : /\ response' = <<e>>
                   /\ e.kind = "tweet" => \E i \in DOMAIN chunk : IdsIn(e) \subseteq IdsIn(chunk[i].of)
                   /\ e.kind = "delete" => \E i \in DOMAIN chunk : e = chunk[i].of
      BY <1>1, <1>2, <1>4, ParsedEffect
    <2>2. next' = 1 /\ response'[1] = e
      BY <2>1
    <2>3. ASSUME e.kind = "tweet" PROVE IdsIn(e) \cap deleted \subseteq garbled
      BY <1>1, <2>1, <2>3 DEF FInv, TextInOrder
    <2>4. ASSUME e.kind = "delete" PROVE Genuine(e.body.id)'
      <3>1. PICK i \in DOMAIN chunk : e = chunk[i].of
        BY <2>1, <2>4
      <3>2. i \in DOMAIN text /\ e = text[i].of /\ i <= n
        BY <1>1, <3>1
      <3>3. ASSUME NEW j \in DOMAIN text' PROVE e.body.id \notin IdsIn(text'[j].of)
        <4>1. PICK m \in DOMAIN text : n < m /\ text'[j] = text[m]
          OBVIOUS
        <4>2. i < m
          BY <1>1, <3>2, <4>1
        <4>3. QED
          BY <2>4, <3>2, <4>1, <4>2 DEF FInv, TextInOrder
      <3>4. QED
        BY <2>4, <3>2, <3>3 DEF FInv, TextInOrder, Genuine, IdsIn
    <2>5. ASSUME NEW k \in 1 .. next'
          PROVE  k = 1 /\ response'[k] = e
      BY <2>2
    <2>6. QED
      BY <2>2, <2>3, <2>4, <2>5 DEF ReplyInOrder, IdsIn
  <1>5. QED
    BY <1>3, <1>4

\* A chunk: the text behind it stays in order.
LEMMA ChunkKeeps ==
  ASSUME FInv, TakeChunk, IInv'
  PROVE  FInv'
  <1>1. PICK n \in 1 .. Len(text) :
          /\ ReceiveResponse
          /\ response' \in Parsed(SubSeq(text, 1, n))
          /\ text' = SubSeq(text, n + 1, Len(text))
    BY DEF TakeChunk
  <1> DEFINE left == SubSeq(text, n + 1, Len(text))
  <1>2. /\ UNCHANGED <<server, gone, noticed, open, replies, announced, late, garbled>>
        /\ UNCHANGED <<tweets, deleted>> /\ next' = Len(response')
    BY <1>1 DEF TakeChunk, ReceiveResponse, stores, history
  <1>3. /\ left \in Seq(Segment)
        /\ \A j \in DOMAIN left : /\ n + j \in DOMAIN text /\ left[j] = text[n + j]
                                   /\ j \in Nat /\ n < n + j
        /\ \A i, j \in DOMAIN left : i < j => n + i < n + j
    BY Split DEF FInv, FeedTypeOK
  <1>4. text' = left
    BY <1>1
  <1> HIDE DEF left
  <1>5. TextInOrder'
    BY <1>2, <1>3, <1>4 DEF FInv, TextInOrder
  <1>6. ReplyInOrder'
    BY <1>1, <1>2, <1>3, <1>4, ParsedInOrder
  <1>7. FeedTypeOK'
    BY <1>2, <1>3, <1>4 DEF FInv, FeedTypeOK
  <1>8. QED
    BY <1>2, <1>5, <1>6, <1>7 DEF FInv, ServerClean, StaleOnlyIfOvertaken

LEMMA EmptySegments == <<>> \in Seq(Segment)
  OBVIOUS

\* A cut chunk: its callback gets what a whole one might, or an entity nobody sent.
LEMMA CutChunkKeeps ==
  ASSUME FInv, TakeCutChunk, IInv'
  PROVE  FInv'
  <1>1. PICK n \in 1 .. Len(text) :
          /\ ReceiveResponse
          /\ \/ response' \in Parsed(SubSeq(text, 1, n)) /\ UNCHANGED garbled
             \/ response' = <<NoEntity>> /\ UNCHANGED garbled
             \/ \E g \in Invented : response' = <<g>> /\ garbled' = garbled \cup Named(g)
    BY DEF TakeCutChunk
  <1>2. /\ UNCHANGED <<server, gone, noticed, replies, announced, lost, late>> /\ text' = <<>>
        /\ UNCHANGED <<tweets, deleted>> /\ next' = Len(response')
        /\ garbled \subseteq garbled'
    BY <1>1 DEF TakeCutChunk, ReceiveResponse, stores, history
  <1>3. ReplyInOrder'
    <2>1. CASE response' \in Parsed(SubSeq(text, 1, n))
      BY <1>2, <2>1, ParsedInOrder
    <2>2. CASE \E g : /\ response' = <<g>>
                      /\ g.kind = "tweet" => IdsIn(g) \subseteq garbled'
                      /\ g.kind = "delete" => g.body.id \in garbled'
      BY <1>2, <2>2 DEF ReplyInOrder, IdsIn
    <2>3. CASE response' = <<NoEntity>>
      BY <2>2, <2>3 DEF NoEntity, Plain
    <2>4. CASE \E g \in Invented : response' = <<g>> /\ garbled' = garbled \cup Named(g)
      BY <2>2, <2>4 DEF Named
    <2>5. QED
      BY <1>1, <2>1, <2>3, <2>4
  <1>4. FeedTypeOK'
    BY <1>2, EmptySegments DEF FInv, FeedTypeOK
  <1>5. QED
    BY <1>2, <1>3, <1>4 DEF FInv, ServerClean, StaleOnlyIfOvertaken, TextInOrder

\* A timeline: its deleted tweets become late.
LEMMA ReplyKeeps ==
  ASSUME FInv, TakeReply, IInv'
  PROVE  FInv'
  <1>1. /\ UNCHANGED <<server, gone, noticed, open, text, announced, lost, garbled>>
        /\ UNCHANGED <<tweets, deleted>> /\ next' = Len(response')
        /\ response' \in replies /\ replies' \subseteq replies
        /\ late' = late \cup (IdsOf(response') \cap deleted)
    BY DEF TakeReply, ReceiveResponse, stores, history
  <1>2. DOMAIN response' = 1 .. Len(response')
    BY DEF IInv, TypeOK
  <1>3. ReplyInOrder'
    <2>1. ASSUME NEW k \in 1 .. next'
          PROVE  response'[k].kind = "tweet" /\ IdsIn(response'[k]) \cap deleted \subseteq late'
      <3>1. k \in DOMAIN response'
        BY <1>1, <1>2
      <3>2. response'[k].kind = "tweet"
        <4>1. \A r \in replies : \A i \in DOMAIN r : r[i].kind = "tweet"
          BY DEF FInv, FeedTypeOK
        <4>2. PICK r \in replies : r = response'
          BY <1>1
        <4>3. k \in DOMAIN r
          BY <3>1, <4>2
        <4>4. r[k].kind = "tweet"
          BY <4>1, <4>3
        <4>5. QED
          BY <4>2, <4>4
      <3>3. IdsIn(response'[k]) \subseteq IdsOf(response')
        BY <3>1, Zenon DEF IdsOf
      <3>4. IdsIn(response'[k]) \cap deleted \subseteq late'
        BY <1>1, <3>3
      <3>5. QED
        BY <3>2, <3>4
    <2>2. QED
      BY <1>1, <2>1 DEF ReplyInOrder, IdsIn
  <1>4. QED
    BY <1>1, <1>3 DEF FInv, FeedTypeOK, ServerClean, TextInOrder, StaleOnlyIfOvertaken

\* A cut timeline: its tweets as in a whole one, and the rest by its ids.
LEMMA CutReplyKeeps ==
  ASSUME FInv, TakeCutReply, IInv'
  PROVE  FInv'
  <1>1. PICK r \in replies, m \in 0 .. Len(response') :
          /\ m <= Len(r)
          /\ \A i \in DOMAIN response' :
               IF i <= m THEN response'[i] = r[i] ELSE response'[i] \in Invented
          /\ replies' = replies \ {r}
          /\ garbled' = garbled \cup UNION {Named(response'[i]) : i \in {j \in DOMAIN response' : j > m}}
    BY DEF TakeCutReply
  <1>2. /\ UNCHANGED <<server, gone, noticed, open, text, announced, lost>>
        /\ UNCHANGED <<tweets, deleted>> /\ next' = Len(response')
        /\ late' = late \cup (IdsOf(response') \cap deleted)
        /\ garbled \subseteq garbled' /\ replies' \subseteq replies
    BY <1>1 DEF TakeCutReply, ReceiveResponse, stores, history
  <1>3. DOMAIN response' = 1 .. Len(response') /\ Len(response') \in Nat
    BY DEF IInv, TypeOK
  <1>4. ASSUME NEW k \in DOMAIN response'
        PROVE  /\ response'[k].kind = "tweet" =>
                    IdsIn(response'[k]) \cap deleted \subseteq late' \cup garbled'
               /\ response'[k].kind = "delete" => response'[k].body.id \in garbled'
    <2>1. IdsIn(response'[k]) \subseteq IdsOf(response')
      BY Zenon DEF IdsOf
    <2>2. IdsIn(response'[k]) \cap deleted \subseteq late'
      BY <1>2, <2>1
    <2>3. CASE k <= m
      <3>1. k \in DOMAIN r /\ response'[k] = r[k]
        <4>1. r \in Seq(Entity)
          BY DEF FInv, FeedTypeOK
        <4>2. QED
          BY <1>1, <1>3, <2>3, <4>1
      <3>2. r[k].kind = "tweet"
        BY <3>1 DEF FInv, FeedTypeOK
      <3>3. QED
        BY <2>2, <3>1, <3>2
    <2>4. CASE k > m
      <3>1. Named(response'[k]) \subseteq garbled'
        BY <1>1, <2>4
      <3>2. QED
        BY <2>2, <3>1 DEF Named
    <2>5. QED
      BY <1>3, <2>3, <2>4
  <1>5. ReplyInOrder'
    BY <1>2, <1>3, <1>4 DEF ReplyInOrder, IdsIn
  <1>6. QED
    BY <1>2, <1>5 DEF FInv, FeedTypeOK, ServerClean, TextInOrder, StaleOnlyIfOvertaken

-----------------------------------------------------------------------------
(* The server's steps, none of which happens while the handler runs. *)

\* What a step outside leaves alone.
LEMMA IdleKeeps ==
  ASSUME FInv, Idle, UNCHANGED <<vars, late, garbled>>, IInv', FeedTypeOK', ServerClean', TextInOrder'
  PROVE  FInv'
  BY DEF FInv, ReplyInOrder, StaleOnlyIfOvertaken, vars, Idle

LEMMA PostKeeps ==
  ASSUME FInv, Idle, Post, IInv'
  PROVE  FInv'
  <1>1. PICK e \in Catalogue :
          /\ \A id \in ServerIds \cup gone : id < e.body.id
          /\ e.rt # NoField => Plain("tweet", e.rt) \in server
          /\ server' = server \cup {e}
          /\ text' = text \o TextOf(e) \/ text' = text
    BY DEF Post
  <1>2. UNCHANGED <<vars, gone, replies, late, garbled>> /\ UNCHANGED deleted
    BY DEF Post, vars
  <1>3. IdsIn(e) \cap gone = {}
    <2>1. e.kind = "tweet" /\ e.body.id \in Nat
      BY CatalogueTweets, CatalogueAssumption
    <2>2. e.body.id \notin gone
      BY <1>1, <2>1
    <2>3. ASSUME e.rt # NoField PROVE e.rt.id \notin gone
      <3>1. Plain("tweet", e.rt) \in server /\ e.rt.id \in IdsIn(Plain("tweet", e.rt))
        BY <1>1, <2>3 DEF IdsIn, Plain
      <3>2. QED
        BY <3>1 DEF FInv, ServerClean
    <2>4. QED
      BY <2>1, <2>2, <2>3 DEF IdsIn
  <1>4. ServerClean'
    BY <1>1, <1>2, <1>3 DEF FInv, ServerClean, IdsIn
  <1>5. deleted \subseteq gone \cup garbled /\ text \in Seq(Segment)
    BY DEF FInv, FeedTypeOK
  <1>6. FeedTypeOK' /\ TextInOrder'
    <2>1. CASE text' = text
      BY <1>1, <1>2, <2>1 DEF FInv, FeedTypeOK, TextInOrder
    <2>2. CASE text' = text \o TextOf(e)
      <3>1. /\ text' \in Seq(Segment)
            /\ \A i \in DOMAIN text' : \/ i \in DOMAIN text /\ text'[i] = text[i]
                                       \/ i \notin DOMAIN text /\ text'[i].of = e
            /\ \A i, j \in DOMAIN text' : i < j /\ j \in DOMAIN text => i \in DOMAIN text
        BY <1>5, <2>2, Appended
      <3>2. e.kind # "delete"
        BY CatalogueTweets
      <3>3. FeedTypeOK'
        BY <1>1, <1>2, <3>1 DEF FInv, FeedTypeOK
      <3>4. \A i \in DOMAIN text : text[i].of.kind = "delete" => text[i].of.body.id \notin IdsIn(e)
        BY <1>3 DEF FInv, TextInOrder
      <3>5. TextInOrder'
        BY <1>2, <1>3, <1>5, <3>1, <3>2, <3>4 DEF FInv, TextInOrder
      <3>6. QED
        BY <3>3, <3>5
    <2>3. QED
      BY <1>1, <2>1, <2>2
  <1>7. QED
    BY <1>2, <1>4, <1>6, IdleKeeps

LEMMA NotifyKeeps ==
  ASSUME FInv, Idle, Notify, IInv'
  PROVE  FInv'
  <1>1. PICK id \in gone : text' = text \o TextOf(Notice(id))
    BY DEF Notify
  <1>2. UNCHANGED <<vars, server, gone, replies, late, garbled>> /\ UNCHANGED deleted
    BY DEF Notify, vars
  <1>3. id \in TweetIds /\ text \in Seq(Segment)
    BY DEF FInv, FeedTypeOK
  <1>4. /\ text' \in Seq(Segment)
        /\ \A i \in DOMAIN text' : \/ i \in DOMAIN text /\ text'[i] = text[i]
                                   \/ i \notin DOMAIN text /\ text'[i].of = Notice(id)
        /\ \A i, j \in DOMAIN text' : i < j /\ j \in DOMAIN text => i \in DOMAIN text
    BY <1>1, <1>3, Appended
  <1>5. IdsIn(Notice(id)) = {} /\ Notice(id).body.id = id
    BY NoticeFields DEF IdsIn
  <1>6. FeedTypeOK' /\ ServerClean'
    BY <1>2, <1>4 DEF FInv, FeedTypeOK, ServerClean
  <1>7. TextInOrder'
    BY <1>2, <1>4, <1>5 DEF FInv, TextInOrder
  <1>8. QED
    BY <1>2, <1>6, <1>7, IdleKeeps

LEMMA ServerDeleteKeeps ==
  ASSUME FInv, Idle, Delete, IInv'
  PROVE  FInv'
  <1>1. PICK id \in ServerIds :
          LET with == {e \in server : id \in IdsIn(e)}
          IN server' = server \ with /\ gone' = gone \cup {e.body.id : e \in with}
    BY DEF Delete
  <1> DEFINE with == {e \in server : id \in IdsIn(e)}
  <1>2. UNCHANGED <<vars, text, replies, late, garbled>> /\ UNCHANGED deleted
    BY DEF Delete, vars
  <1>3. server \subseteq Catalogue
    BY DEF FInv, FeedTypeOK
  <1>4. {e.body.id : e \in with} \subseteq TweetIds
    BY <1>3, CatalogueTweets
  <1>5. FeedTypeOK'
    BY <1>1, <1>2, <1>4 DEF FInv, FeedTypeOK
  <1>6. TextInOrder'
    BY <1>1, <1>2 DEF FInv, TextInOrder
  <1>7. ServerClean'
    <2>1. SUFFICES ASSUME NEW e \in server, id \notin IdsIn(e), NEW o \in with,
                          o.body.id \in IdsIn(e)
                   PROVE  FALSE
      BY <1>1 DEF FInv, ServerClean, IdsIn
    <2>2. e \in Catalogue /\ o \in Catalogue /\ id \in IdsIn(o)
      BY <1>3, <2>1
    <2>3. o.body.id # e.body.id
      BY <2>1, <2>2, CatalogueAssumption
    <2>4. e.rt # NoField /\ o.body.id = e.rt.id
      BY <2>1, <2>2, <2>3, CatalogueTweets DEF IdsIn
    <2>5. Plain("tweet", e.rt) \in Catalogue /\ Plain("tweet", e.rt).body.id = e.rt.id
      BY <2>2, <2>4, CatalogueAssumption DEF Plain
    <2>6. o = Plain("tweet", e.rt)
      BY <2>2, <2>4, <2>5, CatalogueAssumption
    <2>7. IdsIn(o) = {e.rt.id}
      BY <2>6 DEF IdsIn, Plain
    <2>8. QED
      BY <2>1, <2>2, <2>4, <2>7
  <1>8. QED
    BY <1>2, <1>5, <1>6, <1>7, IdleKeeps

\* The stream's end, and what becomes of a timeline in transit.
LEMMA TransitKeeps ==
  ASSUME FInv, Idle, StreamEnds \/ Compose \/ LoseReply, IInv'
  PROVE  FInv'
  <1>1. UNCHANGED <<vars, server, gone, late, garbled>> /\ UNCHANGED deleted
    BY DEF StreamEnds, Compose, LoseReply, vars
  <1>2. text' = text \/ text' = <<>>
    BY DEF StreamEnds, Compose, LoseReply
  <1>3. ASSUME NEW r \in replies'
        PROVE  r \in Seq(Entity) /\ \A i \in DOMAIN r : r[i].kind = "tweet"
    <2>1. CASE r \in replies
      BY <2>1 DEF FInv, FeedTypeOK
    <2>2. CASE r \in Responses /\ IsTimeline(r)
      BY <2>2, CatalogueTweets, ResponsesAssumption DEF IsTimeline, FInv, FeedTypeOK
    <2>3. QED
      BY <2>1, <2>2 DEF StreamEnds, Compose, LoseReply
  <1>4. text' \in Seq(Segment)
    BY <1>2, EmptySegments DEF FInv, FeedTypeOK
  <1>5. FeedTypeOK'
    BY <1>1, <1>3, <1>4 DEF FInv, FeedTypeOK
  <1>6. TextInOrder'
    BY <1>1, <1>2 DEF FInv, TextInOrder
  <1>7. ServerClean'
    BY <1>1 DEF FInv, ServerClean
  <1>8. QED
    BY <1>1, <1>5, <1>6, <1>7, IdleKeeps

-----------------------------------------------------------------------------

LEMMA FeedInitEstablishes == FeedInit => FInv
  <1> SUFFICES ASSUME FeedInit PROVE FInv
    OBVIOUS
  <1>1. Init /\ server \in Before /\ gone = {} /\ text = <<>> /\ replies = {} /\ garbled = {}
    BY DEF FeedInit
  <1>2. IInv /\ tweets = {} /\ deleted = {} /\ Idle
    BY <1>1, InitEstablishes DEF Init, Idle
  <1>3. server \subseteq Catalogue
    BY <1>1, CatalogueAssumption
  <1>4. FeedTypeOK
    BY <1>1, <1>2, <1>3, EmptySegments DEF FeedTypeOK
  <1>5. QED
    BY <1>1, <1>2, <1>4 DEF FInv, ServerClean, TextInOrder, ReplyInOrder, StaleOnlyIfOvertaken

LEMMA FeedNextPreserves == FInv /\ [FeedNext]_<<vars, feedVars>> => FInv'
  <1> SUFFICES ASSUME FInv, [FeedNext]_<<vars, feedVars>> PROVE FInv'
    OBVIOUS
  <1>1. IInv'
    BY FeedStep, NextPreserves DEF FInv
  <1>2. CASE UNCHANGED <<vars, feedVars>>
    BY <1>1, <1>2 DEF vars, feedVars, FInv, FeedTypeOK, ServerClean, TextInOrder, ReplyInOrder,
                      Genuine, Idle, StaleOnlyIfOvertaken
  <1>3. CASE Idle /\ Outside
    BY <1>1, <1>3, PostKeeps, ServerDeleteKeeps, NotifyKeeps, TransitKeeps DEF Outside
  <1>4. CASE TakeChunk
    BY <1>1, <1>4, ChunkKeeps
  <1>5. CASE TakeReply
    BY <1>1, <1>5, ReplyKeeps
  <1>6. CASE TakeCutChunk
    BY <1>1, <1>6, CutChunkKeeps
  <1>7. CASE TakeCutReply
    BY <1>1, <1>7, CutReplyKeeps
  <1>8. CASE Handle /\ UNCHANGED feedVars
    BY <1>1, <1>8, TweetKeeps, DeleteKeeps, OthersKeep DEF Handle
  <1>9. QED
    BY <1>2, <1>3, <1>4, <1>5, <1>6, <1>7, <1>8 DEF FeedNext

\* A tweet whose notice was handled is stored only if a timeline that the notice overtook
\* brought it back (black_circle.cc:37), or the callback of a cut body named it
\* (http_client_inst.cc:87, :114): whole chunks alone never leave a deleted tweet.
THEOREM NoticesHold == FeedSpec => []StaleOnlyIfOvertaken
  <1>1. FInv => StaleOnlyIfOvertaken
    BY DEF FInv
  <1>2. QED
    BY <1>1, FeedInitEstablishes, FeedNextPreserves, PTL DEF FeedSpec

-----------------------------------------------------------------------------
(* Every stored tweet is one of the server's. *)

\* The tweets that the server has or had.
Posted == {e \in Catalogue : e.body.id \in ServerIds \cup gone}

\* Text, timelines and what is left of a reply hold the server's tweets, or the inside of one,
\* but for what a cut body was completed with.
AllPosted ==
  /\ \A e \in Posted : e.rt # NoField => Plain("tweet", e.rt) \in Posted
  /\ \A i \in DOMAIN text : text[i].of.kind = "tweet" => text[i].of \in Posted
  /\ \A r \in replies : \A i \in DOMAIN r : r[i] \in Posted
  /\ ~Idle => \A k \in 1 .. next :
       response[k].kind = "tweet" => response[k] \in Posted \/ IdsIn(response[k]) \subseteq garbled

GInv == AllPosted /\ NothingMadeUp

LEMMA PostedGrows ==
  ASSUME FInv, [FeedNext]_<<vars, feedVars>>
  PROVE  /\ Posted \subseteq Posted'
         /\ \A e \in Posted' : e \in Posted \/ (e.rt # NoField => Plain("tweet", e.rt) \in Posted)
  <1>1. server \subseteq Catalogue
    BY DEF FInv, FeedTypeOK
  <1>2. CASE UNCHANGED <<server, gone>>
    BY <1>2 DEF Posted, ServerIds
  <1>3. CASE Post
    <2>1. PICK e \in Catalogue : /\ e.rt # NoField => Plain("tweet", e.rt) \in server
                                 /\ server' = server \cup {e}
                                 /\ gone' = gone
      BY <1>3 DEF Post
    <2>2. Posted' = Posted \cup {e}
      <3>1. ServerIds' = ServerIds \cup {e.body.id}
        BY <2>1 DEF ServerIds
      <3>2. \A o \in Catalogue : o.body.id = e.body.id => o = e
        BY <2>1, CatalogueAssumption
      <3>3. QED
        BY <2>1, <3>1, <3>2 DEF Posted
    <2>3. e.rt # NoField => Plain("tweet", e.rt) \in Posted
      BY <1>1, <2>1 DEF Posted, ServerIds
    <2>4. QED
      BY <2>2, <2>3
  <1>4. CASE Delete
    <2>1. PICK with \in SUBSET server : /\ server' = server \ with
                                        /\ gone' = gone \cup {e.body.id : e \in with}
      BY <1>4 DEF Delete
    <2>2. ServerIds' \cup gone' = ServerIds \cup gone
      BY <2>1 DEF ServerIds
    <2>3. QED
      BY <2>2 DEF Posted
  <1>5. QED
    BY <1>2, <1>3, <1>4 DEF FeedNext, Outside, Notify, StreamEnds, Compose, LoseReply, TakeChunk,
                            TakeCutChunk, TakeReply, TakeCutReply, feedVars

\* insert_new_tweet of a posted tweet stores it, and before it what it retweets.
LEMMA PostedRecords ==
  ASSUME ProcessTweet, Current \in Posted, AllPosted
  PROVE  /\ \A t \in tweets' : t \in tweets \/ \E e \in Posted : t = Record(e)
         /\ \E t \in tweets' : t.id = Current.body.id
         /\ Finish
  <1> DEFINE e == Current
             o == Plain("tweet", e.rt)
  <1>1. /\ e \in Catalogue /\ e.body.user.id # NoField /\ e.body.rtId = NoField
        /\ e.body.user # NoField /\ Complete(e.body)
    BY CatalogueAssumption DEF Posted, Complete
  <1>2. ASSUME e.rt # NoField
        PROVE  /\ o \in Posted /\ o.body = e.rt /\ o.rt = NoField
               /\ Complete(e.rt) /\ e.rt.user # NoField
               /\ e.rt.user.id # NoField /\ e.rt.rtId = NoField
    <2>1. o \in Posted /\ o.body = e.rt /\ o.rt = NoField
      BY <1>2 DEF AllPosted, Plain
    <2>2. Complete(o.body) /\ o.body.user.id # NoField /\ o.body.rtId = NoField
      BY <2>1, CatalogueAssumption DEF Posted
    <2>3. QED
      BY <2>1, <2>2 DEF Complete
  <1>3. Constructed(e)
    BY <1>1, <1>2 DEF Constructed
  <1>4. PICK author \in Author(e.body), rtAuthor \in Author(e.rt) :
          /\ tweets' = InsertTweet(WithRetweet(tweets, e, rtAuthor),
                                   [id   |-> e.body.id,
                                    user |-> author.id,
                                    rt   |-> RetweetedId(e.body, e.rt)])
          /\ Finish
    BY <1>3 DEF ProcessTweet
  <1> DEFINE outer == [id |-> e.body.id, user |-> author.id, rt |-> RetweetedId(e.body, e.rt)]
             inner == [id |-> e.rt.id, user |-> rtAuthor.id, rt |-> e.rt.rtId]
             ts1   == WithRetweet(tweets, e, rtAuthor)
  <1>5. outer = Record(e)
    <2>1. e.body # NoField
      BY <1>1, NoFieldAssumption, CatalogueAssumption DEF Entity
    <2>2. author.id = e.body.user.id
      BY <1>1, <2>1 DEF Author
    <2>3. QED
      BY <2>2 DEF Record
  <1>6. ASSUME e.rt # NoField PROVE inner = Record(o)
    <2>1. rtAuthor.id = e.rt.user.id
      BY <1>2, <1>6 DEF Author
    <2>2. RetweetedId(o.body, o.rt) = NoField /\ e.rt.rtId = NoField
      BY <1>2, <1>6 DEF RetweetedId
    <2>3. QED
      BY <1>2, <1>6, <2>1, <2>2 DEF Record
  <1>7. ts1 \subseteq tweets \cup (IF e.rt = NoField THEN {} ELSE {inner})
    BY DEF WithRetweet, InsertTweet
  <1> HIDE DEF ts1, inner, o
  <1>8. \A t \in ts1 : t \in tweets \/ \E x \in Posted : t = Record(x)
    BY <1>2, <1>6, <1>7
  <1>9. tweets' \subseteq ts1 \cup {outer} /\ \E t \in tweets' : t.id = outer.id
    BY <1>4 DEF InsertTweet, ts1
  <1>10. QED
    BY <1>4, <1>5, <1>8, <1>9

LEMMA MadeUp ==
  NothingMadeUp <=> \A t \in tweets : t.id \in garbled \/ \E e \in Posted : t = Record(e)
  BY DEF NothingMadeUp, Posted

\* The handler's steps.
LEMMA HandlePosts ==
  ASSUME FInv, GInv, Handle, UNCHANGED feedVars
  PROVE  GInv'
  <1>1. Posted' = Posted /\ UNCHANGED <<text, replies, garbled>>
    BY DEF feedVars, Posted, ServerIds
  <1>2. response' = response /\ (~Idle' => ~Idle /\ next' \in {next, next - 1})
    <2>1. CASE ProcessTweet \/ ProcessDelete \/ ProcessEvent \/ ProcessScalar
      <3>1. ~Idle /\ (Finish \/ Throw)
        BY <2>1 DEF ProcessTweet, ProcessDelete, ProcessEvent, ProcessScalar, At
      <3>2. QED
        BY <3>1 DEF Finish, Throw
    <2>2. CASE PrintTweet
      BY <2>2 DEF PrintTweet, Idle
    <2>3. QED
      BY <2>1, <2>2 DEF Handle
  <1>3. AllPosted'
    <2>1. ASSUME ~Idle', NEW k \in 1 .. next'
          PROVE  ~Idle /\ k \in 1 .. next
      <3>1. ~Idle /\ next' \in {next, next - 1}
        BY <1>2, <2>1
      <3>2. next \in 1 .. Len(response) /\ Len(response) \in Nat
        BY <3>1, RunningReply
      <3>3. QED
        BY <2>1, <3>1, <3>2
    <2>2. QED
      BY <1>1, <1>2, <2>1 DEF GInv, AllPosted, IdsIn
  <1>4. \A t \in tweets' : t.id \in garbled \/ \E e \in Posted : t = Record(e)
    <2>1. \A t \in tweets : t.id \in garbled \/ \E e \in Posted : t = Record(e)
      BY MadeUp DEF GInv
    <2>2. CASE ProcessTweet
      <3>1. ~Idle /\ Current.kind = "tweet"
        BY <2>2 DEF ProcessTweet, At, Current
      <3>2. next \in 1 .. next
        BY <3>1, RunningReply
      <3>3. Current \in Posted \/ IdsIn(Current) \subseteq garbled
        BY <3>1, <3>2 DEF GInv, AllPosted, Current
      <3>4. CASE Current \in Posted
        BY <2>1, <2>2, <3>4, PostedRecords DEF GInv
      <3>5. CASE IdsIn(Current) \subseteq garbled
        BY <2>1, <2>2, <3>5, NewIds
      <3>6. QED
        BY <3>3, <3>4, <3>5
    <2>3. CASE ~ProcessTweet
      <3>1. tweets' \subseteq tweets
        BY <2>3 DEF Handle, ProcessDelete, ProcessEvent, ProcessScalar, PrintTweet, Erase, stores
      <3>2. QED
        BY <2>1, <3>1
    <2>4. QED
      BY <2>2, <2>3
  <1>5. NothingMadeUp'
    BY <1>1, <1>4, MadeUp DEF NothingMadeUp, Posted
  <1>6. QED
    BY <1>3, <1>5 DEF GInv

\* What the handler gets out of a chunk is the server's.
LEMMA ParsedPosts ==
  ASSUME FInv, GInv, NEW n \in 1 .. Len(text), response' \in Parsed(SubSeq(text, 1, n)),
         next' = Len(response')
  PROVE  \A k \in 1 .. next' : response'[k].kind = "tweet" => response'[k] \in Posted
  <1> DEFINE chunk == SubSeq(text, 1, n)
  <1>2. next' = Len(response')
    OBVIOUS
  <1>3. /\ chunk \in Seq(Segment)
        /\ \A i \in DOMAIN chunk : i \in DOMAIN text /\ chunk[i] = text[i]
    BY Split DEF FInv, FeedTypeOK
  <1>4. response' \in Parsed(chunk)
    OBVIOUS
  <1> HIDE DEF chunk
  <1>5. ASSUME NEW i \in DOMAIN chunk, chunk[i].of.kind = "tweet"
        PROVE  chunk[i].of \in Posted
    BY <1>3, <1>5 DEF GInv, AllPosted
  <1>6. ASSUME NEW i \in DOMAIN chunk, chunk[i].part = "rtHead"
        PROVE  Plain("tweet", chunk[i].of.rt) \in Posted
    <2>1. chunk[i] \in Segment
      BY <1>3
    <2>2. chunk[i].of.rt # NoField /\ chunk[i].of.kind = "tweet"
      BY <1>6, <2>1, SegmentFields
    <2>3. QED
      BY <1>5, <2>2 DEF GInv, AllPosted
  <1>7. ASSUME NEW k \in 1 .. next', response'[k].kind = "tweet"
        PROVE  response'[k] \in Posted
    <2>1. EventEntity.kind # "tweet" /\ NoEntity.kind # "tweet"
      BY DEF EventEntity, NoEntity, Plain
    <2>2. \/ response' = <<>> \/ response' = <<EventEntity>> \/ response' = <<NoEntity>>
          \/ \E i \in DOMAIN chunk : response' = <<chunk[i].of>>
          \/ \E i \in DOMAIN chunk : /\ chunk[i].part = "rtHead"
                                     /\ response' = <<Plain("tweet", chunk[i].of.rt)>>
      BY <1>4, ParsedForms
    <2>3. QED
      BY <1>2, <1>5, <1>6, <1>7, <2>1, <2>2
  <1>8. QED
    BY <1>7

\* A chunk, whole or cut, and a timeline.
LEMMA ChunkPosts ==
  ASSUME FInv, GInv, TakeChunk
  PROVE  AllPosted' /\ UNCHANGED tweets
  <1>1. PICK n \in 1 .. Len(text) :
          /\ ReceiveResponse
          /\ response' \in Parsed(SubSeq(text, 1, n))
          /\ text' = SubSeq(text, n + 1, Len(text))
    BY DEF TakeChunk
  <1>2. /\ UNCHANGED <<server, gone, replies, tweets, garbled>> /\ next' = Len(response')
        /\ Posted' = Posted
    BY <1>1 DEF TakeChunk, ReceiveResponse, stores, Posted, ServerIds
  <1>3. \A j \in DOMAIN text' : n + j \in DOMAIN text /\ text'[j] = text[n + j]
    BY <1>1, Split DEF FInv, FeedTypeOK
  <1>4. \A k \in 1 .. next' : response'[k].kind = "tweet" => response'[k] \in Posted
    BY <1>1, <1>2, ParsedPosts
  <1>5. QED
    BY <1>2, <1>3, <1>4 DEF GInv, AllPosted, IdsIn

LEMMA CutChunkPosts ==
  ASSUME FInv, GInv, TakeCutChunk
  PROVE  AllPosted' /\ UNCHANGED tweets
  <1>1. PICK n \in 1 .. Len(text) :
          /\ ReceiveResponse
          /\ \/ response' \in Parsed(SubSeq(text, 1, n))
             \/ response' = <<NoEntity>>
             \/ \E g \in Invented : response' = <<g>> /\ garbled' = garbled \cup Named(g)
    BY DEF TakeCutChunk
  <1>2. /\ UNCHANGED <<server, gone, replies, tweets>> /\ next' = Len(response') /\ text' = <<>>
        /\ Posted' = Posted
    BY <1>1 DEF TakeCutChunk, ReceiveResponse, stores, Posted, ServerIds
  <1>3. ASSUME NEW k \in 1 .. next', response'[k].kind = "tweet"
        PROVE  response'[k] \in Posted \/ IdsIn(response'[k]) \subseteq garbled'
    <2>1. CASE response' \in Parsed(SubSeq(text, 1, n))
      BY <1>2, <1>3, <2>1, ParsedPosts
    <2>2. CASE response' = <<NoEntity>>
      BY <1>2, <1>3, <2>2 DEF NoEntity, Plain
    <2>3. CASE \E g : response' = <<g>> /\ garbled' = garbled \cup Named(g)
      BY <1>2, <1>3, <2>3 DEF Named
    <2>4. QED
      BY <1>1, <2>1, <2>2, <2>3
  <1>4. QED
    BY <1>2, <1>3 DEF GInv, AllPosted, IdsIn

LEMMA ReplyPosts ==
  ASSUME FInv, GInv, TakeReply, IInv'
  PROVE  AllPosted' /\ UNCHANGED tweets
  <1>1. /\ UNCHANGED <<server, gone, text, tweets, garbled>> /\ next' = Len(response')
        /\ response' \in replies /\ replies' \subseteq replies
        /\ Posted' = Posted
    BY DEF TakeReply, ReceiveResponse, stores, Posted, ServerIds
  <1>2. DOMAIN response' = 1 .. Len(response')
    BY DEF IInv, TypeOK
  <1>3. \A k \in 1 .. next' : response'[k] \in Posted
    <2>1. PICK r \in replies : r = response'
      BY <1>1
    <2>2. \A k \in DOMAIN r : r[k] \in Posted
      BY DEF GInv, AllPosted
    <2>3. QED
      BY <1>1, <1>2, <2>1, <2>2
  <1>4. QED
    BY <1>1, <1>3 DEF GInv, AllPosted, IdsIn

LEMMA CutReplyPosts ==
  ASSUME FInv, GInv, TakeCutReply, IInv'
  PROVE  AllPosted' /\ UNCHANGED tweets
  <1>1. PICK r \in replies, m \in 0 .. Len(response') :
          /\ m <= Len(r)
          /\ \A i \in DOMAIN response' :
               IF i <= m THEN response'[i] = r[i] ELSE response'[i] \in Invented
          /\ replies' = replies \ {r}
          /\ garbled' = garbled \cup UNION {Named(response'[i]) : i \in {j \in DOMAIN response' : j > m}}
    BY DEF TakeCutReply
  <1>2. /\ UNCHANGED <<server, gone, text, tweets>> /\ next' = Len(response')
        /\ replies' \subseteq replies /\ Posted' = Posted
    BY <1>1 DEF TakeCutReply, ReceiveResponse, stores, Posted, ServerIds
  <1>3. DOMAIN response' = 1 .. Len(response') /\ Len(response') \in Nat
    BY DEF IInv, TypeOK
  <1>4. ASSUME NEW k \in DOMAIN response', response'[k].kind = "tweet"
        PROVE  response'[k] \in Posted \/ IdsIn(response'[k]) \subseteq garbled'
    <2>1. CASE k <= m
      <3>1. r \in Seq(Entity)
        BY DEF FInv, FeedTypeOK
      <3>2. k \in DOMAIN r /\ response'[k] = r[k]
        BY <1>1, <1>3, <2>1, <3>1
      <3>3. QED
        BY <3>2 DEF GInv, AllPosted
    <2>2. CASE k > m
      <3>1. Named(response'[k]) \subseteq garbled'
        BY <1>1, <2>2
      <3>2. QED
        BY <1>4, <3>1 DEF Named
    <2>3. QED
      BY <1>1, <1>3, <2>1, <2>2
  <1>5. QED
    BY <1>2, <1>3, <1>4 DEF GInv, AllPosted, IdsIn

\* The steps outside.
LEMMA OutsidePosts ==
  ASSUME FInv, GInv, Idle, Outside
  PROVE  AllPosted' /\ UNCHANGED tweets
  <1>1. UNCHANGED vars
    BY DEF Outside, Post, Delete, Notify, StreamEnds, Compose, LoseReply
  <1>2. Idle' /\ UNCHANGED tweets
    BY <1>1 DEF vars, Idle
  <1>3. /\ Posted \subseteq Posted'
        /\ \A e \in Posted' : e.rt # NoField => Plain("tweet", e.rt) \in Posted'
    BY PostedGrows DEF FeedNext, GInv, AllPosted
  <1>4. ASSUME NEW i \in DOMAIN text', text'[i].of.kind = "tweet"
        PROVE  text'[i].of \in Posted'
    <2>1. CASE text' = text
      BY <1>3, <1>4, <2>1 DEF GInv, AllPosted
    <2>2. CASE text' = <<>>
      BY <1>4, <2>2
    <2>3. ASSUME NEW e \in Catalogue \cup {Notice(id) : id \in TweetIds}, text' = text \o TextOf(e),
                 e \in Posted' \/ e.kind # "tweet"
          PROVE  text'[i].of \in Posted'
      <3>1. (i \in DOMAIN text /\ text'[i] = text[i]) \/ text'[i].of = e
        BY <1>4, <2>3, Appended DEF FInv, FeedTypeOK
      <3>2. QED
        BY <1>3, <1>4, <2>3, <3>1 DEF GInv, AllPosted
    <2>4. CASE Post
      <3>1. PICK e \in Catalogue : /\ server' = server \cup {e}
                                   /\ text' = text \o TextOf(e) \/ text' = text
        BY <2>4 DEF Post
      <3>2. e \in Posted'
        BY <3>1 DEF Posted, ServerIds
      <3>3. QED
        BY <2>1, <2>3, <3>1, <3>2
    <2>5. CASE Notify
      <3>1. PICK id \in gone : text' = text \o TextOf(Notice(id))
        BY <2>5 DEF Notify
      <3>2. id \in TweetIds /\ Notice(id).kind # "tweet"
        BY NoticeFields DEF FInv, FeedTypeOK
      <3>3. QED
        BY <2>3, <3>1, <3>2
    <2>6. QED
      BY <2>1, <2>2, <2>4, <2>5 DEF Outside, Delete, StreamEnds, Compose, LoseReply
  <1>5. ASSUME NEW r \in replies', NEW i \in DOMAIN r
        PROVE  r[i] \in Posted'
    <2>1. CASE r \in replies
      BY <1>3, <2>1 DEF GInv, AllPosted
    <2>2. CASE r \notin replies
      <3>1. IsTimeline(r)
        BY <2>2 DEF Outside, Post, Delete, Notify, StreamEnds, Compose, LoseReply
      <3>2. r[i] \in server
        BY <3>1 DEF IsTimeline
      <3>3. r[i] \in Posted
        BY <3>2 DEF Posted, ServerIds, FInv, FeedTypeOK
      <3>4. QED
        BY <1>3, <3>3
    <2>3. QED
      BY <2>1, <2>2
  <1>6. QED
    BY <1>2, <1>3, <1>4, <1>5 DEF AllPosted

LEMMA GarbledGrows == [FeedNext]_<<vars, feedVars>> => garbled \subseteq garbled'
  BY DEF FeedNext, Outside, Post, Delete, Notify, StreamEnds, Compose, LoseReply, TakeChunk,
         TakeCutChunk, TakeReply, TakeCutReply, feedVars

LEMMA GInvHolds == FeedSpec => [](FInv /\ GInv)
  <1>1. FeedInit => GInv
    <2> SUFFICES ASSUME FeedInit PROVE GInv
      OBVIOUS
    <2>1. server \in Before /\ gone = {} /\ text = <<>> /\ replies = {} /\ tweets = {} /\ Idle
      BY DEF FeedInit, Init, Idle
    <2>2. ASSUME NEW e \in Posted, e.rt # NoField PROVE Plain("tweet", e.rt) \in Posted
      <3>1. PICK o \in server : o.body.id = e.body.id
        BY <2>1 DEF Posted, ServerIds
      <3>2. server \subseteq Catalogue
        BY <2>1, CatalogueAssumption
      <3>3. o = e
        BY <3>1, <3>2, CatalogueAssumption DEF Posted
      <3>4. Plain("tweet", e.rt) \in server
        BY <2>1, <2>2, <3>1, <3>3, CatalogueAssumption
      <3>5. QED
        BY <3>2, <3>4 DEF Posted, ServerIds
    <2>3. QED
      BY <2>1, <2>2 DEF GInv, AllPosted, NothingMadeUp
  <1>2. FInv /\ GInv /\ [FeedNext]_<<vars, feedVars>> => GInv'
    <2> SUFFICES ASSUME FInv, GInv, [FeedNext]_<<vars, feedVars>> PROVE GInv'
      OBVIOUS
    <2>1. FInv' /\ Posted \subseteq Posted' /\ garbled \subseteq garbled'
      BY FeedNextPreserves, PostedGrows, GarbledGrows
    <2>2. CASE UNCHANGED <<vars, feedVars>>
      BY <2>2 DEF vars, feedVars, GInv, AllPosted, NothingMadeUp, Posted, ServerIds, IdsIn,
                  Idle
    <2>3. CASE Handle /\ UNCHANGED feedVars
      BY <2>3, HandlePosts
    <2>4. ASSUME AllPosted', UNCHANGED tweets
          PROVE  GInv'
      <3>1. \A t \in tweets : t.id \in garbled \/ \E e \in Posted : t = Record(e)
        BY MadeUp DEF GInv
      <3>2. \A t \in tweets' : t.id \in garbled' \/ \E e \in Posted' : t = Record(e)
        BY <2>1, <2>4, <3>1
      <3>3. QED
        BY <2>4, <3>2 DEF GInv, NothingMadeUp, Posted
    <2>5. QED
      BY <2>1, <2>2, <2>3, <2>4, ChunkPosts, CutChunkPosts, ReplyPosts, CutReplyPosts, OutsidePosts
         DEF FeedNext, FInv
  <1>3. QED
    BY <1>1, <1>2, FeedInitEstablishes, FeedNextPreserves, PTL DEF FeedSpec

\* Every stored tweet is one the server has or had, with its author and what it retweets,
\* though a chunk that begins inside a tweet is taken for one (black_circle.cc:138), but for the
\* ids that what lies behind a cut body named (http_client_inst.cc:87, :114): whatever that is,
\* it makes no other tweet a false one.
THEOREM OnlyServersTweets == FeedSpec => []NothingMadeUp
  <1>1. GInv => NothingMadeUp
    BY DEF GInv
  <1>2. QED
    BY <1>1, GInvHolds, PTL

-----------------------------------------------------------------------------
(* With nothing left to handle, the stores agree with the server. *)

Pushed(e)   == \E i \in DOMAIN text : text[i] = [part |-> "head", of |-> e]
Handling(e) == ~Idle /\ next = 1 /\ response = <<e>>
OnTheWay(e) == Pushed(e) \/ Handling(e)
Stored(id)  == \E t \in tweets : t.id = id

\* While the stream is open, each event it has brought is done, lost or on its way.
EventsAccounted ==
  /\ announced \subseteq ServerIds \cup gone
  /\ noticed \subseteq gone
  /\ open => \A id \in noticed : id \in deleted \cup lost \/ OnTheWay(Notice(id))
  /\ open => \A id \in announced :
               \/ id \in gone \cup lost \cup garbled \/ Stored(id)
               \/ \E e \in Catalogue : e.body.id = id /\ OnTheWay(e)

\* What a chunk that leads with an event and holds its end parses to.
LEMMA WholeAndFirst ==
  ASSUME NEW chunk \in Seq(Segment), NEW i \in DOMAIN chunk, chunk[i].part = "head",
         Leads(chunk, i), Reaches(chunk, i, "tail")
  PROVE  Parsed(chunk) = {<<chunk[i].of>>}
  <1>1. i \in Solid(chunk) /\ Solid(chunk) \subseteq DOMAIN chunk /\ DOMAIN chunk \subseteq Int
    BY DEF Leads, Solid
  <1>2. {j \in DOMAIN chunk : Starts(chunk, j)} = {i}
    BY <1>1 DEF Starts, Leads
  <1>3. Solid(chunk) # {}
    BY <1>1
  <1>4. QED
    BY <1>2, <1>3 DEF Parsed

\* An event that is pushed begins at the end of the text.
LEMMA NowPushed ==
  ASSUME text \in Seq(Segment), NEW e \in Catalogue \cup {Notice(id) : id \in TweetIds},
         text' = text \o TextOf(e)
  PROVE  Pushed(e)' /\ \A o : Pushed(o) => Pushed(o)'
  <1> DEFINE x == TextOf(e)
  <1>1. x \in Seq(Segment)
    BY TextOfType
  <1>2. 1 \in DOMAIN x /\ x[1] = [part |-> "head", of |-> e]
    BY DEF TextOf, Parts
  <1> HIDE DEF x
  <1>3. /\ Len(text) \in Nat /\ Len(x) \in Nat /\ 1 <= Len(x)
        /\ DOMAIN text = 1 .. Len(text) /\ DOMAIN (text \o x) = 1 .. Len(text) + Len(x)
    BY <1>1, <1>2
  <1>4. Len(text) + 1 \in DOMAIN (text \o x) /\ (text \o x)[Len(text) + 1] = x[1]
    BY <1>1, <1>3
  <1>5. \A i \in DOMAIN text : i \in DOMAIN (text \o x) /\ (text \o x)[i] = text[i]
    BY <1>1, <1>3
  <1>6. text' = text \o x
    BY DEF x
  <1>7. Pushed(e)'
    BY <1>2, <1>4, <1>6 DEF Pushed
  <1>8. QED
    BY <1>5, <1>6, <1>7 DEF Pushed

LEMMA HandleAccounts ==
  ASSUME FInv, GInv, EventsAccounted, Handle, UNCHANGED feedVars
  PROVE  EventsAccounted'
  <1>1. /\ UNCHANGED <<server, gone, noticed, open, text, announced, lost, garbled>>
        /\ \A e : Pushed(e)' <=> Pushed(e)
    BY DEF feedVars, Pushed
  <1>2. ASSUME NEW e, Handling(e), ~PrintTweet
        PROVE  /\ Current = e
               /\ e.kind = "tweet" => ProcessTweet
               /\ e.kind = "delete" => ProcessDelete
    <2>1. Current = e
      BY <1>2 DEF Handling, Current
    <2>2. QED
      BY <1>2, <2>1 DEF Handle, ProcessTweet, ProcessDelete, ProcessEvent, ProcessScalar, At, Current
  <1>3. ASSUME NEW e, Handling(e), PrintTweet
        PROVE  FALSE
    BY <1>3 DEF Handling, PrintTweet
  <1>4. ASSUME NEW id \in noticed, open
        PROVE  id \in deleted' \cup lost \/ Pushed(Notice(id))
    <2>1. deleted \subseteq deleted'
      BY DEF Handle, ProcessTweet, ProcessDelete, ProcessEvent, ProcessScalar, PrintTweet, history
    <2>2. ASSUME Handling(Notice(id)) PROVE id \in deleted'
      <3>1. Notice(id).kind = "delete" /\ Notice(id).body.id = id
        BY NoticeFields
      <3>2. Current = Notice(id) /\ ProcessDelete
        BY <1>2, <1>3, <2>2, <3>1
      <3>3. id # NoField
        BY NoFieldAssumption DEF FInv, FeedTypeOK, EventsAccounted
      <3>4. QED
        BY <3>1, <3>2, <3>3 DEF ProcessDelete
    <2>3. QED
      BY <1>4, <2>1, <2>2 DEF EventsAccounted, OnTheWay
  <1>5. ASSUME NEW id \in announced, open
        PROVE  \/ id \in gone \cup lost \cup garbled \/ Stored(id)'
               \/ \E e \in Catalogue : e.body.id = id /\ Pushed(e)
    <2>1. ASSUME Stored(id), id \notin gone \cup garbled PROVE Stored(id)'
      <3>1. CASE ProcessTweet
        <4>1. tweets \subseteq tweets'
          BY <3>1, TweetInsertions DEF ProcessTweet, FInv
        <4>2. QED
          BY <2>1, <4>1 DEF Stored
      <3>2. CASE ProcessDelete
        <4>1. ~Idle /\ Current.kind = "delete"
          BY <3>2 DEF ProcessDelete, At, Current
        <4>2. Current.body.id \in gone \cup garbled
          BY <4>1, RunningReply DEF Genuine
        <4>3. \A t \in tweets : t.id # Current.body.id => t \in tweets'
          BY <3>2 DEF ProcessDelete, Erase
        <4>4. QED
          BY <2>1, <4>2, <4>3 DEF Stored
      <3>3. CASE ProcessEvent \/ ProcessScalar \/ PrintTweet
        BY <2>1, <3>3 DEF ProcessEvent, ProcessScalar, PrintTweet, stores, Stored
      <3>4. QED
        BY <3>1, <3>2, <3>3 DEF Handle
    <2>2. ASSUME NEW e \in Catalogue, Handling(e), e.body.id = id PROVE id \in garbled \/ Stored(id)'
      <3>1. e.kind = "tweet"
        BY CatalogueTweets
      <3>2. Current = e /\ ProcessTweet
        BY <1>2, <1>3, <2>2, <3>1
      <3>3. Current \in Posted \/ IdsIn(Current) \subseteq garbled
        BY <2>2, <3>1, <3>2 DEF GInv, AllPosted, Handling, Current
      <3>4. CASE Current \in Posted
        <4>1. \E t \in tweets' : t.id = Current.body.id
          BY <3>2, <3>4, PostedRecords DEF GInv
        <4>2. QED
          BY <2>2, <3>2, <4>1 DEF Stored
      <3>5. CASE IdsIn(Current) \subseteq garbled
        BY <2>2, <3>1, <3>2, <3>5 DEF IdsIn
      <3>6. QED
        BY <3>3, <3>4, <3>5
    <2>3. QED
      BY <1>5, <2>1, <2>2 DEF EventsAccounted, OnTheWay
  <1>6. QED
    BY <1>1, <1>4, <1>5 DEF EventsAccounted, OnTheWay, ServerIds

LEMMA ChunkAccounts ==
  ASSUME FInv, EventsAccounted, TakeChunk
  PROVE  EventsAccounted'
  <1>1. PICK n \in 1 .. Len(text) :
          /\ ReceiveResponse
          /\ response' \in Parsed(SubSeq(text, 1, n))
          /\ text' = SubSeq(text, n + 1, Len(text))
          /\ lost' = lost \cup LostIn(SubSeq(text, 1, n))
    BY DEF TakeChunk
  <1> DEFINE chunk == SubSeq(text, 1, n)
             left  == SubSeq(text, n + 1, Len(text))
  <1>2. /\ UNCHANGED <<server, gone, noticed, open, announced, tweets, deleted, garbled>>
        /\ Idle /\ next' = Len(response') /\ threw' = FALSE
    BY <1>1 DEF TakeChunk, ReceiveResponse, stores, history
  <1>3. chunk \in Seq(Segment)
    BY Split DEF FInv, FeedTypeOK
  <1>4. ASSUME NEW i \in DOMAIN text
        PROVE  \/ i \in DOMAIN chunk /\ chunk[i] = text[i]
               \/ i - n \in DOMAIN left /\ left[i - n] = text[i]
    BY SMTT(30) DEF FInv, FeedTypeOK
  <1>5. response' \in Parsed(chunk) /\ text' = left /\ lost' = lost \cup LostIn(chunk)
    BY <1>1
  <1> HIDE DEF chunk, left
  <1>6. ASSUME NEW e, OnTheWay(e)
        PROVE  e.body.id \in lost' \/ OnTheWay(e)'
    <2>1. PICK i \in DOMAIN text : text[i] = [part |-> "head", of |-> e]
      BY <1>2, <1>6 DEF OnTheWay, Pushed, Handling
    <2>2. CASE i \in DOMAIN chunk /\ chunk[i] = text[i]
      <3>1. chunk[i].part = "head" /\ chunk[i].of = e
        BY <2>1, <2>2
      <3>2. CASE Leads(chunk, i) /\ Reaches(chunk, i, "tail")
        <4>1. response' = <<e>>
          BY <1>3, <1>5, <2>2, <3>1, <3>2, WholeAndFirst
        <4>2. Handling(e)'
          BY <1>2, <4>1 DEF Handling, Idle
        <4>3. QED
          BY <4>2 DEF OnTheWay
      <3>3. CASE ~(Leads(chunk, i) /\ Reaches(chunk, i, "tail"))
        BY <1>5, <2>2, <3>1, <3>3 DEF LostIn
      <3>4. QED
        BY <3>2, <3>3
    <2>3. CASE i - n \in DOMAIN left /\ left[i - n] = text[i]
      BY <1>5, <2>1, <2>3 DEF OnTheWay, Pushed
    <2>4. QED
      BY <1>4, <2>2, <2>3
  <1>7. ASSUME open, NEW id \in noticed
        PROVE  id \in deleted \cup lost' \/ OnTheWay(Notice(id))'
    <2>1. id \in deleted \cup lost \/ OnTheWay(Notice(id))
      BY <1>7 DEF EventsAccounted
    <2>2. OnTheWay(Notice(id)) => id \in lost' \/ OnTheWay(Notice(id))'
      BY <1>6, NoticeFields
    <2>3. QED
      BY <1>5, <2>1, <2>2
  <1>8. ASSUME open, NEW id \in announced
        PROVE  \/ id \in gone \cup lost' \cup garbled \/ Stored(id)
               \/ \E e \in Catalogue : e.body.id = id /\ OnTheWay(e)'
    <2>1. \/ id \in gone \cup lost \cup garbled \/ Stored(id)
          \/ \E e \in Catalogue : e.body.id = id /\ OnTheWay(e)
      BY <1>8 DEF EventsAccounted
    <2>2. QED
      BY <1>5, <1>6, <2>1
  <1>9. QED
    BY <1>2, <1>7, <1>8 DEF EventsAccounted, Stored, ServerIds

\* A timeline is handled only between two chunks, and what is pushed stays.
LEMMA ReplyAccounts ==
  ASSUME EventsAccounted, TakeReply \/ TakeCutReply
  PROVE  EventsAccounted'
  <1>1. /\ UNCHANGED <<server, gone, noticed, open, text, announced, lost, tweets, deleted>> /\ Idle
        /\ garbled \subseteq garbled'
    BY DEF TakeReply, TakeCutReply, ReceiveResponse, stores, history
  <1>2. \A e : OnTheWay(e) => OnTheWay(e)'
    BY <1>1 DEF OnTheWay, Pushed, Handling
  <1>3. QED
    BY <1>1, <1>2 DEF EventsAccounted, Stored, ServerIds

\* With its last chunk the stream has ended.
LEMMA CutChunkAccounts ==
  ASSUME EventsAccounted, TakeCutChunk
  PROVE  EventsAccounted'
  <1>1. UNCHANGED <<server, gone, noticed, announced>> /\ ~open'
    BY DEF TakeCutChunk
  <1>2. QED
    BY <1>1 DEF EventsAccounted, ServerIds

LEMMA OutsideAccounts ==
  ASSUME FInv, EventsAccounted, Idle, Outside
  PROVE  EventsAccounted'
  <1>1. UNCHANGED <<tweets, deleted>> /\ UNCHANGED <<lost, garbled>>
    BY DEF Outside, Post, Delete, Notify, StreamEnds, Compose, LoseReply, vars
  <1>2. text \in Seq(Segment) /\ gone \subseteq TweetIds
    BY DEF FInv, FeedTypeOK
  <1>3. \A e : OnTheWay(e) <=> Pushed(e)
    BY DEF OnTheWay, Handling
  <1>4. ASSUME Post PROVE EventsAccounted'
    <2>1. PICK e \in Catalogue :
            /\ server' = server \cup {e} /\ UNCHANGED <<gone, noticed, open>>
            /\ \/ open /\ text' = text \o TextOf(e) /\ announced' = announced \cup {e.body.id}
               \/ ~open /\ UNCHANGED <<text, announced>>
      BY <1>4 DEF Post
    <2>2. ServerIds' = ServerIds \cup {e.body.id}
      BY <2>1 DEF ServerIds
    <2>3. ASSUME open PROVE Pushed(e)' /\ \A o : OnTheWay(o) => Pushed(o)'
      BY <1>2, <1>3, <2>1, <2>3, NowPushed
    <2>4. QED
      BY <1>1, <2>1, <2>2, <2>3 DEF EventsAccounted, OnTheWay, Stored
  <1>5. ASSUME Notify PROVE EventsAccounted'
    <2>1. PICK id \in gone : /\ noticed' = noticed \cup {id}
                             /\ text' = text \o TextOf(Notice(id))
                             /\ UNCHANGED <<server, gone, open, announced>>
      BY <1>5 DEF Notify
    <2>2. Pushed(Notice(id))' /\ \A o : OnTheWay(o) => Pushed(o)'
      BY <1>2, <1>3, <2>1, NowPushed
    <2>3. QED
      BY <1>1, <2>1, <2>2 DEF EventsAccounted, OnTheWay, Stored, ServerIds
  <1>6. ASSUME Delete PROVE EventsAccounted'
    <2>1. PICK with \in SUBSET server : /\ server' = server \ with
                                        /\ gone' = gone \cup {e.body.id : e \in with}
      BY <1>6 DEF Delete
    <2>2. ServerIds' \cup gone' = ServerIds \cup gone /\ gone \subseteq gone'
      BY <2>1 DEF ServerIds
    <2>3. UNCHANGED <<noticed, open, text, announced>>
      BY <1>6 DEF Delete
    <2>4. \A e : OnTheWay(e) => Pushed(e)'
      BY <1>3, <2>3 DEF Pushed
    <2>5. QED
      BY <1>1, <2>2, <2>3, <2>4 DEF EventsAccounted, OnTheWay, Stored
  <1>7. ASSUME StreamEnds \/ Compose \/ LoseReply PROVE EventsAccounted'
    <2>1. UNCHANGED <<server, gone, noticed, announced>>
      BY <1>7 DEF StreamEnds, Compose, LoseReply
    <2>2. ~open' \/ UNCHANGED <<open, text>>
      BY <1>7 DEF StreamEnds, Compose, LoseReply
    <2>3. CASE ~open'
      BY <2>1, <2>3 DEF EventsAccounted, ServerIds
    <2>4. CASE UNCHANGED <<open, text>>
      <3>1. \A e : OnTheWay(e) => Pushed(e)'
        BY <1>3, <2>4 DEF Pushed
      <3>2. QED
        BY <1>1, <2>1, <2>4, <3>1 DEF EventsAccounted, OnTheWay, Stored, ServerIds
    <2>5. QED
      BY <2>2, <2>3, <2>4
  <1>8. QED
    BY <1>4, <1>5, <1>6, <1>7 DEF Outside

LEMMA AccountedNext ==
  FInv /\ GInv /\ EventsAccounted /\ [FeedNext]_<<vars, feedVars>> => EventsAccounted'
  <1> SUFFICES ASSUME FInv, GInv, EventsAccounted, [FeedNext]_<<vars, feedVars>>
               PROVE  EventsAccounted'
    OBVIOUS
  <1>1. CASE UNCHANGED <<vars, feedVars>>
    BY <1>1 DEF vars, feedVars, EventsAccounted, OnTheWay, Pushed, Handling, Stored, ServerIds, Idle
  <1>2. QED
    BY <1>1, HandleAccounts, ChunkAccounts, CutChunkAccounts, ReplyAccounts, OutsideAccounts
       DEF FeedNext

\* While the stream is open and everything has been handled, an announced tweet is stored
\* exactly if it is on the server, unless a chunk lost one of its two events
\* (black_circle.cc:138), a late timeline brought it back (black_circle.cc:37) or a cut one
\* named it (http_client_inst.cc:87, :114).
THEOREM InSync == FeedSpec => []InSyncWhenQuiet
  <1>1. FeedInit => EventsAccounted
    BY DEF FeedInit, EventsAccounted
  <1>2. FInv /\ EventsAccounted => InSyncWhenQuiet
    <2> SUFFICES ASSUME FInv, EventsAccounted, Quiet, NEW id \in announced \ (lost \cup late \cup garbled)
                 PROVE  Stored(id) <=> id \in ServerIds
      BY DEF InSyncWhenQuiet, Stored
    <2>1. \A e : ~OnTheWay(e)
      BY DEF Quiet, OnTheWay, Pushed, Handling
    <2>2. ASSUME Stored(id), id \notin ServerIds PROVE FALSE
      <3>1. id \in noticed
        BY <2>2 DEF EventsAccounted, Quiet
      <3>2. id \in deleted
        BY <2>1, <3>1 DEF EventsAccounted, Quiet
      <3>3. QED
        BY <2>2, <3>2 DEF FInv, StaleOnlyIfOvertaken, Stored
    <2>3. ASSUME id \in ServerIds PROVE Stored(id)
      <3>1. PICK e \in server : e.body.id = id
        BY <2>3 DEF ServerIds
      <3>2. id \in IdsIn(e)
        BY <3>1, CatalogueTweets DEF IdsIn, FInv, FeedTypeOK
      <3>3. id \notin gone
        BY <3>1, <3>2 DEF FInv, ServerClean
      <3>4. QED
        BY <2>1, <3>3 DEF EventsAccounted, Quiet
    <2>4. QED
      BY <2>2, <2>3
  <1>3. QED
    BY <1>1, <1>2, GInvHolds, AccountedNext, PTL DEF FeedSpec

=============================================================================
