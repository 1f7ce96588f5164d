----------------------------- MODULE TweetStore -----------------------------
(***************************************************************************)
(* The two stores of twitter.cc and what fills, empties and reads them:    *)
(* the tweet and user constructors, insert_new_tweet, the entity loop of   *)
(* twitter_client::http_handler and process_single_entity                  *)
(* (black_circle.cc), and the console's print command.                     *)
(*                                                                         *)
(* A tweet does not hold its author but the author's id, which user_proxy  *)
(* looks up, without testing for end(), whenever the tweet is printed.     *)
(* Everything runs on the one thread of io_service::run(), and http_handler*)
(* runs a whole response without giving it up; the loop is a step per      *)
(* entity here because it can end at any of them.                          *)
(***************************************************************************)
EXTENDS Integers, Sequences

CONSTANTS
  UserIds, Names, TweetIds,
  NoField,    \* a JSON member that is absent, null or of another type
  Responses   \* the parsed replies: an array of entities, or the one entity of a stream chunk

\* A user without a screen_name gets the empty name, one of Names.
UserJson == [id : UserIds \cup {NoField}, name : Names]

\* rest: text and created_at are there.  rtId: the retweeted_status_id member.
TweetJson == [user : UserJson \cup {NoField}, id : TweetIds \cup {NoField}, rest : BOOLEAN,
              rtId : TweetIds \cup {NoField}]

\* has a "text" member; else has a "delete" member; else an object; not an object
Kinds == {"tweet", "delete", "event", "scalar"}

\* rt: the retweeted_status member, which in Twitter's replies does not nest.
Entity == [kind : Kinds, body : TweetJson, rt : TweetJson \cup {NoField}]

ASSUME NoFieldAssumption ==
         /\ NoField \notin UserIds
         /\ NoField \notin TweetIds
         /\ NoField \notin UserJson
         /\ NoField \notin TweetJson
         /\ NoField \notin [id : UserIds, name : Names]
ASSUME ResponsesAssumption == Responses \subseteq Seq(Entity)

VARIABLES
  users,      \* stores::user_store, unique by id and by screen_name
  tweets,     \* stores::tweet_store, unique by id
  response,   \* the reply http_handler is running, or the last one it ran
  next,       \* the entity it is at; it runs from the last to the first, the oldest
  threw,      \* that entity threw, and for_each was left
  alive,      \* the process has not crashed
  wild,       \* history: an end() iterator was dereferenced
  refused,    \* history: users refused because another id holds their screen_name
  deleted,    \* history: ids of "delete" entities
  claimed     \* history: values of retweeted_status_id members

vars == <<users, tweets, response, next, threw, alive, wild, refused, deleted, claimed>>
stores == <<users, tweets>>
history == <<refused, deleted, claimed>>

User  == [id : UserIds, name : Names]
Tweet == [id : TweetIds, user : UserIds, rt : TweetIds \cup {NoField}]

-----------------------------------------------------------------------------
(* The stores. *)

KnownId(us, id) == \E v \in us : v.id = id
NameTaken(us, name) == \E v \in us : v.name = name

\* multi_index insert(): refused when either key is taken.  NoField: no user was found.
InsertUser(us, u) ==
  IF u = NoField \/ KnownId(us, u.id) \/ NameTaken(us, u.name) THEN us ELSE us \cup {u}

\* Mutant of InsertTweet: a later copy replaces the record.
InsertTweetReplacing(ts, t) == {s \in ts : s.id # t.id} \cup {t}

InsertTweet(ts, t) == IF \E s \in ts : s.id = t.id THEN ts ELSE ts \cup {t}

Collides(us, u) == u # NoField /\ ~KnownId(us, u.id) /\ NameTaken(us, u.name)

-----------------------------------------------------------------------------
(* The constructors. *)

\* The users tweet_object's constructor may make of the "user" member: an id that is not in
\* the JSON is left uninitialized, so it may be any.
Author(o) ==
  IF o = NoField \/ o.user = NoField THEN {NoField}
  ELSE {u \in User : u.name = o.user.name /\ (o.user.id # NoField => u.id = o.user.id)}

\* Without one of these the constructor throws "properties not found", after its insertions.
Complete(o) == o.user # NoField /\ o.id # NoField /\ o.rest

\* The retweet's constructor throws through the tweet's.
Constructed(e) == Complete(e.body) /\ (e.rt # NoField => Complete(e.rt))

\* retweeted_status_id is taken from retweeted_status, then from a member of that name.
RetweetedId(o, inner) ==
  IF o.rtId # NoField THEN o.rtId ELSE IF inner # NoField THEN inner.id ELSE NoField

ClaimedIn(o) == IF o = NoField \/ o.rtId = NoField THEN {} ELSE {o.rtId}

\* Mutant of WithAuthors: the author of the retweet is not stored.
WithAuthorOnly(us, author, rtAuthor) == InsertUser(us, author)

\* The user store after a tweet's author and its retweet's author went in, in that order.
WithAuthors(us, author, rtAuthor) == InsertUser(InsertUser(us, author), rtAuthor)

\* Mutants of WithRetweet: the retweet is not stored, or is stored as the outer tweet's author's.
WithoutRetweet(ts, o, rtAuthor) == ts

WithRetweetOfOuter(ts, o, rtAuthor) ==
  IF o.rt # NoField /\ Complete(o.rt)
  THEN InsertTweet(ts, [id |-> o.rt.id, user |-> o.body.user.id, rt |-> o.rt.rtId])
  ELSE ts

\* The tweet store after the retweet, if it is there and was constructed.
WithRetweet(ts, o, rtAuthor) ==
  IF o.rt # NoField /\ Complete(o.rt)
  THEN InsertTweet(ts, [id |-> o.rt.id, user |-> rtAuthor.id, rt |-> o.rt.rtId])
  ELSE ts

-----------------------------------------------------------------------------
(* Printing. *)

\* operator<< on tweets of these authors: *tw.user_ is *find(id).  On end() the outcomes are
\* an arbitrary text and a crash.
PrintTweetsOf(us, authors) ==
  \/ (\A id \in authors : KnownId(us, id)) /\ UNCHANGED <<alive, wild>>
  \/ /\ ~(\A id \in authors : KnownId(us, id))
     /\ wild' = TRUE
     /\ alive' \in BOOLEAN

AuthorsOf(ts, id) == {t.user : t \in {s \in ts : s.id = id}}

-----------------------------------------------------------------------------
(* http_handler and process_single_entity. *)

Idle == next = 0 \/ threw

\* A status-200 reply that parses.
ReceiveResponse ==
  /\ alive /\ Idle
  /\ response' \in Responses
  /\ next' = Len(response')
  /\ threw' = FALSE
  /\ UNCHANGED <<stores, history, alive, wild>>

At(kind) == alive /\ ~Idle /\ response[next].kind = kind

Current == response[next]

Finish == next' = next - 1 /\ UNCHANGED <<response, threw>>

\* Mutant of Throw: the exception is caught inside the loop.
ThrowPast == next' = next - 1 /\ UNCHANGED <<response, threw>>

Throw == threw' = TRUE /\ UNCHANGED <<response, next>>

\* insert_new_tweet, then *tweet_store.find(id) is printed.
ProcessTweet ==
  /\ At("tweet")
  /\ \E author \in Author(Current.body), rtAuthor \in Author(Current.rt) :
       LET e   == Current
           us1 == InsertUser(users, author)
           ts1 == WithRetweet(tweets, e, rtAuthor)
       IN /\ users' = WithAuthors(users, author, rtAuthor)
          /\ refused' = refused \cup {u \in {author} : Collides(users, u)}
                                \cup {u \in {rtAuthor} : Collides(us1, u)}
          /\ \/ /\ Constructed(e)
                /\ tweets' = InsertTweet(ts1, [id   |-> e.body.id,
                                               user |-> author.id,
                                               rt   |-> RetweetedId(e.body, e.rt)])
                /\ PrintTweetsOf(users', AuthorsOf(tweets', e.body.id))
                /\ Finish
             \/ /\ ~Constructed(e)
                /\ tweets' = ts1
                /\ Throw
                /\ UNCHANGED <<alive, wild>>
  /\ claimed' = claimed \cup (ClaimedIn(Current.body) \cup ClaimedIn(Current.rt))
  /\ UNCHANGED deleted

\* Mutant of Erase: the tweet is reported as deleted and kept.
EraseNothing(ts, id) == ts

\* erase(id) on the index of ids.
Erase(ts, id) == {t \in ts : t.id # id}

\* boost::get throws when the delete has no status with an id.
ProcessDelete ==
  /\ At("delete")
  /\ \/ Current.body.id = NoField /\ Throw /\ UNCHANGED <<tweets, alive, wild, deleted>>
     \/ /\ Current.body.id # NoField
        /\ PrintTweetsOf(users, AuthorsOf(tweets, Current.body.id))
        /\ tweets' = Erase(tweets, Current.body.id)
        /\ deleted' = deleted \cup {Current.body.id}
        /\ Finish
  /\ UNCHANGED <<users, refused, claimed>>

ProcessEvent ==
  /\ At("event")
  /\ Finish
  /\ UNCHANGED <<stores, history, alive, wild>>

ProcessScalar ==
  /\ At("scalar")
  /\ Throw
  /\ UNCHANGED <<stores, history, alive, wild>>

\* "print" and "print @name" look up the author of every tweet; "print users" looks up none.
PrintTweet ==
  /\ alive /\ Idle
  /\ PrintTweetsOf(users, {t.user : t \in tweets})
  /\ UNCHANGED <<stores, history, response, next, threw>>

Init == /\ users = {} /\ tweets = {}
        /\ response = <<>> /\ next = 0 /\ threw = FALSE
        /\ alive = TRUE /\ wild = FALSE
        /\ refused = {} /\ deleted = {} /\ claimed = {}

Next == \/ ReceiveResponse
        \/ ProcessTweet
        \/ ProcessDelete
        \/ ProcessEvent
        \/ ProcessScalar
        \/ PrintTweet

Spec == Init /\ [][Next]_vars

-----------------------------------------------------------------------------
(* Properties. *)

\* Both stores hold whole records (an author id that is not in the JSON is still some id), and the
\* loop over a reply stays inside it, after any mixture of entities that are stored and that throw.
TypeOK ==
  /\ users \subseteq User
  /\ tweets \subseteq Tweet
  /\ response \in Seq(Entity)
  /\ next \in 0 .. Len(response)
  /\ threw \in BOOLEAN /\ alive \in BOOLEAN /\ wild \in BOOLEAN
  /\ refused \subseteq User
  /\ deleted \subseteq TweetIds
  /\ claimed \subseteq TweetIds

\* The author of a stored tweet is in the user store, or was refused there because an older
\* user, who is still in it, has the same screen_name: the unchecked insert() of twitter.cc:71
\* is the only way user_proxy comes to dangle.
AuthorKnownOrRefused ==
  \A t \in tweets :
    \/ KnownId(users, t.user)
    \/ \E r \in refused, u \in users : r.id = t.user /\ u.name = r.name /\ u.id # r.id

\* Printing dereferences end() only after two users have had one screen_name, and nothing
\* else crashes the process: find(id) after insert_new_tweet always finds a tweet.
WildOnlyAfterCollision == wild \/ ~alive => \E r \in refused, u \in users : u.name = r.name

\* What a tweet retweets is stored, unless it was deleted or the id was only claimed by a
\* retweeted_status_id member: the inner tweet is stored before the outer one.
RetweetKept ==
  \A t \in tweets :
    t.rt # NoField => (\E s \in tweets : s.id = t.rt) \/ t.rt \in deleted \/ t.rt \in claimed

\* Every tweet of a reply that the loop has passed is in the store, unless a later entity of
\* the reply deleted it: an exception loses the entities that are left, never one that is done.
PassedAreStored ==
  \A i \in next + 1 .. Len(response) :
    response[i].kind = "tweet" =>
      \/ \E t \in tweets : t.id = response[i].body.id
      \/ \E j \in next + 1 .. i - 1 :
           response[j].kind = "delete" /\ response[j].body.id = response[i].body.id

\* A stored record never changes, a user never leaves, and a tweet leaves only when a delete
\* names it: a later copy of a tweet or user, however different, is ignored.
FirstVersionWins ==
  [][/\ users \subseteq users'
     /\ \A t \in tweets : \/ t \in tweets'
                          \/ At("delete") /\ Current.body.id = t.id
     /\ \A t \in tweets' : \A s \in tweets : s.id = t.id => s = t]_vars

=============================================================================
