-------------------------------- MODULE Feed --------------------------------
(***************************************************************************)
(* The stores against the server they mirror.  What is posted and deleted  *)
(* is pushed as text on the user stream, which reaches http_handler        *)
(* (black_circle.cc) chunk by chunk, each chunk parsed by itself as one    *)
(* JSON text; and a timeline that was asked for is a snapshot, handled     *)
(* when its own connection delivers it.  The handler itself, the stores    *)
(* and printing are TweetStore's actions: a step of this module is one of  *)
(* them or leaves them alone.                                              *)
(*                                                                         *)
(* The text of an event is a sequence of parts, and a chunk may end        *)
(* between any two of them:                                                *)
(*   head            "{" and what follows it                               *)
(*   object          a whole member that is an object                      *)
(*   rtHead rtTail   the retweeted_status of a retweet, from its "{"       *)
(*   tail            the rest, up to the closing "}"                       *)
(*   eol             the line end after it                                 *)
(***************************************************************************)
EXTENDS TweetStore, FiniteSets

CONSTANTS
  Catalogue,  \* the tweets that may ever be posted, as entities
  Invented,   \* what the bytes that follow a cut body in memory may be taken for
  Before,     \* the sets of them that may have been posted before the stream is opened
  MaxParts,   \* bound on the text in transit
  MaxReplies  \* bound on the timelines in transit

Nothing == [user |-> NoField, id |-> NoField, rest |-> FALSE, rtId |-> NoField]

Plain(kind, o) == [kind |-> kind, body |-> o, rt |-> NoField]

Notice(id)  == Plain("delete", [Nothing EXCEPT !.id = id])
EventEntity == Plain("event", Nothing)
NoEntity    == Plain("scalar", Nothing)  \* boost::get, or the parser before it, throws

\* Twitter's tweets are whole, and what they retweet is a tweet.
ASSUME CatalogueAssumption ==
         /\ TweetIds \subseteq Nat
         /\ \A e \in Catalogue :
              /\ e \in Entity /\ e.kind = "tweet"
              /\ Complete(e.body) /\ e.body.user.id # NoField /\ e.body.rtId = NoField
              /\ e.rt # NoField => \E o \in Catalogue : o = Plain("tweet", e.rt)
         /\ \A e, o \in Catalogue : e.body.id = o.body.id => e = o
         /\ Before \subseteq SUBSET Catalogue
         /\ \A s \in Before : \A e \in s : e.rt # NoField => Plain("tweet", e.rt) \in s
ASSUME InventedAssumption == Invented \subseteq Entity
ASSUME BoundsAssumption == MaxParts \in Nat /\ MaxReplies \in Nat

VARIABLES
  server,     \* the tweets that are on the server
  gone,       \* ids of those that were deleted there
  noticed,    \* the ids in gone whose notice has been pushed
  open,       \* the stream has not ended; it is never asked for again
  text,       \* what has been pushed and not been delivered
  replies,    \* the timelines composed and not yet handled
  announced,  \* history: ids pushed as tweets
  lost,       \* history: ids of events that no chunk held whole and first
  late,       \* history: ids in a timeline handled after their notice
  garbled     \* history: ids that bytes which were never received have named

feedVars == <<server, gone, noticed, open, text, replies, announced, lost, late, garbled>>

-----------------------------------------------------------------------------
(* Tweets and their text. *)

IdsIn(e) == IF e.kind # "tweet" THEN {}
            ELSE {e.body.id} \cup (IF e.rt = NoField THEN {} ELSE {e.rt.id})

\* The tweets that handling e may store or erase.
Named(e) == IF e.kind = "delete" THEN {e.body.id} ELSE IdsIn(e)

IdsOf(r) == UNION {IdsIn(r[i]) : i \in DOMAIN r}

ServerIds == {e.body.id : e \in server}

Parts(e) == IF e.rt = NoField THEN <<"head", "object", "tail", "eol">>
            ELSE <<"head", "object", "rtHead", "rtTail", "tail", "eol">>

TextOf(e) == [i \in DOMAIN Parts(e) |-> [part |-> Parts(e)[i], of |-> e]]

\* The parts of a chunk that parse_json does not skip as white space.
Solid(chunk) == {i \in DOMAIN chunk : chunk[i].part # "eol"}

Leads(chunk, i) == i \in Solid(chunk) /\ \A j \in Solid(chunk) : i <= j

\* Mutant of Starts: without the skipper, a chunk that begins with a line end is no object.
StartsUnskipped(chunk, i) == i = 1

\* Part i of the chunk is where the parse starts.
Starts(chunk, i) == Leads(chunk, i)

Reaches(chunk, i, part) == \E j \in DOMAIN chunk : chunk[j] = [part |-> part, of |-> chunk[i].of]

\* What the stream's branch of http_handler makes of a chunk.  The parser takes the first
\* object, throws when the chunk ends inside it, and ignores what follows it.  On a chunk that
\* starts with neither "{" nor "[" it makes nothing, and then get throws, unless find('{') ended
\* the branch before.  An object inside a tweet is one without "text", or one that is no tweet.
Parsed(chunk) ==
  IF Solid(chunk) = {} THEN {<<>>}
  ELSE UNION {LET e  == chunk[i].of
                  at == chunk[i].part
              IN CASE at = "head" /\ Reaches(chunk, i, "tail")     -> {<<e>>}
                   [] at = "rtHead" /\ Reaches(chunk, i, "rtTail") -> {<<Plain("tweet", e.rt)>>}
                   [] at = "object"                                -> {<<EventEntity>>, <<NoEntity>>}
                   [] at \in {"rtTail", "tail"}                    -> {<<>>, <<NoEntity>>}
                   [] OTHER                                        -> {<<NoEntity>>}
              : i \in {j \in DOMAIN chunk : Starts(chunk, j)}}

\* Nothing before the last part of the chunk, of which only a beginning may be there, closes
\* the first object.
Unclosed(chunk) ==
  LET Closed(i, part) ==
        \E j \in 1 .. Len(chunk) - 1 : chunk[j] = [part |-> part, of |-> chunk[i].of]
  IN \A i \in DOMAIN chunk :
       Starts(chunk, i) => \/ chunk[i].part = "head" /\ ~Closed(i, "tail")
                           \/ chunk[i].part = "rtHead" /\ ~Closed(i, "rtTail")
                           \/ chunk[i].part = "object" /\ i = Len(chunk)

\* The events that begin in this chunk and that it does not hold whole and first.
LostIn(chunk) ==
  {chunk[i].of.body.id :
     i \in {j \in DOMAIN chunk :
              chunk[j].part = "head" /\ ~(Leads(chunk, j) /\ Reaches(chunk, j, "tail"))}}

-----------------------------------------------------------------------------
(* The server. *)

\* Ids grow; only a tweet that is there is retweeted.
Post ==
  /\ Len(text) < MaxParts
  /\ \E e \in Catalogue :
       /\ \A id \in ServerIds \cup gone : id < e.body.id
       /\ e.rt # NoField => Plain("tweet", e.rt) \in server
       /\ server' = server \cup {e}
       /\ \/ open /\ text' = text \o TextOf(e) /\ announced' = announced \cup {e.body.id}
          \/ ~open /\ UNCHANGED <<text, announced>>
  /\ UNCHANGED <<vars, gone, noticed, open, replies, lost, late, garbled>>

\* A tweet goes with its retweets.
Delete ==
  /\ \E id \in ServerIds :
       LET with == {e \in server : id \in IdsIn(e)}
       IN /\ server' = server \ with
          /\ gone' = gone \cup {e.body.id : e \in with}
  /\ UNCHANGED <<vars, noticed, open, text, replies, announced, lost, late, garbled>>

Notify ==
  /\ open
  /\ Len(text) < MaxParts
  /\ \E id \in gone \ noticed :
       /\ noticed' = noticed \cup {id}
       /\ text' = text \o TextOf(Notice(id))
  /\ UNCHANGED <<vars, server, gone, open, replies, announced, lost, late, garbled>>

\* The peer closes between two chunks, or before anything of one came.
StreamEnds ==
  /\ open
  /\ open' = FALSE
  /\ text' = <<>>
  /\ UNCHANGED <<vars, server, gone, noticed, replies, announced, lost, late, garbled>>

IsTimeline(r) == /\ {r[i] : i \in DOMAIN r} = server
                 /\ \A i, j \in DOMAIN r : i < j => r[i].body.id > r[j].body.id

\* The answer to a "get", the newest tweet first.
Compose ==
  /\ Cardinality(replies) < MaxReplies
  /\ \E r \in Responses : IsTimeline(r) /\ replies' = replies \cup {r}
  /\ UNCHANGED <<vars, server, gone, noticed, open, text, announced, lost, late, garbled>>

-----------------------------------------------------------------------------
(* The client. *)

\* http_handler on the next chunk of the stream.
TakeChunk ==
  /\ \E n \in 1 .. Len(text) :
       LET chunk == SubSeq(text, 1, n)
       IN /\ ReceiveResponse
          /\ response' \in Parsed(chunk)
          /\ text' = SubSeq(text, n + 1, Len(text))
          /\ lost' = lost \cup LostIn(chunk)
  /\ UNCHANGED <<server, gone, noticed, open, replies, announced, late, garbled>>

\* http_handler on a timeline that came in one chunk.
TakeReply ==
  /\ ReceiveResponse
  /\ response' \in replies
  /\ replies' = replies \ {response'}
  /\ late' = late \cup (IdsOf(response') \cap deleted)
  /\ UNCHANGED <<server, gone, noticed, open, text, announced, lost, garbled>>

\* The peer closes inside a chunk of the stream.  The reader, of which http_client_inst.cc:113-116
\* is compiled without assertions here (with them the process stops, as it may on the bytes that
\* are not there), hands over what has come of the chunk and what follows it in memory, up to the
\* length of the chunk: that may close an object, and no one knows as what.
TakeCutChunk ==
  /\ open
  /\ \E n \in 1 .. Len(text) :
       LET chunk == SubSeq(text, 1, n)
       IN /\ ReceiveResponse
          /\ \/ response' \in Parsed(chunk) /\ UNCHANGED garbled
             \/ Unclosed(chunk) /\ response' = <<NoEntity>> /\ UNCHANGED garbled
             \/ /\ Unclosed(chunk)
                /\ \E g \in Invented : response' = <<g>> /\ garbled' = garbled \cup Named(g)
  /\ open' = FALSE
  /\ text' = <<>>
  /\ UNCHANGED <<server, gone, noticed, replies, announced, lost, late>>

\* The same inside a timeline (:85-90 when it is a plain body): the tweets that came whole, and
\* behind them what the rest of memory is taken for, if it closes the array at all.
TakeCutReply ==
  /\ ReceiveResponse
  /\ \E r \in replies, k \in 0 .. Len(response') :
       /\ k <= Len(r)
       /\ \A i \in DOMAIN response' :
            IF i <= k THEN response'[i] = r[i] ELSE response'[i] \in Invented
       /\ replies' = replies \ {r}
       /\ garbled' = garbled \cup UNION {Named(response'[i]) : i \in {j \in DOMAIN response' : j > k}}
  /\ late' = late \cup (IdsOf(response') \cap deleted)
  /\ UNCHANGED <<server, gone, noticed, open, text, announced, lost>>

\* A status other than 200, a connection that closes before the body or in it and leaves no
\* array, or a timeline in several chunks: the first throws, and the others are no arrays.
LoseReply ==
  /\ \E r \in replies : replies' = replies \ {r}
  /\ UNCHANGED <<vars, server, gone, noticed, open, text, announced, lost, late, garbled>>

Handle == \/ ProcessTweet
          \/ ProcessDelete
          \/ ProcessEvent
          \/ ProcessScalar
          \/ PrintTweet

FeedInit ==
  /\ Init
  /\ server \in Before
  /\ gone = {} /\ noticed = {} /\ open = TRUE /\ text = <<>> /\ replies = {}
  /\ announced = {} /\ lost = {} /\ late = {} /\ garbled = {}

Outside == \/ Post
           \/ Delete
           \/ Notify
           \/ StreamEnds
           \/ Compose
           \/ LoseReply

\* What happens outside shares nothing with a handler that is running, so it is taken to
\* happen between two of them.
FeedNext == \/ Idle /\ Outside
            \/ TakeChunk
            \/ TakeCutChunk
            \/ TakeReply
            \/ TakeCutReply
            \/ Handle /\ UNCHANGED feedVars

FeedSpec == FeedInit /\ [][FeedNext]_<<vars, feedVars>>

-----------------------------------------------------------------------------
(* Properties. *)

\* A tweet whose delete notice was handled (black_circle.cc:37) is stored only if a timeline
\* composed before the deletion was handled after the notice: the stream cannot bring it back,
\* however its chunks fall, and nothing else makes a stale tweet, but the end of a body that was
\* cut and read past (http_client_inst.cc:87, :114).
StaleOnlyIfOvertaken == \A t \in tweets : t.id \in deleted => t.id \in late \cup garbled

Record(e) == [id |-> e.body.id, user |-> e.body.user.id, rt |-> RetweetedId(e.body, e.rt)]

\* Every stored tweet is one the server has or had, with its own author and retweet, though a
\* chunk may begin inside a tweet and be taken for one (black_circle.cc:138).  A tweet is made up
\* only under an id that the callback of a cut body named (http_client_inst.cc:87, :114): what it
\* reads behind the body cannot turn any other tweet into a false one.
NothingMadeUp ==
  \A t \in tweets :
    \/ t.id \in garbled
    \/ \E e \in Catalogue : e.body.id \in ServerIds \cup gone /\ t = Record(e)

Quiet == open /\ alive /\ Idle /\ text = <<>> /\ replies = {} /\ noticed = gone

\* With the stream open and everything handled, an announced tweet is stored exactly if it is
\* on the server, unless one of its two events was not a chunk's first (black_circle.cc:138),
\* a late timeline brought it back (black_circle.cc:37) or a cut one named it.
InSyncWhenQuiet ==
  Quiet => \A id \in announced \ (lost \cup late \cup garbled) :
             (\E t \in tweets : t.id = id) <=> id \in ServerIds

=============================================================================
