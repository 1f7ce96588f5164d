# A formal model of black_circle

black_circle is a console client for Twitter: one thread that runs a `boost::asio` event loop,
HTTPS connections to the API and to the user stream, two in-memory stores of tweets and users, OAuth
1.0 signing, and a line discipline of its own between a raw terminal and standard input and
output.  This directory holds TLA+ modules that model it, TLC configurations that check them on
small instances, and proofs that the TLA+ proof system checks for all instances.  Line numbers
refer to `src/`.

## 1. The system

| component | code | state it keeps | operations |
|---|---|---|---|
| response reader | `http_client_inst.cc:58-141`, `http_client.hpp` | stream buffer, headers and status, the read outstanding | `start_read`, `header_read_complete`, `plain_body_read_complete`, `chunk_size_read_complete`, `chunk_body_read_complete`, `lastchunk_read_complete` |
| connection, stream wrappers | `http_connection.hpp` | socket, TLS stream | connect and handshake (synchronous, in `make_http_client`), `is_open`, forwarding |
| twitter_client, main loop | `black_circle.cc:79-172, 281-294` | user stream client, copy of the requester | constructor, `request_friends_timeline`, `statuses_update`, `http_handler`, `shutdown`; exceptions go to the loop in `main` |
| stores | `twitter.cc`, `twitter.hpp` | `tweet_store` unique by id, `user_store` unique by id and by screen_name | constructors with their insertions, `insert_new_tweet`, delete, print |
| OAuth requester | `oauth.hpp` | parameter map, two secrets | `set_token`, `set_pin_number`, `gen_request_signature`, `gen_getquery`, `gen_postparam` |
| terminal set-up | `console.cc:122-180`, `black_circle.cc:276-302` | descriptor table, terminal mode, who owns which number | constructors and destructors of `raw_termios`, `piped_stdio`, three `stream_descriptor`s |
| console | `console.cc:143-250`, `black_circle.cc:189-225` | edited line, two pipes, two stream buffers | `in_handler`, `out_handler`, `readline_handler` with `get`, `print`, `post`, `exit` |
| `stream_descriptor` (Windows) | `console.cc:29-80` | mutex, `dead`, event, a thread per read | `async_read_some`, `thread_handler`, destructor |
| authorization flow | `black_circle.cc:310-350`, `http_client_inst.cc:51-56` | global requester | `do_initial_auth`, `auth_req_handler`, `auth_pin_handler`, `split_params` |
| JSON parser | `json_parser_inst.cc` | none | grammar, escapes, `\u` escapes to UTF-8 |
| conversion | `conversion.cc` | none | `iconv` loops |
| helpers | `util.hpp`, `asio_range_util.hpp` | none | `hexanizer`, `url_escape`, `base64_encode`, range adaptors |

How they meet: a response reader calls back (`handler(shared_from_this(), res)`) into
`twitter_client::http_handler` or one of the authorization handlers, once per chunk of a chunked
body and once per plain body.  `http_handler` parses the data, fills the stores and prints to
standard output, which is the pipe that `output_handler` reads.  `in_handler` writes lines into
the pipe that is standard input, `readline_handler` reads them and calls `twitter_client`.  All of
this is on the thread of `io_service::run()`; only the Windows `stream_descriptor` has others.

What is hard in it:

* every read handler ignores its `error_code`, so the end of a connection looks like a completion;
* the reader counts bytes in `size_t`, across reads that stop anywhere;
* an exception may come out of nearly every handler, after some of its effects;
* a tweet refers to its author by id, unchecked, into a store that may have refused the author;
* the stream is parsed chunk by chunk, and a timeline that was asked for arrives at any time
  between its events;
* the requester's parameter map is shared by all requests and changed around each signature;
* two descriptors have two owners each, and a constructor may throw between them;
* both pipes are written with blocking writes by the thread that must empty them;
* reader threads share a mutex, a flag and an event with a destructor they outlive.

The hazards, each at its line and with the properties that cover it, are listed in `PROJECT.json`.

## 2. The modules

Every module models one component; the definitions are mapped to lines in `PROJECT.json`
("map"), and keep the names of the source.

* **HttpClient** - the five read handlers, one action each.  A response is a sequence of units: a
  whole header block is one, because `async_read_until` completes only on a whole one; the rest
  is one unit per byte, because there the reader counts bytes.  The stream buffer is the window
  `wire[pos+1 .. got]`.  A composed read is its completion condition (`Satisfied`) plus `Receive`,
  which brings in any number of bytes; the handler runs when the condition holds or the peer has
  closed, and does not know which.  `assign()` past the end of the buffer is undefined: it is a
  fault, or bytes that were never received (`DeliverOrFault`).  `assertions`, chosen at the start,
  tells a debug build from a release build.  `SizeMod` is the range of `size_t`, in which the
  subtraction of line 81 and the `chunk_size + 2` of lines 100, 101 and 114 are made (`Taken`), and
  `HexMod` that of the number `qi::hex` takes (`IsSize`), beyond which it matches nothing.
* **FrameDelivery** - what HttpClient promises: the body frames of the response are handed over one
  by one, in order, once, complete; a callback with anything else comes last, after the close.
  HttpClient implements it under the mapping `FD`, on every wire that is `WellFramed`: a response,
  whole or cut anywhere, whose body is measured as its header says, in chunks whose size and CRLF
  are a `size_t`.
* **TweetStore** - the constructors of `twitter_user_object` and `tweet_object` with the insertions
  they make before they throw, the `for_each` over a reply (a step per entity, since an exception
  can end it at any), `process_single_entity`, and `print`.  An author id missing from the JSON is
  an uninitialized number: any id.  Dereferencing `find(id)` at `end()` is recorded in `wild` and
  may or may not end the process.
* **Feed** - TweetStore composed with what it mirrors.  The server posts and deletes; what
  happens is pushed as text on the user stream; a `get` is answered by a snapshot.  The text of an
  event is a sequence of parts, and a chunk may end between any two (`TakeChunk`): `Parsed` is what
  `parse_json` and the stream's branch of `http_handler` make of such a chunk, up to the cases in
  which a chunk begins inside a tweet and the retweeted tweet is parsed in its place.  A timeline
  is handled any time after it was composed (`TakeReply`), or lost.  When the peer closes inside a
  chunk of the stream or inside a timeline, the reader calls back once more, with what came and the
  bytes behind it in memory (`TakeCutChunk`, `TakeCutReply`): those may close the object or the array that
  was open, and then it is taken for anything in `Invented`.  The handler, the stores and
  printing are TweetStore's own actions, so a step of Feed is one of TweetStore or stutters.
* **OAuth** - the requester as a record with pure operators, what the server checks (`Verifies`),
  and the variables the two runs that sign requests have in common.  Extended by TwitterSession and
  by InitialAuth, whose proofs are one module for that reason.
* **Encoding** - what OAuth abstracts: `hexanizer`, `url_escape`, `base64_encode`, the signed message
  and the two renderings byte for byte, and the method `generate_http_header` takes from the body.
  A signature stands for what was signed only if the message has one reading; the server verifies
  it only if it can write the message again.  The server's side is written from RFC 5849,
  RFC 4648 and the form encoding, on its own.
* **TwitterSession** - the life of the program with a token: construction, replies, ends of
  responses, commands, failing input, exit and the posted stop.  Each place in a handler that can
  throw (connect, sign) is a disjunct of its action.
* **Selection** - `Select`, the members of a sequence that pass a test, as a function of the length:
  what Console, StreamDescriptor and Conversion say "the words", "the keys" and "the characters that
  convert" with.  (The provers do not unfold the
  standard `SelectSeq`, which takes an operator.)
* **Console** - keys, `in_handler`'s editing and sending, both pipes with their capacity, the
  `async_read_until` on each side, `readline_handler`'s extraction of a command, and what a
  blocking write does to a program with one thread.  For each backspace the line before it becomes
  wide characters and bytes again (`console.cc:200-202`), and a line that is sent becomes UTF-8:
  `Widened` is the loop of `narrow_to_wide` symbol by symbol, which leaves out what is no character
  and the character for which a pass has no room; what `wide_to_narrow` and `extern_to_utf8` give
  for the strings they do not keep are the functions `Garbled` and `Recoded`, of which only
  `ConversionsAssumption` is known.
* **Terminal** - the descriptor table under the constructors and destructors of `main()`'s last
  block.  A destructor is a list of system calls run one by one; a call on a number that is not
  open fails and is ignored, as the code does; `strays` records calls that reached another file.
  Sockets open and close while the loop runs, and take the numbers that are free.
* **StreamDescriptor** - the Windows threads: wait, peek, read, lock, post, unlock, against the
  owner's buffer going first and the destructor's lock, `SetEvent`, `dead = true`, unlock.
* **InitialAuth** - the run with `--auth`, with `split_params` as an operator on symbols and
  replies in one chunk or several.  What the server may send is part of the module: a reply has the
  token, the secret and then anything with other names (`Reply`), and a chunk is any stretch of it
  (`ReplyAssumption`).  The server may also close inside a chunk: then the handler is called with the
  beginning of it and something of `Junk` behind (`Overread`), and for the last time.
* **JsonEscape** - the rules `escaped` and `string_` with all their alternatives, and `ucn_to_utf8`,
  against UTF-8 by its definition and the characters JSON gives the escapes.
* **Conversion** - the loop around `iconv` which the three conversions share.  `iconv` is modelled
  from its use: it converts character by character what fits, and stops at a bad one or a full buffer.

HttpClient is composed with the rest by its promise only: Feed, TwitterSession and InitialAuth take a
client as something that calls back and stops, which is what FrameDelivery and `ReaderEnds` say.

## 3. The runs

| run | configuration | asks |
|---|---|---|
| http_reader | MCHttpClient.cfg | the reader, in both builds, over every whole and truncated response, split into reads in every way: data in order and once, over-reads only at a close, the refinement of FrameDelivery, and that it comes to an end |
| http_assertion | MCHttpClientAssert.cfg | whether `assert` at `http_client_inst.cc:113` holds.  It does not: see section 6 |
| store | MCTweetStore.cfg | what the stores keep, what an exception loses, when an author dangles |
| session | MCTwitterSession.cfg | that every request verifies, no status leaks, the stream is requested once, exit is quiet |
| console | MCConsole.cfg | keys to commands, prints to terminal, and what editing, conversions and full pipes do in between |
| reader_threads | MCStreamDescriptor.cfg | the threads against the destructor |
| initial_auth | MCInitialAuth.cfg | which access-token requests the server grants, and when a cut value passes for a token |
| escapes | MCJsonEscape.cfg | which escapes become the UTF-8 of the character they stand for |
| feed | MCFeed.cfg | when a deleted tweet stays, what lost, late and cut text does to the stores, and which tweets can be made up |
| encodings | MCEncoding.cfg | that the server can write the signed message again, reads the digest, and that the message has one reading |
| terminal | MCTerminal.cfg | what is restored however the program ends, and that the doubled closes hit nothing else |
| conversions | MCConversion.cfg | which texts convert exactly, what a full buffer loses, and that the loop ends |

Bounds, and why they are enough:

* HttpClient: nine responses (plain of 0, 1 and 3 bytes; without a length; chunked with up to
  three chunks, of which one is a bare CRLF, one ends in a CRLF, one begins with a byte that is a
  hex digit; size lines of one and two digits), each cut at every byte, an empty connection and
  two malformed headers.  The reader keeps nothing from one chunk to the next but the buffer, so
  three chunks show what more could do.  `SizeMod = 64` is more than any response and small enough
  for the subtraction at line 81 to wrap.  `HexMod = 64` is that of a build with a 32-bit `size_t`, where
  line 100 can wrap as well: four more responses announce a chunk of 61 to 64 bytes, of which 62 and 63
  wrap to 0 and 1, and 64 is no number to `qi::hex`.
* TweetStore: two users, two names, three tweets, any sequence of single-entity replies, and
  timelines of three entities whose middle one throws, deletes or collides.  Two users are what a
  collision takes, three tweets what a retweet and a bystander take.
* TwitterSession: four connections (`MaxClients`), so one before, between and after a failure.
* Console: seven sessions of up to nine keys; pipes of six symbols and two lines, less than what is
  typed and printed, so both fill up.  Handlers print up to two lines; three lines come of replies.
  A pass of the conversions has room for four symbols, and one of the sessions has five before a
  backspace; in another a byte that is no character is typed, edited and sent.
* StreamDescriptor: three reads and three records, on a console and on a pipe: one thread
  unlocking, one reading, one to come.
* InitialAuth: both replies whole or cut at any symbol, ending with a further parameter or with the
  secret; three connections, so that both halves of a split first reply make a request.  Any chunk
  may be cut by a close, and what lies behind it is the end of a value or of another reply.
* Feed: a tweet and another user's retweet of it, with or without the first there before the stream
  opens; two events in transit (`MaxParts = 5`: a new event, of four to six parts, is pushed while there
  are fewer), two timelines.  An order needs a tweet, its notice and a timeline
  between them; the retweet brings a second tweet into one event.  What lies behind a cut body is the
  first tweet under another author or a notice nobody sent.
* Encoding: each byte alone and each pair of a dozen telling ones (NUL, `"%&+,=`, both ends
  of the upper half, ...) as the token, as the status and in the digest; digests of every length
  modulo 3.  Values are escaped byte by byte and base64 goes by groups of three.
* Terminal: up to three sockets and two inherited descriptors; each constructor throws or not,
  `/dev/tty` opens or not, a signal comes at any call.  The process starts with 0, 1 and 2
  open, and `pipe` and `dup` succeed.
* JsonEscape: every character after a backslash, every plain byte, every entity; every single escape, every first half with the lowest and the highest second half,
  and pairs in which one or both are no such half, at the boundaries of the ranges.
* Conversion: texts of up to four characters of one to three bytes, with bad ones at any place, and
  a `Buffer` of 4 bytes for the code's 1024: enough for the longest character, and filled more
  than twice by the longest text.

`CHECK_DEADLOCK FALSE` stands in every configuration: a peer may stay quiet, a user may stop
typing, the program may end.

Histories (`delivered`, `wild`, `refused`, `claimed`, `sent`, `commands`, ...) are read by
no action.

## 4. Fairness

* HttpClient: `WF(Handler)`, as `io_service::run()` invokes a handler whose operation has
  completed, and `WF(Receive)`, as the transport delivers what the peer sent.  `PeerClose` is not
  fair: nothing makes a peer close, and `ReaderEnds` begins with the close.
* Console: weak fairness of the three reads and their handlers.  `run()` serves every
  descriptor that is ready.  Keys, replies and the terminal's end are not fair.
* StreamDescriptor: weak fairness of each thread and of the destructor once it has begun, strong
  fairness of taking the mutex, which the operating system's scheduler gives to a thread that is
  let in again and again.  Leaving `run()` is not fair.

## 5. What is proved

With tlapm, for every value of the constants under the modules' named assumptions:

* **HttpClientProofs** (any set of byte sequences under `SizeModAssumption`: shorter than the range of
  `size_t`, which is at least that of the number in a size line; both builds):
  `TypeOK`, `DeliveredInOrder`, `OverReadOnlyAtClose`, `BlankOnlyAtClose`.  The inductive invariant
  adds `BodyTarget`: while a body read is outstanding it ends where the body ends, or, when the
  subtraction has wrapped, beyond the end of the response, and that no read is outstanding for a chunk whose sum wrapped to 0.
  Without it a handler could run on a
  short buffer and nothing would contradict it.  `WrappedDifference` is the lemma about `size_t`.
  On a well-framed wire, `FramesRefined`: every step of the reader is a step of FrameDelivery or a
  stutter.  Its invariant, `Place`, says where in the response the reader stands (at the header, in a
  measured or unmeasured body, at a size line, in a chunk, behind the last chunk, at the end of the
  wire) and that exactly the frames before that place have been handed over.
* **FeedProofs**, first of TweetStore (any users, names, tweets and replies): `TypeOK`, `AuthorKnownOrRefused`,
  `WildOnlyAfterCollision`, `RetweetKept`, `PassedAreStored`, and the action property
  `FirstVersionWins`.  The inductive invariant adds that an id names one tweet: without it
  printing after an insertion could find a tweet that is not the one inserted.
  Then of Feed (any tweets, chunks and timelines, and anything behind a cut body): `StoreRefined`, that Feed implements
  TweetStore's `Spec`, each step being one of its steps or a stutter, so that all that
  was shown of TweetStore holds of the stores in Feed as well; `StaleOnlyIfOvertaken`,
  `NothingMadeUp` and `InSyncWhenQuiet`.  The inductive invariant follows a tweet on its way: one
  that the server has is not deleted (`ServerClean`), in the text, and in a reply being handled, no
  tweet comes after its own notice (`TextInOrder`, `ReplyInOrder`), since ids are posted once and
  notices are pushed after; whatever is under way is a tweet of the server's, or the inside of
  one (`AllPosted`), but for what the end of a cut body named (`garbled`), which each part excepts; and, while the stream is open, each event it has brought has had its effect, was
  lost in a chunk, or is still on its way (`EventsAccounted`).
* **OAuthProofs**, first of TwitterSession (any texts, any number of requests): `TypeOK`, `EveryRequestVerifies`,
  `NoncesUnique`, `StatusOnlyInItsPost`, `StreamRequestedOnce`, and `QuietAfterExit`.  The inductive
  invariant adds that token and secret are of one `set_token`, that no nonce used is greater than
  the requester's, and that the first request is the constructor's.
  Then of InitialAuth (any tokens and PINs, any replies under `AuthAssumption` and
  `ReplyAssumption`, cut anywhere into any number of chunks, any of them cut short by a close and
  completed with any bytes of `Junk`, any number of requests; `TokensAssumption` says that a token is a
  string): `GrantedIffWhole` and `PrintedIsGranted`.  The inductive invariant
  (`AuthInv`) adds that what a client has still to call back with are parts of one reply
  (`InParts`).  The rest is about `split_params`: it exists as a recursion (`SplitExists`), finds only
  pairs that are in the data and begins with the first (`SplitFinds`, `SplitBegins`); since each name
  is in a reply once, what is found under it in a chunk is the reply's pair, whole (`ChunkPair`); so
  both values are the token's exactly for the chunks that hold both pairs (`BothIff`).  A pair that
  is whole in what was received of a cut chunk is found whatever follows it (`SplitOfPrefix`, `ParOfPrefix`,
  `BothKept`), so a call is sound unless it was over-read before both pairs were there (`CallSound`).
* **StreamDescriptorProofs** (any number of reads, any input): `OneReadAtATime`,
  `NoPostOnceDestroyed` and `KeysArriveInOrder`.  The inductive invariant adds that the queue never
  holds two handlers, that where a thread and the destructor are tells who holds the mutex, that
  `dead` is set once the destructor is past it, and that the keys of what has been taken from the
  input are those posted and those a thread still carries.
* **TerminalProofs** (any number of sockets and inherited descriptors): `NoStrayCall` and
  `EndsAsItBegan`.  The inductive invariant says, for each stage of construction, of the loop and of
  each destructor's list of calls, which file every number the program still means to use is open
  on; that a socket takes only free numbers keeps it.
* **ConsoleProofs** (any words, keys, reads, pipe capacities and, under `ConversionsAssumption`,
  conversions): `EditedInOrder`,
  `LineHeldOnlyAfterBurst`, `TypeAheadOnlyFeedsBare`, `NoWordLost`.  The inductive invariant adds that
  what was sent and what is kept are together what an editor makes of the keys read so far,
  for as long as all conversions were exact (`EditedSoFar`), that what is kept contains no backspace (`NoBackspace`), that a command is what
  `readline_handler` extracts from the buffer it was taken from (`Parsed`), and that the words of
  everything sent are those of the commands, the buffer and the pipe, in that order (`WordsKept`).
  The loop over backspaces ends because a conversion never makes a line longer (`RubShortens`); where
  the line is of characters and no longer than a pass has room for, it comes back as it was
  (`WidenedExact`, `NarrowedIs`), and that remains so from round to round (`RubConvertible`).
* **TextProofs**, of Conversion (any texts of characters of one to `MaxBytes` bytes, any `Buffer` that holds
  one): `TypeOK`, `ShortTextExact` and `OneLostPerBuffer`.  The sizes of texts, which Conversion sums by
  recursion on a function, are determined by their values at neighbouring places (`Taken`, `Spent`).
  The inductive invariant adds that what has been put out is what the characters before `pos`
  convert to, short of the lost ones; that, until a buffer has overflowed, nothing else is lost
  (`Exact`); and that a lost character lies further behind the loop than what it has put into the
  present buffer (`FarApart`), without which two losses could fall into one buffer.  Of JsonEscape
  (any set of escapes): `EscapesDecoded`.  The loop of `ucn_to_utf8` halts for every code
  (`ContinuationIs`), its one, two or three bytes are found by unfolding it that often (`OneFollows`,
  `TwoFollow`, `ThreeFollow`), and they are the bytes that the definition of UTF-8 gives
  (`ContinuationIsRest`, `HeadIs`) but for the codes of `CutShort`.  Of Encoding (any requests under
  `EncodingAssumption`: bytes of any value, in texts of any length): `MessageHasOneReading`,
  `ServerWritesMessage` and `DigestArrives`.  The inductive invariant (`EncodingIInv`) adds that
  parameters, message and wire all follow from one set of signed parameters (`IsSigned`, `Complete`,
  `WireOf`), which none of the three properties says, since the variables change one after the other.
  The rest traces a reading back to the writing: what `url_escape` puts out
  is among the bytes of `Safe`, so that a text splits where it was joined and nowhere else (`SplitOne`,
  `SplitTwo`, `TextLacks`); an escape is read where it stands (`EscapeIsRead`), so a text comes back whole,
  whatever a plus sign stands for (`EscapedIsRead`); query, header and body give back the parameters
  they render (`GetRequestIsRead`, `HeaderIsRead`, `BodyIsRead`), the header in spite of the space that
  `", "` leaves before a name; the server's escaping and ordering are the client's
  (`ServerWrites`); and every group of base64 gives back its three bytes, of which padding counts
  the missing ones (`GroupIsRead`, `PaddingCounted`, `Base64IsRead`).
* **Induction** is what the proofs rest on where the code loops: the run of a step function along
  a sequence (`After`), which exists, is unique and goes over a concatenation piece by piece;
  `Select` and the joining of a sequence of sequences, which are such runs; and a step repeated while it makes its argument smaller, like
  `in_handler`'s erasing of one key and one backspace at a time.  A function defined by
  recursion on an argument that shrinks exists (`RecursionExists`), so that `Continuation[c]` is what
  its definition says.  Induction is stated over sets
  (`NatSetInduction`: a set of numbers with 0 and closed under successor is `Nat`), since the
  library's theorems take an operator, which the provers cannot instantiate.

In each module one lemma per action shows that it preserves the invariant, on lemmas about the
operators (`InsertUserEffect`, `SigningEffect`, `GetVerifies`, ...); `Invariance` joins them.

Model-checked only:

* everything with `~>` or `[]<>` (`EveryFrameDelivered`, `ReaderEnds`, `ConversionEnds`, the console's
  and the threads' liveness) and the fairness in FrameDelivery's specification: liveness under fairness is out of the
  prover's reach.

## 6. What the models show of the code

Of these only the first contradicts a statement in the code; the others are what the properties
had to be stated around.

* A peer that closes inside a chunk makes `assert(... >= chunk_size + 2)` fail
  (`http_client_inst.cc:113`), and without assertions line 114 reads past the buffer.
  `OverReadOnlyAtClose` proves that this needs a close.  The callback gets those bytes, as it does
  at line 87 for a plain body: they may complete a tweet or a delete notice, but only the ids
  they name are affected (`NothingMadeUp`, `StaleOnlyIfOvertaken`), and a token or a secret, but
  only one that had not come whole (`PrintedIsGranted`, `GrantedIffWhole`).
* Where `size_t` has 32 bits, a chunk of FFFFFFFE bytes is an empty callback on an open connection, since
  `chunk_size + 2` is 0, and one of FFFFFFFF is a callback with one byte (`BlankOnlyAtClose`).
* A response with neither a Content-Length nor chunks is reported with no data once the peer has
  closed, and then its body is read as a header: a body that begins with an empty line or with
  another header makes a second callback.  `WellFramed` excludes that body, and `FramesRefined`
  would be false without it.
* A close one or two bytes into a chunk-size line keeps `chunk_size_read_complete` re-arming itself
  for ever (line 94); `ReaderEnds` excepts it by name.
* The branches of `http_handler` for the end of a stream are never taken: no callback is made without
  data, and `connected()` asks the local socket (`StreamRequestedOnce`).
* An exception in `get` or `post` ends the console but not the program; it is also what
  keeps a status whose signing failed from going out with the next request
  (`StatusOnlyInItsPost`).
* A user whose screen_name is held by an older record is refused, and printing that user's tweets
  dereferences `end()` (`AuthorKnownOrRefused`, `WildOnlyAfterCollision`; the second is proved only).
* A bare command takes the next line, if that has been typed ahead, for its arguments
  (`TypeAheadOnlyFeedsBare`); only the first line of a burst is sent on (`LineHeldOnlyAfterBurst`).
* A print larger than the pipe blocks the program for ever (`OutputShown` and `LinesRead` are about
  programs that run).
* A read thread past its wait may write into the freed buffer, but only one, and it posts nothing
  (`OneReadAtATime`, `NoPostOnceDestroyed`).
* An authorization reply in several chunks makes one request per chunk (`GrantedIffWhole`).
* `ucn_to_utf8` leaves out a byte for U+0800 to U+1FFF and U+10000 to U+7FFFF: its loop ends as soon
  as seven bits are left, where the first byte has room for four or three (`EscapesDecoded`).
* After a backslash a letter becomes its place in the alphabet: `\n` is 13, which `twitter.cc:89` makes a
  line feed, but `\t`, `\b`, `\f` and `\r` come out as 19, 1, 5 and 17 (`EscapesDecoded`).
* A deleted tweet stays if a timeline composed before the deletion is handled after the notice, and
  in no other way (`StaleOnlyIfOvertaken`).  An event is lost whenever it is not the first of its
  chunk or is cut (`InSyncWhenQuiet`); a chunk that begins inside a retweet stores the tweet it
  retweets, which is never a false one (`NothingMadeUp`).
* After an ordinary end descriptor 0 is closed and not restored, because `ist` has closed the copy
  first; the terminal's mode and standard output are restored unless a signal ends the process
  (`EndsAsItBegan`).  Three calls of `~piped_stdio` fail, and do no harm (`NoStrayCall`).
* A text that overflows the conversion's buffer loses a character each time, because
  `E2BIG` is treated like a bad byte (`OneLostPerBuffer`).  A backspace behind more than 256 characters
  (1024 bytes of `wchar_t`) therefore takes more than one of them, and one behind a byte that is no
  character takes that as well; `EditedInOrder` holds of the lines before that.

## 7. What is not modelled

* The rest of the JSON grammar (numbers, members, arrays) has no state.  HMAC and MD5 are any
  bytes; `Verifies` takes the HMAC to be injective.
* The range adaptors of `util.hpp` and `asio_range_util.hpp`, and `common.hpp`: types and views.
* Wording and layout of what is printed; `--help`, locale.
* `http_client::abort`, `clear_pin_number`: nothing calls them.  `set_consumer`: called once with
  constants.
* `send_request`: a write of a complete request, whose handler does nothing.
* The POSIX `stream_descriptor`, which is asio's own.  The Windows versions of `raw_termios` and of
  the conversions: calls of the system.
* What is still in the output pipe when the loop stops is lost; nothing in the code orders the stop and the
  pipe's reader, so no property is stated.

## 8. The plan

Done, in this order: HttpClient with FrameDelivery, TweetStore, OAuth and TwitterSession with their
proofs; Console, StreamDescriptor, InitialAuth, JsonEscape and Conversion with their runs; Feed
with its refinement of TweetStore and its proofs; Encoding and Terminal; the proofs of
StreamDescriptor, Terminal and Console; the safety part of FrameDelivery's refinement.
InitialAuth's properties restated over any replies a server may send, and proved; the proofs of
Conversion, of JsonEscape and of Encoding.  What is left is what section 5 lists as only model-checked.
