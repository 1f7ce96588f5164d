---------------------------- MODULE MCHttpClient ----------------------------
(* Small responses for HttpClient, whole and cut at every byte. *)
EXTENDS HttpClient, SequencesExt

U(c, v, f) == [c |-> c, v |-> v, f |-> f]

CrLf == <<U("cr", 0, 0), U("lf", 0, 0)>>

\* A body of the given classes as frame k, followed in its delivery by `tail' more units.
Body(classes, k, tail) ==
  [i \in DOMAIN classes |-> U(classes[i], Len(classes) - i + tail, k)]

Plain(classes) == <<U("lengthHead", Len(classes), 0)>> \o Body(classes, 1, 0)

\* No Content-Length: the body runs to the end of the connection.
PlainUnmeasured(n) == <<U("lengthHead", 0, 0)>> \o [i \in 1 .. n |-> U("byte", 0, 0)]

\* A chunk-size line of one or two digits (a leading zero), the data, CRLF.
Chunk(classes, k, digits) ==
  (IF digits = 2 THEN <<U("hex", Len(classes), 0)>> ELSE <<>>)
    \o <<U("hex", Len(classes), 0)>> \o CrLf \o Body(classes, k, 2) \o CrLf

LastChunk == <<U("hex", 0, 0)>> \o CrLf \o CrLf

InChunks(chunks) == <<U("chunkedHead", 0, 0)>> \o chunks \o LastChunk

KeepAlive == <<"cr", "lf">>  \* the user stream's heartbeat is a chunk that is a bare CRLF
Json      == <<"byte">>
JsonLine  == <<"byte", "cr", "lf">>
Digits    == <<"hex", "byte">>

Whole == { Plain(<<>>), Plain(Json), Plain(JsonLine),
           PlainUnmeasured(1), PlainUnmeasured(2),
           InChunks(<<>>),
           InChunks(Chunk(Json, 1, 1)),
           InChunks(Chunk(KeepAlive, 1, 1) \o Chunk(JsonLine, 2, 2)),
           InChunks(Chunk(Digits, 1, 2) \o Chunk(KeepAlive, 2, 1) \o Chunk(Json, 3, 1)) }

Cut(w) == {SubSeq(w, 1, n) : n \in 1 .. Len(w)}

Responses == UNION {Cut(w) : w \in Whole}
             \cup {<<>>, <<U("cutHead", 0, 0)>>, <<U("badHead", 0, 0)>>}

ASSUME EveryResponseWellFramed == \A w \in Responses : WellFramed(w)

\* A size line that announces n bytes, and two that come.  With 62 and 63 the sum in
\* chunk_size_read_complete wraps to 0 and to 1, and qi::hex refuses 64.
Announced(n) == InChunks(<<U("hex", n, 0)>> \o CrLf \o <<U("byte", 0, 0), U("byte", 0, 0)>> \o CrLf)

MCWires == Responses \cup {Announced(n) : n \in 61 .. 64}

=============================================================================
