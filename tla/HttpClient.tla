----------------------------- MODULE HttpClient -----------------------------
(***************************************************************************)
(* The response reader of one httpc::http_client (http_client_inst.cc and  *)
(* http_client.hpp): the chain of asynchronous reads that start_read()     *)
(* begins, and what each completion handler takes out of the stream buffer *)
(* and hands to the client's callback.                                     *)
(*                                                                         *)
(* A response is a sequence of units.  A complete header block (status     *)
(* line, fields, blank line) is one unit, since async_read_until completes *)
(* only on a whole one; everything after it is one unit per byte, because  *)
(* the reader counts bytes there.  The buffer `sb' is the window           *)
(* wire[pos+1 .. got] of the response: reads move `got', consume moves     *)
(* `pos'.  One client carries one request, so one response.                *)
(***************************************************************************)
EXTENDS Integers, Sequences, FiniteSets

CONSTANTS
  Wires,      \* the byte streams a peer may send before it closes or goes quiet
  SizeMod,    \* size_t arithmetic is modulo this (2^32 or 2^64 in the program)
  HexMod,     \* qi::hex takes an unsigned number, which is less than this (2^32)
  MaxFrame    \* the frames whose delivery is followed by EveryFrameDelivered

(***************************************************************************)
(* The classes of unit.  v is the Content-Length of a lengthHead (0 when   *)
(* the field is absent) or, on the first hex digit of a chunk-size line,   *)
(* the value of the whole run of digits, however large it is.  A           *)
(* Content-Length that is no size_t makes lexical_cast throw: a badHead.   *)
(* f is the number of the body frame a byte belongs to, 0 for framing, and *)
(* v on a byte with f # 0 is how many units after it the frame still needs *)
(* (its chunk's CRLF included).  The reader looks at neither: they are for *)
(* the properties.                                                         *)
(***************************************************************************)
Heads   == {"lengthHead", "chunkedHead", "badHead"}
Classes == Heads \cup {"cutHead", "cr", "lf", "hex", "byte"}
Unit    == [c : Classes, v : Nat, f : Nat]

ASSUME WiresAssumption == Wires \subseteq Seq(Unit)
ASSUME SizeModAssumption ==
         /\ SizeMod \in Nat
         /\ HexMod \in 3 .. SizeMod
         /\ \A w \in Wires :
              /\ Len(w) < SizeMod
              /\ \A i \in DOMAIN w : w[i].c = "lengthHead" => w[i].v < SizeMod

VARIABLES
  wire,       \* the units the peer sends on this connection
  got,        \* how many of them have been read into sb
  pos,        \* how many of those have been consumed
  closed,     \* the peer has closed: reads complete with an error at the end of wire
  phase,      \* the completion handler the outstanding read is bound to, or why there is none
  arg,        \* the length or chunk_size bound into that handler
  target,     \* transfer_at_least: the value of got the outstanding read waits for
  delivered,  \* history: the data of each callback, [from, len, over]
  assertions  \* the build has assertions (no NDEBUG); it never changes

vars == <<wire, got, pos, closed, phase, arg, target, delivered, assertions>>

Reading == {"header", "plainBody", "chunkSize", "chunkBody", "lastChunk"}
\* released: no read outstanding, the client is destroyed.  threw: a handler or the callback
\* threw before the next read was started.  assertFailed, faulted: the process is gone.
Dead    == {"released", "threw", "assertFailed", "faulted"}

-----------------------------------------------------------------------------
(* The stream buffer. *)

Size(p) == got - p

Least(a, b) == IF a < b THEN a ELSE b

IsCrLf(i) == wire[i].c = "cr" /\ wire[i + 1].c = "lf"

HasEol1 == \E i \in pos + 1 .. got :
             \/ wire[i].c \in Heads
             \/ i < got /\ IsCrLf(i)

HasEol2 == \E i \in pos + 1 .. got :
             \/ wire[i].c \in Heads
             \/ i + 3 <= got /\ IsCrLf(i) /\ IsCrLf(i + 2)

AtEof == closed /\ got = Len(wire)

\* The completion condition of the outstanding read.
Satisfied == \/ phase \in {"header", "lastChunk"} /\ HasEol2
             \/ phase = "chunkSize" /\ HasEol1
             \/ phase \in {"plainBody", "chunkBody"} /\ got >= target

\* async_read_until and async_read also complete, with an error, when the peer has closed.
\* No handler looks at its error_code, so an error is just a completion.
Completes(ph) == phase = ph /\ (Satisfied \/ AtEof)

-----------------------------------------------------------------------------
(* What the handlers do. *)

Stop(why, p) == /\ phase' = why
                /\ pos' = p
                /\ UNCHANGED <<arg, target, delivered>>

\* Re-arm with async_read_until, having consumed up to p.
ReadUntil(ph, p) == /\ phase' = ph
                    /\ pos' = p
                    /\ UNCHANGED <<arg, target, delivered>>

\* Re-arm with async_read(transfer_at_least(need)).
ReadAtLeast(ph, p, a, need) == /\ phase' = ph
                               /\ pos' = p
                               /\ arg' = a
                               /\ target' = got + need
                               /\ UNCHANGED delivered

\* Mutant of Deliver: consume() left out.
DeliverUnconsumed(p, len, next) ==
  /\ delivered' = Append(delivered, [from |-> p + 1, len |-> len, over |-> len > Size(p)])
  /\ pos' = p
  /\ phase' \in {next, "threw"}
  /\ UNCHANGED <<arg, target>>

\* data.assign(buffer, len); consume(len), which stops at the end of the buffer; handler(res).
\* The callback may throw, and then the next read is not started.
Deliver(p, len, next) ==
  /\ delivered' = Append(delivered, [from |-> p + 1, len |-> len, over |-> len > Size(p)])
  /\ pos' = p + Least(len, Size(p))
  /\ phase' \in {next, "threw"}
  /\ UNCHANGED <<arg, target>>

\* assign() reads len bytes whatever the buffer holds; past its end it is undefined, and the
\* outcomes are a fault or bytes that were never received.
DeliverOrFault(p, len, next) ==
  \/ Deliver(p, len, next)
  \/ len > Size(p) /\ Stop("faulted", p)

\* Mutant of ReadPlainBody: the difference is not allowed to wrap.
ReadPlainBodyUnwrapped(p, length) ==
  ReadAtLeast("plainBody", p, length, IF length > Size(p) THEN length - Size(p) ELSE 0)

\* size_t: length - asio::buffer_size(sb.data()) wraps when the buffer already holds more.
ReadPlainBody(p, length) ==
  ReadAtLeast("plainBody", p, length, (length - Size(p)) % SizeMod)

\* header_read_complete.  parse_header consumes the header block; on a bare CRLF it consumes
\* that and finds no field; on anything else the expectation operator throws.
HeaderReadComplete ==
  /\ Completes("header")
  /\ \/ Size(pos) = 0 /\ Stop("released", pos)
     \/ /\ Size(pos) > 0
        /\ LET h == wire[pos + 1]
               bareCrLf == Size(pos) >= 2 /\ IsCrLf(pos + 1)
           IN \/ h.c = "chunkedHead" /\ ReadUntil("chunkSize", pos + 1)
              \/ h.c = "lengthHead" /\ ReadPlainBody(pos + 1, h.v)
              \/ bareCrLf /\ ReadPlainBody(pos + 2, 0)
              \/ ~bareCrLf /\ h.c \notin {"chunkedHead", "lengthHead"} /\ Stop("threw", pos)
  /\ UNCHANGED <<wire, got, closed, assertions>>

\* plain_body_read_complete, then start_read().
PlainBodyReadComplete ==
  /\ Completes("plainBody")
  /\ \/ Size(pos) = 0 /\ Stop("released", pos)
     \/ Size(pos) > 0 /\ DeliverOrFault(pos, arg, "header")
  /\ UNCHANGED <<wire, got, closed, assertions>>

\* chunk_size + 2: a chunk and its CRLF, in size_t.
Taken(chunkSize) == (chunkSize + 2) % SizeMod

\* Mutant of ChunkBody: the CRLF after the chunk is left in the buffer.
ChunkBodyLeavingCrLf(p, chunkSize) ==
  \/ Size(p) = 0 /\ Stop("released", p)
  \/ Size(p) > 0 /\ chunkSize = 0 /\ ReadUntil("lastChunk", p)
  \/ Size(p) > 0 /\ chunkSize > 0 /\ DeliverOrFault(p, chunkSize, "chunkSize")

\* chunk_body_read_complete(res, chunk_size) on a buffer that starts at p.
ChunkBody(p, chunkSize) ==
  \/ Size(p) = 0 /\ Stop("released", p)
  \/ Size(p) > 0 /\ chunkSize = 0 /\ ReadUntil("lastChunk", p)
  \/ /\ Size(p) > 0 /\ chunkSize > 0
     /\ \/ Size(p) >= Taken(chunkSize) /\ Deliver(p, Taken(chunkSize), "chunkSize")
        \/ Size(p) < Taken(chunkSize) /\ assertions /\ Stop("assertFailed", p)
        \/ /\ Size(p) < Taken(chunkSize) /\ ~assertions
           /\ DeliverOrFault(p, Taken(chunkSize), "chunkSize")

ChunkBodyReadComplete ==
  /\ Completes("chunkBody")
  /\ ChunkBody(pos, arg)
  /\ UNCHANGED <<wire, got, closed, assertions>>

\* Mutant of TakeChunk: waits for the chunk without its CRLF.
TakeChunkWithoutCrLf(p, chunkSize) ==
  \/ chunkSize > Size(p) /\ ReadAtLeast("chunkBody", p, chunkSize, chunkSize - Size(p))
  \/ chunkSize <= Size(p) /\ ChunkBody(p, chunkSize)

\* After parse_chunk_size: read the rest of the chunk, or go on with it at once.
TakeChunk(p, chunkSize) ==
  \/ /\ Taken(chunkSize) > Size(p)
     /\ ReadAtLeast("chunkBody", p, chunkSize, Taken(chunkSize) - Size(p))
  \/ Taken(chunkSize) <= Size(p) /\ ChunkBody(p, chunkSize)

\* Unit i begins a number that qi::hex takes.
IsSize(i) == wire[i].c = "hex" /\ wire[i].v < HexMod

\* The end of the line that starts the buffer: its first LF.
IsLineEnd(i) == wire[i].c = "lf" /\ \A j \in pos + 1 .. i - 1 : wire[j].c # "lf"

\* Mutant of ChunkSizeReadComplete: an empty buffer does not end the reader.
ChunkSizeReadAgain ==
  /\ Completes("chunkSize")
  /\ \/ Size(pos) <= 2 /\ ReadUntil("chunkSize", pos)
     \/ /\ Size(pos) > 2 /\ IsSize(pos + 1)
        /\ \/ \E i \in pos + 1 .. got : IsLineEnd(i) /\ TakeChunk(i, wire[pos + 1].v)
           \/ ~(\E i \in pos + 1 .. got : IsLineEnd(i)) /\ Stop("threw", pos)
     \/ Size(pos) > 2 /\ ~IsSize(pos + 1) /\ TakeChunk(pos, 0)
  /\ UNCHANGED <<wire, got, closed, assertions>>

\* chunk_size_read_complete.  parse_chunk_size consumes nothing and leaves 0 when the line does
\* not start with a number qi::hex takes, and throws when it does but the buffer holds no LF.
ChunkSizeReadComplete ==
  /\ Completes("chunkSize")
  /\ \/ Size(pos) = 0 /\ Stop("released", pos)
     \/ Size(pos) \in 1 .. 2 /\ ReadUntil("chunkSize", pos)
     \/ /\ Size(pos) > 2 /\ IsSize(pos + 1)
        /\ \/ \E i \in pos + 1 .. got : IsLineEnd(i) /\ TakeChunk(i, wire[pos + 1].v)
           \/ ~(\E i \in pos + 1 .. got : IsLineEnd(i)) /\ Stop("threw", pos)
     \/ Size(pos) > 2 /\ ~IsSize(pos + 1) /\ TakeChunk(pos, 0)
  /\ UNCHANGED <<wire, got, closed, assertions>>

\* lastchunk_read_complete, then start_read().
LastChunkReadComplete ==
  /\ Completes("lastChunk")
  /\ \/ Size(pos) = 0 /\ Stop("released", pos)
     \/ Size(pos) > 0 /\ ReadUntil("header", pos)
  /\ UNCHANGED <<wire, got, closed, assertions>>

-----------------------------------------------------------------------------
(* The environment. *)

\* async_read_some under the composed read: any number of the bytes that have come in.
Receive ==
  /\ phase \in Reading
  /\ ~Satisfied
  /\ got' \in got + 1 .. Len(wire)
  /\ UNCHANGED <<wire, pos, closed, phase, arg, target, delivered, assertions>>

PeerClose ==
  /\ ~closed
  /\ closed' = TRUE
  /\ UNCHANGED <<wire, got, pos, phase, arg, target, delivered, assertions>>

\* The constructor has connected; start_read() has issued the first read.
Init ==
  /\ wire \in Wires
  /\ got = 0 /\ pos = 0
  /\ closed = FALSE
  /\ phase = "header" /\ arg = 0 /\ target = 0
  /\ delivered = <<>>
  /\ assertions \in BOOLEAN

Handler == \/ HeaderReadComplete
           \/ PlainBodyReadComplete
           \/ ChunkSizeReadComplete
           \/ ChunkBodyReadComplete
           \/ LastChunkReadComplete

Next == Handler \/ Receive \/ PeerClose

Spec == Init /\ [][Next]_vars

\* io_service::run() invokes a handler whose operation has completed, and the transport
\* delivers what the peer has sent.  Nothing obliges a peer to close.
FairSpec == Spec /\ WF_vars(Handler) /\ WF_vars(Receive)

-----------------------------------------------------------------------------
(* Properties. *)

\* The windows and the bound arguments are numbers in range.
TypeOK ==
  /\ wire \in Wires
  /\ got \in 0 .. Len(wire)
  /\ pos \in 0 .. got
  /\ closed \in BOOLEAN
  /\ phase \in Reading \cup Dead
  /\ arg \in Nat
  /\ target \in Nat
  /\ delivered \in Seq([from : Nat, len : Nat, over : BOOLEAN])
  /\ assertions \in BOOLEAN

\* The first unit after a callback's data.
End(d) == d.from + d.len

\* No byte of the connection is handed to the callback twice or out of order, and none is
\* handed over that has not been consumed from the buffer, unless the callback's data was
\* an over-read: this is what the consume() after every assign() is for.
DeliveredInOrder ==
  /\ \A i, j \in DOMAIN delivered : i < j => End(delivered[i]) <= delivered[j].from
  /\ \A i \in DOMAIN delivered : ~delivered[i].over => End(delivered[i]) <= pos + 1

\* assign() reads past the buffer only when the peer closed in the middle of a body, and then
\* nothing is left to read: transfer_at_least never lets a handler run early.
OverReadOnlyAtClose ==
  \A i \in DOMAIN delivered :
    delivered[i].over => closed /\ i = Len(delivered) /\ pos = Len(wire)

\* The unit before p ends a size line whose size and CRLF come to 0 in size_t.
WrapsBefore(p) ==
  \E j \in 1 .. p - 1 :
    /\ IsSize(j) /\ Taken(wire[j].v) = 0
    /\ \A i \in j .. p - 1 : wire[i].c = "lf" <=> i = p - 1

\* A response without a Content-Length is never reported while the connection is open: its
\* length 0 minus what is already buffered wraps to a count no response reaches.  What makes an
\* empty callback on an open connection is the other sum that wraps: a chunk of FFFFFFFE bytes,
\* in a build whose size_t is as narrow as the number in the size line.
BlankOnlyAtClose ==
  \A i \in DOMAIN delivered : delivered[i].len = 0 => closed \/ WrapsBefore(delivered[i].from)

Frames(w) == {w[i].f : i \in DOMAIN w} \ {0}

\* Frame k is wholly among the first n units.
FrameComplete(w, k, n) == \E i \in 1 .. n : w[i].f = k /\ i + w[i].v <= n

\* The frame that a callback's data is, 0 if it is none.
FrameOf(w, d) ==
  LET carried == {i \in DOMAIN w : d.from <= i /\ i < End(d) /\ w[i].f # 0}
      whole   == {k \in Frames(w) : carried = {i \in DOMAIN w : w[i].f = k}}
  IN IF d.over \/ whole = {} THEN 0 ELSE CHOOSE k \in whole : TRUE

\* What a response is, as far as the reader's promise depends on it, whole or cut anywhere: one
\* header block, and a body that is measured as the header says.  A wire is one of these or has
\* no frames at all.

\* Units from .. to are framing (on a wire that may end before them).
Framing(w, from, to) == \A i \in DOMAIN w : from <= i /\ i <= to => w[i].f = 0

\* Units from .. to are frame k, which needs `tail' more after them.
FrameUnits(w, k, from, to, tail) ==
  \A i \in DOMAIN w : from <= i /\ i <= to => w[i].f = k /\ w[i].v = to + tail - i

Unframed(w) == w = <<>> \/ (w[1].c \in {"badHead", "cutHead"} /\ Framing(w, 1, Len(w)))

\* Content-Length bytes and no more.
PlainBodied(w) == /\ w # <<>> /\ w[1].c = "lengthHead" /\ w[1].f = 0 /\ w[1].v > 0
                  /\ Len(w) <= w[1].v + 1
                  /\ FrameUnits(w, 1, 2, w[1].v + 1, 0)

\* Neither Content-Length nor chunks.  A body that began with an empty line, or with another
\* header, would be taken for one once the connection has closed.
Unmeasured(w) == /\ w # <<>> /\ w[1].c = "lengthHead" /\ w[1].v = 0
                 /\ Framing(w, 1, Len(w))
                 /\ Len(w) > 1 => w[2].c \notin Heads \cup {"cr"}

\* A size line begins after unit p: that is the header or the end of a chunk's CRLF.
LineStart(w, p) == p = 1 \/ (p - 2 \in DOMAIN w /\ w[p - 2].f # 0 /\ w[p - 2].v = 2)

FramesBefore(w, p) == IF p = 1 THEN 0 ELSE w[p - 2].f

\* Units p + 1 .. e are the size line of a chunk, which is followed by its data and a CRLF, or,
\* with size 0, by the CRLF that ends the response.
ChunkAt(w, p, e) ==
  LET size == w[p + 1].v
  IN /\ w[p + 1].c = "hex" /\ size < HexMod /\ size + 2 < SizeMod
     /\ Framing(w, p + 1, e)
     /\ \A i \in DOMAIN w : p < i /\ i <= e => (w[i].c = "lf" <=> i = e)
     /\ FrameUnits(w, FramesBefore(w, p) + 1, e + 1, e + size, 2)
     /\ Framing(w, e + size + 1, e + size + 2)
     /\ size = 0 => Len(w) <= e + 2

Chunked(w) ==
  /\ w # <<>> /\ w[1].c = "chunkedHead" /\ w[1].f = 0
  /\ \A i \in 2 .. Len(w) : w[i].c \notin Heads
  /\ \A i, j \in DOMAIN w : w[i].f # 0 /\ w[i].f = w[j].f => i + w[i].v = j + w[j].v
  /\ \A p \in 1 .. Len(w) - 1 : LineStart(w, p) => \E e \in p + 3 .. Len(w) + 3 : ChunkAt(w, p, e)

WellFramed(w) == Unframed(w) \/ PlainBodied(w) \/ Unmeasured(w) \/ Chunked(w)

Framed == {w \in Wires : WellFramed(w)}

\* The callbacks are the frames of the response, in order, each complete (FrameDelivery).  Of
\* what is not a response nothing is promised.
FD == INSTANCE FrameDelivery WITH
        arrived <- IF wire \in Framed
                   THEN Cardinality({k \in Frames(wire) : FrameComplete(wire, k, got)}) ELSE 0,
        out     <- IF wire \in Framed
                   THEN [i \in DOMAIN delivered |-> FrameOf(wire, delivered[i])] ELSE <<>>,
        eof     <- closed,
        live    <- phase \in Reading

FrameDelivery == FD!FDSpec

\* Every frame the peer has sent completely is handed over, unless a callback or a parse threw.
EveryFrameDelivered ==
  \A k \in 1 .. MaxFrame :
    FrameComplete(wire, k, Len(wire)) ~> (Len(delivered) >= k \/ phase = "threw")

\* The wire stops one or two bytes into the line that announces a chunk.
CutInSizeLine == phase = "chunkSize" /\ AtEof /\ Size(pos) \in 1 .. 2

\* When the peer closes, the reader lets go of the client, except that a close one or two bytes
\* into a chunk-size line keeps chunk_size_read_complete re-arming itself for ever.
ReaderEnds == closed ~> (phase \in Dead \/ CutInSizeLine)

\* chunk_body_read_complete asserts that the whole chunk and its CRLF are in the buffer.
ChunkAssertion == phase # "assertFailed"

=============================================================================
