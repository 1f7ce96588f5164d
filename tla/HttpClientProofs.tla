-------------------------- MODULE HttpClientProofs --------------------------
(***************************************************************************)
(* What TLAPS proves of HttpClient, for every set of wires (any bytes at   *)
(* all, not only responses), every width of size_t that can count them and *)
(* both builds.  The inductive invariant adds to the properties where the  *)
(* outstanding body read will end, which is what keeps a handler from      *)
(* running on a short buffer while the connection is open.  The second     *)
(* half is about the wires that are responses: on those the reader is an   *)
(* implementation of FrameDelivery.                                        *)
(***************************************************************************)
EXTENDS HttpClient, FiniteSetTheorems, FunctionTheorems, TLAPS

\* The end of a body read is the end of the body, or (the wrapped count) out of reach.
BodyTarget ==
  /\ phase = "plainBody" => /\ target >= pos + arg
                            /\ arg = 0 => got = pos \/ target > Len(wire)
                            /\ arg = 0 /\ got = pos => target = pos \/ target > Len(wire)
  /\ phase = "chunkBody" => target = pos + Taken(arg) /\ Taken(arg) > 0

IInv == /\ TypeOK
        /\ BodyTarget
        /\ DeliveredInOrder
        /\ OverReadOnlyAtClose
        /\ BlankOnlyAtClose

-----------------------------------------------------------------------------

\* size_t subtraction of two representable numbers.
LEMMA WrappedDifference ==
  ASSUME NEW m \in Nat, NEW a \in Nat, NEW b \in Nat, a < m, b < m
  PROVE  /\ a >= b => (a - b) % m = a - b
         /\ a < b => (a - b) % m = a - b + m
  BY SMT

LEMMA WireUnits ==
  ASSUME TypeOK
  PROVE  /\ wire \in Seq(Unit)
         /\ Len(wire) \in Nat
         /\ Len(wire) < SizeMod
         /\ SizeMod \in Nat
         /\ \A i \in 1 .. Len(wire) : wire[i].c \in Classes /\ wire[i].v \in Nat
  <1>1. wire \in Wires /\ wire \in Seq(Unit) /\ SizeMod \in Nat /\ Len(wire) < SizeMod
    BY WiresAssumption, SizeModAssumption DEF TypeOK
  <1>2. Len(wire) \in Nat /\ DOMAIN wire = 1 .. Len(wire)
    BY <1>1
  <1>3. ASSUME NEW i \in 1 .. Len(wire)
        PROVE  wire[i].c \in Classes /\ wire[i].v \in Nat
    <2>1. wire[i] \in Unit
      BY <1>1, <1>2
    <2>2. QED
      BY <2>1 DEF Unit
  <1>4. QED
    BY <1>1, <1>2, <1>3

LEMMA LengthBelow ==
  ASSUME TypeOK, NEW i \in 1 .. Len(wire), wire[i].c = "lengthHead"
  PROVE  wire[i].v < SizeMod
  <1>1. wire \in Wires /\ i \in DOMAIN wire
    BY WireUnits DEF TypeOK
  <1>2. QED
    BY <1>1, SizeModAssumption

\* A chunk and its CRLF in size_t.
LEMMA TakenIs ==
  ASSUME NEW s \in Nat
  PROVE  /\ Taken(s) \in Nat
         /\ s + 2 < SizeMod => Taken(s) = s + 2
  <1>1. SizeMod \in Nat /\ SizeMod > 2
    BY SizeModAssumption
  <1>2. QED
    BY <1>1 DEF Taken

LEMMA ElementOf ==
  ASSUME NEW S, NEW s \in Seq(S), NEW i \in DOMAIN s
  PROVE  s[i] \in S
  OBVIOUS

LEMMA EmptySequence ==
  ASSUME NEW S
  PROVE  <<>> \in Seq(S)
  OBVIOUS

\* A callback's data has an end.
LEMMA DeliveredEnds ==
  ASSUME TypeOK, NEW i \in DOMAIN delivered
  PROVE  delivered[i].from \in Nat /\ delivered[i].len \in Nat /\ End(delivered[i]) \in Nat
  <1>1. delivered[i] \in [from : Nat, len : Nat, over : BOOLEAN]
    BY ElementOf DEF TypeOK
  <1>2. QED
    BY <1>1 DEF End

\* A step that hands nothing over and consumes up to p.
LEMMA QuietStep ==
  ASSUME IInv, NEW p \in pos .. got, pos' = p, phase' \in Reading \cup Dead,
         UNCHANGED <<wire, got, closed, assertions, delivered>>, arg' \in Nat, target' \in Nat,
         BodyTarget'
  PROVE  IInv'
  <1>1. TypeOK'
    BY DEF IInv, TypeOK
  <1>2. DeliveredInOrder'
    <2>1. /\ pos <= p /\ pos \in Nat /\ p \in Nat
          /\ delivered \in Seq([from : Nat, len : Nat, over : BOOLEAN])
      BY WireUnits DEF IInv, TypeOK
    <2>2. \A i \in DOMAIN delivered : End(delivered[i]) \in Nat
      BY DeliveredEnds DEF IInv
    <2>3. ASSUME NEW i \in DOMAIN delivered, ~delivered[i].over
          PROVE  End(delivered[i]) <= p + 1
      BY <2>1, <2>2, <2>3, SMTT(30) DEF IInv, DeliveredInOrder
    <2>4. QED
      BY <2>3 DEF IInv, DeliveredInOrder, End
  <1>3. OverReadOnlyAtClose'
    BY SMTT(30) DEF IInv, OverReadOnlyAtClose, TypeOK
  <1>4. BlankOnlyAtClose'
    BY DEF IInv, BlankOnlyAtClose, WrapsBefore, IsSize, Taken
  <1>5. QED
    BY <1>1, <1>2, <1>3, <1>4 DEF IInv

LEMMA StopStep ==
  ASSUME IInv, NEW why \in Dead, NEW p \in pos .. got, Stop(why, p),
         UNCHANGED <<wire, got, closed, assertions>>
  PROVE  IInv'
  <1>1. BodyTarget'
    BY DEF Stop, BodyTarget, Dead
  <1>2. QED
    BY <1>1, QuietStep DEF Stop, IInv, TypeOK

LEMMA ReadUntilStep ==
  ASSUME IInv, NEW ph \in {"header", "chunkSize", "lastChunk"}, NEW p \in pos .. got,
         ReadUntil(ph, p), UNCHANGED <<wire, got, closed, assertions>>
  PROVE  IInv'
  <1>1. BodyTarget'
    BY DEF ReadUntil, BodyTarget
  <1>2. phase' \in Reading
    BY DEF ReadUntil, Reading
  <1>3. QED
    BY <1>1, <1>2, QuietStep DEF ReadUntil, IInv, TypeOK

LEMMA ReadPlainBodyStep ==
  ASSUME IInv, NEW p \in pos .. got, NEW length \in Nat, length < SizeMod,
         ReadPlainBody(p, length), UNCHANGED <<wire, got, closed, assertions>>
  PROVE  IInv'
  <1> DEFINE need == (length - Size(p)) % SizeMod
  <1>1. /\ SizeMod \in Nat /\ Len(wire) \in Nat /\ Len(wire) < SizeMod
        /\ got \in Nat /\ pos \in Nat /\ p \in Nat /\ got <= Len(wire) /\ p <= got
    BY WireUnits DEF IInv, TypeOK
  <1>2. Size(p) \in Nat /\ Size(p) < SizeMod /\ Size(p) = got - p
    BY <1>1 DEF Size
  <1>3. \/ length >= Size(p) /\ need = length - Size(p)
        \/ length < Size(p) /\ need = length - Size(p) + SizeMod
    BY <1>1, <1>2, WrappedDifference
  <1>4. /\ phase' = "plainBody" /\ pos' = p /\ arg' = length /\ target' = got + need
        /\ UNCHANGED delivered
    BY DEF ReadPlainBody, ReadAtLeast
  <1>5. need \in Nat
    BY <1>1, <1>2, <1>3
  <1>6. BodyTarget'
    <2>1. got + need >= p + length
      BY <1>1, <1>2, <1>3, SMTT(30)
    <2>2. ASSUME length = 0 PROVE got = p \/ got + need > Len(wire)
      BY <1>1, <1>2, <1>3, <2>2
    <2>3. ASSUME length = 0, got = p PROVE got + need = p \/ got + need > Len(wire)
      BY <1>1, <1>2, <1>3, <2>3
    <2>4. QED
      BY <1>4, <2>1, <2>2, <2>3 DEF BodyTarget
  <1>7. QED
    BY <1>1, <1>4, <1>5, <1>6, QuietStep DEF Reading

LEMMA ReadChunkBodyStep ==
  ASSUME IInv, NEW p \in pos .. got, NEW s \in Nat, Taken(s) > Size(p),
         ReadAtLeast("chunkBody", p, s, Taken(s) - Size(p)), UNCHANGED <<wire, got, closed, assertions>>
  PROVE  IInv'
  <1>1. got \in Nat /\ pos \in Nat /\ p \in Nat /\ p <= got /\ Taken(s) \in Nat
    BY WireUnits, TakenIs DEF IInv, TypeOK
  <1>2. /\ phase' = "chunkBody" /\ pos' = p /\ arg' = s /\ target' = got + (Taken(s) - (got - p))
        /\ UNCHANGED delivered
    BY DEF ReadAtLeast, Size
  <1>3. target' = p + Taken(s) /\ Taken(s) > 0
    BY <1>1, <1>2 DEF Size
  <1>4. BodyTarget'
    <2>1. Taken(arg') = Taken(s)
      BY <1>2
    <2>2. QED
      BY <1>2, <1>3, <2>1 DEF BodyTarget, Taken
  <1>5. QED
    BY <1>1, <1>2, <1>3, <1>4, QuietStep DEF Reading

\* A callback: on enough data, or at the end of a closed connection.
LEMMA DeliverStep ==
  ASSUME IInv, NEW p \in pos .. got, NEW len \in Nat, NEW next \in {"header", "chunkSize"},
         Deliver(p, len, next), UNCHANGED <<wire, got, closed, assertions>>,
         Size(p) > 0, len <= Size(p) \/ AtEof, len = 0 => closed \/ WrapsBefore(p + 1)
  PROVE  IInv'
  <1> DEFINE d == [from |-> p + 1, len |-> len, over |-> len > Size(p)]
  <1>1. /\ got \in Nat /\ pos \in Nat /\ p \in Nat /\ pos <= p /\ p <= got
        /\ Len(wire) \in Nat /\ got <= Len(wire)
        /\ delivered \in Seq([from : Nat, len : Nat, over : BOOLEAN])
    BY WireUnits DEF IInv, TypeOK
  <1>2. /\ delivered' = Append(delivered, d) /\ pos' = p + Least(len, Size(p))
        /\ phase' \in {next, "threw"} /\ UNCHANGED <<arg, target>>
    BY DEF Deliver
  <1>3. d \in [from : Nat, len : Nat, over : BOOLEAN]
    BY <1>1 DEF Size
  <1>4a. d.from = p + 1 /\ d.len = len /\ (d.over <=> len > Size(p))
    BY Zenon
  <1> HIDE DEF d
  <1>4. /\ pos' \in p .. got
        /\ d.over => pos' = got
        /\ ~d.over => pos' = p + len
    <2>1. /\ pos' \in p .. got
          /\ len > Size(p) => pos' = got
          /\ ~(len > Size(p)) => pos' = p + len
      BY <1>1, <1>2 DEF Least, Size
    <2>2. QED
      BY <1>4a, <2>1
  <1>5. /\ Len(delivered') = Len(delivered) + 1
        /\ delivered'[Len(delivered')] = d
        /\ \A i \in 1 .. Len(delivered) : delivered'[i] = delivered[i]
        /\ DOMAIN delivered = 1 .. Len(delivered) /\ DOMAIN delivered' = 1 .. Len(delivered')
        /\ Len(delivered) \in Nat
    BY <1>1, <1>2, <1>3
  <1>6. \A i \in 1 .. Len(delivered) : ~delivered[i].over /\ End(delivered[i]) <= pos + 1
    <2>1. pos < Len(wire)
      BY <1>1 DEF Size
    <2>2. ASSUME NEW i \in 1 .. Len(delivered)
          PROVE  ~delivered[i].over
      <3>1. delivered[i].over => pos = Len(wire)
        BY <1>5 DEF IInv, OverReadOnlyAtClose
      <3>2. QED
        BY <2>1, <3>1, <1>1, SMTT(30)
    <2>3. QED
      BY <1>5, <2>2 DEF IInv, DeliveredInOrder
  <1>7. \A i \in 1 .. Len(delivered) : End(delivered[i]) \in Nat
    BY <1>5, DeliveredEnds DEF IInv
  <1>8. TypeOK'
    <2>1. delivered' \in Seq([from : Nat, len : Nat, over : BOOLEAN])
      BY <1>1, <1>2, <1>3
    <2>2. phase' \in Reading \cup Dead
      BY <1>2 DEF Reading, Dead
    <2>3. QED
      BY <1>1, <1>2, <1>4, <2>1, <2>2 DEF IInv, TypeOK
  <1>9. BodyTarget'
    BY <1>2 DEF BodyTarget
  <1>10. DeliveredInOrder'
    <2>1. ASSUME NEW i \in DOMAIN delivered', NEW j \in DOMAIN delivered', i < j
          PROVE  End(delivered'[i]) <= delivered'[j].from
      <3>1. i \in 1 .. Len(delivered)
        BY <2>1, <1>5
      <3>2. CASE j = Len(delivered')
        BY <3>1, <3>2, <1>4a, <1>1, <1>5, <1>6, <1>7, SMTT(30)
      <3>3. CASE j # Len(delivered')
        <4>1. j \in 1 .. Len(delivered)
          BY <3>3, <1>5
        <4>2. QED
          BY <2>1, <3>1, <4>1, <1>5 DEF IInv, DeliveredInOrder
      <3>4. QED
        BY <3>2, <3>3
    <2>2. ASSUME NEW i \in DOMAIN delivered', ~delivered'[i].over
          PROVE  End(delivered'[i]) <= pos' + 1
      <3>1. CASE i = Len(delivered')
        BY <3>1, <2>2, <1>4a, <1>1, <1>4, <1>5, SMTT(30) DEF End
      <3>2. CASE i # Len(delivered')
        <4>1. i \in 1 .. Len(delivered) /\ delivered'[i] = delivered[i]
          BY <3>2, <1>5
        <4>2. QED
          BY <4>1, <1>1, <1>4, <1>6, <1>7, SMTT(30)
      <3>3. QED
        BY <3>1, <3>2
    <2>3. QED
      BY <2>1, <2>2 DEF DeliveredInOrder, End
  <1>11. OverReadOnlyAtClose'
    <2>1. ASSUME NEW i \in DOMAIN delivered', delivered'[i].over
          PROVE  closed' /\ i = Len(delivered') /\ pos' = Len(wire')
      <3>1. i = Len(delivered')
        BY <2>1, <1>5, <1>6
      <3>2. AtEof
        BY <3>1, <2>1, <1>1, <1>5, <1>4a DEF Size
      <3>3. QED
        BY <3>1, <3>2, <2>1, <1>4, <1>5 DEF AtEof
    <2>2. QED
      BY <2>1 DEF OverReadOnlyAtClose
  <1>12. BlankOnlyAtClose'
    <2>1. ASSUME NEW i \in DOMAIN delivered', delivered'[i].len = 0
          PROVE  closed \/ WrapsBefore(delivered'[i].from)
      <3>1. CASE i = Len(delivered')
        BY <3>1, <2>1, <1>4a, <1>5
      <3>2. CASE i # Len(delivered')
        BY <3>2, <2>1, <1>5 DEF IInv, BlankOnlyAtClose
      <3>3. QED
        BY <3>1, <3>2
    <2>2. QED
      BY <2>1 DEF BlankOnlyAtClose, WrapsBefore, IsSize, Taken
  <1>13. QED
    BY <1>8, <1>9, <1>10, <1>11, <1>12 DEF IInv

LEMMA DeliverOrFaultStep ==
  ASSUME IInv, NEW p \in pos .. got, NEW len \in Nat, NEW next \in {"header", "chunkSize"},
         DeliverOrFault(p, len, next), UNCHANGED <<wire, got, closed, assertions>>,
         Size(p) > 0, len <= Size(p) \/ AtEof, len = 0 => closed \/ WrapsBefore(p + 1)
  PROVE  IInv'
  BY DeliverStep, StopStep DEF DeliverOrFault, Dead

-----------------------------------------------------------------------------
(* One lemma per completion handler. *)

LEMMA HeaderStep ==
  ASSUME IInv, HeaderReadComplete
  PROVE  IInv'
  <1>1. /\ got \in Nat /\ pos \in Nat /\ pos <= got /\ got <= Len(wire) /\ Len(wire) \in Nat
        /\ \A i \in 1 .. Len(wire) : wire[i].v \in Nat
        /\ SizeMod \in Nat /\ Len(wire) < SizeMod
    BY WireUnits DEF IInv, TypeOK
  <1>2. UNCHANGED <<wire, got, closed, assertions>> /\ pos \in pos .. got
    BY <1>1 DEF HeaderReadComplete
  <1>3. CASE Stop("released", pos) \/ Stop("threw", pos)
    BY <1>2, <1>3, StopStep DEF Dead
  <1>4. CASE Size(pos) > 0 /\ ReadUntil("chunkSize", pos + 1)
    BY <1>1, <1>2, <1>4, ReadUntilStep DEF Size
  <1>5. CASE Size(pos) > 0 /\ wire[pos + 1].c = "lengthHead" /\ ReadPlainBody(pos + 1, wire[pos + 1].v)
    <2>1. pos + 1 \in pos .. got /\ pos + 1 \in 1 .. Len(wire)
      BY <1>1, <1>5 DEF Size
    <2>2. wire[pos + 1].v < SizeMod
      BY <1>5, <2>1, LengthBelow DEF IInv
    <2>3. QED
      BY <1>1, <1>2, <1>5, <2>1, <2>2, ReadPlainBodyStep
  <1>6. CASE Size(pos) >= 2 /\ ReadPlainBody(pos + 2, 0)
    <2>1. pos + 2 \in pos .. got /\ 0 < SizeMod
      BY <1>1, <1>6, SizeModAssumption DEF Size
    <2>2. QED
      BY <1>2, <1>6, <2>1, ReadPlainBodyStep
  <1>7. QED
    BY <1>3, <1>4, <1>5, <1>6 DEF HeaderReadComplete

LEMMA PlainBodyStep ==
  ASSUME IInv, PlainBodyReadComplete
  PROVE  IInv'
  <1>1. /\ got \in Nat /\ pos \in Nat /\ pos <= got /\ got <= Len(wire) /\ Len(wire) \in Nat
        /\ arg \in Nat /\ target \in Nat
    BY WireUnits DEF IInv, TypeOK
  <1>2. UNCHANGED <<wire, got, closed, assertions>> /\ pos \in pos .. got
    BY <1>1 DEF PlainBodyReadComplete
  <1>3. phase = "plainBody" /\ (got >= target \/ AtEof)
    BY DEF PlainBodyReadComplete, Completes, Satisfied
  <1>4. arg <= Size(pos) \/ AtEof
    BY <1>1, <1>3 DEF IInv, BodyTarget, Size
  <1>5. Size(pos) > 0 /\ arg = 0 => closed
    <2>1. ASSUME Size(pos) > 0, arg = 0 PROVE target > Len(wire)
      BY <1>1, <1>3, <2>1 DEF IInv, BodyTarget, Size
    <2>2. QED
      BY <1>1, <1>3, <2>1 DEF AtEof
  <1>6. CASE Stop("released", pos)
    BY <1>2, <1>6, StopStep DEF Dead
  <1>7. CASE Size(pos) > 0 /\ DeliverOrFault(pos, arg, "header")
    BY <1>1, <1>2, <1>4, <1>5, <1>7, DeliverOrFaultStep
  <1>8. QED
    BY <1>6, <1>7 DEF PlainBodyReadComplete

\* chunk_body_read_complete on the buffer from p: the chunk is there, or the peer has closed.
LEMMA ChunkBodyEffect ==
  ASSUME IInv, NEW p \in pos .. got, NEW s \in Nat, ChunkBody(p, s),
         UNCHANGED <<wire, got, closed, assertions>>, Taken(s) <= Size(p) \/ AtEof,
         Taken(s) = 0 => WrapsBefore(p + 1)
  PROVE  IInv'
  <1>1. Taken(s) \in Nat
    BY TakenIs
  <1>2. CASE Stop("released", p) \/ Stop("assertFailed", p)
    BY <1>2, StopStep DEF Dead
  <1>3. CASE ReadUntil("lastChunk", p)
    BY <1>3, ReadUntilStep
  <1>4. CASE Size(p) > 0 /\ Deliver(p, Taken(s), "chunkSize")
    BY <1>1, <1>4, DeliverStep
  <1>5. CASE Size(p) > 0 /\ DeliverOrFault(p, Taken(s), "chunkSize")
    BY <1>1, <1>5, DeliverOrFaultStep
  <1>6. QED
    BY <1>2, <1>3, <1>4, <1>5 DEF ChunkBody

LEMMA ChunkBodyStep ==
  ASSUME IInv, ChunkBodyReadComplete
  PROVE  IInv'
  <1>1. got \in Nat /\ pos \in Nat /\ pos <= got /\ arg \in Nat
    BY WireUnits DEF IInv, TypeOK
  <1>t. Taken(arg) \in Nat
    BY <1>1, TakenIs
  <1>2. Taken(arg) > 0 /\ (Taken(arg) <= Size(pos) \/ AtEof)
    BY <1>1, <1>t DEF ChunkBodyReadComplete, Completes, Satisfied, IInv, BodyTarget, Size
  <1>3. QED
    BY <1>1, <1>2, ChunkBodyEffect DEF ChunkBodyReadComplete

LEMMA ChunkSizeStep ==
  ASSUME IInv, ChunkSizeReadComplete
  PROVE  IInv'
  <1>1. /\ got \in Nat /\ pos \in Nat /\ pos <= got /\ got <= Len(wire) /\ Len(wire) \in Nat
        /\ \A i \in 1 .. Len(wire) : wire[i].v \in Nat
    BY WireUnits DEF IInv, TypeOK
  <1>2. UNCHANGED <<wire, got, closed, assertions>> /\ pos \in pos .. got
    BY <1>1 DEF ChunkSizeReadComplete
  <1>3. ASSUME NEW p \in pos .. got, NEW s \in Nat, TakeChunk(p, s), Taken(s) = 0 => WrapsBefore(p + 1)
        PROVE  IInv'
    <2>1. CASE Taken(s) > Size(p) /\ ReadAtLeast("chunkBody", p, s, Taken(s) - Size(p))
      BY <1>2, <2>1, ReadChunkBodyStep
    <2>2. CASE Taken(s) <= Size(p) /\ ChunkBody(p, s)
      BY <1>2, <1>3, <2>2, ChunkBodyEffect
    <2>3. QED
      BY <1>3, <2>1, <2>2 DEF TakeChunk
  <1>4. CASE Stop("released", pos) \/ Stop("threw", pos)
    BY <1>2, <1>4, StopStep DEF Dead
  <1>5. CASE ReadUntil("chunkSize", pos)
    BY <1>2, <1>5, ReadUntilStep
  <1>6. CASE /\ Size(pos) > 2 /\ IsSize(pos + 1)
             /\ \E i \in pos + 1 .. got : IsLineEnd(i) /\ TakeChunk(i, wire[pos + 1].v)
    <2>1. pos + 1 \in 1 .. Len(wire)
      BY <1>1, <1>6 DEF Size
    <2>2. PICK i \in pos + 1 .. got : IsLineEnd(i) /\ TakeChunk(i, wire[pos + 1].v)
      BY <1>6
    <2>3. i \in pos .. got /\ i \in Nat
      BY <1>1
    <2>4. ASSUME Taken(wire[pos + 1].v) = 0 PROVE WrapsBefore(i + 1)
      <3>1. pos + 1 \in 1 .. (i + 1) - 1 /\ (i + 1) - 1 = i
        BY <1>1, <2>3
      <3>2. \A k \in pos + 1 .. i : wire[k].c = "lf" <=> k = i
        BY <1>1, <2>2, <2>3 DEF IsLineEnd
      <3>3. QED
        BY <1>6, <2>4, <3>1, <3>2 DEF WrapsBefore, IsSize, Taken
    <2>5. QED
      BY <1>1, <1>3, <2>1, <2>2, <2>3, <2>4
  <1>7. CASE TakeChunk(pos, 0)
    <2>1. Taken(0) = 2
      BY TakenIs, SizeModAssumption
    <2>2. QED
      BY <1>2, <1>3, <1>7, <2>1
  <1>8. QED
    BY <1>4, <1>5, <1>6, <1>7 DEF ChunkSizeReadComplete

LEMMA LastChunkStep ==
  ASSUME IInv, LastChunkReadComplete
  PROVE  IInv'
  <1>1. UNCHANGED <<wire, got, closed, assertions>> /\ pos \in pos .. got
    BY WireUnits DEF LastChunkReadComplete, IInv, TypeOK
  <1>2. CASE Stop("released", pos)
    BY <1>1, <1>2, StopStep DEF Dead
  <1>3. CASE ReadUntil("header", pos)
    BY <1>1, <1>3, ReadUntilStep
  <1>4. QED
    BY <1>2, <1>3 DEF LastChunkReadComplete

-----------------------------------------------------------------------------
(* The environment and the whole specification. *)

LEMMA ReceiveStep ==
  ASSUME IInv, Receive
  PROVE  IInv'
  <1>1. /\ got \in Nat /\ pos \in Nat /\ pos <= got /\ got <= Len(wire) /\ Len(wire) \in Nat
        /\ target \in Nat /\ arg \in Nat
        /\ got' \in Nat /\ got < got' /\ got' <= Len(wire)
    BY WireUnits DEF IInv, TypeOK, Receive
  <1>2. UNCHANGED <<wire, pos, closed, phase, arg, target, delivered, assertions>>
    BY DEF Receive
  <1>3. TypeOK'
    BY <1>1, <1>2 DEF IInv, TypeOK
  <1>4. BodyTarget'
    <2>1. CASE phase = "plainBody"
      <3>1. got < target
        BY <1>1, <2>1 DEF Receive, Satisfied
      <3>2. arg = 0 => target > Len(wire)
        BY <1>1, <2>1, <3>1 DEF IInv, BodyTarget
      <3>3. QED
        BY <1>2, <2>1, <3>2 DEF IInv, BodyTarget
    <2>2. CASE phase # "plainBody"
      BY <1>2, <2>2 DEF IInv, BodyTarget
    <2>3. QED
      BY <2>1, <2>2
  <1>5. DeliveredInOrder' /\ OverReadOnlyAtClose' /\ BlankOnlyAtClose'
    BY <1>2 DEF IInv, DeliveredInOrder, OverReadOnlyAtClose, BlankOnlyAtClose, End, WrapsBefore, IsSize, Taken
  <1>6. QED
    BY <1>3, <1>4, <1>5 DEF IInv

LEMMA CloseStep ==
  ASSUME IInv, PeerClose
  PROVE  IInv'
  BY DEF PeerClose, IInv, TypeOK, BodyTarget, DeliveredInOrder, OverReadOnlyAtClose,
         BlankOnlyAtClose, End, WrapsBefore, IsSize, Taken

LEMMA InitEstablishes == Init => IInv
  <1> SUFFICES ASSUME Init PROVE IInv
    OBVIOUS
  <1>1. wire \in Seq(Unit)
    BY WiresAssumption DEF Init
  <1>2. TypeOK
    <2>1. Len(wire) \in Nat
      BY <1>1
    <2>2. phase \in Reading
      BY DEF Init, Reading
    <2>3. delivered \in Seq([from : Nat, len : Nat, over : BOOLEAN])
      BY EmptySequence DEF Init
    <2>4. wire \in Wires /\ got \in 0 .. Len(wire) /\ pos \in 0 .. got
      BY <2>1 DEF Init
    <2>5. closed \in BOOLEAN /\ arg \in Nat /\ target \in Nat
      BY DEF Init
    <2>6. assertions \in BOOLEAN
      BY Zenon DEF Init
    <2>7. QED
      BY <2>2, <2>3, <2>4, <2>5, <2>6 DEF TypeOK
  <1>3. BodyTarget
    BY DEF Init, BodyTarget
  <1>4. DeliveredInOrder /\ OverReadOnlyAtClose /\ BlankOnlyAtClose
    BY DEF Init, DeliveredInOrder, OverReadOnlyAtClose, BlankOnlyAtClose
  <1>5. QED
    BY <1>2, <1>3, <1>4 DEF IInv

LEMMA NextPreserves == IInv /\ [Next]_vars => IInv'
  <1> SUFFICES ASSUME IInv, [Next]_vars PROVE IInv'
    OBVIOUS
  <1>1. CASE UNCHANGED vars
    BY <1>1 DEF vars, IInv, TypeOK, BodyTarget, DeliveredInOrder, OverReadOnlyAtClose,
                BlankOnlyAtClose, End, WrapsBefore, IsSize, Taken
  <1>2. CASE Next
    BY <1>2, HeaderStep, PlainBodyStep, ChunkBodyStep, ChunkSizeStep, LastChunkStep,
       ReceiveStep, CloseStep DEF Next, Handler
  <1>3. QED
    BY <1>1, <1>2

\* The strengthened invariant holds in every state, whatever bytes the peer sends.
THEOREM Invariance == Spec => []IInv
  BY InitEstablishes, NextPreserves, PTL DEF Spec

\* Type correctness.
THEOREM TypeCorrect == Spec => []TypeOK
  BY Invariance, PTL DEF IInv

\* Callbacks get disjoint stretches of the connection, in order (http_client_inst.cc:85-119).
THEOREM InOrderDelivery == Spec => []DeliveredInOrder
  BY Invariance, PTL DEF IInv

\* assign() never reads past the buffer of an open connection (http_client_inst.cc:87,114).
THEOREM NoEarlyOverRead == Spec => []OverReadOnlyAtClose
  BY Invariance, PTL DEF IInv

\* An unmeasured response is silent until the peer closes (http_client_inst.cc:80-82); an empty
\* callback before that follows a size line of FFFFFFFE, in a build where adding 2 wraps (:100).
THEOREM UnmeasuredIsSilent == Spec => []BlankOnlyAtClose
  BY Invariance, PTL DEF IInv

-----------------------------------------------------------------------------
(***************************************************************************)
(* The reader implements FrameDelivery.  The mapping sees how many frames  *)
(* have arrived and which frame each callback carried; the invariant Place *)
(* adds where in the response the reader stands and that exactly the       *)
(* frames before that place have been handed over.                         *)
(***************************************************************************)

Arrived == {k \in Frames(wire) : FrameComplete(wire, k, got)}

Out == [i \in DOMAIN delivered |-> FrameOf(wire, delivered[i])]

\* FrameDelivery under the mapping as it is on a response.
Told == INSTANCE FrameDelivery WITH
          arrived <- Cardinality(Arrived), out <- Out, eof <- closed, live <- phase \in Reading

LEMMA FramesFinite ==
  ASSUME TypeOK
  PROVE  IsFiniteSet(Frames(wire)) /\ Frames(wire) \subseteq Nat
  <1> DEFINE w == [i \in 1 .. Len(wire) |-> wire[i].f]
             S == {wire[i].f : i \in DOMAIN wire}
  <1>1. wire \in Seq(Unit) /\ Len(wire) \in Nat /\ DOMAIN wire = 1 .. Len(wire)
    BY WireUnits
  <1>2. \A i \in DOMAIN wire : wire[i].f \in Nat
    <2> SUFFICES ASSUME NEW i \in DOMAIN wire PROVE wire[i].f \in Nat
      OBVIOUS
    <2>1. wire[i] \in Unit
      BY <1>1
    <2>2. QED
      BY <2>1 DEF Unit
  <1>3. w \in Surjection(1 .. Len(wire), S)
    <2>1. w \in [1 .. Len(wire) -> S] /\ \A t \in S : \E s \in 1 .. Len(wire) : w[s] = t
      BY <1>1
    <2> HIDE DEF w, S
    <2>2. QED
      BY <2>1, Fun_IsSurj
  <1>4. IsFiniteSet(S)
    <2> HIDE DEF w, S
    <2>1. QED
      BY <1>1, <1>3, FS_Interval, FS_Surjection
  <1>5. IsFiniteSet(S \ {0})
    <2> HIDE DEF S
    <2>1. QED
      BY <1>4, FS_Difference
  <1>6. QED
    BY <1>2, <1>5 DEF Frames

LEMMA Counted ==
  ASSUME TypeOK, NEW n \in Nat
  PROVE  /\ Cardinality(Arrived) \in Nat
         /\ Arrived \subseteq 1 .. n => Cardinality(Arrived) <= n
         /\ 1 .. n \subseteq Arrived => n <= Cardinality(Arrived)
  <1>1. IsFiniteSet(Arrived)
    BY FramesFinite, FS_Subset DEF Arrived
  <1>2. IsFiniteSet(1 .. n) /\ Cardinality(1 .. n) = n
    BY FS_Interval
  <1>3. QED
    BY <1>1, <1>2, FS_CardinalityType, FS_Subset

\* More of the wire never takes a frame back.
LEMMA ArrivedGrows ==
  ASSUME TypeOK, TypeOK', wire' = wire, got <= got'
  PROVE  Cardinality(Arrived) <= Cardinality(Arrived')
  <1>1. got \in Nat /\ got' \in Nat
    BY WireUnits DEF TypeOK
  <1>2. \A i \in 1 .. got : wire[i].v \in Nat
    BY WireUnits, SMTT(30) DEF TypeOK
  <1>3. Arrived \subseteq Arrived'
    <2> SUFFICES ASSUME NEW k \in Arrived PROVE k \in Arrived'
      OBVIOUS
    <2>1. k \in Frames(wire) /\ FrameComplete(wire, k, got)
      BY DEF Arrived
    <2>2. PICK i \in 1 .. got : wire[i].f = k /\ i + wire[i].v <= got
      BY <2>1 DEF FrameComplete
    <2>3. i \in 1 .. got' /\ i + wire[i].v <= got'
      BY <1>1, <1>2, <2>2
    <2>4. FrameComplete(wire, k, got')
      BY <2>2, <2>3 DEF FrameComplete
    <2>5. QED
      BY <2>1, <2>4 DEF Arrived
  <1>4. IsFiniteSet(Arrived')
    <2>1. IsFiniteSet(Frames(wire))
      BY FramesFinite
    <2>2. Arrived' \in SUBSET Frames(wire)
      BY DEF Arrived
    <2>3. QED
      BY <2>1, <2>2, FS_Subset
  <1>5. QED
    BY <1>3, <1>4, FS_Subset

LEMMA OutIs ==
  ASSUME TypeOK
  PROVE  /\ Len(Out) = Len(delivered) /\ Len(delivered) \in Nat
         /\ DOMAIN delivered = 1 .. Len(delivered)
  <1>1. DOMAIN delivered = 1 .. Len(delivered) /\ Len(delivered) \in Nat
    BY DEF TypeOK
  <1> DEFINE T == {FrameOf(wire, delivered[i]) : i \in DOMAIN delivered}
             n == Len(delivered)
  <1>2. Out \in [1 .. n -> T]
    BY <1>1 DEF Out
  <1>3. \A m \in Nat : \A f \in [1 .. m -> T] : Len(f) = m
    OBVIOUS
  <1> HIDE DEF T, n
  <1>4. n \in Nat
    BY <1>1 DEF n
  <1>5. QED
    BY <1>1, <1>2, <1>3, <1>4 DEF n

LEMMA OutGrows ==
  ASSUME TypeOK, wire' = wire, NEW d, delivered' = Append(delivered, d)
  PROVE  Out' = Append(Out, FrameOf(wire, d))
  <1> DEFINE n == Len(delivered)
             T == {FrameOf(wire, delivered'[i]) : i \in 1 .. n + 1}
  <1>1. /\ n \in Nat /\ DOMAIN delivered = 1 .. n /\ DOMAIN delivered' = 1 .. n + 1
        /\ delivered'[n + 1] = d /\ \A i \in 1 .. n : delivered'[i] = delivered[i]
    BY DEF TypeOK
  <1> HIDE DEF n
  <1>2. /\ Out \in [1 .. n -> T] /\ FrameOf(wire, d) \in T
        /\ \A i \in 1 .. n : Out[i] = FrameOf(wire, delivered[i])
    BY <1>1 DEF Out
  <1>3. /\ Out' = [i \in 1 .. n + 1 |-> FrameOf(wire, delivered'[i])]
    BY <1>1 DEF Out
  <1> DEFINE x == FrameOf(wire, d)
             u == Append(Out, x)
  <1>4. u \in [1 .. n + 1 -> T] /\ u[n + 1] = x /\ \A i \in 1 .. n : u[i] = Out[i]
    <2>1. n \in Nat /\ x \in T
      BY <1>1, <1>2
    <2> HIDE DEF x, T
    <2>2. Out \in Seq(T) /\ Len(Out) = n
      BY <1>2, <2>1
    <2>3. u \in Seq(T) /\ Len(u) = n + 1
      BY <2>1, <2>2
    <2>4. u[n + 1] = x /\ \A i \in 1 .. n : u[i] = Out[i]
      BY <2>1, <2>2
    <2> HIDE DEF u
    <2>5. u \in [1 .. n + 1 -> T]
      BY <2>1, <2>3
    <2>6. QED
      BY <2>4, <2>5
  <1>5. \A i \in 1 .. n + 1 : u[i] = FrameOf(wire, delivered'[i])
    <2> HIDE DEF u, T
    <2>1. QED
      BY <1>1, <1>2, <1>4
  <1>6. u = [i \in 1 .. n + 1 |-> u[i]]
    <2> HIDE DEF u, T
    <2>1. QED
      BY <1>4
  <1> HIDE DEF u
  <1>7. Out' = u
    BY <1>3, <1>5, <1>6
  <1>8. QED
    BY <1>7 DEF u

\* The steps of FrameDelivery, under the mapping.
LEMMA Mapping ==
  /\ UNCHANGED <<Cardinality(Arrived), Out, closed, phase \in Reading>> => UNCHANGED Told!fdVars
  /\ /\ phase \in Reading /\ Cardinality(Arrived') > Cardinality(Arrived)
     /\ UNCHANGED <<Out, closed, phase \in Reading>>
     => Told!Arrive
  /\ /\ ~closed /\ closed' = TRUE /\ UNCHANGED <<Cardinality(Arrived), Out, phase \in Reading>>
     => Told!Close
  /\ /\ phase \in Reading /\ Len(Out) < Cardinality(Arrived) /\ Out' = Append(Out, Len(Out) + 1)
     /\ UNCHANGED <<Cardinality(Arrived), closed>>
     => Told!HandOver
  /\ /\ phase \in Reading /\ closed /\ Len(Out) = Cardinality(Arrived) /\ Out' = Append(Out, 0)
     /\ UNCHANGED <<Cardinality(Arrived), closed>>
     => Told!HandOverRest
  /\ /\ phase \in Reading /\ Len(Out) >= Cardinality(Arrived) /\ phase' \notin Reading
     /\ UNCHANGED <<Cardinality(Arrived), Out, closed>>
     => Told!Finish
  <1>0. (phase \in Reading)' \in BOOLEAN
    OBVIOUS
  <1>1. UNCHANGED <<Cardinality(Arrived), Out, closed, phase \in Reading>> => UNCHANGED Told!fdVars
    BY DEF Arrived, Out, Told!fdVars
  <1>2. /\ phase \in Reading /\ Cardinality(Arrived') > Cardinality(Arrived)
        /\ UNCHANGED <<Out, closed, phase \in Reading>>
        => Told!Arrive
    BY DEF Arrived, Out, Told!Arrive
  <1>3. /\ ~closed /\ closed' = TRUE /\ UNCHANGED <<Cardinality(Arrived), Out, phase \in Reading>>
        => Told!Close
    BY DEF Arrived, Out, Told!Close
  <1>4. /\ phase \in Reading /\ Len(Out) < Cardinality(Arrived) /\ Out' = Append(Out, Len(Out) + 1)
        /\ UNCHANGED <<Cardinality(Arrived), closed>>
        => Told!HandOver
    BY <1>0, Zenon DEF Arrived, Out, Told!HandOver
  <1>5. /\ phase \in Reading /\ closed /\ Len(Out) = Cardinality(Arrived) /\ Out' = Append(Out, 0)
        /\ UNCHANGED <<Cardinality(Arrived), closed>>
        => Told!HandOverRest
    BY <1>0, Zenon DEF Arrived, Out, Told!HandOverRest
  <1>6. /\ phase \in Reading /\ Len(Out) >= Cardinality(Arrived) /\ phase' \notin Reading
        /\ UNCHANGED <<Cardinality(Arrived), Out, closed>>
        => Told!Finish
    BY DEF Arrived, Out, Told!Finish
  <1>7. QED
    BY <1>1, <1>2, <1>3, <1>4, <1>5, <1>6

Refined == Told!FDNext \/ UNCHANGED Told!fdVars

\* n frames have been handed over, and they are what lies before unit q + 1.
Passed(q, n) == /\ Len(delivered) = n
                /\ \A i \in 1 .. q : wire[i].f <= n
                /\ \A k \in 1 .. n : FrameComplete(wire, k, q)

LEMMA GoesOn ==
  ASSUME phase \in Reading, phase' \in Reading, UNCHANGED <<wire, got, closed, delivered>>
  PROVE  Refined
  BY Mapping DEF Refined, Arrived, Out

LEMMA Ends ==
  ASSUME TypeOK, phase \in Reading, phase' \in Dead, UNCHANGED <<wire, got, closed, delivered>>,
         Arrived \subseteq 1 .. Len(delivered)
  PROVE  Refined
  <1>1. phase' \notin Reading
    BY DEF Reading, Dead
  <1>2. Len(Out) >= Cardinality(Arrived)
    BY OutIs, Counted
  <1>3. UNCHANGED <<Cardinality(Arrived), Out, closed>>
    BY DEF Arrived, Out
  <1>4. QED
    BY <1>1, <1>2, <1>3, Mapping DEF Refined, Told!FDNext

LEMMA HandsOver ==
  ASSUME TypeOK, phase \in Reading, UNCHANGED <<wire, got, closed>>,
         NEW d, delivered' = Append(delivered, d), FrameOf(wire, d) = Len(delivered) + 1,
         1 .. Len(delivered) + 1 \subseteq Arrived
  PROVE  Refined
  <1>1. Len(Out) < Cardinality(Arrived)
    <2> DEFINE m == Len(delivered) + 1
    <2>1. m \in Nat
      BY OutIs
    <2> HIDE DEF m
    <2>2. 1 .. m \subseteq Arrived
      BY DEF m
    <2>3. m <= Cardinality(Arrived) /\ Cardinality(Arrived) \in Nat
      BY <2>1, <2>2, Counted
    <2>4. QED
      BY <2>3, OutIs DEF m
  <1>2. Out' = Append(Out, Len(Out) + 1)
    BY OutGrows, OutIs
  <1>3. UNCHANGED <<Cardinality(Arrived), closed>>
    BY DEF Arrived
  <1>4. QED
    BY <1>1, <1>2, <1>3, Mapping DEF Refined, Told!FDNext

LEMMA HandsOverRest ==
  ASSUME TypeOK, phase \in Reading, closed, UNCHANGED <<wire, got, closed>>,
         NEW d, delivered' = Append(delivered, d), FrameOf(wire, d) = 0,
         Arrived = 1 .. Len(delivered)
  PROVE  Refined
  <1>1. Len(Out) = Cardinality(Arrived)
    BY OutIs, Counted
  <1>2. Out' = Append(Out, 0)
    BY OutGrows
  <1>3. UNCHANGED <<Cardinality(Arrived), closed>>
    BY DEF Arrived
  <1>4. QED
    BY <1>1, <1>2, <1>3, Mapping DEF Refined, Told!FDNext

LEMMA FrameOfWhole ==
  ASSUME NEW w, NEW d, ~d.over, NEW k \in Frames(w),
         {i \in DOMAIN w : d.from <= i /\ i < End(d) /\ w[i].f # 0} = {i \in DOMAIN w : w[i].f = k}
  PROVE  FrameOf(w, d) = k
  <1> DEFINE carried == {i \in DOMAIN w : d.from <= i /\ i < End(d) /\ w[i].f # 0}
             whole   == {j \in Frames(w) : carried = {i \in DOMAIN w : w[i].f = j}}
  <1>1. k \in whole
    OBVIOUS
  <1>2. ASSUME NEW j \in whole PROVE j = k
    <2>1. PICK i \in DOMAIN w : w[i].f = k
      BY DEF Frames
    <2>2. i \in {l \in DOMAIN w : w[l].f = j}
      BY <1>2, <2>1
    <2>3. QED
      BY <2>1, <2>2
  <1>3. FrameOf(w, d) = CHOOSE j \in whole : TRUE
    BY <1>1 DEF FrameOf
  <1> HIDE DEF whole
  <1>4. QED
    BY <1>1, <1>2, <1>3

LEMMA FrameOfRest ==
  ASSUME NEW w, NEW d,
         d.over \/ \A i \in DOMAIN w : d.from <= i /\ i < End(d) => w[i].f = 0
  PROVE  FrameOf(w, d) = 0
  <1>1. CASE d.over
    BY <1>1 DEF FrameOf
  <1>2. CASE \A i \in DOMAIN w : d.from <= i /\ i < End(d) => w[i].f = 0
    <2> DEFINE carried == {i \in DOMAIN w : d.from <= i /\ i < End(d) /\ w[i].f # 0}
               whole   == {k \in Frames(w) : carried = {i \in DOMAIN w : w[i].f = k}}
    <2>1. ASSUME NEW k \in whole PROVE FALSE
      <3>1. PICK i \in DOMAIN w : w[i].f = k
        BY <2>1 DEF Frames
      <3>2. i \in carried
        BY <2>1, <3>1
      <3>3. k # 0
        BY <2>1 DEF Frames
      <3>4. QED
        BY <1>2, <3>1, <3>2, <3>3
    <2>2. whole = {}
      BY <2>1
    <2>3. QED
      BY <2>2 DEF FrameOf
  <1>3. QED
    BY <1>1, <1>2

LEMMA UnitNumbers ==
  ASSUME TypeOK
  PROVE  \A i \in DOMAIN wire : wire[i].f \in Nat /\ wire[i].v \in Nat
  <1> SUFFICES ASSUME NEW i \in DOMAIN wire PROVE wire[i].f \in Nat /\ wire[i].v \in Nat
    OBVIOUS
  <1>1. wire[i] \in Unit
    BY WireUnits
  <1>2. QED
    BY <1>1 DEF Unit

LEMMA PassedArrived ==
  ASSUME TypeOK, NEW q \in 0 .. got, NEW n \in Nat, Passed(q, n)
  PROVE  1 .. n \subseteq Arrived
  <1> SUFFICES ASSUME NEW k \in 1 .. n PROVE k \in Arrived
    OBVIOUS
  <1>1. got \in Nat /\ got <= Len(wire) /\ DOMAIN wire = 1 .. Len(wire) /\ Len(wire) \in Nat
    BY WireUnits DEF TypeOK
  <1>2. PICK i \in 1 .. q : wire[i].f = k /\ i + wire[i].v <= q
    BY DEF Passed, FrameComplete
  <1>3. i \in DOMAIN wire /\ i \in 1 .. got /\ wire[i].v \in Nat
    BY <1>1, UnitNumbers
  <1>4. i + wire[i].v <= got
    BY <1>1, <1>2, <1>3
  <1>5. k \in Frames(wire)
    BY <1>2, <1>3 DEF Frames
  <1>6. QED
    BY <1>2, <1>3, <1>4, <1>5 DEF Arrived, FrameComplete

\* Where the reader is, if it goes on.
AtHeader == phase = "header" /\ pos = 0 /\ delivered = <<>>

InPlainBody == /\ phase = "plainBody" /\ pos = 1 /\ arg = wire[1].v
               /\ PlainBodied(wire) \/ Unmeasured(wire)
               /\ delivered = <<>>

AfterBlank == phase = "header" /\ pos = 1 /\ Unmeasured(wire) /\ Len(delivered) = 1

AtSizeLine == /\ phase = "chunkSize" /\ Chunked(wire) /\ pos > 0
              /\ LineStart(wire, pos) /\ Passed(pos, FramesBefore(wire, pos))

\* Units p + 1 .. q are a size line, and the frames before it have been handed over.
AfterLine(p, q) == /\ p \in 1 .. q - 1
                   /\ LineStart(wire, p) /\ ChunkAt(wire, p, q)
                   /\ Passed(q, FramesBefore(wire, p))

InChunk == /\ phase = "chunkBody" /\ Chunked(wire) /\ arg > 0
           /\ \E p \in 1 .. pos - 1 : AfterLine(p, pos) /\ arg = wire[p + 1].v

\* The end of the wire, possibly read past.
AtEnd == /\ phase \in {"header", "chunkSize"} /\ pos = Len(wire)
         /\ Arrived \subseteq 1 .. Len(delivered)

\* Behind the last chunk's size line, where no frame is.
InTail == /\ phase \in {"chunkBody", "lastChunk", "header", "plainBody"}
          /\ pos > 1 /\ Len(wire) <= pos + 2
          /\ \A i \in DOMAIN wire : wire[i].f <= Len(delivered)
          /\ \A i \in 2 .. Len(wire) : wire[i].c \notin Heads
          /\ phase = "chunkBody" => arg = 0
          /\ phase = "plainBody" => pos = Len(wire)

Place == AtHeader \/ InPlainBody \/ AfterBlank \/ AtSizeLine \/ InChunk \/ AtEnd \/ InTail

\* Nothing more to be told once every unit belongs to a frame handed over.
LEMMA AllTold ==
  ASSUME TypeOK, \A i \in 1 .. got : wire[i].f <= Len(delivered)
  PROVE  Arrived \subseteq 1 .. Len(delivered)
  <1> SUFFICES ASSUME NEW k \in Arrived PROVE k \in 1 .. Len(delivered)
    OBVIOUS
  <1>1. k \in Nat /\ k # 0
    BY FramesFinite DEF Arrived, Frames
  <1>2. PICK i \in 1 .. got : wire[i].f = k
    BY DEF Arrived, FrameComplete
  <1>3. QED
    BY <1>1, <1>2, OutIs

\* What is known of the chunk after the size line that ends at q.
LEMMA ChunkLayout ==
  ASSUME TypeOK, Chunked(wire), NEW q \in 1 .. got, NEW p \in 1 .. q - 1, AfterLine(p, q)
  PROVE  LET n    == FramesBefore(wire, p)
             size == wire[p + 1].v
         IN /\ n \in Nat /\ size \in Nat /\ n = Len(delivered) /\ Passed(q, n)
            /\ \A i \in DOMAIN wire : i <= q => wire[i].f <= n
            /\ \A i \in DOMAIN wire : q < i /\ i <= q + size =>
                 wire[i].f = n + 1 /\ wire[i].v = q + size + 2 - i
            /\ \A i \in DOMAIN wire : q + size < i /\ i <= q + size + 2 => wire[i].f = 0
            /\ size = 0 => Len(wire) <= q + 2
            /\ size > 0 /\ q < got =>
                 \A i \in DOMAIN wire : wire[i].f = n + 1 => q < i /\ i <= q + size
  <1> DEFINE n    == FramesBefore(wire, p)
             size == wire[p + 1].v
  <1>1. /\ got \in Nat /\ got <= Len(wire) /\ Len(wire) \in Nat /\ DOMAIN wire = 1 .. Len(wire)
        /\ q \in Nat /\ p \in Nat /\ p + 1 \in DOMAIN wire
    BY WireUnits DEF TypeOK
  <1>2. \A i \in DOMAIN wire : wire[i].f \in Nat /\ wire[i].v \in Nat
    BY UnitNumbers
  <1>3. n \in Nat /\ size \in Nat
    BY <1>1, <1>2 DEF AfterLine, LineStart, FramesBefore
  <1>4. Passed(q, n) /\ n = Len(delivered)
    BY DEF AfterLine, Passed
  <1>5. \A i \in DOMAIN wire : i <= q => wire[i].f <= n
    BY <1>1, <1>4 DEF Passed
  <1>6. /\ FrameUnits(wire, n + 1, q + 1, q + size, 2)
        /\ Framing(wire, q + size + 1, q + size + 2)
        /\ size = 0 => Len(wire) <= q + 2
    BY DEF AfterLine, ChunkAt
  <1> HIDE DEF n, size
  <1>7. \A i \in DOMAIN wire : q < i /\ i <= q + size =>
          wire[i].f = n + 1 /\ wire[i].v = q + size + 2 - i
    BY <1>1, <1>3, <1>6, SMTT(30) DEF FrameUnits
  <1>8. \A i \in DOMAIN wire : q + size < i /\ i <= q + size + 2 => wire[i].f = 0
    BY <1>1, <1>3, <1>6, SMTT(30) DEF Framing
  <1>9. ASSUME size > 0, q < got, NEW i \in DOMAIN wire, wire[i].f = n + 1
        PROVE  q < i /\ i <= q + size
    <2>1. q + 1 \in DOMAIN wire /\ q < q + 1 /\ q + 1 <= q + size
      BY <1>1, <1>3, <1>9
    <2>2. wire[q + 1].f = n + 1 /\ wire[q + 1].v = q + size + 2 - (q + 1)
      BY <1>7, <2>1
    <2>3. i + wire[i].v = (q + 1) + wire[q + 1].v
      <3>1. wire[q + 1].f # 0
        BY <1>3, <2>2
      <3>2. QED
        BY <1>9, <2>1, <2>2, <3>1 DEF Chunked
    <2>4. i <= q + size + 2
      BY <1>1, <1>2, <1>3, <2>2, <2>3, SMTT(30)
    <2>5. ~(i <= q)
      BY <1>2, <1>3, <1>5, <1>9
    <2>6. ~(q + size < i)
      BY <1>3, <1>8, <1>9, <2>4
    <2>7. QED
      BY <1>1, <1>3, <2>5, <2>6
  <1>10. QED
    BY <1>3, <1>4, <1>5, <1>6, <1>7, <1>8, <1>9 DEF n, size

\* A chunk of which the end never came.
LEMMA ChunkCut ==
  ASSUME TypeOK, Chunked(wire), NEW q \in 1 .. got, NEW p \in 1 .. q - 1, AfterLine(p, q),
         got = Len(wire), got < q + wire[p + 1].v + 2
  PROVE  Arrived = 1 .. Len(delivered)
  <1> DEFINE n    == FramesBefore(wire, p)
             size == wire[p + 1].v
  <1>1. /\ got \in Nat /\ DOMAIN wire = 1 .. Len(wire) /\ q \in Nat
        /\ \A i \in DOMAIN wire : wire[i].f \in Nat /\ wire[i].v \in Nat
    BY WireUnits, UnitNumbers DEF TypeOK
  <1>2. /\ n \in Nat /\ size \in Nat /\ n = Len(delivered) /\ Passed(q, n)
        /\ \A i \in DOMAIN wire : i <= q => wire[i].f <= n
        /\ \A i \in DOMAIN wire : q < i /\ i <= q + size =>
             wire[i].f = n + 1 /\ wire[i].v = q + size + 2 - i
        /\ \A i \in DOMAIN wire : q + size < i /\ i <= q + size + 2 => wire[i].f = 0
    BY ChunkLayout
  <1>3. got < q + size + 2
    OBVIOUS
  <1> HIDE DEF n, size
  <1>4. 1 .. n \subseteq Arrived
    BY <1>1, <1>2, PassedArrived
  <1>5. ASSUME NEW k \in Arrived PROVE k \in 1 .. n
    <2>1. k \in Nat /\ k # 0
      BY <1>5, FramesFinite DEF Arrived, Frames
    <2>2. PICK i \in 1 .. got : wire[i].f = k /\ i + wire[i].v <= got
      BY <1>5 DEF Arrived, FrameComplete
    <2>3. i \in DOMAIN wire /\ i \in Nat
      BY <1>1
    <2>4. ~(q < i /\ i <= q + size)
      <3> SUFFICES ASSUME q < i, i <= q + size PROVE FALSE
        OBVIOUS
      <3>1. wire[i].v = q + size + 2 - i
        BY <1>2, <2>3
      <3>2. QED
        BY <1>1, <1>2, <1>3, <2>2, <2>3, <3>1
    <2>5. ~(q + size < i)
      <3>1. i <= q + size + 2
        BY <1>1, <1>2, <1>3, <2>3
      <3>2. QED
        BY <1>2, <2>1, <2>2, <2>3, <3>1
    <2>6. i <= q
      BY <1>1, <1>2, <2>3, <2>4, <2>5
    <2>7. QED
      BY <1>2, <2>1, <2>2, <2>3, <2>6
  <1>6. QED
    BY <1>2, <1>4, <1>5

\* A chunk that is there.
LEMMA ChunkWhole ==
  ASSUME TypeOK, Chunked(wire), NEW q \in 1 .. got, NEW p \in 1 .. q - 1, AfterLine(p, q),
         wire[p + 1].v > 0, q + wire[p + 1].v + 2 <= got, NEW d, ~d.over, d.from = q + 1,
         d.len = wire[p + 1].v + 2
  PROVE  LET n   == Len(delivered)
             end == q + wire[p + 1].v + 2
         IN /\ 1 .. n + 1 \subseteq Arrived /\ FrameOf(wire, d) = n + 1
            /\ LineStart(wire, end) /\ FramesBefore(wire, end) = n + 1
            /\ \A i \in 1 .. end : wire[i].f <= n + 1
            /\ \A k \in 1 .. n + 1 : FrameComplete(wire, k, end)
  <1> DEFINE n    == Len(delivered)
             size == wire[p + 1].v
             end  == q + size + 2
  <1>1. /\ got \in Nat /\ Len(wire) \in Nat /\ got <= Len(wire)
        /\ DOMAIN wire = 1 .. Len(wire) /\ q \in Nat
        /\ \A i \in DOMAIN wire : wire[i].f \in Nat /\ wire[i].v \in Nat
    BY WireUnits, UnitNumbers DEF TypeOK
  <1>2. /\ n \in Nat /\ size \in Nat /\ Passed(q, n)
        /\ \A i \in DOMAIN wire : i <= q => wire[i].f <= n
        /\ \A i \in DOMAIN wire : q < i /\ i <= q + size =>
             wire[i].f = n + 1 /\ wire[i].v = q + size + 2 - i
        /\ \A i \in DOMAIN wire : q + size < i /\ i <= q + size + 2 => wire[i].f = 0
        /\ size > 0 /\ q < got =>
             \A i \in DOMAIN wire : wire[i].f = n + 1 => q < i /\ i <= q + size
    BY ChunkLayout
  <1>3. size > 0 /\ end <= got /\ d.from = q + 1 /\ d.len = size + 2 /\ End(d) = end + 1
    BY <1>1, <1>2 DEF End
  <1> HIDE DEF n, size
  <1>4. \A i \in DOMAIN wire : wire[i].f = n + 1 <=> (q < i /\ i <= q + size)
    BY <1>1, <1>2, <1>3, SMTT(30)
  <1>5. FrameOf(wire, d) = n + 1
    <2>1. q + 1 \in DOMAIN wire /\ wire[q + 1].f = n + 1 /\ n + 1 # 0
      BY <1>1, <1>2, <1>3, <1>4, SMTT(30)
    <2>2. n + 1 \in Frames(wire)
      BY <2>1 DEF Frames
    <2>3. ASSUME NEW i \in DOMAIN wire
          PROVE  (d.from <= i /\ i < End(d) /\ wire[i].f # 0) <=> wire[i].f = n + 1
      <3>1. i \in Nat /\ q \in Nat /\ size \in Nat /\ n \in Nat
        BY <1>1, <1>2
      <3>2. /\ wire[i].f = n + 1 <=> (q < i /\ i <= q + size)
            /\ (q + size < i /\ i <= q + size + 2) => wire[i].f = 0
        BY <1>2, <1>4
      <3>3. d.from = q + 1 /\ End(d) = q + size + 2 + 1
        BY <1>3
      <3>4. QED
        BY <3>1, <3>2, <3>3, SMTT(30)
    <2>4. {i \in DOMAIN wire : d.from <= i /\ i < End(d) /\ wire[i].f # 0}
            = {i \in DOMAIN wire : wire[i].f = n + 1}
      BY <2>3
    <2>5. QED
      BY <2>2, <2>4, FrameOfWhole
  <1>6. /\ n \in Nat /\ size \in Nat /\ q \in Nat /\ 1 <= q /\ end \in Nat /\ got \in Nat
         /\ end = q + size + 2 /\ end <= got /\ got <= Len(wire) /\ size > 0
    BY <1>1, <1>2, <1>3 DEF end
  <1> HIDE DEF end
  <1>7. end - 2 \in DOMAIN wire /\ wire[end - 2].f = n + 1 /\ wire[end - 2].v = 2 /\ end # 1
    <2>1. /\ end - 2 = q + size /\ end # 1 /\ q < q + size /\ q + size <= Len(wire)
          /\ q + size \in Nat /\ 1 <= q + size /\ q + size + 2 - (q + size) = 2
      BY <1>1, <1>6
    <2>2. q + size \in DOMAIN wire
      BY <1>1, <2>1
    <2>3. wire[q + size].f = n + 1 /\ wire[q + size].v = q + size + 2 - (q + size)
      BY <1>2, <1>6, <2>1, <2>2
    <2>4. QED
      BY <2>1, <2>2, <2>3
  <1>8. LineStart(wire, end) /\ FramesBefore(wire, end) = n + 1
    BY <1>2, <1>7 DEF LineStart, FramesBefore
  <1>9. ASSUME NEW i \in 1 .. end PROVE i \in DOMAIN wire /\ i \in 1 .. got /\ wire[i].f <= n + 1
    <2>1. /\ i \in DOMAIN wire /\ i \in 1 .. got /\ i <= q + size + 2
          /\ q \in Nat /\ size \in Nat /\ i \in Nat /\ n \in Nat /\ wire[i].f \in Nat
      BY <1>1, <1>6, SMTT(30)
    <2>2. CASE i <= q
      <3>1. wire[i].f <= n
        BY <1>2, <2>1, <2>2
      <3>2. QED
        BY <2>1, <3>1
    <2>3. CASE q < i /\ i <= q + size
      BY <1>2, <2>1, <2>3
    <2>4. CASE q + size < i
      BY <1>2, <2>1, <2>4
    <2>5. QED
      BY <2>1, <2>2, <2>3, <2>4
  <1>10. ASSUME NEW k \in 1 .. n + 1 PROVE FrameComplete(wire, k, end)
    <2>1. CASE k = n + 1
      <3>1. end - 2 \in 1 .. end /\ (end - 2) + 2 <= end
        BY <1>1, <1>2, <1>3 DEF end
      <3>2. QED
        BY <1>7, <2>1, <3>1 DEF FrameComplete
    <2>2. CASE k # n + 1
      <3>1. k \in 1 .. n
        BY <1>2, <2>2
      <3>2. PICK i \in 1 .. q : wire[i].f = k /\ i + wire[i].v <= q
        BY <1>2, <3>1 DEF Passed, FrameComplete
      <3>3. i \in DOMAIN wire /\ i \in 1 .. end /\ q <= end
        BY <1>1, <1>6, SMTT(30)
      <3>4. wire[i].v \in Nat
        BY <1>1, <3>3
      <3>5. i + wire[i].v <= end
        BY <1>6, <3>2, <3>3, <3>4, SMTT(30)
      <3>6. QED
        BY <3>2, <3>3, <3>5 DEF FrameComplete
    <2>3. QED
      BY <2>1, <2>2
  <1>11. 1 .. n + 1 \subseteq Arrived
    <2>1. ASSUME NEW k \in 1 .. n + 1 PROVE k \in Arrived
      <3>1. PICK i \in 1 .. end : wire[i].f = k /\ i + wire[i].v <= end
        BY <1>10 DEF FrameComplete
      <3>2. i \in DOMAIN wire /\ i \in 1 .. got /\ k # 0
        BY <1>6, <1>9
      <3>3. i + wire[i].v <= got
        <4>1. wire[i].v \in Nat
          BY <1>1, <3>2
        <4>2. QED
          BY <1>6, <3>1, <3>2, <4>1, SMTT(30)
      <3>4. QED
        BY <3>1, <3>2, <3>3 DEF Arrived, Frames, FrameComplete
    <2>2. QED
      BY <2>1
  <1>12. QED
    BY <1>5, <1>8, <1>9, <1>10, <1>11 DEF n, size, end

\* The size and the CRLF of a chunk of a response do not wrap.
LEMMA ChunkTaken ==
  ASSUME TypeOK, Chunked(wire), NEW q \in 1 .. got, NEW p \in 1 .. q - 1, AfterLine(p, q)
  PROVE  Taken(wire[p + 1].v) = wire[p + 1].v + 2
  <1>1. wire[p + 1].v \in Nat
    BY ChunkLayout
  <1>2. wire[p + 1].v + 2 < SizeMod
    BY DEF AfterLine, ChunkAt
  <1>3. QED
    BY <1>1, <1>2, TakenIs

\* A chunk handed over.
LEMMA DeliverChunk ==
  ASSUME TypeOK, TypeOK', phase \in Reading, Chunked(wire),
         NEW q \in 1 .. got, NEW p \in 1 .. q - 1, AfterLine(p, q), wire[p + 1].v > 0, Deliver(q, wire[p + 1].v + 2, "chunkSize"),
         UNCHANGED <<wire, got, closed, assertions>>, wire[p + 1].v + 2 <= Size(q) \/ AtEof
  PROVE  Refined /\ (phase' \in Reading => Place')
  <1> DEFINE n    == Len(delivered)
             size == wire[p + 1].v
             end  == q + size + 2
             d    == [from |-> q + 1, len |-> size + 2, over |-> size + 2 > Size(q)]
  <1>1. /\ got \in Nat /\ Len(wire) \in Nat /\ got <= Len(wire) /\ q \in Nat /\ q <= got
        /\ n \in Nat /\ size \in Nat /\ size > 0 /\ Size(q) = got - q
    BY WireUnits, OutIs, ChunkLayout DEF TypeOK, Size
  <1>2. /\ delivered' = Append(delivered, d) /\ pos' = q + Least(size + 2, Size(q))
        /\ phase' \in {"chunkSize", "threw"}
    BY DEF Deliver
  <1>3. d.from = q + 1 /\ d.len = size + 2 /\ (d.over <=> size + 2 > Size(q))
    BY Zenon
  <1>4. Len(delivered') = n + 1 /\ "threw" \notin Reading
    BY <1>2 DEF TypeOK, Reading
  <1>5. CASE end <= got
    <2>1. ~d.over /\ pos' = end
      <3>1. ~(size + 2 > Size(q)) /\ q + Least(size + 2, Size(q)) = end
        <4> DEFINE z == Size(q)
        <4>1. z \in Nat /\ z = got - q /\ size + 2 <= z
          BY <1>1, <1>5, SMTT(30)
        <4> HIDE DEF size, z
        <4>2. ~(size + 2 > z) /\ (size + 2 < z \/ size + 2 = z)
          BY <1>1, <4>1
        <4>3. Least(size + 2, z) = size + 2
          BY <4>2 DEF Least
        <4>4. QED
          BY <1>1, <4>2, <4>3 DEF z
      <3> HIDE DEF d, end, size
      <3>2. QED
        BY <1>2, <1>3, <3>1
    <2>2. /\ 1 .. n + 1 \subseteq Arrived /\ FrameOf(wire, d) = n + 1
          /\ LineStart(wire, end) /\ FramesBefore(wire, end) = n + 1
          /\ \A i \in 1 .. end : wire[i].f <= n + 1
          /\ \A k \in 1 .. n + 1 : FrameComplete(wire, k, end)
      <3> HIDE DEF d
      <3>1. QED
        BY <1>1, <1>3, <1>5, <2>1, ChunkWhole
    <2> HIDE DEF d
    <2>3. Refined
      BY <1>2, <2>2, HandsOver
    <2>4. ASSUME phase' \in Reading PROVE AtSizeLine'
      <3>1. phase' = "chunkSize" /\ pos' > 0 /\ Chunked(wire')
        BY <1>1, <1>2, <1>4, <2>1, <2>4, SMTT(30)
      <3>2. LineStart(wire', pos') /\ FramesBefore(wire', pos') = n + 1
        BY <2>1, <2>2
      <3>3. Passed(pos, FramesBefore(wire, pos))'
        <4> HIDE DEF end, n
        <4>1. QED
          BY <1>4, <2>1, <2>2, <3>2 DEF Passed, FrameComplete
      <3>4. QED
        BY <3>1, <3>2, <3>3 DEF AtSizeLine
    <2>5. QED
      BY <2>3, <2>4 DEF Place
  <1>6. CASE ~(end <= got)
    <2>1. d.over /\ AtEof /\ pos' = got /\ got = Len(wire) /\ closed
      <3> HIDE DEF d, size
      <3>1. size + 2 > Size(q) /\ ~(size + 2 < Size(q)) /\ got < end /\ q + Size(q) = got
        <4>1. got \in Nat /\ q \in Nat /\ size \in Nat /\ Size(q) = got - q
          BY <1>1
        <4>2. ~(q + size + 2 <= got)
          BY <1>6
        <4>3. QED
          BY <4>1, <4>2, SMTT(30)
      <3> HIDE DEF end
      <3>2. Least(size + 2, Size(q)) = Size(q)
        BY <3>1 DEF Least
      <3>3. ~(size + 2 <= Size(q))
        BY <1>1, <3>1
      <3>4. AtEof
        BY <3>3 DEF size
      <3>5. QED
        BY <1>2, <1>3, <3>1, <3>2, <3>4 DEF AtEof
    <2>2. Arrived = 1 .. n
      <3>1. got = Len(wire) /\ got < q + size + 2
        <4> HIDE DEF d, size
        <4>1. got \in Nat /\ q \in Nat /\ size \in Nat /\ ~(q + size + 2 <= got)
          BY <1>1, <1>6
        <4>2. QED
          BY <2>1, <4>1, SMTT(30)
      <3>2. QED
        BY <3>1, ChunkCut
    <2> HIDE DEF d
    <2>3. FrameOf(wire, d) = 0
      BY <2>1, FrameOfRest
    <2>4. Refined
      BY <1>2, <2>1, <2>2, <2>3, HandsOverRest
    <2>5. ASSUME phase' \in Reading PROVE AtEnd'
      <3>1. phase' = "chunkSize" /\ pos' = Len(wire')
        BY <1>2, <1>4, <2>1, <2>5
      <3>2. Arrived' = Arrived
        BY DEF Arrived
      <3>3. Arrived' \subseteq 1 .. Len(delivered')
        BY <1>1, <1>4, <2>2, <3>2
      <3>4. QED
        BY <3>1, <3>3 DEF AtEnd
    <2>6. QED
      BY <2>4, <2>5 DEF Place
  <1>7. QED
    BY <1>5, <1>6

\* What chunk_body_read_complete makes of the chunk after the size line that ends at q.
LEMMA ChunkBodyRefines ==
  ASSUME TypeOK, TypeOK', phase \in Reading, Chunked(wire),
         NEW q \in 1 .. got, NEW p \in 1 .. q - 1, AfterLine(p, q), ChunkBody(q, wire[p + 1].v),
         UNCHANGED <<wire, got, closed, assertions>>, Taken(wire[p + 1].v) <= Size(q) \/ AtEof
  PROVE  Refined /\ (phase' \in Reading => Place')
  <1> DEFINE n    == Len(delivered)
             size == wire[p + 1].v
  <1>1. /\ got \in Nat /\ Len(wire) \in Nat /\ got <= Len(wire) /\ q \in Nat /\ q <= got
        /\ DOMAIN wire = 1 .. Len(wire)
        /\ n \in Nat /\ size \in Nat /\ Size(q) = got - q
    BY WireUnits, OutIs, ChunkLayout DEF TypeOK, Size
  <1>t. Taken(size) = size + 2
    BY ChunkTaken
  <1>2. ASSUME got < q + size + 2, NEW why \in Dead, Stop(why, q)
        PROVE  Refined /\ (phase' \in Reading => Place')
    <2>1. got = Len(wire)
      <3>1. ~(size + 2 <= Size(q))
        <4> HIDE DEF size
        <4>1. got \in Nat /\ q \in Nat /\ size \in Nat /\ Size(q) = got - q
          BY <1>1
        <4>2. QED
          BY <1>2, <4>1, SMTT(30)
      <3>2. QED
        BY <1>t, <3>1 DEF AtEof
    <2>2. Arrived = 1 .. n
      BY <1>2, <2>1, ChunkCut
    <2>3. phase' \in Dead /\ UNCHANGED delivered /\ phase' \notin Reading
      BY <1>2 DEF Stop, Dead, Reading
    <2>4. QED
      BY <2>2, <2>3, Ends
  <1>3. CASE Size(q) = 0 /\ Stop("released", q)
    BY <1>1, <1>2, <1>3, SMTT(30) DEF Dead
  <1>4. CASE Size(q) > 0 /\ size = 0 /\ ReadUntil("lastChunk", q)
    <2>1. phase' = "lastChunk" /\ pos' = q /\ UNCHANGED delivered /\ phase' \in Reading
      BY <1>4 DEF ReadUntil, Reading
    <2>2. Refined
      BY <2>1, GoesOn
    <2>3. /\ Len(wire) <= q + 2
          /\ \A i \in DOMAIN wire : wire[i].f <= n
      <3>1. /\ \A i \in DOMAIN wire : i <= q => wire[i].f <= n
            /\ \A i \in DOMAIN wire : q + size < i /\ i <= q + size + 2 => wire[i].f = 0
            /\ size = 0 => Len(wire) <= q + 2
        BY ChunkLayout
      <3> HIDE DEF size, n
      <3>2. QED
        BY <1>1, <1>4, <3>1, SMTT(30)
    <2>4. \A i \in 2 .. Len(wire) : wire[i].c \notin Heads
      BY DEF Chunked
    <2>5. InTail'
      BY <1>1, <2>1, <2>3, <2>4 DEF InTail
    <2>6. QED
      BY <2>2, <2>5 DEF Place
  <1>5. CASE size > 0 /\ Deliver(q, size + 2, "chunkSize")
    BY <1>t, <1>5, DeliverChunk
  <1>6. CASE size + 2 > Size(q) /\ (Stop("assertFailed", q) \/ Stop("faulted", q))
    BY <1>1, <1>2, <1>6, SMTT(30) DEF Dead
  <1>7. QED
    BY <1>t, <1>3, <1>4, <1>5, <1>6 DEF ChunkBody, DeliverOrFault

\* A size line of 0: what follows has no frame.
LEMMA LastLine ==
  ASSUME TypeOK, Chunked(wire), NEW q \in 1 .. got, NEW p \in 1 .. q - 1, AfterLine(p, q),
         wire[p + 1].v = 0
  PROVE  /\ q > 1 /\ Len(wire) <= q + 2
         /\ \A i \in DOMAIN wire : wire[i].f <= Len(delivered)
         /\ \A i \in 2 .. Len(wire) : wire[i].c \notin Heads
  <1> DEFINE n    == Len(delivered)
             size == wire[p + 1].v
  <1>1. /\ Len(wire) \in Nat /\ q \in Nat /\ q > 1 /\ DOMAIN wire = 1 .. Len(wire) /\ n \in Nat
    BY WireUnits, OutIs DEF TypeOK
  <1>2. /\ \A i \in DOMAIN wire : i <= q => wire[i].f <= n
        /\ \A i \in DOMAIN wire : q + size < i /\ i <= q + size + 2 => wire[i].f = 0
        /\ size = 0 => Len(wire) <= q + 2
    BY ChunkLayout
  <1>3. \A i \in DOMAIN wire : wire[i].f <= n
    <2> HIDE DEF n
    <2>1. QED
      BY <1>1, <1>2
  <1>4. QED
    BY <1>1, <1>2, <1>3 DEF Chunked

\* After the size line, with all of it in the buffer.
LEMMA PastLine ==
  ASSUME TypeOK, Chunked(wire), pos > 0, LineStart(wire, pos), Passed(pos, FramesBefore(wire, pos)),
         NEW e \in pos + 1 .. got, ChunkAt(wire, pos, e)
  PROVE  AfterLine(pos, e)
  <1> DEFINE n == FramesBefore(wire, pos)
  <1>1. /\ got \in Nat /\ pos \in Nat /\ Len(wire) \in Nat /\ got <= Len(wire) /\ e \in Nat
        /\ DOMAIN wire = 1 .. Len(wire) /\ pos < e /\ e <= got /\ n \in Nat
        /\ \A i \in DOMAIN wire : wire[i].v \in Nat
    <2>1. /\ got \in Nat /\ pos \in Nat /\ Len(wire) \in Nat /\ got <= Len(wire) /\ e \in Nat
          /\ DOMAIN wire = 1 .. Len(wire) /\ pos < e /\ e <= got
      BY WireUnits DEF TypeOK
    <2>2. n = Len(delivered) /\ \A i \in DOMAIN wire : wire[i].v \in Nat
      BY UnitNumbers DEF Passed
    <2>3. QED
      BY <2>1, <2>2, OutIs
  <1>2. \A i \in 1 .. e : wire[i].f <= n
    <2> SUFFICES ASSUME NEW i \in 1 .. e PROVE wire[i].f <= n
      OBVIOUS
    <2>1. CASE i <= pos
      BY <1>1, <2>1 DEF Passed
    <2>2. CASE i > pos
      <3>1. i \in DOMAIN wire /\ pos + 1 <= i /\ i <= e
        BY <1>1, <2>2
      <3>2. wire[i].f = 0
        BY <3>1 DEF ChunkAt, Framing
      <3> HIDE DEF n
      <3>3. QED
        BY <1>1, <3>2
    <2>3. QED
      BY <1>1, <2>1, <2>2
  <1>3. ASSUME NEW k \in 1 .. n PROVE FrameComplete(wire, k, e)
    <2>1. PICK i \in 1 .. pos : wire[i].f = k /\ i + wire[i].v <= pos
      BY DEF Passed, FrameComplete
    <2>2. i \in 1 .. e /\ i \in DOMAIN wire
      BY <1>1
    <2>3. i + wire[i].v <= e
      BY <1>1, <2>1, <2>2, SMTT(30)
    <2>4. QED
      BY <2>1, <2>2, <2>3 DEF FrameComplete
  <1>4. Passed(e, n)
    BY <1>2, <1>3 DEF Passed
  <1>5. pos \in 1 .. e - 1
    BY <1>1
  <1>6. QED
    BY <1>4, <1>5 DEF AfterLine

\* The line that parse_chunk_size finds is the line that is there.
LEMMA LineFound ==
  ASSUME TypeOK, pos > 0, NEW e \in Nat, ChunkAt(wire, pos, e), e > pos
  PROVE  /\ \A i \in pos + 1 .. got : IsLineEnd(i) => i = e
         /\ (\E i \in pos + 1 .. got : wire[i].c = "lf") => e \in pos + 1 .. got /\ IsLineEnd(e)
  <1>1. /\ got \in Nat /\ pos \in Nat /\ Len(wire) \in Nat /\ got <= Len(wire)
        /\ DOMAIN wire = 1 .. Len(wire)
    BY WireUnits DEF TypeOK
  <1>2. \A i \in DOMAIN wire : pos < i /\ i <= e => (wire[i].c = "lf" <=> i = e)
    BY DEF ChunkAt
  <1>3. ASSUME NEW i \in pos + 1 .. got, wire[i].c = "lf" PROVE e \in pos + 1 .. i /\ IsLineEnd(e)
    <2>1. i \in DOMAIN wire /\ pos < i /\ i \in Nat
      BY <1>1
    <2>2. e <= i
      BY <1>2, <1>3, <2>1
    <2>3. e \in DOMAIN wire /\ e \in pos + 1 .. i
      BY <1>1, <2>1, <2>2
    <2>4. wire[e].c = "lf"
      BY <1>2, <2>3
    <2>5. ASSUME NEW j \in pos + 1 .. e - 1 PROVE wire[j].c # "lf"
      <3>1. j \in DOMAIN wire /\ pos < j /\ j <= e /\ j # e
        BY <1>1, <2>3
      <3>2. QED
        BY <1>2, <3>1
    <2>6. QED
      BY <2>3, <2>4, <2>5 DEF IsLineEnd
  <1>4. ASSUME NEW i \in pos + 1 .. got, IsLineEnd(i) PROVE i = e
    <2>1. wire[i].c = "lf" /\ \A j \in pos + 1 .. i - 1 : wire[j].c # "lf"
      BY <1>4 DEF IsLineEnd
    <2>2. e \in pos + 1 .. i /\ wire[e].c = "lf"
      BY <1>3, <2>1 DEF IsLineEnd
    <2>3. e \notin pos + 1 .. i - 1
      BY <2>1, <2>2
    <2>4. QED
      BY <1>1, <2>2, <2>3
  <1>5. \A i \in pos + 1 .. got : e \in pos + 1 .. i => e \in pos + 1 .. got
    BY <1>1
  <1>6. QED
    BY <1>3, <1>4, <1>5

LEMMA SizeLineRefines ==
  ASSUME TypeOK, TypeOK', AtSizeLine, ChunkSizeReadComplete
  PROVE  Refined /\ (phase' \in Reading => Place')
  <1> DEFINE n == Len(delivered)
  <1>1. /\ got \in Nat /\ pos \in Nat /\ Len(wire) \in Nat /\ got <= Len(wire) /\ pos <= got
        /\ DOMAIN wire = 1 .. Len(wire) /\ pos > 0 /\ Size(pos) = got - pos /\ n \in Nat
    BY WireUnits, OutIs DEF TypeOK, AtSizeLine, Size
  <1>2. /\ phase = "chunkSize" /\ phase \in Reading /\ Chunked(wire) /\ LineStart(wire, pos)
        /\ Passed(pos, FramesBefore(wire, pos)) /\ n = FramesBefore(wire, pos)
        /\ \A i \in 1 .. pos : wire[i].f <= n
    BY DEF AtSizeLine, Reading, Passed
  <1>3. UNCHANGED <<wire, got, closed, assertions>> /\ (HasEol1 \/ AtEof)
    BY <1>2 DEF ChunkSizeReadComplete, Completes, Satisfied
  <1>4. ASSUME \A i \in 1 .. got : wire[i].f <= n, NEW why \in Dead, Stop(why, pos)
        PROVE  Refined /\ (phase' \in Reading => Place')
    <2>1. Arrived \subseteq 1 .. n
      BY <1>4, AllTold
    <2>2. phase' \in Dead /\ UNCHANGED delivered /\ phase' \notin Reading
      BY <1>4 DEF Stop, Dead, Reading
    <2>3. QED
      BY <1>2, <1>3, <2>1, <2>2, Ends
  <1>5. CASE Size(pos) = 0 /\ Stop("released", pos)
    <2>1. got = pos
      BY <1>1, <1>5
    <2>2. QED
      BY <1>2, <1>4, <1>5, <2>1 DEF Dead
  <1>6. CASE ReadUntil("chunkSize", pos)
    <2>1. phase' \in Reading /\ phase' = phase /\ pos' = pos /\ UNCHANGED delivered
      BY <1>2, <1>6 DEF ReadUntil
    <2>2. AtSizeLine'
      BY <1>3, <2>1 DEF AtSizeLine, Passed
    <2>3. QED
      BY <1>2, <1>3, <2>1, <2>2, GoesOn DEF Place
  <1>7. CASE Size(pos) > 2
    <2>1. pos \in 1 .. Len(wire) - 1
      BY <1>1, <1>7
    <2>2. PICK e \in pos + 3 .. Len(wire) + 3 : ChunkAt(wire, pos, e)
      BY <1>2, <2>1 DEF Chunked
    <2>3. e \in Nat /\ e > pos
      BY <1>1
    <2>4. /\ \A i \in pos + 1 .. got : IsLineEnd(i) => i = e
          /\ (\E i \in pos + 1 .. got : wire[i].c = "lf") => e \in pos + 1 .. got /\ IsLineEnd(e)
      BY <1>1, <2>2, <2>3, LineFound
    <2>5. IsSize(pos + 1)
      BY <2>2 DEF ChunkAt, IsSize
    <2>6. CASE \E i \in pos + 1 .. got : IsLineEnd(i) /\ TakeChunk(i, wire[pos + 1].v)
      <3> DEFINE size == wire[pos + 1].v
      <3>1. e \in pos + 1 .. got /\ TakeChunk(e, size)
        BY <2>4, <2>6
      <3>2. AfterLine(pos, e)
        BY <1>1, <1>2, <2>2, <3>1, PastLine
      <3>3. /\ e \in 1 .. got /\ pos \in 1 .. e - 1 /\ Size(e) = got - e /\ pos \in Nat
        BY <1>1, <3>1 DEF Size
      <3>4. size \in Nat
        BY <1>2, <3>2, <3>3, ChunkLayout
      <3>5. CASE ReadAtLeast("chunkBody", e, size, Taken(size) - Size(e))
        <4>1. /\ phase' = "chunkBody" /\ pos' = e /\ arg' = size /\ UNCHANGED delivered
              /\ phase' \in Reading
          BY <3>5 DEF ReadAtLeast, Reading
        <4>2. Refined
          BY <1>2, <1>3, <4>1, GoesOn
        <4>3. CASE size = 0
          <5>1. /\ e > 1 /\ Len(wire) <= e + 2
                /\ \A i \in DOMAIN wire : wire[i].f <= Len(delivered)
                /\ \A i \in 2 .. Len(wire) : wire[i].c \notin Heads
            BY <1>2, <3>2, <3>3, <4>3, LastLine
          <5>2. InTail'
            BY <1>3, <4>1, <4>3, <5>1 DEF InTail
          <5>3. QED
            BY <4>2, <5>2 DEF Place
        <4>4. CASE size # 0
          <5>1. InChunk'
            <6>1. PICK p \in Nat : p = pos
              BY <3>3
            <6>2. p \in 1 .. pos' - 1 /\ arg' = wire'[p + 1].v /\ arg' > 0
              BY <1>3, <3>3, <3>4, <4>1, <4>4, <6>1
            <6>3. LineStart(wire, p) /\ ChunkAt(wire, p, e) /\ Passed(e, FramesBefore(wire, p))
              BY <3>2, <6>1 DEF AfterLine
            <6>4. AfterLine(p, pos)'
              BY <1>3, <4>1, <6>2, <6>3 DEF AfterLine, Passed
            <6>5. QED
              BY <1>2, <1>3, <4>1, <6>2, <6>4 DEF InChunk
          <5>2. QED
            BY <4>2, <5>1 DEF Place
        <4>5. QED
          BY <4>3, <4>4
      <3>6. CASE Taken(size) <= Size(e) /\ ChunkBody(e, size)
        BY <1>2, <1>3, <3>2, <3>3, <3>6, ChunkBodyRefines
      <3>7. QED
        BY <3>1, <3>5, <3>6 DEF TakeChunk
    <2>7. CASE ~(\E i \in pos + 1 .. got : IsLineEnd(i)) /\ Stop("threw", pos)
      <3>1. ~(\E i \in pos + 1 .. got : wire[i].c = "lf")
        BY <2>4, <2>7
      <3>2. ~HasEol1
        <4> SUFFICES ASSUME NEW i \in pos + 1 .. got,
                            wire[i].c \in Heads \/ (i < got /\ IsCrLf(i))
                     PROVE  FALSE
          BY DEF HasEol1
        <4>1. i \in 2 .. Len(wire) /\ i + 1 \in Nat /\ (i < got => i + 1 \in pos + 1 .. got)
          BY <1>1
        <4>2. wire[i].c \notin Heads
          BY <1>2, <4>1 DEF Chunked
        <4>3. QED
          BY <3>1, <4>1, <4>2 DEF IsCrLf
      <3>3. got = Len(wire)
        BY <1>3, <3>2 DEF AtEof
      <3>4. ~(e <= got)
        <4>1. e <= got => e \in DOMAIN wire /\ e \in pos + 1 .. got
          BY <1>1, <2>3
        <4>2. e <= got => wire[e].c = "lf"
          BY <1>1, <2>2, <2>3, <4>1 DEF ChunkAt
        <4>3. QED
          BY <3>1, <4>1, <4>2
      <3>5. ASSUME NEW i \in 1 .. got PROVE wire[i].f <= n
        <4>1. CASE i <= pos
          BY <1>1, <1>2, <4>1, SMTT(30)
        <4>2. CASE i > pos
          <5>1. i \in DOMAIN wire /\ pos + 1 <= i /\ i <= e
            BY <1>1, <2>3, <3>4, <4>2
          <5>2. wire[i].f = 0
            BY <2>2, <5>1 DEF ChunkAt, Framing
          <5> HIDE DEF n
          <5>3. QED
            BY <1>1, <5>2
        <4>3. QED
          BY <1>1, <4>1, <4>2
      <3>6. QED
        BY <1>4, <2>7, <3>5 DEF Dead
    <2>8. QED
      BY <1>7, <2>5, <2>6, <2>7, <1>5, <1>6 DEF ChunkSizeReadComplete
  <1>8. QED
    BY <1>5, <1>6, <1>7 DEF ChunkSizeReadComplete

\* The reader stops, and all that it was sent has been told.
LEMMA StopsTold ==
  ASSUME TypeOK, phase \in Reading, UNCHANGED <<wire, got, closed>>,
         NEW why \in Dead, NEW p, Stop(why, p), \A i \in 1 .. got : wire[i].f <= Len(delivered)
  PROVE  Refined /\ (phase' \in Reading => Place')
  <1>1. phase' \in Dead /\ UNCHANGED delivered /\ phase' \notin Reading
    BY DEF Stop, Dead, Reading
  <1>2. QED
    BY <1>1, AllTold, Ends

LEMMA AtEndRefines ==
  ASSUME TypeOK, AtEnd, HeaderReadComplete \/ ChunkSizeReadComplete
  PROVE  Refined /\ (phase' \in Reading => Place')
  <1>1. got = pos /\ Size(pos) = 0
    BY WireUnits DEF TypeOK, AtEnd, Size
  <1>2. UNCHANGED <<wire, got, closed>> /\ Stop("released", pos)
    BY <1>1 DEF HeaderReadComplete, ChunkSizeReadComplete
  <1>3. phase' \in Dead /\ phase' \notin Reading /\ UNCHANGED delivered /\ phase \in Reading
    BY <1>2 DEF Stop, Dead, Reading, AtEnd
  <1>4. QED
    BY <1>2, <1>3, Ends DEF AtEnd

LEMMA InChunkRefines ==
  ASSUME IInv, TypeOK', InChunk, ChunkBodyReadComplete
  PROVE  Refined /\ (phase' \in Reading => Place')
  <1>1. PICK p \in 1 .. pos - 1 : AfterLine(p, pos) /\ arg = wire[p + 1].v
    BY DEF InChunk
  <1>2. /\ got \in Nat /\ pos \in Nat /\ pos <= got /\ arg \in Nat
    BY WireUnits DEF IInv, TypeOK
  <1>3. pos \in 1 .. got
    BY <1>1, <1>2
  <1>t. Taken(arg) \in Nat
    BY <1>2, TakenIs
  <1>4. Taken(arg) <= Size(pos) \/ AtEof
    BY <1>2, <1>t DEF ChunkBodyReadComplete, Completes, Satisfied, IInv, BodyTarget, Size
  <1>5. /\ UNCHANGED <<wire, got, closed, assertions>> /\ ChunkBody(pos, arg)
        /\ Chunked(wire) /\ phase \in Reading
    BY DEF ChunkBodyReadComplete, InChunk, Reading
  <1>6. QED
    BY <1>1, <1>3, <1>4, <1>5, ChunkBodyRefines DEF IInv

LEMMA AfterBlankRefines ==
  ASSUME TypeOK, AfterBlank, HeaderReadComplete
  PROVE  Refined /\ (phase' \in Reading => Place')
  <1>1. /\ got \in Nat /\ pos = 1 /\ Len(wire) \in Nat /\ got <= Len(wire)
        /\ DOMAIN wire = 1 .. Len(wire) /\ Size(pos) = got - pos /\ Len(delivered) = 1
    BY WireUnits DEF TypeOK, Size, AfterBlank
  <1>2. UNCHANGED <<wire, got, closed>> /\ phase \in Reading
    BY DEF HeaderReadComplete, AfterBlank, Reading
  <1>3. \A i \in 1 .. got : wire[i].f <= Len(delivered)
    <2> SUFFICES ASSUME NEW i \in 1 .. got PROVE wire[i].f <= Len(delivered)
      OBVIOUS
    <2>1. wire[i].f = 0
      BY <1>1 DEF AfterBlank, Unmeasured, Framing
    <2>2. QED
      BY <1>1, <2>1
  <1>4. Size(pos) > 0 => wire[pos + 1].c \notin Heads \cup {"cr"}
    BY <1>1 DEF AfterBlank, Unmeasured
  <1>5. Stop("released", pos) \/ Stop("threw", pos)
    BY <1>4 DEF HeaderReadComplete, Heads, IsCrLf
  <1>6. QED
    BY <1>2, <1>3, <1>5, StopsTold DEF Dead

LEMMA AtHeaderRefines ==
  ASSUME TypeOK, WellFramed(wire), AtHeader, HeaderReadComplete
  PROVE  Refined /\ (phase' \in Reading => Place')
  <1>1. /\ got \in Nat /\ pos = 0 /\ Len(wire) \in Nat /\ got <= Len(wire)
        /\ DOMAIN wire = 1 .. Len(wire) /\ Size(pos) = got /\ Len(delivered) = 0
        /\ delivered = <<>> /\ wire \in Seq(Unit)
    BY WireUnits DEF TypeOK, Size, AtHeader
  <1>2. UNCHANGED <<wire, got, closed, assertions>> /\ phase \in Reading
    BY DEF HeaderReadComplete, AtHeader, Reading
  <1>3. CASE Size(pos) = 0 /\ Stop("released", pos)
    <2>1. \A i \in 1 .. got : wire[i].f <= Len(delivered)
      BY <1>1, <1>3
    <2>2. QED
      BY <1>2, <1>3, <2>1, StopsTold DEF Dead
  <1>4. CASE Size(pos) > 0
    <2>1. wire # <<>> /\ 1 \in DOMAIN wire
      BY <1>1, <1>4
    <2>2. CASE Unframed(wire)
      <3>1. wire[1].c \in {"badHead", "cutHead"} /\ Framing(wire, 1, Len(wire))
        BY <2>1, <2>2 DEF Unframed
      <3>2. Stop("threw", pos)
        BY <1>1, <1>4, <3>1 DEF HeaderReadComplete, IsCrLf
      <3>3. \A i \in 1 .. got : wire[i].f <= Len(delivered)
        BY <1>1, <3>1 DEF Framing
      <3>4. QED
        BY <1>2, <3>2, <3>3, StopsTold DEF Dead
    <2>3. CASE PlainBodied(wire) \/ Unmeasured(wire)
      <3>1. wire[1].c = "lengthHead"
        BY <2>3 DEF PlainBodied, Unmeasured
      <3>2. ReadPlainBody(1, wire[1].v)
        BY <1>1, <1>4, <3>1 DEF HeaderReadComplete, IsCrLf
      <3>3. /\ phase' = "plainBody" /\ pos' = 1 /\ arg' = wire[1].v /\ UNCHANGED delivered
            /\ phase' \in Reading
        BY <3>2 DEF ReadPlainBody, ReadAtLeast, Reading
      <3>4. InPlainBody'
        BY <1>1, <1>2, <2>3, <3>3 DEF InPlainBody
      <3>5. QED
        BY <1>2, <3>3, <3>4, GoesOn DEF Place
    <2>4. CASE Chunked(wire)
      <3>1. wire[1].c = "chunkedHead" /\ wire[1].f = 0
        BY <2>4 DEF Chunked
      <3>2. ReadUntil("chunkSize", 1)
        BY <1>1, <1>4, <3>1 DEF HeaderReadComplete, IsCrLf
      <3>3. phase' = "chunkSize" /\ pos' = 1 /\ UNCHANGED delivered /\ phase' \in Reading
        BY <3>2 DEF ReadUntil, Reading
      <3>4. LineStart(wire, 1) /\ FramesBefore(wire, 1) = 0
        BY DEF LineStart, FramesBefore
      <3>5. Passed(1, 0)
        BY <1>1, <3>1 DEF Passed
      <3>6. AtSizeLine'
        BY <1>2, <2>4, <3>3, <3>4, <3>5 DEF AtSizeLine, Passed
      <3>7. QED
        BY <1>2, <3>3, <3>6, GoesOn DEF Place
    <2>5. QED
      BY <2>2, <2>3, <2>4 DEF WellFramed
  <1>5. QED
    BY <1>1, <1>3, <1>4 DEF HeaderReadComplete

LEMMA InTailRefines ==
  ASSUME TypeOK, InTail,
         \/ ChunkBodyReadComplete \/ LastChunkReadComplete
         \/ HeaderReadComplete \/ PlainBodyReadComplete
  PROVE  Refined /\ (phase' \in Reading => Place')
  <1>1. /\ got \in Nat /\ pos \in Nat /\ Len(wire) \in Nat /\ got <= Len(wire) /\ pos <= got
        /\ Size(pos) = got - pos /\ pos > 1 /\ Len(wire) <= pos + 2
    BY WireUnits DEF TypeOK, Size, InTail
  <1>2. /\ UNCHANGED <<wire, got, closed, assertions>> /\ phase \in Reading
    BY DEF InTail, Reading, ChunkBodyReadComplete, LastChunkReadComplete, HeaderReadComplete,
           PlainBodyReadComplete
  <1>3. \A i \in 1 .. got : wire[i].f <= Len(delivered)
    <2>1. \A i \in 1 .. got : i \in DOMAIN wire
      BY <1>1, WireUnits
    <2>2. \A i \in DOMAIN wire : wire[i].f <= Len(delivered)
      BY DEF InTail
    <2>3. QED
      BY <2>1, <2>2
  <1>4. ASSUME NEW why \in Dead, Stop(why, pos)
        PROVE  Refined /\ (phase' \in Reading => Place')
    BY <1>2, <1>3, <1>4, StopsTold
  <1>5. ASSUME phase' \in {"lastChunk", "header", "plainBody"}, pos' \in pos .. got,
               phase' = "plainBody" => pos' = Len(wire), UNCHANGED delivered
        PROVE  Refined /\ (phase' \in Reading => Place')
    <2>1. Refined
      BY <1>2, <1>5, GoesOn DEF Reading
    <2>2. \A p \in pos .. got : p > 1 /\ Len(wire) <= p + 2
      BY <1>1
    <2>3. InTail'
      BY <1>2, <1>5, <2>2 DEF InTail
    <2>4. QED
      BY <2>1, <2>3 DEF Place
  <1>6. pos \in pos .. got
    BY <1>1
  <1>7. CASE ChunkBodyReadComplete
    <2>1. arg = 0 /\ ChunkBody(pos, 0)
      BY <1>7 DEF InTail, ChunkBodyReadComplete, Completes
    <2>2. Stop("released", pos) \/ ReadUntil("lastChunk", pos)
      BY <2>1 DEF ChunkBody
    <2>3. QED
      BY <1>4, <1>5, <1>6, <2>2 DEF ReadUntil, Dead
  <1>8. CASE LastChunkReadComplete
    BY <1>4, <1>5, <1>8, <1>6 DEF LastChunkReadComplete, ReadUntil, Dead
  <1>9. CASE PlainBodyReadComplete
    <2>1. pos = Len(wire)
      BY <1>9 DEF InTail, PlainBodyReadComplete, Completes
    <2>2. Size(pos) = 0
      BY <1>1, <2>1
    <2>3. Stop("released", pos)
      BY <1>9, <2>2 DEF PlainBodyReadComplete
    <2>4. QED
      BY <1>4, <2>3 DEF Dead
  <1>10. CASE HeaderReadComplete
    <2>1. Size(pos) > 0 => wire[pos + 1].c \notin Heads
      <3>1. Size(pos) > 0 => pos + 1 \in 2 .. Len(wire)
        BY <1>1
      <3>2. QED
        BY <3>1 DEF InTail
    <2>2. \/ Stop("released", pos) \/ Stop("threw", pos)
          \/ Size(pos) >= 2 /\ ReadPlainBody(pos + 2, 0)
      BY <1>10, <2>1 DEF HeaderReadComplete, Heads
    <2>3. CASE Size(pos) >= 2 /\ ReadPlainBody(pos + 2, 0)
      <3>1. phase' = "plainBody" /\ pos' = pos + 2 /\ UNCHANGED delivered
        BY <2>3 DEF ReadPlainBody, ReadAtLeast
      <3>2. pos + 2 = Len(wire) /\ pos + 2 \in pos .. got
        <4>1. got - pos >= 2
          BY <1>1, <2>3
        <4>2. QED
          BY <1>1, <4>1
      <3>3. QED
        BY <1>5, <3>1, <3>2
    <2>4. QED
      BY <1>4, <2>2, <2>3 DEF Dead
  <1>11. QED
    BY <1>7, <1>8, <1>9, <1>10

\* The body of a response with a Content-Length, which is frame 1.
LEMMA PlainLayout ==
  ASSUME TypeOK, PlainBodied(wire)
  PROVE  LET length == wire[1].v
         IN /\ length \in Nat /\ length > 0 /\ Len(wire) <= length + 1
            /\ wire[1].f = 0
            /\ \A i \in 2 .. Len(wire) : wire[i].f = 1 /\ wire[i].v = length + 1 - i
            /\ Arrived \subseteq 1 .. 1
            /\ got <= length => Arrived = {}
            /\ got > length => 1 .. 1 \subseteq Arrived
  <1> DEFINE length == wire[1].v
  <1>1. /\ got \in Nat /\ got <= Len(wire) /\ Len(wire) \in Nat /\ DOMAIN wire = 1 .. Len(wire)
        /\ Len(wire) > 0
    BY WireUnits DEF TypeOK, PlainBodied
  <1>2. /\ length \in Nat /\ length > 0 /\ Len(wire) <= length + 1 /\ wire[1].f = 0
    BY <1>1, UnitNumbers DEF PlainBodied
  <1>3. \A i \in DOMAIN wire : 2 <= i /\ i <= length + 1 =>
          wire[i].f = 1 /\ wire[i].v = length + 1 + 0 - i
    BY DEF PlainBodied, FrameUnits
  <1> HIDE DEF length
  <1>4. \A i \in 2 .. Len(wire) : wire[i].f = 1 /\ wire[i].v = length + 1 - i
    <2> SUFFICES ASSUME NEW i \in 2 .. Len(wire)
                 PROVE  wire[i].f = 1 /\ wire[i].v = length + 1 - i
      OBVIOUS
    <2>1. i \in DOMAIN wire /\ 2 <= i /\ i <= length + 1
      BY <1>1, <1>2
    <2>2. wire[i].f = 1 /\ wire[i].v = length + 1 + 0 - i
      BY <1>3, <2>1
    <2>3. QED
      BY <1>2, <2>2
  <1>5. ASSUME NEW k \in Arrived PROVE k = 1 /\ length < got
    <2>1. k # 0
      BY DEF Arrived, Frames
    <2>2. PICK i \in 1 .. got : wire[i].f = k /\ i + wire[i].v <= got
      BY DEF Arrived, FrameComplete
    <2>3. i \in 2 .. Len(wire)
      BY <1>1, <1>2, <2>1, <2>2
    <2>4. k = 1 /\ i + (length + 1 - i) <= got
      BY <1>4, <2>2, <2>3
    <2>5. QED
      BY <1>1, <1>2, <2>3, <2>4
  <1>6. ASSUME got > length PROVE 1 \in Arrived
    <2>1. 2 \in 2 .. Len(wire) /\ 2 \in DOMAIN wire /\ 2 \in 1 .. got
      BY <1>1, <1>2, <1>6
    <2>2. wire[2].f = 1 /\ wire[2].v = length + 1 - 2
      BY <1>4, <2>1
    <2>3. 2 + (length + 1 - 2) <= got
      BY <1>1, <1>2, <1>6
    <2>4. QED
      BY <2>1, <2>2, <2>3 DEF Arrived, Frames, FrameComplete
  <1>7. Arrived \subseteq 1 .. 1 /\ (got <= length => Arrived = {})
    BY <1>1, <1>2, <1>5
  <1>8. got > length => 1 .. 1 \subseteq Arrived
    BY <1>6
  <1>9. QED
    BY <1>2, <1>4, <1>7, <1>8 DEF length

\* The whole body in one callback.
LEMMA PlainWhole ==
  ASSUME TypeOK, PlainBodied(wire), got > wire[1].v, NEW d, ~d.over, d.from = 2, d.len = wire[1].v
  PROVE  FrameOf(wire, d) = 1
  <1> DEFINE length == wire[1].v
             carried == {i \in DOMAIN wire : d.from <= i /\ i < End(d) /\ wire[i].f # 0}
             frame   == {i \in DOMAIN wire : wire[i].f = 1}
  <1>1. /\ DOMAIN wire = 1 .. Len(wire) /\ Len(wire) \in Nat
        /\ End(d) = length + 2 /\ d.from = 2
    <2>1. length \in Nat
      BY PlainLayout
    <2>2. End(d) = length + 2
      BY <2>1 DEF End
    <2>3. QED
      BY <2>2, WireUnits
  <1>2. /\ length \in Nat /\ Len(wire) <= length + 1 /\ wire[1].f = 0
        /\ \A i \in 2 .. Len(wire) : wire[i].f = 1
    BY PlainLayout
  <1>3. 1 \in Frames(wire)
    BY PlainLayout DEF Arrived
  <1>4. carried = frame
    <2> HIDE DEF length
    <2>1. ASSUME NEW i \in DOMAIN wire PROVE i \in carried <=> i \in frame
      <3>1. CASE i = 1
        BY <1>1, <1>2, <3>1
      <3>2. CASE i # 1
        <4>1. i \in 2 .. Len(wire) /\ 2 <= i /\ i < length + 2
          BY <1>1, <1>2, <3>2
        <4>2. wire[i].f = 1
          BY <1>2, <4>1
        <4>3. QED
          BY <1>1, <4>1, <4>2
      <3>3. QED
        BY <3>1, <3>2
    <2>2. QED
      BY <2>1
  <1>5. QED
    BY <1>3, <1>4, FrameOfWhole

LEMMA UnmeasuredHasNone ==
  ASSUME TypeOK, Unmeasured(wire)
  PROVE  Arrived = {}
  <1>1. /\ got \in Nat /\ got <= Len(wire) /\ Len(wire) \in Nat /\ DOMAIN wire = 1 .. Len(wire)
    BY WireUnits DEF TypeOK
  <1>2. \A i \in DOMAIN wire : 1 <= i /\ i <= Len(wire) => wire[i].f = 0
    BY DEF Unmeasured, Framing
  <1>3. ASSUME NEW k \in Arrived PROVE FALSE
    <2>1. k # 0
      BY DEF Arrived, Frames
    <2>2. PICK i \in 1 .. got : wire[i].f = k
      BY DEF Arrived, FrameComplete
    <2>3. i \in DOMAIN wire /\ 1 <= i /\ i <= Len(wire)
      BY <1>1
    <2>4. QED
      BY <1>2, <2>1, <2>2, <2>3
  <1>4. QED
    BY <1>3

LEMMA InPlainBodyRefines ==
  ASSUME IInv, TypeOK', InPlainBody, PlainBodyReadComplete
  PROVE  Refined /\ (phase' \in Reading => Place')
  <1> DEFINE length == wire[1].v
             d == [from |-> pos + 1, len |-> length, over |-> length > Size(pos)]
  <1>1. /\ got \in Nat /\ pos = 1 /\ Len(wire) \in Nat /\ got <= Len(wire) /\ 1 <= got
        /\ DOMAIN wire = 1 .. Len(wire) /\ Size(pos) = got - 1
        /\ Len(delivered) = 0 /\ arg = length /\ length \in Nat /\ TypeOK /\ target \in Nat
    BY WireUnits DEF IInv, TypeOK, Size, InPlainBody
  <1>2. UNCHANGED <<wire, got, closed, assertions>> /\ phase \in Reading /\ phase = "plainBody"
    BY DEF PlainBodyReadComplete, InPlainBody, Reading
  <1>3. got >= target \/ AtEof
    BY <1>2 DEF PlainBodyReadComplete, Completes, Satisfied
  <1>4. target >= 1 + length /\ (length = 0 => got = 1 \/ target > Len(wire))
    BY <1>1, <1>2 DEF IInv, BodyTarget
  <1>5. d.from = 2 /\ d.len = length /\ (d.over <=> length > got - 1)
    <2>1. d.from = pos + 1 /\ d.len = length /\ (d.over <=> length > Size(pos))
      BY Zenon
    <2>2. pos + 1 = 2 /\ Size(pos) = got - 1
      BY <1>1
    <2> HIDE DEF d
    <2>3. QED
      BY <2>1, <2>2
  <1>6. CASE Size(pos) = 0 /\ Stop("released", pos)
    <2>1. got = 1 /\ wire[1].f = 0
      BY <1>1, <1>6 DEF InPlainBody, PlainBodied, Unmeasured, Framing
    <2>2. \A i \in 1 .. got : wire[i].f <= Len(delivered)
      BY <1>1, <2>1
    <2>3. QED
      BY <1>1, <1>2, <1>6, <2>2, StopsTold DEF Dead
  <1>7. ASSUME Arrived = {}, closed, NEW why \in Dead, Stop(why, pos)
        PROVE  Refined /\ (phase' \in Reading => Place')
    <2>1. phase' \in Dead /\ UNCHANGED delivered /\ phase' \notin Reading
      BY <1>7 DEF Stop, Dead, Reading
    <2>2. QED
      BY <1>1, <1>2, <1>7, <2>1, Ends
  <1>8. CASE Size(pos) > 0 /\ Deliver(pos, length, "header")
    <2>1. /\ delivered' = Append(delivered, d) /\ phase' \in {"header", "threw"}
          /\ pos' = 1 + Least(length, got - 1)
      <3>1. /\ delivered' = Append(delivered, d) /\ phase' \in {"header", "threw"}
            /\ pos' = pos + Least(length, Size(pos))
        BY <1>8, Zenon DEF Deliver
      <3> HIDE DEF d, length
      <3>2. QED
        BY <1>1, <3>1
    <2>2. Len(delivered') = 1
      BY <1>1, <2>1 DEF TypeOK
    <2>3. "threw" \notin Reading
      BY DEF Reading
    <2> HIDE DEF d
    <2>4. CASE PlainBodied(wire)
      <3>1. length > 0 /\ Len(wire) <= length + 1 /\ Arrived \subseteq 1 .. 1
        BY <1>1, <2>4, PlainLayout
      <3>2. pos' = got /\ got = Len(wire)
        <4> HIDE DEF length
        <4>0. got \in Nat /\ Len(wire) \in Nat /\ got <= Len(wire) /\ length \in Nat
          BY <1>1
        <4>1. got >= length + 1 \/ got = Len(wire)
          <5>1. CASE AtEof
            BY <5>1 DEF AtEof
          <5>2. CASE got >= target
            <6>1. target \in Nat /\ target >= 1 + length
              BY <1>1, <1>4
            <6>2. QED
              BY <4>0, <5>2, <6>1
          <5>3. QED
            BY <1>3, <5>1, <5>2
        <4>2. got = Len(wire) /\ (length < got - 1 <=> FALSE)
          BY <3>1, <4>0, <4>1
        <4>3. Least(length, got - 1) = got - 1
          BY <4>2 DEF Least
        <4>4. QED
          BY <1>1, <2>1, <4>2, <4>3
      <3>3. Refined
        <4>1. CASE got > length
          <5>1. ~d.over
            BY <1>1, <1>5, <4>1
          <5>2. FrameOf(wire, d) = 0 + 1 /\ 1 .. 0 + 1 \subseteq Arrived
            BY <1>1, <1>5, <2>4, <4>1, <5>1, PlainWhole, PlainLayout
          <5>3. QED
            BY <1>1, <1>2, <2>1, <5>2, HandsOver
        <4>2. CASE ~(got > length)
          <5>1. d.over /\ closed
            <6>1. length > got - 1 /\ ~(got >= target)
              BY <1>1, <1>4, <4>2
            <6>2. QED
              BY <1>3, <1>5, <6>1 DEF AtEof
          <5>2. Arrived = {} /\ FrameOf(wire, d) = 0
            BY <1>1, <2>4, <4>2, <5>1, PlainLayout, FrameOfRest
          <5>3. Arrived = 1 .. Len(delivered)
            BY <1>1, <5>2
          <5>4. QED
            BY <1>1, <1>2, <2>1, <5>1, <5>2, <5>3, HandsOverRest
        <4>3. QED
          BY <4>1, <4>2
      <3>4. ASSUME phase' \in Reading PROVE AtEnd'
        <4>1. phase' = "header" /\ pos' = Len(wire')
          BY <1>2, <2>1, <2>3, <3>2, <3>4
        <4>2. Arrived' = Arrived
          BY <1>2 DEF Arrived
        <4>3. Arrived' \subseteq 1 .. Len(delivered')
          BY <2>2, <3>1, <4>2
        <4>4. QED
          BY <4>1, <4>3 DEF AtEnd
      <3>5. QED
        BY <3>3, <3>4 DEF Place
    <2>5. CASE Unmeasured(wire)
      <3>1. length = 0 /\ Arrived = {}
        BY <1>1, <2>5, UnmeasuredHasNone DEF Unmeasured
      <3>2. closed
        <4>1. got # 1 /\ target > Len(wire)
          BY <1>1, <1>4, <1>8, <3>1
        <4>2. ~(got >= target)
          BY <1>1, <4>1
        <4>3. QED
          BY <1>3, <4>2 DEF AtEof
      <3>3. FrameOf(wire, d) = 0
        <4>1. End(d) = 2
          BY <1>5, <3>1 DEF End
        <4>2. \A i \in DOMAIN wire : ~(d.from <= i /\ i < End(d))
          BY <1>1, <1>5, <4>1
        <4>3. QED
          BY <4>2, FrameOfRest
      <3>4. Refined
        <4>1. Arrived = 1 .. Len(delivered)
          BY <1>1, <3>1
        <4>2. QED
          BY <1>1, <1>2, <2>1, <3>2, <3>3, <4>1, HandsOverRest
      <3>5. ASSUME phase' \in Reading PROVE AfterBlank'
        <4>1. phase' = "header"
          BY <2>1, <2>3, <3>5
        <4>2. pos' = 1
          BY <1>1, <1>8, <2>1, <3>1 DEF Least
        <4>3. QED
          BY <1>2, <2>2, <2>5, <4>1, <4>2 DEF AfterBlank
      <3>6. QED
        BY <3>4, <3>5 DEF Place
    <2>6. QED
      BY <2>4, <2>5 DEF InPlainBody
  <1>9. CASE length > Size(pos) /\ Stop("faulted", pos)
    <2>1. got <= length /\ length > 0
      BY <1>1, <1>9
    <2>2. PlainBodied(wire)
      BY <2>1 DEF InPlainBody, Unmeasured
    <2>3. Arrived = {}
      BY <1>1, <2>1, <2>2, PlainLayout
    <2>4. ~(got >= target)
      BY <1>1, <1>4, <2>1
    <2>5. QED
      BY <1>3, <1>7, <1>9, <2>3, <2>4 DEF AtEof, Dead
  <1>10. QED
    BY <1>1, <1>6, <1>8, <1>9 DEF PlainBodyReadComplete, DeliverOrFault

FInv == WellFramed(wire) /\ (phase \in Reading => Place)

LEMMA ReceiveRefines ==
  ASSUME TypeOK, TypeOK', phase \in Reading => Place, Receive
  PROVE  Refined /\ (phase' \in Reading => Place')
  <1>1. /\ phase \in Reading /\ Place /\ got' \in got + 1 .. Len(wire)
        /\ UNCHANGED <<wire, pos, closed, phase, arg, delivered>>
    BY DEF Receive
  <1>2. Refined
    <2>1. got <= got'
      BY <1>1, WireUnits DEF TypeOK
    <2>2. Cardinality(Arrived) \in Nat /\ Cardinality(Arrived) <= Cardinality(Arrived')
      BY <1>1, <2>1, Counted, ArrivedGrows
    <2>3. Cardinality(Arrived') \in Nat
      <3>1. IsFiniteSet(Frames(wire))
        BY FramesFinite
      <3>2. Arrived' \subseteq Frames(wire)
        BY <1>1 DEF Arrived
      <3>3. QED
        BY <3>1, <3>2, FS_Subset, FS_CardinalityType
    <2>4. Out' = Out /\ UNCHANGED <<closed, phase \in Reading>>
      BY <1>1 DEF Out
    <2>5. \/ Cardinality(Arrived') > Cardinality(Arrived)
          \/ Cardinality(Arrived') = Cardinality(Arrived)
      BY <2>2, <2>3
    <2>6. QED
      BY <1>1, <2>4, <2>5, Mapping DEF Refined, Told!FDNext
  <1>3. CASE AtHeader
    BY <1>1, <1>2, <1>3 DEF AtHeader, Place
  <1>4. CASE InPlainBody
    BY <1>1, <1>2, <1>4 DEF InPlainBody, Place
  <1>5. CASE AfterBlank
    BY <1>1, <1>2, <1>5 DEF AfterBlank, Place
  <1>6. CASE AtSizeLine
    <2>1. AtSizeLine'
      BY <1>1, <1>6 DEF AtSizeLine, Passed
    <2>2. QED
      BY <1>2, <2>1 DEF Place
  <1>7. CASE InChunk
    <2>1. PICK p \in 1 .. pos - 1 : AfterLine(p, pos) /\ arg = wire[p + 1].v
      BY <1>7 DEF InChunk
    <2>2. AfterLine(p, pos)'
      BY <1>1, <2>1 DEF AfterLine, Passed
    <2>3. InChunk'
      BY <1>1, <1>7, <2>1, <2>2 DEF InChunk
    <2>4. QED
      BY <1>2, <2>3 DEF Place
  <1>8. CASE AtEnd
    BY <1>1, <1>8, WireUnits DEF AtEnd, TypeOK
  <1>9. CASE InTail
    BY <1>1, <1>2, <1>9 DEF InTail, Place
  <1>10. QED
    BY <1>1, <1>3, <1>4, <1>5, <1>6, <1>7, <1>8, <1>9 DEF Place

LEMMA CloseRefines ==
  ASSUME phase \in Reading => Place, PeerClose
  PROVE  Refined /\ (phase' \in Reading => Place')
  <1>1. /\ ~closed /\ closed' = TRUE
        /\ UNCHANGED <<wire, got, pos, phase, arg, target, delivered, assertions>>
    BY DEF PeerClose
  <1>2. Refined
    <2>1. UNCHANGED <<Cardinality(Arrived), Out, phase \in Reading>>
      BY <1>1 DEF Arrived, Out
    <2>2. QED
      BY <1>1, <2>1, Mapping DEF Refined, Told!FDNext
  <1>3. phase \in Reading => Place'
    BY <1>1 DEF Place, AtHeader, InPlainBody, AfterBlank, AtSizeLine, InChunk, AfterLine, Passed,
                AtEnd, InTail, Arrived
  <1>4. QED
    BY <1>1, <1>2, <1>3

\* Which handler runs depends on where the reader is.
LEMMA HandlerRefines ==
  ASSUME IInv, IInv', FInv, Handler
  PROVE  Refined /\ (phase' \in Reading => Place')
  <1>1. TypeOK /\ TypeOK' /\ WellFramed(wire) /\ (phase \in Reading => Place)
    BY DEF IInv, FInv
  <1>2. CASE HeaderReadComplete
    <2>1. phase = "header" /\ Place
      BY <1>1, <1>2 DEF HeaderReadComplete, Completes, Reading
    <2>2. AtHeader \/ AfterBlank \/ AtEnd \/ InTail
      BY <2>1 DEF Place, InPlainBody, AtSizeLine, InChunk
    <2>3. QED
      BY <1>1, <1>2, <2>2, AtHeaderRefines, AfterBlankRefines, AtEndRefines, InTailRefines
  <1>3. CASE PlainBodyReadComplete
    <2>1. phase = "plainBody" /\ Place
      BY <1>1, <1>3 DEF PlainBodyReadComplete, Completes, Reading
    <2>2. InPlainBody \/ InTail
      BY <2>1 DEF Place, AtHeader, AfterBlank, AtSizeLine, InChunk, AtEnd
    <2>3. QED
      BY <1>1, <1>3, <2>2, InPlainBodyRefines, InTailRefines
  <1>4. CASE ChunkSizeReadComplete
    <2>1. phase = "chunkSize" /\ Place
      BY <1>1, <1>4 DEF ChunkSizeReadComplete, Completes, Reading
    <2>2. AtSizeLine \/ AtEnd
      BY <2>1 DEF Place, AtHeader, AfterBlank, InPlainBody, InChunk, InTail
    <2>3. QED
      BY <1>1, <1>4, <2>2, SizeLineRefines, AtEndRefines
  <1>5. CASE ChunkBodyReadComplete
    <2>1. phase = "chunkBody" /\ Place
      BY <1>1, <1>5 DEF ChunkBodyReadComplete, Completes, Reading
    <2>2. InChunk \/ InTail
      BY <2>1 DEF Place, AtHeader, AfterBlank, InPlainBody, AtSizeLine, AtEnd
    <2>3. QED
      BY <1>1, <1>5, <2>2, InChunkRefines, InTailRefines
  <1>6. CASE LastChunkReadComplete
    <2>1. phase = "lastChunk" /\ Place
      BY <1>1, <1>6 DEF LastChunkReadComplete, Completes, Reading
    <2>2. InTail
      BY <2>1 DEF Place, AtHeader, AfterBlank, InPlainBody, AtSizeLine, InChunk, AtEnd
    <2>3. QED
      BY <1>1, <1>6, <2>2, InTailRefines
  <1>7. QED
    BY <1>2, <1>3, <1>4, <1>5, <1>6 DEF Handler

LEMMA InitRefines ==
  ASSUME Init, WellFramed(wire)
  PROVE  FInv /\ Told!FDInit
  <1>1. phase = "header" /\ pos = 0 /\ delivered = <<>> /\ got = 0 /\ closed = FALSE
    BY DEF Init
  <1>2. FInv
    BY <1>1 DEF FInv, Place, AtHeader
  <1>3. Arrived = {}
    <2>1. 1 .. got = {}
      BY <1>1
    <2>2. QED
      BY <2>1 DEF Arrived, FrameComplete
  <1>4. Cardinality(Arrived) = 0
    BY <1>3, FS_EmptySet
  <1>5. Out = <<>>
    <2>1. DOMAIN delivered = {}
      BY <1>1
    <2>2. QED
      BY <1>1, <2>1 DEF Out
  <1>6. phase \in Reading
    BY <1>1 DEF Reading
  <1>7. QED
    BY <1>1, <1>2, <1>4, <1>5, <1>6 DEF Told!FDInit, Arrived, Out

LEMMA StepRefines ==
  ASSUME IInv, IInv', FInv, [Next]_vars
  PROVE  FInv' /\ Refined /\ UNCHANGED wire
  <1>1. TypeOK /\ TypeOK' /\ (phase \in Reading => Place)
    BY DEF IInv, FInv
  <1>2. CASE UNCHANGED vars
    <2>1. FInv'
      BY <1>2 DEF vars, FInv, Place, AtHeader, InPlainBody, AfterBlank, AtSizeLine, InChunk,
                  AfterLine, Passed, AtEnd, InTail, Arrived
    <2>2. UNCHANGED <<Cardinality(Arrived), Out, closed, phase \in Reading>>
      BY <1>2 DEF vars, Arrived, Out
    <2>3. QED
      BY <1>2, <2>1, <2>2, Mapping DEF Refined, vars
  <1>3. CASE Next
    <2>1. wire' = wire
      BY <1>3 DEF Next, Handler, HeaderReadComplete, PlainBodyReadComplete, ChunkSizeReadComplete,
                  ChunkBodyReadComplete, LastChunkReadComplete, Receive, PeerClose
    <2>2. Refined /\ (phase' \in Reading => Place')
      BY <1>1, <1>3, HandlerRefines, ReceiveRefines, CloseRefines DEF Next
    <2>3. QED
      BY <2>1, <2>2 DEF FInv
  <1>4. QED
    BY <1>2, <1>3

\* On a response that mapping is FD's.
LEMMA SameMapping ==
  ASSUME wire \in Framed
  PROVE  /\ Told!FDInit => FD!FDInit
         /\ UNCHANGED wire /\ Refined => [FD!FDNext]_FD!fdVars
  <1>1. Told!FDInit => FD!FDInit
    BY DEF Told!FDInit, FD!FDInit, Arrived, Out
  <1>2. ASSUME UNCHANGED wire, Refined PROVE [FD!FDNext]_FD!fdVars
    <2>1. CASE UNCHANGED Told!fdVars
      BY <1>2, <2>1 DEF Told!fdVars, FD!fdVars, Arrived, Out
    <2>2. CASE Told!Arrive
      BY <1>2, <2>2 DEF Told!Arrive, FD!FDNext, FD!Arrive, Arrived, Out
    <2>3. CASE Told!Close
      BY <1>2, <2>3 DEF Told!Close, FD!FDNext, FD!Close, Arrived, Out
    <2>4. CASE Told!HandOver
      BY <1>2, <2>4 DEF Told!HandOver, FD!FDNext, FD!HandOver, Arrived, Out
    <2>5. CASE Told!HandOverRest
      BY <1>2, <2>5 DEF Told!HandOverRest, FD!FDNext, FD!HandOverRest, Arrived, Out
    <2>6. CASE Told!Finish
      BY <1>2, <2>6 DEF Told!Finish, FD!FDNext, FD!Finish, Arrived, Out
    <2>7. QED
      BY <1>2, <2>1, <2>2, <2>3, <2>4, <2>5, <2>6 DEF Refined, Told!FDNext
  <1>3. QED
    BY <1>1, <1>2

\* The callbacks are the frames of the response: on a well-framed wire, however the transport
\* cuts it up and wherever the peer closes, every step of the reader is a step that FrameDelivery
\* allows (each frame once, in order, when all of it has arrived; nothing else before the peer
\* has closed; no stop while a complete frame is undelivered), or none that it sees.  Well framed
\* are the chunks whose size and CRLF a size_t holds, and no others.
THEOREM FramesRefined == Spec /\ WellFramed(wire) => FD!FDInit /\ [][FD!FDNext]_FD!fdVars
  <1>1. Init /\ WellFramed(wire) => FInv /\ FD!FDInit
    <2>1. Init /\ WellFramed(wire) => wire \in Framed
      BY DEF Init, Framed
    <2>2. QED
      BY <2>1, InitRefines, SameMapping
  <1>2. IInv /\ IInv' /\ FInv /\ [Next]_vars => FInv' /\ [FD!FDNext]_FD!fdVars
    <2>1. IInv /\ FInv => wire \in Framed
      BY DEF IInv, TypeOK, FInv, Framed
    <2>2. QED
      BY <2>1, StepRefines, SameMapping
  <1>3. Spec => []IInv
    BY Invariance
  <1>4. QED
    BY <1>1, <1>2, <1>3, PTL DEF Spec

=============================================================================
