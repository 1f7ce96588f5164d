----------------------------- MODULE TextProofs -----------------------------
(***************************************************************************)
(* What TLAPS proves of Conversion, for every set of texts and every size  *)
(* of the buffer, of JsonEscape, for every set of escapes, and of          *)
(* Encoding, for every set of requests.                                    *)
(*                                                                         *)
(* Conversion's inductive invariant measures the text twice, in the bytes  *)
(* that its beginnings have in the input (Taken) and in those that they    *)
(* come to in the output (Spent).  A state belongs to one character, the   *)
(* last that has been begun.  From a narrow string, whatever is lost by    *)
(* then is further apart than a buffer, and the buffer holds no more than  *)
(* what has been spent since the last loss; with a text that fits into the *)
(* buffer nothing is lost, since a pass never has more in its buffer than  *)
(* what the whole text came to.                                            *)
(*                                                                         *)
(* JsonEscape takes one step.  What is to prove is that the loop of        *)
(* ucn_to_utf8 ends, that its bytes are those of the definition of UTF-8   *)
(* for every code it does not cut short, and that the others have fewer    *)
(* bytes than the first of them announces.                                 *)
(*                                                                         *)
(* Encoding's inductive invariant has parameters, message and wire follow  *)
(* from one set of signed parameters.  Under it, each reading of a text is *)
(* traced to its writing: a byte that joins pieces is in none of them, so  *)
(* that the text splits where it was joined; an escape is read where it    *)
(* stands, whatever follows; a group of base64 gives its three bytes back. *)
(***************************************************************************)
EXTENDS Conversion, JsonEscape, Encoding, Induction, FiniteSetTheorems, TLAPS

-----------------------------------------------------------------------------
(* Sums. *)

\* Sums(w)[n] is what the first n of w come to.
Sums(w) == LET sum[i \in 0 .. Len(w)] == IF i = 0 THEN 0 ELSE sum[i - 1] + w[i] IN sum

LEMMA SumsAre ==
  ASSUME NEW w \in Seq(Nat)
  PROVE  /\ Sums(w) \in [0 .. Len(w) -> Nat]
         /\ Sums(w)[0] = 0
         /\ \A i \in 1 .. Len(w) : Sums(w)[i] = Sums(w)[i - 1] + w[i]
  <1> DEFINE step == [x \in Nat |-> [a \in Nat |-> a + x]]
             Steps(f) == f = [i \in 0 .. Len(w) |-> IF i = 0 THEN 0 ELSE f[i - 1] + w[i]]
  <1>1. step \in [Nat -> [Nat -> Nat]]
    OBVIOUS
  <1>2. \A x, a \in Nat : step[x][a] = a + x
    OBVIOUS
  <1> HIDE DEF step
  <1>3. PICK f \in [0 .. Len(w) -> Nat] : Runs(f, step, 0, w)
    BY <1>1, RunExists
  <1>4. \A i \in 0 .. Len(w) : f[i] = IF i = 0 THEN 0 ELSE step[w[i]][f[i - 1]]
    BY <1>3, Zenon DEF Runs
  <1>5. ASSUME NEW i \in 0 .. Len(w) PROVE f[i] = IF i = 0 THEN 0 ELSE f[i - 1] + w[i]
    <2>1. CASE i # 0
      <3>1. f[i - 1] \in Nat /\ w[i] \in Nat
        BY <2>1, SMTT(30)
      <3>2. QED
        BY <1>2, <1>4, <2>1, <3>1
    <2>2. QED
      BY <1>4, <2>1
  <1>6. Steps(f)
    <2>1. f = [i \in 0 .. Len(w) |-> f[i]]
      OBVIOUS
    <2>2. QED
      BY <1>5, <2>1, Zenon
  <1> DEFINE g == CHOOSE h : Steps(h)
  <1>7. Steps(g)
    BY <1>6, Zenon
  <1>8. Sums(w) = g
    BY Zenon DEF Sums
  <1> HIDE DEF g
  <1>9. \A i \in 0 .. Len(w) : g[i] = IF i = 0 THEN 0 ELSE g[i - 1] + w[i]
    BY <1>7, Zenon
  <1> DEFINE G == {i \in Nat : i <= Len(w) => g[i] \in Nat}
  <1>10. 0 \in G
    BY <1>9
  <1>11. ASSUME NEW i \in G PROVE i + 1 \in G
    <2> SUFFICES ASSUME i + 1 <= Len(w) PROVE g[i + 1] \in Nat
      OBVIOUS
    <2>1. i + 1 \in 0 .. Len(w) /\ i + 1 # 0 /\ (i + 1) - 1 = i /\ w[i + 1] \in Nat /\ g[i] \in Nat
      OBVIOUS
    <2>2. g[i + 1] = g[i] + w[i + 1]
      BY <1>9, <2>1
    <2>3. QED
      BY <2>1, <2>2
  <1>12. G = Nat
    <2>1. G \in SUBSET Nat
      OBVIOUS
    <2> HIDE DEF G
    <2>2. QED
      BY <1>10, <1>11, <2>1, NatSetInduction
  <1>13. g \in [0 .. Len(w) -> Nat]
    <2>1. \A i \in 0 .. Len(w) : g[i] \in Nat
      BY <1>12
    <2>2. g = [i \in 0 .. Len(w) |-> g[i]]
      BY <1>7
    <2>3. QED
      BY <2>1, <2>2
  <1>14. QED
    BY <1>8, <1>9, <1>13

LEMMA SumsGrow ==
  ASSUME NEW w \in Seq(Nat), NEW i \in 0 .. Len(w), NEW j \in 0 .. Len(w), i <= j
  PROVE  Sums(w)[i] <= Sums(w)[j]
  <1> DEFINE f == Sums(w)
             G == {k \in Nat : i + k <= Len(w) => f[i] <= f[i + k]}
  <1>1. f \in [0 .. Len(w) -> Nat] /\ \A k \in 1 .. Len(w) : f[k] = f[k - 1] + w[k]
    BY SumsAre
  <1> HIDE DEF f
  <1>2. 0 \in G
    BY <1>1
  <1>3. ASSUME NEW k \in G PROVE k + 1 \in G
    <2> SUFFICES ASSUME i + (k + 1) <= Len(w) PROVE f[i] <= f[i + (k + 1)]
      OBVIOUS
    <2> DEFINE m == i + (k + 1)
    <2>1. m \in 1 .. Len(w) /\ m - 1 = i + k /\ m - 1 \in 0 .. Len(w) /\ f[i] <= f[m - 1]
      OBVIOUS
    <2> HIDE DEF m
    <2>2. f[m] = f[m - 1] + w[m] /\ w[m] \in Nat
      BY <1>1, <2>1
    <2>3. f[i] \in Nat /\ f[m - 1] \in Nat
      BY <1>1, <2>1
    <2>4. f[i] <= f[m]
      BY <2>1, <2>2, <2>3, SMTT(30)
    <2>5. QED
      BY <2>4 DEF m
  <1>4. G = Nat
    <2>1. G \in SUBSET Nat
      OBVIOUS
    <2> HIDE DEF G
    <2>2. QED
      BY <1>2, <1>3, <2>1, NatSetInduction
  <1>5. j - i \in Nat /\ i + (j - i) = j
    OBVIOUS
  <1>6. i + (j - i) <= Len(w) => f[i] <= f[i + (j - i)]
    <2>1. j - i \in G
      <3> HIDE DEF G
      <3>1. QED
        BY <1>4, <1>5
    <2>2. QED
      BY <2>1
  <1>7. QED
    BY <1>5, <1>6 DEF f

\* Where the parts of a sequence are in the whole of it.
LEMMA FlattenPlaces ==
  ASSUME NEW T, NEW ss \in Seq(Seq(T)), NEW w \in Seq(Nat), Len(w) = Len(ss),
         \A i \in 1 .. Len(ss) : w[i] = Len(ss[i])
  PROVE  /\ FlattenSeq(ss) \in Seq(T) /\ Len(FlattenSeq(ss)) = Sums(w)[Len(ss)]
         /\ \A i \in 1 .. Len(ss) : \A k \in 1 .. w[i] :
              FlattenSeq(ss)[Sums(w)[i - 1] + k] = ss[i][k]
  <1> DEFINE Q == Seq(T)
             e == <<>>
             glue == Glue(T)
             N == Len(ss)
             at == Sums(w)
  <1>1. e \in Q /\ ss \in Seq(Q) /\ N \in Nat /\ \A i \in 1 .. N : ss[i] \in Seq(T)
    OBVIOUS
  <1>2. glue \in [Q -> [Q -> Q]] /\ FlattenSeq(ss) = After(glue, e, ss)
    BY GlueIs, FlattenIs, Zenon
  <1>3. PICK f \in [0 .. N -> Q] : Runs(f, glue, e, ss)
    <2> HIDE DEF Q, e, glue
    <2>1. QED
      BY <1>1, <1>2, RunExists
  <1>4. f[N] = FlattenSeq(ss)
    <2> HIDE DEF Q, e, glue
    <2>1. QED
      BY <1>1, <1>2, <1>3, RunEndsAfter
  <1>5. /\ at \in [0 .. N -> Nat] /\ at[0] = 0
        /\ \A i \in 1 .. N : at[i] = at[i - 1] + w[i]
    BY SumsAre
  <1> HIDE DEF at
  <1>6. \A i \in 0 .. N : f[i] = IF i = 0 THEN e ELSE glue[ss[i]][f[i - 1]]
    BY <1>3, Zenon DEF Runs
  <1>7. f[0] = <<>>
    BY <1>1, <1>6
  <1>8. ASSUME NEW i \in 1 .. N PROVE f[i] = f[i - 1] \o ss[i]
    <2>1. i \in 0 .. N /\ i # 0 /\ f[i - 1] \in Seq(T) /\ ss[i] \in Seq(T)
      <3>1. i \in 0 .. N /\ i - 1 \in 0 .. N /\ i # 0
        BY <1>1
      <3>2. QED
        BY <1>1, <3>1
    <2> HIDE DEF Q, e
    <2>2. glue[ss[i]][f[i - 1]] = f[i - 1] \o ss[i]
      BY <2>1, GlueIs, Zenon
    <2> HIDE DEF glue
    <2>3. QED
      BY <1>6, <2>1, <2>2
  <1> DEFINE Has(i) == \A j \in 1 .. i : \A k \in 1 .. w[j] : f[i][at[j - 1] + k] = ss[j][k]
             G == {i \in Nat : i <= N => Len(f[i]) = at[i] /\ Has(i)}
  <1>9. 0 \in G
    BY <1>5, <1>7
  <1>10. ASSUME NEW i \in G PROVE i + 1 \in G
    <2> SUFFICES ASSUME i + 1 <= N PROVE Len(f[i + 1]) = at[i + 1] /\ Has(i + 1)
      OBVIOUS
    <2> DEFINE m == i + 1
    <2>1. /\ m \in 1 .. N /\ m - 1 = i /\ i \in 0 .. N /\ f[i] \in Seq(T) /\ ss[m] \in Seq(T)
          /\ Len(f[i]) = at[i]
      <3>1. i \in Nat /\ (i <= N => Len(f[i]) = at[i])
        OBVIOUS
      <3> HIDE DEF G, Has, Q
      <3>2. m \in 1 .. N /\ m - 1 = i /\ i \in 0 .. N /\ i <= N
        BY <1>1, <3>1, SMT
      <3>3. f[i] \in Q /\ ss[m] \in Seq(T)
        BY <1>1, <3>2, Zenon
      <3>4. QED
        BY <3>1, <3>2, <3>3 DEF Q
    <2>2. Has(i)
      <3> HIDE DEF Has
      <3>1. i \in Nat /\ (i <= N => Has(i))
        OBVIOUS
      <3>2. QED
        BY <1>1, <3>1, SMT
    <2> HIDE DEF G
    <2>3. f[m] = f[i] \o ss[m] /\ at[m] = at[i] + w[m] /\ w[m] = Len(ss[m])
      <3> HIDE DEF m, Has, Q
      <3>1. QED
        BY <1>5, <1>8, <2>1
    <2>4. /\ Len(f[m]) = Len(f[i]) + Len(ss[m])
          /\ \A k \in 1 .. Len(f[i]) : f[m][k] = f[i][k]
          /\ \A k \in 1 .. Len(ss[m]) : f[m][Len(f[i]) + k] = ss[m][k]
      <3> DEFINE a == f[i]
                 b == ss[m]
      <3>1. a \in Seq(T) /\ b \in Seq(T) /\ f[m] = a \o b
        BY <2>1, <2>3
      <3> HIDE DEF m, Has, Q, a, b
      <3>2. /\ Len(a \o b) = Len(a) + Len(b)
            /\ \A k \in 1 .. Len(a) : (a \o b)[k] = a[k]
            /\ \A k \in 1 .. Len(b) : (a \o b)[Len(a) + k] = b[k]
        BY <3>1
      <3>3. QED
        BY <3>1, <3>2 DEF a, b
    <2>5. ASSUME NEW j \in 1 .. m, NEW k \in 1 .. w[j] PROVE f[m][at[j - 1] + k] = ss[j][k]
      <3>1. CASE j = m
        <4> HIDE DEF m, Has, Q
        <4>1. k \in 1 .. Len(ss[m]) /\ at[j - 1] = Len(f[i])
          BY <2>1, <2>3, <3>1
        <4>2. QED
          BY <2>4, <3>1, <4>1
      <3>2. CASE j # m
        <4>1. j \in 1 .. i /\ j \in 1 .. N /\ j - 1 \in 0 .. N /\ j \in 0 .. N /\ j <= i
              /\ i \in 0 .. Len(w) /\ j \in 0 .. Len(w)
          BY <2>1, <3>2
        <4>2. f[i][at[j - 1] + k] = ss[j][k]
          BY <2>2, <4>1
        <4>3. at[j] = at[j - 1] + w[j] /\ at[j] <= at[i] /\ at[j - 1] \in Nat /\ at[i] \in Nat
              /\ w[j] \in Nat
          <5> HIDE DEF m, Has, Q
          <5>1. at[j] <= at[i]
            BY <4>1, SumsGrow DEF at
          <5>2. w[j] \in Nat
            BY <4>1
          <5>3. QED
            BY <1>5, <4>1, <5>1, <5>2
        <4> HIDE DEF m, Has, Q
        <4>4. at[j - 1] + k \in 1 .. Len(f[i])
          <5> DEFINE p == at[j - 1]
                     v == w[j]
                     q == at[i]
          <5>1. p \in Nat /\ v \in Nat /\ q \in Nat /\ p + v <= q /\ k \in 1 .. v
            BY <4>3
          <5>2. Len(f[i]) = q
            BY <2>1
          <5> HIDE DEF p, v, q
          <5>3. p + k \in 1 .. q
            BY <5>1
          <5>4. QED
            BY <5>2, <5>3 DEF p
        <4>5. QED
          BY <2>4, <4>2, <4>4
      <3>3. QED
        BY <3>1, <3>2
    <2>6. Len(f[m]) = at[m] /\ Has(m)
      BY <2>1, <2>3, <2>4, <2>5
    <2> HIDE DEF Has
    <2>7. QED
      BY <2>6
  <1>11. G = Nat
    <2>1. G \in SUBSET Nat
      OBVIOUS
    <2> HIDE DEF G
    <2>2. QED
      BY <1>9, <1>10, <2>1, NatSetInduction
  <1>12. Len(f[N]) = at[N] /\ Has(N)
    <2>1. N \in G
      <3> HIDE DEF G
      <3>1. QED
        BY <1>1, <1>11
    <2> HIDE DEF Has
    <2>2. QED
      BY <1>1, <2>1
  <1>13. f[N] \in Seq(T)
    BY <1>1
  <1> HIDE DEF Q, G
  <1>14. QED
    BY <1>4, <1>12, <1>13 DEF at

-----------------------------------------------------------------------------
(* What the text measures in the input and in the output. *)

Sizes == [i \in DOMAIN text |-> SizeIn(from, text[i])]

Costs == [i \in DOMAIN text |-> IF text[i].valid THEN SizeIn(to, text[i]) ELSE 0]

\* The bytes of the first characters in the input, and what those that can be converted come
\* to in the output.
Taken == Sums(Sizes)

Spent == Sums(Costs)

Valid == {i \in DOMAIN text : text[i].valid}

LEMMA TextType ==
  ASSUME text \in Texts
  PROVE  /\ text \in Seq(Character) /\ Len(text) \in Nat /\ DOMAIN text = 1 .. Len(text)
         /\ \A i \in 1 .. Len(text) : text[i] \in Character
  BY ConversionAssumption

LEMMA SizeType ==
  ASSUME NEW c \in Character, NEW enc
  PROVE  SizeIn(enc, c) \in 1 .. 4
  BY DEF SizeIn, WideSize, Character

LEMMA SizesAre ==
  ASSUME text \in Texts
  PROVE  /\ Sizes \in Seq(Nat) /\ Len(Sizes) = Len(text)
         /\ \A i \in 1 .. Len(text) : Sizes[i] = SizeIn(from, text[i])
         /\ Costs \in Seq(Nat) /\ Len(Costs) = Len(text)
         /\ \A i \in 1 .. Len(text) :
              Costs[i] = IF text[i].valid THEN SizeIn(to, text[i]) ELSE 0
  <1> DEFINE N == Len(text)
             S == Sizes
             C == Costs
  <1>1. ASSUME NEW i \in 1 .. N PROVE SizeIn(from, text[i]) \in Nat /\ SizeIn(to, text[i]) \in Nat
    <2>1. SizeIn(from, text[i]) \in 1 .. 4 /\ SizeIn(to, text[i]) \in 1 .. 4
      BY TextType, SizeType, Zenon
    <2>2. QED
      BY <2>1
  <1>2. /\ S = [i \in 1 .. N |-> SizeIn(from, text[i])]
        /\ C = [i \in 1 .. N |-> IF text[i].valid THEN SizeIn(to, text[i]) ELSE 0]
    BY TextType, Zenon DEF Sizes, Costs
  <1>3. N \in Nat
    BY TextType
  <1> HIDE DEF N, S, C
  <1>4. S \in [1 .. N -> Nat] /\ C \in [1 .. N -> Nat]
    BY <1>1, <1>2
  <1>5. /\ S \in Seq(Nat) /\ Len(S) = N
        /\ C \in Seq(Nat) /\ Len(C) = N
    BY <1>3, <1>4, FunctionIsSeq
  <1>6. QED
    BY <1>2, <1>5 DEF N, S, C

LEMMA Measures ==
  ASSUME text \in Texts
  PROVE  /\ Taken \in [0 .. Len(text) -> Nat] /\ Taken[0] = 0
         /\ \A i \in 1 .. Len(text) : Taken[i] = Taken[i - 1] + SizeIn(from, text[i])
         /\ Spent \in [0 .. Len(text) -> Nat] /\ Spent[0] = 0
         /\ \A i \in 1 .. Len(text) :
              Spent[i] = Spent[i - 1] + (IF text[i].valid THEN SizeIn(to, text[i]) ELSE 0)
  <1> DEFINE S == Sizes
             C == Costs
  <1>1. /\ S \in Seq(Nat) /\ Len(S) = Len(text)
        /\ C \in Seq(Nat) /\ Len(C) = Len(text)
        /\ \A i \in 1 .. Len(text) : S[i] = SizeIn(from, text[i])
        /\ \A i \in 1 .. Len(text) : C[i] = IF text[i].valid THEN SizeIn(to, text[i]) ELSE 0
    BY SizesAre, Zenon
  <1>2. Taken = Sums(S) /\ Spent = Sums(C)
    BY DEF Taken, Spent
  <1> HIDE DEF S, C
  <1>3. /\ Taken \in [0 .. Len(text) -> Nat] /\ Taken[0] = 0
        /\ \A i \in 1 .. Len(text) : Taken[i] = Taken[i - 1] + S[i]
    BY <1>1, <1>2, SumsAre
  <1>4. /\ Spent \in [0 .. Len(text) -> Nat] /\ Spent[0] = 0
        /\ \A i \in 1 .. Len(text) : Spent[i] = Spent[i - 1] + C[i]
    BY <1>1, <1>2, SumsAre
  <1>5. QED
    BY <1>1, <1>3, <1>4, Zenon

LEMMA MeasuresGrow ==
  ASSUME text \in Texts, NEW i \in 0 .. Len(text), NEW j \in 0 .. Len(text), i <= j
  PROVE  /\ Taken[i] \in Nat /\ Taken[j] \in Nat /\ Taken[i] <= Taken[j]
         /\ i < j => Taken[i] < Taken[j]
         /\ Spent[i] \in Nat /\ Spent[j] \in Nat /\ Spent[i] <= Spent[j]
  <1> DEFINE S == Sizes
             C == Costs
  <1>1. /\ S \in Seq(Nat) /\ Len(S) = Len(text)
        /\ C \in Seq(Nat) /\ Len(C) = Len(text)
    BY SizesAre, Zenon
  <1>2. Taken = Sums(S) /\ Spent = Sums(C)
    BY DEF Taken, Spent
  <1> HIDE DEF S, C
  <1>3. Taken[i] <= Taken[j] /\ Spent[i] <= Spent[j]
    BY <1>1, <1>2, SumsGrow
  <1>4. Taken[i] \in Nat /\ Taken[j] \in Nat /\ Spent[i] \in Nat /\ Spent[j] \in Nat
    BY Measures
  <1>5. ASSUME i < j PROVE Taken[i] < Taken[j]
    <2>1. i + 1 \in 1 .. Len(text) /\ (i + 1) - 1 = i /\ i + 1 \in 0 .. Len(text) /\ i + 1 <= j
      BY <1>5, TextType
    <2> DEFINE k == i + 1
    <2>2. k \in 1 .. Len(text) /\ k - 1 = i /\ k \in 0 .. Len(text) /\ k <= j
      BY <2>1
    <2> HIDE DEF k
    <2>3. Taken[k] = Taken[i] + SizeIn(from, text[k]) /\ Taken[k] \in Nat
      BY <2>2, Measures
    <2>4. Taken[k] <= Taken[j]
      BY <1>1, <1>2, <2>2, SumsGrow
    <2>5. SizeIn(from, text[k]) \in 1 .. 4
      BY <2>2, TextType, SizeType
    <2>6. QED
      BY <1>4, <2>3, <2>4, <2>5, SMTT(30)
  <1>6. QED
    BY <1>3, <1>4, <1>5

\* Where the bytes of each character are.
LEMMA BytesAre ==
  ASSUME text \in Texts
  PROVE  /\ Len(Bytes) = Taken[Len(text)]
         /\ \A i \in 1 .. Len(text) : \A k \in 1 .. SizeIn(from, text[i]) :
              Bytes[Taken[i - 1] + k] = [char |-> i, place |-> k]
  <1> DEFINE N == Len(text)
             T == [char : Nat, place : Nat]
             piece(i) == [k \in 1 .. SizeIn(from, text[i]) |-> [char |-> i, place |-> k]]
             ss == [i \in 1 .. N |-> piece(i)]
             w == Sizes
  <1>1. /\ w \in Seq(Nat) /\ Len(w) = N /\ N \in Nat
        /\ \A i \in 1 .. N : w[i] = SizeIn(from, text[i])
    BY SizesAre, TextType, Zenon
  <1>2. Bytes = FlattenSeq(ss) /\ Taken = Sums(w)
    BY TextType, Zenon DEF Bytes, Taken
  <1> HIDE DEF w
  <1>3. ASSUME NEW i \in 1 .. N
        PROVE  /\ piece(i) \in Seq(T) /\ Len(piece(i)) = w[i]
               /\ \A k \in 1 .. w[i] : piece(i)[k] = [char |-> i, place |-> k]
    <2> DEFINE n == SizeIn(from, text[i])
    <2>1. n \in Nat /\ n = w[i]
      BY <1>1
    <2> HIDE DEF n
    <2>2. \A k \in 1 .. n : [char |-> i, place |-> k] \in T
      BY <1>1, <2>1
    <2>3. piece(i) = [k \in 1 .. n |-> [char |-> i, place |-> k]]
      BY DEF n
    <2> HIDE DEF piece, T
    <2>4. piece(i) \in [1 .. n -> T]
      BY <2>2, <2>3
    <2>5. QED
      BY <2>1, <2>3, <2>4, FunctionIsSeq
  <1> HIDE DEF N, T, piece
  <1>4. ss \in Seq(Seq(T)) /\ Len(ss) = N /\ \A i \in 1 .. N : ss[i] = piece(i)
    <2>1. ss \in [1 .. N -> Seq(T)]
      BY <1>3
    <2>2. ss \in Seq(Seq(T)) /\ Len(ss) = N
      BY <1>1, <2>1, FunctionIsSeq
    <2>3. QED
      BY <2>2
  <1> HIDE DEF ss
  <1>5. \A i \in 1 .. Len(ss) : w[i] = Len(ss[i])
    BY <1>3, <1>4
  <1>6. /\ Len(FlattenSeq(ss)) = Sums(w)[N]
        /\ \A i \in 1 .. N : \A k \in 1 .. w[i] : FlattenSeq(ss)[Sums(w)[i - 1] + k] = ss[i][k]
    <2>1. Len(w) = Len(ss)
      BY <1>1, <1>4
    <2>2. /\ Len(FlattenSeq(ss)) = Sums(w)[Len(ss)]
          /\ \A i \in 1 .. Len(ss) : \A k \in 1 .. w[i] :
               FlattenSeq(ss)[Sums(w)[i - 1] + k] = ss[i][k]
      BY <1>1, <1>4, <1>5, <2>1, FlattenPlaces
    <2>3. QED
      BY <1>4, <2>2
  <1>7. ASSUME NEW i \in 1 .. N, NEW k \in 1 .. SizeIn(from, text[i])
        PROVE  Bytes[Taken[i - 1] + k] = [char |-> i, place |-> k]
    <2>1. k \in 1 .. w[i] /\ ss[i] = piece(i)
      BY <1>1, <1>4, <1>7
    <2>2. FlattenSeq(ss)[Sums(w)[i - 1] + k] = ss[i][k]
      BY <1>6, <2>1
    <2>3. piece(i)[k] = [char |-> i, place |-> k]
      BY <1>3, <2>1
    <2>4. QED
      BY <1>2, <2>1, <2>2, <2>3, Zenon
  <1>8. QED
    BY <1>2, <1>6, <1>7 DEF N

\* What Cost counts from one character to another is the difference of what was spent.
LEMMA CostIs ==
  ASSUME text \in Texts, NEW i \in 1 .. Len(text) + 1, NEW j \in 0 .. Len(text), i <= j + 1
  PROVE  Cost(i, j) = Spent[j] - Spent[i - 1]
  <1> DEFINE add(k) == IF text[k].valid THEN SizeIn(to, text[k]) ELSE 0
             Steps(f) == f = [k \in i - 1 .. j |-> IF k = i - 1 THEN 0 ELSE f[k - 1] + add(k)]
             h == [k \in i - 1 .. j |-> Spent[k] - Spent[i - 1]]
             g == CHOOSE f : Steps(f)
  <1>1. /\ Spent \in [0 .. Len(text) -> Nat]
        /\ \A k \in 1 .. Len(text) : Spent[k] = Spent[k - 1] + add(k)
        /\ Len(text) \in Nat
    BY Measures, TextType
  <1>2. ASSUME NEW k \in 1 .. Len(text) PROVE add(k) \in Nat
    <2>1. SizeIn(to, text[k]) \in 1 .. 4
      BY TextType, SizeType
    <2>2. QED
      BY <2>1
  <1> HIDE DEF add
  <1>3. ASSUME NEW k \in i - 1 .. j PROVE h[k] = IF k = i - 1 THEN 0 ELSE h[k - 1] + add(k)
    <2>1. CASE k = i - 1
      BY <1>1, <2>1, SMTT(30)
    <2>2. CASE k # i - 1
      <3>1. k \in 1 .. Len(text) /\ k - 1 \in i - 1 .. j /\ k - 1 \in 0 .. Len(text)
            /\ i - 1 \in 0 .. Len(text)
        BY <2>2, <1>1
      <3>2. h[k] = Spent[k] - Spent[i - 1] /\ h[k - 1] = Spent[k - 1] - Spent[i - 1]
        BY <3>1
      <3> HIDE DEF h
      <3>3. Spent[k] = Spent[k - 1] + add(k) /\ add(k) \in Nat
            /\ Spent[k - 1] \in Nat /\ Spent[i - 1] \in Nat
        BY <1>1, <1>2, <3>1
      <3>4. QED
        BY <2>2, <3>2, <3>3, SMTT(30)
    <2>3. QED
      BY <2>1, <2>2
  <1>4. Steps(h)
    <2>1. h = [k \in i - 1 .. j |-> h[k]]
      OBVIOUS
    <2> HIDE DEF h
    <2>2. QED
      BY <1>3, <2>1, Zenon
  <1>5. Steps(g)
    <2> HIDE DEF h
    <2>1. QED
      BY <1>4, Zenon
  <1>6. Cost(i, j) = IF j < i THEN 0 ELSE g[j]
    BY Zenon DEF Cost, add
  <1> HIDE DEF g
  <1>7. \A k \in i - 1 .. j : g[k] = IF k = i - 1 THEN 0 ELSE g[k - 1] + add(k)
    BY <1>5, Zenon
  <1> HIDE DEF h
  <1> DEFINE G == {n \in Nat : (i - 1) + n <= j => g[(i - 1) + n] = h[(i - 1) + n]}
  <1>8. 0 \in G
    <2>1. i - 1 \in i - 1 .. j /\ (i - 1) + 0 = i - 1
      OBVIOUS
    <2>2. QED
      BY <1>3, <1>7, <2>1
  <1>9. ASSUME NEW n \in G PROVE n + 1 \in G
    <2> SUFFICES ASSUME (i - 1) + (n + 1) <= j
                 PROVE  g[(i - 1) + (n + 1)] = h[(i - 1) + (n + 1)]
      OBVIOUS
    <2> DEFINE k == (i - 1) + (n + 1)
    <2>1. k \in i - 1 .. j /\ k # i - 1 /\ k - 1 = (i - 1) + n /\ g[k - 1] = h[k - 1]
      OBVIOUS
    <2> HIDE DEF k
    <2>2. g[k] = h[k]
      BY <1>3, <1>7, <2>1
    <2>3. QED
      BY <2>2 DEF k
  <1>10. G = Nat
    <2>1. G \in SUBSET Nat
      OBVIOUS
    <2> HIDE DEF G
    <2>2. QED
      BY <1>8, <1>9, <2>1, NatSetInduction
  <1>11. g[j] = h[j]
    <2>1. j - (i - 1) \in Nat /\ (i - 1) + (j - (i - 1)) = j
      OBVIOUS
    <2>2. j - (i - 1) \in G
      <3> HIDE DEF G
      <3>1. QED
        BY <1>10, <2>1
    <2>3. QED
      BY <2>1, <2>2
  <1>12. h[j] = Spent[j] - Spent[i - 1]
    BY DEF h
  <1>13. CASE j < i
    <2>1. j = i - 1 /\ Spent[j] \in Nat
      BY <1>1, <1>13
    <2>2. QED
      BY <1>6, <1>13, <2>1
  <1>14. QED
    BY <1>6, <1>11, <1>12, <1>13

-----------------------------------------------------------------------------
(* The inductive invariant. *)

TypeOK ==
  /\ text \in Texts
  /\ from \in {"narrow", "wide"} /\ to \in {"narrow", "wide"}
  /\ from = "wide" => \A i \in DOMAIN text : text[i].valid
  /\ inbuf \in Nat /\ inbuf <= Len(Bytes)
  /\ outbuf \in Nat
  /\ ret \in Seq(Nat)
  /\ done \in BOOLEAN
  /\ done => inbuf = Len(Bytes)

\* m is the last character that has been begun.
Begun(m) == inbuf <= Taken[m] /\ (m > 0 => Taken[m - 1] < inbuf)

LostBy(m) == {i \in 1 .. m : text[i].valid /\ ~Contains(ret, i)}

InOrder(m) == /\ \A i \in DOMAIN ret : ret[i] \in 1 .. m
              /\ \A i, j \in DOMAIN ret : i < j => ret[i] < ret[j]

FarApart(m) ==
  /\ \A j \in LostBy(m) : \A i \in LostBy(m) \cup {0} : i < j => Spent[j] - Spent[i] > Buffer
  /\ \A i \in LostBy(m) \cup {0} : outbuf <= Spent[m] - Spent[i]

Exact(m) ==
  /\ inbuf = Taken[m] \/ ~text[m].valid
  /\ outbuf <= Spent[m]
  /\ ret = Select([i \in 1 .. m |-> i], Valid)

Short == Spent[Len(text)] <= Buffer

Progress ==
  from = "narrow" \/ Short =>
    \E m \in 0 .. Len(text) : /\ Begun(m)
                              /\ from = "narrow" => InOrder(m) /\ FarApart(m)
                              /\ Short => Exact(m)

IInv == TypeOK /\ Progress

-----------------------------------------------------------------------------
(* What a step reads. *)

LEMMA SomeBegun ==
  ASSUME text \in Texts, inbuf \in Nat, inbuf <= Len(Bytes)
  PROVE  \E m \in 0 .. Len(text) : Begun(m)
  <1> DEFINE N == Len(text)
             D == {m \in 0 .. N : inbuf <= Taken[m]}
  <1>1. N \in Nat /\ Taken \in [0 .. N -> Nat] /\ Len(Bytes) = Taken[N]
    BY Measures, TextType, BytesAre
  <1>2. D \in SUBSET Nat /\ D # {}
    <2>1. N \in D
      BY <1>1
    <2>2. QED
      BY <2>1
  <1>3. PICK m \in D : \A k \in D : m <= k
    <2> HIDE DEF D
    <2>1. QED
      BY <1>2, LeastNumber
  <1>4. ASSUME m > 0 PROVE Taken[m - 1] < inbuf
    <2>1. m - 1 \in 0 .. N /\ m - 1 \notin D
      BY <1>1, <1>3, <1>4
    <2>2. Taken[m - 1] \in Nat
      BY <1>1, <2>1
    <2>3. QED
      BY <2>1, <2>2
  <1>5. QED
    BY <1>3, <1>4 DEF Begun

\* The next byte is the first of the next character, or one inside the character begun.
LEMMA NextByte ==
  ASSUME text \in Texts, inbuf \in Nat, inbuf < Len(Bytes), NEW m \in 0 .. Len(text), Begun(m)
  PROVE  /\ inbuf = Taken[m] => /\ m + 1 \in 1 .. Len(text)
                                /\ Here = [char |-> m + 1, place |-> 1]
         /\ inbuf # Taken[m] => /\ m \in 1 .. Len(text) /\ inbuf < Taken[m]
                                /\ Here.char = m /\ Here.place # 1
  <1> DEFINE N == Len(text)
             size(i) == SizeIn(from, text[i])
  <1>1. /\ Taken \in [0 .. N -> Nat] /\ Taken[0] = 0 /\ N \in Nat
        /\ \A i \in 1 .. N : Taken[i] = Taken[i - 1] + size(i)
    BY Measures, TextType
  <1>2. \A i \in 1 .. N : size(i) \in 1 .. 4
    BY TextType, SizeType
  <1>3. /\ Len(Bytes) = Taken[N]
        /\ \A i \in 1 .. N : \A k \in 1 .. size(i) :
             Bytes[Taken[i - 1] + k] = [char |-> i, place |-> k]
    BY BytesAre, Zenon
  <1>4. Here = Bytes[inbuf + 1]
    BY DEF Here
  <1>5. inbuf <= Taken[m] /\ (m > 0 => Taken[m - 1] < inbuf) /\ Taken[m] \in Nat
    BY <1>1 DEF Begun
  <1> HIDE DEF size, N
  <1>6. CASE inbuf = Taken[m]
    <2> DEFINE i == m + 1
    <2>1. m # N
      BY <1>3, <1>6
    <2>2. i \in 1 .. N /\ i - 1 = m
      BY <1>1, <2>1 DEF N
    <2> HIDE DEF i
    <2>3. 1 \in 1 .. size(i)
      BY <1>2, <2>2
    <2>4. Bytes[Taken[m] + 1] = [char |-> i, place |-> 1]
      BY <1>3, <2>2, <2>3
    <2>5. QED
      BY <1>4, <1>6, <2>2, <2>4 DEF i, N
  <1>7. CASE inbuf # Taken[m]
    <2>1. m > 0 /\ inbuf < Taken[m]
      BY <1>1, <1>5, <1>7
    <2>2. m \in 1 .. N /\ m - 1 \in 0 .. N
      BY <1>1, <2>1 DEF N
    <2>3. Taken[m] = Taken[m - 1] + size(m) /\ Taken[m - 1] \in Nat /\ size(m) \in 1 .. 4
          /\ Taken[m - 1] < inbuf
      BY <1>1, <1>2, <1>5, <2>1, <2>2
    <2> DEFINE p == Taken[m - 1]
               k == (inbuf + 1) - p
    <2>4. k \in 1 .. size(m) /\ k # 1 /\ p + k = inbuf + 1
      <3> DEFINE q == size(m)
      <3>1. p \in Nat /\ q \in 1 .. 4 /\ Taken[m] = p + q /\ p < inbuf
        BY <2>3
      <3> HIDE DEF p, q
      <3>2. k \in 1 .. q /\ k # 1 /\ p + k = inbuf + 1
        BY <2>1, <3>1
      <3>3. QED
        BY <3>2 DEF q
    <2> HIDE DEF k
    <2>5. Bytes[p + k] = [char |-> m, place |-> k]
      BY <1>3, <2>2, <2>4
    <2>6. Here = [char |-> m, place |-> k]
      BY <1>4, <2>4, <2>5
    <2>7. QED
      BY <1>7, <2>1, <2>2, <2>4, <2>6 DEF N
  <1>8. QED
    BY <1>6, <1>7

\* Where AtCharacter holds, the next character is a valid one and its bytes are all to come.
LEMMA AtNext ==
  ASSUME TypeOK, AtCharacter
  PROVE  /\ Here.char \in 1 .. Len(text) /\ Here.char - 1 \in 0 .. Len(text)
         /\ inbuf = Taken[Here.char - 1] /\ Begun(Here.char - 1)
         /\ inbuf + SizeIn(from, text[Here.char]) = Taken[Here.char]
         /\ text[Here.char].valid
  <1>1. text \in Texts /\ inbuf \in Nat /\ inbuf <= Len(Bytes) /\ Len(text) \in Nat
    BY TextType DEF TypeOK
  <1>2. Len(Bytes) = Taken[Len(text)] /\ Taken[Len(text)] \in Nat
    BY <1>1, BytesAre, Measures
  <1>3. inbuf < Len(Bytes) /\ Here.place = 1 /\ text[Here.char].valid
    BY <1>1, <1>2 DEF AtCharacter, BytesLeft
  <1>4. PICK m \in 0 .. Len(text) : Begun(m)
    BY <1>1, SomeBegun
  <1>5. inbuf = Taken[m] /\ m + 1 \in 1 .. Len(text) /\ Here = [char |-> m + 1, place |-> 1]
    BY <1>1, <1>3, <1>4, NextByte
  <1>6. Here.char = m + 1 /\ Here.char - 1 = m
    BY <1>5
  <1>7. Taken[m + 1] = Taken[m] + SizeIn(from, text[m + 1])
    <2> DEFINE i == m + 1
    <2>1. i \in 1 .. Len(text) /\ i - 1 = m
      BY <1>5
    <2> HIDE DEF i
    <2>2. Taken[i] = Taken[m] + SizeIn(from, text[i])
      BY <1>1, <2>1, Measures
    <2>3. QED
      BY <2>2 DEF i
  <1>8. QED
    BY <1>3, <1>4, <1>5, <1>6, <1>7

LEMMA AppendContains ==
  ASSUME NEW T, NEW s \in Seq(T), NEW x \in T, NEW y
  PROVE  Contains(Append(s, x), y) <=> Contains(s, y) \/ y = x
  BY DEF Contains

-----------------------------------------------------------------------------
(* The invariant holds. *)

\* What no step changes.
LEMMA TextStays ==
  ASSUME UNCHANGED <<text, from, to>>
  PROVE  /\ text' = text /\ from' = from /\ to' = to
         /\ Bytes' = Bytes /\ Taken' = Taken /\ Spent' = Spent /\ Short' = Short /\ Valid' = Valid
  BY DEF Bytes, SizeIn, Taken, Sizes, Spent, Costs, Short, Valid

LEMMA InitIInv ==
  ASSUME Init
  PROVE  IInv
  <1>1. /\ text \in Texts /\ inbuf = 0 /\ outbuf = 0 /\ ret = <<>> /\ done = FALSE
        /\ from \in {"narrow", "wide"} /\ to \in {"narrow", "wide"}
        /\ from = "wide" => \A i \in DOMAIN text : text[i].valid
    BY DEF Init
  <1>2. /\ Taken[0] = 0 /\ Spent[0] = 0 /\ Len(text) \in Nat
        /\ Len(Bytes) \in Nat
    <2>1. Taken[Len(text)] \in Nat /\ Len(text) \in Nat
      BY <1>1, Measures, TextType
    <2>2. QED
      BY <1>1, <2>1, Measures, BytesAre
  <1>3. TypeOK
    <2>1. ret \in Seq(Nat) /\ inbuf \in Nat /\ outbuf \in Nat /\ inbuf <= Len(Bytes)
      BY <1>1, <1>2
    <2>2. QED
      BY <1>1, <2>1, Zenon DEF TypeOK
  <1>4. Begun(0)
    BY <1>1, <1>2 DEF Begun
  <1>5. LostBy(0) = {}
    BY DEF LostBy
  <1>6. InOrder(0) /\ FarApart(0)
    BY <1>1, <1>2, <1>5 DEF InOrder, FarApart
  <1>7. Exact(0)
    <2> DEFINE e == [i \in 1 .. 0 |-> i]
    <2>1. e = <<>> /\ e \in Seq(Nat) /\ Len(e) = 0
      OBVIOUS
    <2> HIDE DEF e
    <2>2. \A n \in 1 .. Len(e) : e[n] \notin Valid
      BY <2>1
    <2>3. Select(e, Valid) = <<>>
      BY <2>1, <2>2, SelectNone
    <2>4. QED
      BY <1>1, <1>2, <2>3 DEF Exact, e
  <1>8. 0 \in 0 .. Len(text)
    BY <1>2
  <1>9. QED
    BY <1>3, <1>4, <1>6, <1>7, <1>8 DEF IInv, Progress

LEMMA NextTypeOK ==
  ASSUME TypeOK, [Next]_vars
  PROVE  TypeOK'
  <1>0. UNCHANGED <<text, from, to>>
    BY DEF Next, Convert, Misread, Fail, Finish, vars
  <1>1. /\ text' = text /\ from' = from /\ to' = to /\ Bytes' = Bytes
    BY <1>0, TextStays, Zenon
  <1>2. /\ text \in Texts /\ Len(text) \in Nat
        /\ inbuf \in Nat /\ inbuf <= Len(Bytes) /\ Len(Bytes) \in Nat
        /\ outbuf \in Nat /\ ret \in Seq(Nat) /\ done \in BOOLEAN
    <2>1. text \in Texts
      BY DEF TypeOK
    <2>2. Taken[Len(text)] \in Nat /\ Len(text) \in Nat
      BY <2>1, Measures, TextType
    <2>3. QED
      BY <2>1, <2>2, BytesAre DEF TypeOK
  <1>3. SUFFICES /\ inbuf' \in Nat /\ inbuf' <= Len(Bytes)
                 /\ outbuf' \in Nat
                 /\ ret' \in Seq(Nat)
                 /\ done' \in BOOLEAN
                 /\ done' => inbuf' = Len(Bytes)
    BY <1>1 DEF TypeOK
  <1>4. CASE Convert
    <2> DEFINE c == Here.char
               n == SizeIn(from, text[c])
               b == SizeIn(to, text[c])
    <2>1. c \in 1 .. Len(text) /\ inbuf + n = Taken[c]
      BY <1>4, AtNext DEF Convert
    <2>2. n \in 1 .. 4 /\ b \in 1 .. 4
      BY <1>2, <2>1, TextType, SizeType
    <2>3. Taken[c] <= Len(Bytes)
      <3>1. c \in 0 .. Len(text) /\ Len(text) \in 0 .. Len(text) /\ c <= Len(text)
        BY <1>2, <2>1
      <3> HIDE DEF c
      <3>2. QED
        BY <1>2, <3>1, MeasuresGrow, BytesAre
    <2>4. inbuf' = inbuf + n /\ outbuf' = outbuf + b /\ ret' = Append(ret, c) /\ ~done
          /\ done' = done
      BY <1>4 DEF Convert, Emit
    <2> HIDE DEF c, n, b
    <2>5. ret' \in Seq(Nat)
      BY <1>2, <2>1, <2>4
    <2>6. inbuf' = Taken[c] /\ inbuf' \in Nat /\ outbuf' \in Nat
      BY <1>2, <2>1, <2>2, <2>4
    <2>7. QED
      BY <1>2, <2>3, <2>4, <2>5, <2>6
  <1>5. CASE Misread
    <2>1. PICK b \in 1 .. 3 : /\ inbuf' = inbuf + WideSize /\ outbuf' = outbuf + b
                              /\ ret' = Append(ret, 0)
      BY <1>5 DEF Misread, Emit
    <2>2. Len(Bytes) - inbuf >= 4 /\ WideSize = 4 /\ ~done /\ done' = done
      BY <1>5 DEF Misread, Misaligned, BytesLeft, WideSize
    <2>3. ret' \in Seq(Nat)
      BY <1>2, <2>1
    <2>4. QED
      BY <1>2, <2>1, <2>2, <2>3
  <1>6. CASE Fail
    <2>1. Len(Bytes) - inbuf > 0 /\ outbuf' = 0 /\ inbuf' = inbuf + 1 /\ ret' = ret
          /\ ~done /\ done' = done
      BY <1>6 DEF Fail, BytesLeft, Skip
    <2>2. QED
      BY <1>2, <2>1
  <1>7. CASE Finish
    <2>1. Len(Bytes) - inbuf = 0 /\ UNCHANGED <<inbuf, outbuf, ret>> /\ done' = TRUE
      BY <1>7 DEF Finish, BytesLeft
    <2>2. QED
      BY <1>2, <2>1
  <1>8. CASE UNCHANGED vars
    BY <1>2, <1>8 DEF vars, TypeOK
  <1>9. QED
    BY <1>4, <1>5, <1>6, <1>7, <1>8 DEF Next

\* Of a text that is all valid, or where nothing is lost, a wchar_t is never read from inside.
LEMMA NoMisread ==
  ASSUME IInv, from = "narrow" \/ Short
  PROVE  ~Misread
  <1> SUFFICES ASSUME Misread PROVE FALSE
    OBVIOUS
  <1>1. from = "wide" /\ Here.place # 1 /\ Len(Bytes) - inbuf >= 4
    BY DEF Misread, Misaligned, BytesLeft, WideSize
  <1>2. /\ text \in Texts /\ inbuf \in Nat /\ Len(Bytes) \in Nat /\ Taken[0] = 0
        /\ \A i \in DOMAIN text : text[i].valid
    <2>1. text \in Texts
      BY DEF IInv, TypeOK
    <2>2. Taken[Len(text)] \in Nat /\ Len(text) \in Nat /\ Taken[0] = 0
      BY <2>1, Measures, TextType
    <2>3. QED
      BY <1>1, <2>1, <2>2, BytesAre DEF IInv, TypeOK
  <1>3. Short
    BY <1>1
  <1>4. PICK m \in 0 .. Len(text) : Begun(m) /\ Exact(m)
    BY <1>3 DEF IInv, Progress
  <1>5. inbuf < Len(Bytes)
    BY <1>1, <1>2
  <1>6. inbuf # Taken[m] => m \in 1 .. Len(text)
    BY <1>2, <1>4, <1>5, NextByte
  <1>7. inbuf = Taken[m]
    <2>1. m \in 1 .. Len(text) => text[m].valid
      BY <1>2, TextType
    <2>2. QED
      BY <1>4, <1>6, <2>1 DEF Exact
  <1>8. Here = [char |-> m + 1, place |-> 1]
    BY <1>2, <1>4, <1>5, <1>7, NextByte
  <1>9. QED
    BY <1>1, <1>8

\* The first m + 1 positions are the first m and then one more.
LEMMA SelectNext ==
  ASSUME NEW m \in Nat, NEW S
  PROVE  Select([i \in 1 .. m + 1 |-> i], S) =
           IF m + 1 \in S THEN Append(Select([i \in 1 .. m |-> i], S), m + 1)
           ELSE Select([i \in 1 .. m |-> i], S)
  <1> DEFINE a == [i \in 1 .. m |-> i]
             b == <<m + 1>>
             r == Select(a, S)
  <1>1. a \in Seq(Nat) /\ Len(a) = m /\ b \in Seq(Nat)
    <2>1. a \in [1 .. m -> Nat]
      OBVIOUS
    <2>2. b \in Seq(Nat)
      OBVIOUS
    <2> HIDE DEF a
    <2>3. QED
      BY <2>1, <2>2, FunctionIsSeq
  <1>2. [i \in 1 .. m + 1 |-> i] = a \o b
    OBVIOUS
  <1> HIDE DEF a
  <1>3. r \in Seq(Nat)
    BY <1>1, SelectType
  <1>4. Select(a \o b, S) = r \o Select(b, S)
    <2> HIDE DEF b
    <2>1. QED
      BY <1>1, SelectConcat
  <1>5. Select(b, S) = IF m + 1 \in S THEN <<m + 1>> ELSE <<>>
    <2> DEFINE x == m + 1
    <2>1. x \in Nat
      OBVIOUS
    <2> HIDE DEF x
    <2>2. Select(<<x>>, S) = IF x \in S THEN <<x>> ELSE <<>>
      BY <2>1, SelectOne
    <2>3. QED
      BY <2>2 DEF x
  <1> HIDE DEF r
  <1>6. r \o <<m + 1>> = Append(r, m + 1) /\ r \o <<>> = r
    BY <1>3
  <1>7. QED
    BY <1>2, <1>4, <1>5, <1>6 DEF r, a

\* What is lost once the next character has been converted or skipped.
LEMMA LostNext ==
  ASSUME text \in Texts, NEW m \in Nat, m + 1 \in 1 .. Len(text),
         UNCHANGED <<text, from, to>>, ret \in Seq(Nat),
         \/ ret' = Append(ret, m + 1)
         \/ ret' = ret
  PROVE  /\ LostBy(m + 1)' \subseteq LostBy(m) \cup {m + 1}
         /\ ret' = Append(ret, m + 1) \/ ~text[m + 1].valid => LostBy(m + 1)' \subseteq LostBy(m)
  <1>1. \A y : Contains(ret, y) => Contains(ret', y)
    <2>1. \A y : Contains(Append(ret, m + 1), y) <=> Contains(ret, y) \/ y = m + 1
      BY AppendContains
    <2>2. QED
      BY <2>1, Zenon
  <1>2. ret' = Append(ret, m + 1) => Contains(ret', m + 1)
    BY AppendContains
  <1>3. ASSUME NEW i \in LostBy(m + 1)'
        PROVE  /\ i \in 1 .. m + 1 /\ text[i].valid /\ ~Contains(ret', i)
    BY <1>3 DEF LostBy
  <1>4. ASSUME NEW i \in LostBy(m + 1)', i # m + 1 PROVE i \in LostBy(m)
    <2>1. i \in 1 .. m
      BY <1>3, <1>4
    <2>2. QED
      BY <1>1, <1>3, <2>1 DEF LostBy
  <1>5. ret' = Append(ret, m + 1) \/ ~text[m + 1].valid => m + 1 \notin LostBy(m + 1)'
    BY <1>2, <1>3
  <1>6. QED
    BY <1>4, <1>5, Zenon

LEMMA ConvertProgress ==
  ASSUME IInv, Convert
  PROVE  Progress'
  <1>0. UNCHANGED <<text, from, to>>
    BY DEF Convert
  <1>1. /\ text' = text /\ from' = from /\ Taken' = Taken /\ Spent' = Spent /\ Short' = Short
        /\ Valid' = Valid
    BY <1>0, TextStays, Zenon
  <1> SUFFICES ASSUME from = "narrow" \/ Short
               PROVE  \E m \in 0 .. Len(text) :
                        /\ Begun(m)'
                        /\ from = "narrow" => InOrder(m)' /\ FarApart(m)'
                        /\ Short => Exact(m)'
    BY <1>1 DEF Progress
  <1>2. /\ text \in Texts /\ Len(text) \in Nat /\ inbuf \in Nat /\ inbuf <= Len(Bytes)
        /\ outbuf \in Nat /\ ret \in Seq(Nat)
    BY TextType DEF IInv, TypeOK
  <1>3. PICK m \in 0 .. Len(text) : /\ Begun(m)
                                    /\ from = "narrow" => InOrder(m) /\ FarApart(m)
                                    /\ Short => Exact(m)
    BY DEF IInv, Progress
  <1>4. AtCharacter /\ inbuf < Len(Bytes)
    <2>1. Len(Bytes) \in Nat
      BY <1>2, BytesAre, Measures
    <2>2. QED
      BY <1>2, <2>1 DEF Convert, AtCharacter, BytesLeft
  <1>5. /\ m + 1 \in 1 .. Len(text) /\ Here = [char |-> m + 1, place |-> 1]
        /\ inbuf = Taken[m]
    BY <1>2, <1>3, <1>4, NextByte DEF AtCharacter
  <1> DEFINE k == m + 1
  <1>6. k \in 1 .. Len(text) /\ k - 1 = m /\ k = m + 1 /\ Here.char = k /\ k \in 0 .. Len(text)
    BY <1>5
  <1> HIDE DEF k
  <1> DEFINE n == SizeIn(from, text[k])
             b == SizeIn(to, text[k])
  <1>7. n \in 1 .. 4 /\ b \in 1 .. 4
    BY <1>2, <1>6, TextType, SizeType
  <1>8. /\ text[k].valid /\ inbuf' = inbuf + n /\ outbuf' = outbuf + b /\ ret' = Append(ret, k)
    BY <1>6 DEF Convert, AtCharacter, Emit
  <1>9. /\ Taken[k] = Taken[m] + n /\ Taken[m] \in Nat
        /\ Spent[k] = Spent[m] + b /\ Spent[m] \in Nat
    <2>1. m \in 0 .. Len(text)
      OBVIOUS
    <2>2. QED
      BY <1>2, <1>6, <1>8, <2>1, Measures
  <1> HIDE DEF n, b
  <1>10. inbuf' = Taken[k] /\ Taken[m] < inbuf'
    BY <1>5, <1>7, <1>8, <1>9, SMTT(30)
  <1>11. Begun(k)'
    BY <1>1, <1>6, <1>7, <1>9, <1>10 DEF Begun
  <1>12. ASSUME from = "narrow" PROVE InOrder(k)' /\ FarApart(k)'
    <2>1. InOrder(m) /\ FarApart(m)
      BY <1>3, <1>12
    <2>2. InOrder(k)'
      <3>1. /\ DOMAIN ret' = 1 .. Len(ret) + 1 /\ DOMAIN ret = 1 .. Len(ret) /\ Len(ret) \in Nat
            /\ ret'[Len(ret) + 1] = k /\ \A i \in 1 .. Len(ret) : ret'[i] = ret[i]
        BY <1>2, <1>8, SMTT(30)
      <3> DEFINE N == Len(ret)
      <3>2. /\ DOMAIN ret' = 1 .. N + 1 /\ N \in Nat
            /\ ret'[N + 1] = k /\ \A i \in 1 .. N : ret'[i] = ret[i]
            /\ \A i \in 1 .. N : ret[i] \in 1 .. m
            /\ \A i, j \in 1 .. N : i < j => ret[i] < ret[j]
        BY <2>1, <3>1 DEF InOrder
      <3> HIDE DEF N
      <3>3. ASSUME NEW i \in 1 .. N + 1 PROVE ret'[i] \in 1 .. k
        <4>1. CASE i = N + 1
          BY <1>6, <3>2, <4>1
        <4>2. CASE i # N + 1
          <5>1. i \in 1 .. N
            BY <3>2, <4>2
          <5>2. ret'[i] \in 1 .. m
            BY <3>2, <5>1
          <5>3. QED
            BY <1>6, <5>2
        <4>3. QED
          BY <4>1, <4>2
      <3>4. ASSUME NEW i \in 1 .. N + 1, NEW j \in 1 .. N + 1, i < j PROVE ret'[i] < ret'[j]
        <4>1. i \in 1 .. N
          BY <3>2, <3>4
        <4>2. ret'[i] = ret[i] /\ ret[i] \in 1 .. m
          BY <3>2, <4>1
        <4>3. CASE j = N + 1
          BY <1>6, <3>2, <4>2, <4>3
        <4>4. CASE j # N + 1
          <5>1. j \in 1 .. N
            BY <3>2, <4>4
          <5>2. QED
            BY <3>2, <3>4, <4>1, <4>2, <5>1
        <4>5. QED
          BY <4>3, <4>4
      <3>5. QED
        BY <3>2, <3>3, <3>4 DEF InOrder
    <2>3. LostBy(k)' \subseteq LostBy(m)
      <3>1. ret' = Append(ret, m + 1) /\ m \in Nat /\ m + 1 \in 1 .. Len(text)
        BY <1>6, <1>8
      <3>2. LostBy(m + 1)' \subseteq LostBy(m)
        BY <1>0, <1>2, <3>1, LostNext
      <3>3. QED
        BY <1>6, <3>2
    <2>4. ASSUME NEW i \in LostBy(k)' \cup {0} PROVE outbuf' <= Spent[k] - Spent[i]
      <3>1. outbuf <= Spent[m] - Spent[i] /\ i \in 0 .. Len(text)
        BY <2>1, <2>3 DEF FarApart, LostBy
      <3>2. Spent[i] \in Nat
        BY <1>2, <3>1, Measures
      <3>3. QED
        BY <1>2, <1>7, <1>8, <1>9, <3>1, <3>2, SMTT(30)
    <2>5. ASSUME NEW j \in LostBy(k)', NEW i \in LostBy(k)' \cup {0}, i < j
          PROVE  Spent[j] - Spent[i] > Buffer
      BY <2>1, <2>3, <2>5 DEF FarApart
    <2>6. FarApart(k)'
      BY <1>1, <2>4, <2>5 DEF FarApart
    <2>7. QED
      BY <2>2, <2>6
  <1>13. ASSUME Short PROVE Exact(k)'
    <2>1. Exact(m)
      BY <1>3, <1>13
    <2>2. outbuf' <= Spent[k]
      BY <1>2, <1>7, <1>8, <1>9, <2>1, SMTT(30) DEF Exact
    <2>3. ret' = Select([i \in 1 .. k |-> i], Valid)
      <3>1. k \in Valid
        BY <1>2, <1>6, <1>8, TextType DEF Valid
      <3>2. Select([i \in 1 .. m + 1 |-> i], Valid) =
              Append(Select([i \in 1 .. m |-> i], Valid), m + 1)
        <4>1. m \in Nat /\ m + 1 \in Valid
          BY <1>6, <3>1
        <4>2. QED
          BY <4>1, SelectNext, Zenon
      <3>3. QED
        BY <1>6, <1>8, <2>1, <3>2 DEF Exact
    <2>4. QED
      BY <1>1, <1>10, <2>2, <2>3 DEF Exact
  <1>14. QED
    BY <1>6, <1>11, <1>12, <1>13

LEMMA FailProgress ==
  ASSUME IInv, Fail
  PROVE  Progress'
  <1>0. UNCHANGED <<text, from, to>>
    BY DEF Fail
  <1>1. /\ text' = text /\ from' = from /\ Taken' = Taken /\ Spent' = Spent /\ Short' = Short
        /\ Valid' = Valid
    BY <1>0, TextStays, Zenon
  <1> SUFFICES ASSUME from = "narrow" \/ Short
               PROVE  \E m \in 0 .. Len(text) :
                        /\ Begun(m)'
                        /\ from = "narrow" => InOrder(m)' /\ FarApart(m)'
                        /\ Short => Exact(m)'
    BY <1>1 DEF Progress
  <1>2. /\ text \in Texts /\ Len(text) \in Nat /\ inbuf \in Nat /\ inbuf <= Len(Bytes)
        /\ outbuf \in Nat /\ ret \in Seq(Nat)
    BY TextType DEF IInv, TypeOK
  <1>3. PICK m \in 0 .. Len(text) : /\ Begun(m)
                                    /\ from = "narrow" => InOrder(m) /\ FarApart(m)
                                    /\ Short => Exact(m)
    BY DEF IInv, Progress
  <1>4. /\ BytesLeft > 0 /\ inbuf < Len(Bytes)
        /\ outbuf' = 0 /\ inbuf' = inbuf + 1 /\ ret' = ret
        /\ AtCharacter => ~Fits(SizeIn(to, text[Here.char]))
    <2>1. Len(Bytes) \in Nat
      BY <1>2, BytesAre, Measures
    <2>2. QED
      BY <1>2, <2>1 DEF Fail, BytesLeft, Skip
  <1>5. Taken[m] \in Nat /\ Spent[m] \in Nat /\ Spent[0] = 0
    BY <1>2, Measures
  <1>6. CASE inbuf # Taken[m]
    <2>1. m \in 1 .. Len(text) /\ inbuf < Taken[m]
      BY <1>2, <1>3, <1>4, <1>6, NextByte
    <2>2. Begun(m)'
      <3>1. m - 1 \in 0 .. Len(text)
        BY <2>1
      <3>2. Taken[m - 1] < inbuf /\ Taken[m - 1] \in Nat
        <4>1. m > 0
          BY <2>1
        <4>2. Taken[m - 1] \in Nat
          BY <1>2, <3>1, Measures
        <4>3. QED
          BY <1>3, <4>1, <4>2 DEF Begun
      <3>3. QED
        BY <1>1, <1>2, <1>4, <1>5, <2>1, <3>2, SMTT(30) DEF Begun
    <2>3. ASSUME from = "narrow" PROVE InOrder(m)' /\ FarApart(m)'
      <3>1. InOrder(m) /\ FarApart(m)
        BY <1>3, <2>3
      <3>2. LostBy(m)' = LostBy(m)
        BY <1>1, <1>4 DEF LostBy
      <3>3. InOrder(m)'
        BY <1>4, <3>1 DEF InOrder
      <3>4. ASSUME NEW i \in LostBy(m) \cup {0} PROVE 0 <= Spent[m] - Spent[i]
        <4>1. i \in 0 .. Len(text) /\ m \in 0 .. Len(text) /\ i <= m
          BY <1>2, <2>1, <3>4 DEF LostBy
        <4>2. Spent[i] \in Nat /\ Spent[i] <= Spent[m]
          BY <1>2, <4>1, MeasuresGrow
        <4>3. QED
          BY <1>5, <4>2
      <3>5. FarApart(m)'
        BY <1>1, <1>4, <3>1, <3>2, <3>4 DEF FarApart
      <3>6. QED
        BY <3>3, <3>5
    <2>4. ASSUME Short PROVE Exact(m)'
      <3>1. Exact(m)
        BY <1>3, <2>4
      <3>2. QED
        BY <1>1, <1>4, <1>5, <1>6, <3>1 DEF Exact
    <2>5. QED
      BY <2>2, <2>3, <2>4
  <1>7. CASE inbuf = Taken[m]
    <2> DEFINE k == m + 1
    <2>1. k \in 1 .. Len(text) /\ k - 1 = m /\ k = m + 1 /\ k \in 0 .. Len(text)
          /\ Here = [char |-> k, place |-> 1]
      BY <1>2, <1>3, <1>4, <1>7, NextByte
    <2> HIDE DEF k
    <2> DEFINE n == SizeIn(from, text[k])
               b == SizeIn(to, text[k])
    <2>2. n \in 1 .. 4 /\ b \in 1 .. 4
      BY <1>2, <2>1, TextType, SizeType
    <2>3. /\ Taken[k] = Taken[m] + n
          /\ Spent[k] = Spent[m] + (IF text[k].valid THEN b ELSE 0)
          /\ Spent[m] <= Spent[k] /\ Spent[k] \in Nat /\ Spent[k] <= Spent[Len(text)]
          /\ Spent[Len(text)] \in Nat
      <3>1. /\ Taken[k] = Taken[m] + n
            /\ Spent[k] = Spent[m] + (IF text[k].valid THEN b ELSE 0)
        BY <1>2, <2>1, Measures
      <3>2. m \in 0 .. Len(text) /\ m <= k /\ Len(text) \in 0 .. Len(text) /\ k <= Len(text)
        BY <1>2, <2>1
      <3> HIDE DEF n, b
      <3>3. /\ Spent[m] <= Spent[k] /\ Spent[k] \in Nat /\ Spent[k] <= Spent[Len(text)]
            /\ Spent[Len(text)] \in Nat
        BY <1>2, <2>1, <3>2, MeasuresGrow
      <3>4. QED
        BY <3>1, <3>3
    <2>4. text[k].valid => outbuf + b > Buffer
      <3>1. text[k].valid => AtCharacter
        BY <1>4, <2>1 DEF AtCharacter
      <3>2. Buffer \in Nat
        BY ConversionAssumption
      <3>3. QED
        BY <1>2, <1>4, <2>1, <2>2, <3>1, <3>2, SMTT(30) DEF Fits
    <2> HIDE DEF n, b
    <2>5. Begun(k)'
      <3>1. inbuf' <= Taken[k] /\ Taken[m] < inbuf'
        <4> DEFINE p == Taken[m]
        <4>1. inbuf' = p + 1 /\ p \in Nat
          BY <1>4, <1>5, <1>7
        <4>2. Taken[k] = p + n
          BY <2>3
        <4> HIDE DEF p
        <4>3. p + 1 <= p + n /\ p < p + 1
          BY <2>2, <4>1
        <4>4. QED
          BY <4>1, <4>2, <4>3 DEF p
      <3>2. QED
        BY <1>1, <2>1, <3>1 DEF Begun
    <2>6. ASSUME from = "narrow" PROVE InOrder(k)' /\ FarApart(k)'
      <3>1. InOrder(m) /\ FarApart(m)
        BY <1>3, <2>6
      <3>2. InOrder(k)'
        BY <1>4, <2>1, <3>1 DEF InOrder
      <3>3. /\ LostBy(k)' \subseteq LostBy(m) \cup {k}
            /\ ~text[k].valid => LostBy(k)' \subseteq LostBy(m)
        <4>1. m \in Nat /\ m + 1 \in 1 .. Len(text)
          BY <2>1
        <4>2. /\ LostBy(m + 1)' \subseteq LostBy(m) \cup {m + 1}
              /\ ~text[m + 1].valid => LostBy(m + 1)' \subseteq LostBy(m)
          BY <1>0, <1>2, <1>4, <4>1, LostNext
        <4>3. QED
          BY <2>1, <4>2
      <3>4. LostBy(m) \subseteq 1 .. m
        BY DEF LostBy
      <3>5. ASSUME NEW i \in LostBy(k)' \cup {0} PROVE outbuf' <= Spent[k] - Spent[i]
        <4>1. i \in 0 .. Len(text) /\ i <= k
          BY <1>2, <2>1, <3>3, <3>4, SMTT(30)
        <4>2. Spent[i] \in Nat /\ Spent[i] <= Spent[k]
          BY <1>2, <2>1, <4>1, MeasuresGrow
        <4>3. QED
          BY <1>4, <2>3, <4>2
      <3>6. ASSUME NEW j \in LostBy(k)', NEW i \in LostBy(k)' \cup {0}, i < j
            PROVE  Spent[j] - Spent[i] > Buffer
        <4>1. CASE j # k
          <5>1. j \in LostBy(m) /\ j \in 1 .. m
            BY <3>3, <3>4, <4>1
          <5>2. i # k
            BY <2>1, <3>6, <5>1
          <5>3. i \in LostBy(m) \cup {0}
            BY <3>3, <5>2
          <5>4. QED
            BY <3>1, <3>6, <5>1, <5>3 DEF FarApart
        <4>2. CASE j = k
          <5>1. text[k].valid
            BY <3>3, <3>4, <2>1, <4>2
          <5>2. i \in LostBy(m) \cup {0}
            BY <2>1, <3>3, <3>6, <4>2
          <5>3. outbuf <= Spent[m] - Spent[i] /\ i \in 0 .. Len(text)
            BY <3>1, <3>4, <5>2 DEF FarApart
          <5>4. Spent[i] \in Nat
            BY <1>2, <5>3, Measures
          <5>5. Spent[k] = Spent[m] + b /\ outbuf + b > Buffer
            BY <2>3, <2>4, <5>1
          <5>6. Buffer \in Nat
            BY ConversionAssumption
          <5>7. QED
            BY <1>2, <1>5, <2>2, <4>2, <5>3, <5>4, <5>5, <5>6, SMTT(30)
        <4>3. QED
          BY <4>1, <4>2
      <3>7. FarApart(k)'
        BY <1>1, <3>5, <3>6 DEF FarApart
      <3>8. QED
        BY <3>2, <3>7
    <2>7. ASSUME Short PROVE Exact(k)'
      <3>1. Exact(m)
        BY <1>3, <2>7
      <3>2. outbuf <= Spent[m] /\ Spent[Len(text)] <= Buffer /\ Buffer \in Nat
        BY <2>7, <3>1, ConversionAssumption DEF Exact, Short
      <3>3. ~text[k].valid
        <4>1. SUFFICES ASSUME text[k].valid PROVE FALSE
          OBVIOUS
        <4>2. Spent[k] = Spent[m] + b /\ outbuf + b > Buffer
          BY <2>3, <2>4, <4>1
        <4>3. QED
          BY <1>2, <1>5, <2>2, <2>3, <3>2, <4>2, SMTT(30)
      <3>4. ret' = Select([i \in 1 .. k |-> i], Valid)
        <4>1. k \notin Valid
          BY <3>3 DEF Valid
        <4>2. Select([i \in 1 .. m + 1 |-> i], Valid) = Select([i \in 1 .. m |-> i], Valid)
          BY <2>1, <4>1, SelectNext
        <4>3. QED
          BY <1>4, <2>1, <3>1, <4>2 DEF Exact
      <3>5. QED
        BY <1>1, <1>4, <2>3, <3>3, <3>4 DEF Exact
    <2>8. QED
      BY <2>1, <2>5, <2>6, <2>7
  <1>8. QED
    BY <1>6, <1>7

LEMMA NextIInv ==
  ASSUME IInv, [Next]_vars
  PROVE  IInv'
  <1>1. TypeOK'
    BY NextTypeOK DEF IInv
  <1>2. CASE Convert
    BY <1>1, <1>2, ConvertProgress DEF IInv
  <1>3. CASE Fail
    BY <1>1, <1>3, FailProgress DEF IInv
  <1>4. CASE UNCHANGED <<text, from, to, inbuf, outbuf, ret>>
    <2>1. /\ text' = text /\ from' = from /\ Taken' = Taken /\ Spent' = Spent /\ Short' = Short
          /\ Valid' = Valid
      BY <1>4, TextStays, Zenon
    <2>2. Progress'
      BY <1>4, <2>1 DEF IInv, Progress, Begun, InOrder, FarApart, LostBy, Exact
    <2>3. QED
      BY <1>1, <2>2 DEF IInv
  <1>5. CASE Misread
    <2>1. ~(from = "narrow" \/ Short)
      BY <1>5, NoMisread
    <2>2. from' = from /\ Short' = Short
      <3>1. UNCHANGED <<text, from, to>>
        BY <1>5 DEF Misread
      <3>2. QED
        BY <3>1, TextStays, Zenon
    <2>3. Progress'
      BY <2>1, <2>2 DEF Progress
    <2>4. QED
      BY <1>1, <2>3 DEF IInv
  <1>6. QED
    BY <1>2, <1>3, <1>4, <1>5 DEF Next, Finish, vars

\* What the program is bound to hold at any time, and that it never counts past its input.
THEOREM ConversionTypes == Spec => []TypeOK
  <1>1. Init => IInv
    BY InitIInv
  <1>2. IInv /\ [Next]_vars => IInv'
    BY NextIInv
  <1>3. IInv => TypeOK
    BY DEF IInv
  <1>4. QED
    BY <1>1, <1>2, <1>3, PTL DEF Spec

LEMMA Invariance == Spec => []IInv
  BY InitIInv, NextIInv, PTL DEF Spec

\* When it is done, everything has been begun.
LEMMA DoneIsAll ==
  ASSUME TypeOK, done, NEW m \in 0 .. Len(text), Begun(m)
  PROVE  m = Len(text)
  <1>1. /\ text \in Texts /\ Len(text) \in Nat /\ inbuf = Taken[Len(text)]
    BY TextType, BytesAre DEF TypeOK
  <1>2. SUFFICES ASSUME m < Len(text) PROVE FALSE
    BY <1>1
  <1>3. Taken[m] < Taken[Len(text)] /\ Taken[m] \in Nat /\ Taken[Len(text)] \in Nat
    <2>1. Len(text) \in 0 .. Len(text) /\ m <= Len(text)
      BY <1>1, <1>2
    <2>2. QED
      BY <1>1, <1>2, <2>1, MeasuresGrow
  <1>4. inbuf <= Taken[m]
    BY DEF Begun
  <1>5. QED
    BY <1>1, <1>3, <1>4

\* A text whose conversion fits in the buffer of a pass is converted as it is, but for what
\* cannot be converted: to either encoding and from either.
THEOREM ShortTextsKept == Spec => []ShortTextExact
  <1>1. ASSUME IInv PROVE ShortTextExact
    <2>1. SUFFICES ASSUME done, Cost(1, Len(text)) <= Buffer
                   PROVE  ret = Select([i \in DOMAIN text |-> i],
                                       {i \in DOMAIN text : text[i].valid})
      BY DEF ShortTextExact
    <2>2. text \in Texts /\ TypeOK /\ Len(text) \in Nat /\ DOMAIN text = 1 .. Len(text)
      BY <1>1, TextType DEF IInv, TypeOK
    <2>3. Cost(1, Len(text)) = Spent[Len(text)] - Spent[0]
      <3>1. 1 \in 1 .. Len(text) + 1 /\ Len(text) \in 0 .. Len(text) /\ 1 <= Len(text) + 1
        BY <2>2
      <3>2. Cost(1, Len(text)) = Spent[Len(text)] - Spent[1 - 1]
        BY <2>2, <3>1, CostIs
      <3>3. QED
        BY <3>2
    <2>4. Short
      <3>1. Spent[0] = 0 /\ Spent[Len(text)] \in Nat
        BY <2>2, Measures
      <3>2. QED
        BY <2>1, <2>3, <3>1 DEF Short
    <2>5. PICK m \in 0 .. Len(text) : Begun(m) /\ Exact(m)
      BY <1>1, <2>4 DEF IInv, Progress
    <2>6. m = Len(text)
      BY <2>1, <2>2, <2>5, DoneIsAll, Zenon
    <2>7. QED
      BY <2>2, <2>5, <2>6 DEF Exact, Valid
  <1>2. QED
    BY <1>1, Invariance, PTL

\* From a narrow string no more than one character is lost for each buffer that is filled, and
\* the rest comes out in order, with nothing made up.
THEOREM LossesFarApart == Spec => []OneLostPerBuffer
  <1>1. ASSUME IInv PROVE OneLostPerBuffer
    <2>1. SUFFICES ASSUME done, from = "narrow"
                   PROVE  /\ \A i, j \in DOMAIN ret : 0 < ret[i] /\ (i < j => ret[i] < ret[j])
                          /\ \A j \in Lost : \A i \in (Lost \cap 1 .. j - 1) \cup {0} :
                               Cost(i + 1, j) > Buffer
      BY DEF OneLostPerBuffer
    <2>2. text \in Texts /\ TypeOK /\ Len(text) \in Nat /\ DOMAIN text = 1 .. Len(text)
      BY <1>1, TextType DEF IInv, TypeOK
    <2>3. PICK m \in 0 .. Len(text) : Begun(m) /\ InOrder(m) /\ FarApart(m)
      BY <1>1, <2>1 DEF IInv, Progress
    <2>4. m = Len(text)
      BY <2>1, <2>2, <2>3, DoneIsAll, Zenon
    <2>5. Lost = LostBy(m)
      BY <2>2, <2>4 DEF Lost, LostBy
    <2>6. ASSUME NEW j \in Lost, NEW i \in (Lost \cap 1 .. j - 1) \cup {0}
          PROVE  Cost(i + 1, j) > Buffer
      <3>1. j \in LostBy(m) /\ j \in 1 .. m
        BY <2>5 DEF LostBy
      <3>2. i \in LostBy(m) \cup {0} /\ i < j /\ i \in Nat
        BY <2>5, <3>1
      <3>3. Spent[j] - Spent[i] > Buffer
        BY <2>3, <3>1, <3>2 DEF FarApart
      <3>4. /\ i + 1 \in 1 .. Len(text) + 1 /\ j \in 0 .. Len(text) /\ i + 1 <= j + 1
            /\ (i + 1) - 1 = i
        BY <2>2, <2>4, <3>1, <3>2
      <3> DEFINE k == i + 1
      <3>5. k \in 1 .. Len(text) + 1 /\ k <= j + 1 /\ k - 1 = i
        BY <3>4
      <3> HIDE DEF k
      <3>6. Cost(k, j) = Spent[j] - Spent[k - 1]
        BY <2>2, <3>4, <3>5, CostIs
      <3>7. Cost(k, j) > Buffer
        BY <3>3, <3>5, <3>6
      <3>8. QED
        BY <3>7 DEF k
    <2>7. ASSUME NEW i \in DOMAIN ret, NEW j \in DOMAIN ret
          PROVE  0 < ret[i] /\ (i < j => ret[i] < ret[j])
      BY <2>3 DEF InOrder
    <2>8. QED
      BY <2>6, <2>7
  <1>2. QED
    BY <1>1, Invariance, PTL

-----------------------------------------------------------------------------
(* The loop of ucn_to_utf8. *)

\* The loop of ucn_to_utf8 comes to an end, so Continuation is what it says.
LEMMA ContinuationIs ==
  \A c \in Nat : Continuation[c] = IF c < 128 THEN <<>>
                                   ELSE Append(Continuation[c \div 64], 128 + (c % 64))
  <1> DEFINE V == Seq(Nat)
             stop == 0 .. 127
             base == [c \in Nat |-> <<>>]
             next == [c \in Nat |-> c \div 64]
             step == [c \in Nat |-> [v \in V |-> Append(v, 128 + (c % 64))]]
             size == [c \in Nat |-> c]
             Is(f) == f = [c \in Nat |-> IF c < 128 THEN <<>>
                                         ELSE Append(f[c \div 64], 128 + (c % 64))]
  <1>1. \A c \in Nat : c \div 64 \in Nat /\ c % 64 \in Nat /\ (c >= 128 => c \div 64 < c)
    OBVIOUS
  <1>2. /\ base \in [Nat -> V] /\ next \in [Nat -> Nat] /\ size \in [Nat -> Nat]
        /\ step \in [Nat -> [V -> V]]
    <2>1. \A c \in Nat : 128 + (c % 64) \in Nat
      OBVIOUS
    <2>2. \A c \in Nat : [v \in V |-> Append(v, 128 + (c % 64))] \in [V -> V]
      BY <2>1
    <2>3. QED
      BY <1>1, <2>2
  <1>3. Shrinks(Nat, stop, next, size)
    BY <1>1 DEF Shrinks
  <1>4. \A c \in Nat : /\ base[c] = <<>> /\ next[c] = c \div 64 /\ (c \in stop <=> c < 128)
                       /\ \A v \in V : step[c][v] = Append(v, 128 + (c % 64))
    OBVIOUS
  <1> HIDE DEF V, stop, base, next, step, size
  <1>5. PICK f \in [Nat -> V] : Recurs(f, Nat, stop, base, step, next)
    BY <1>2, <1>3, RecursionExists
  <1>6. \A c \in Nat : (IF c \in stop THEN base[c] ELSE step[c][f[next[c]]])
                      = IF c < 128 THEN <<>> ELSE Append(f[c \div 64], 128 + (c % 64))
    <2> SUFFICES ASSUME NEW c \in Nat
                 PROVE  (IF c \in stop THEN base[c] ELSE step[c][f[next[c]]])
                          = IF c < 128 THEN <<>> ELSE Append(f[c \div 64], 128 + (c % 64))
      OBVIOUS
    <2>1. f[c \div 64] \in V
      BY <1>1
    <2>2. QED
      BY <1>4, <2>1
  <1>7. f = [c \in Nat |-> IF c \in stop THEN base[c] ELSE step[c][f[next[c]]]]
    BY <1>5, Zenon DEF Recurs
  <1>8. Is(f)
    BY <1>6, <1>7
  <1>9. Continuation = CHOOSE g : Is(g)
    BY Zenon DEF Continuation
  <1> HIDE DEF Is
  <1>10. Is(Continuation)
    BY <1>8, <1>9
  <1> USE DEF Is
  <1>11. \A c \in Nat : Continuation[c]
           = [d \in Nat |-> IF d < 128 THEN <<>>
                            ELSE Append(Continuation[d \div 64], 128 + (d % 64))][c]
    BY <1>10, Zenon
  <1>12. QED
    BY <1>11

LEMMA ContinuationStep ==
  ASSUME NEW c \in Nat, 128 <= c
  PROVE  Continuation[c] = Append(Continuation[c \div 64], 128 + (c % 64))
  <1>1. ~(c < 128)
    OBVIOUS
  <1>2. QED
    BY <1>1, ContinuationIs, Zenon

\* What the bytes of a short sequence are.
One(s, x) == s \in Seq(Nat) /\ Len(s) = 1 /\ s[1] = x
Two(s, x, y) == s \in Seq(Nat) /\ Len(s) = 2 /\ s[1] = x /\ s[2] = y
Three(s, x, y, z) == s \in Seq(Nat) /\ Len(s) = 3 /\ s[1] = x /\ s[2] = y /\ s[3] = z

LEMMA SameBytes ==
  ASSUME NEW s \in Seq(Nat), NEW t \in Seq(Nat), Len(s) = Len(t),
         \A i \in 1 .. Len(s) : s[i] = t[i]
  PROVE  s = t
  OBVIOUS

LEMMA OneTells ==
  ASSUME NEW s, NEW t, NEW x, One(s, x), One(t, x)
  PROVE  s = t
  BY SameBytes DEF One

LEMMA TwoTells ==
  ASSUME NEW s, NEW t, NEW x, NEW y, Two(s, x, y), Two(t, x, y)
  PROVE  s = t
  <1>1. \A i \in 1 .. 2 : i = 1 \/ i = 2
    OBVIOUS
  <1>2. QED
    BY <1>1, SameBytes DEF Two

LEMMA ThreeTells ==
  ASSUME NEW s, NEW t, NEW x, NEW y, NEW z, Three(s, x, y, z), Three(t, x, y, z)
  PROVE  s = t
  <1>1. \A i \in 1 .. 3 : i = 1 \/ i = 2 \/ i = 3
    OBVIOUS
  <1>2. QED
    BY <1>1, SameBytes DEF Three

LEMMA HeadFirst ==
  ASSUME NEW h \in Nat, NEW s \in Seq(Nat)
  PROVE  Len(<<h>> \o s) = Len(s) + 1 /\ (<<h>> \o s)[1] = h
  OBVIOUS

\* A byte with the last six bits of c, with the six before them, and with the six before those.
Last6(c) == 128 + (c % 64)
Next6(c) == 128 + ((c \div 64) % 64)
Third6(c) == 128 + ((c \div 4096) % 64)

LEMMA AreBytes ==
  ASSUME NEW c \in Nat
  PROVE  Last6(c) \in Nat /\ Next6(c) \in Nat /\ Third6(c) \in Nat
  BY DEF Last6, Next6, Third6

\* The six bits before the last six of c are the last six of what is left of it.
LEMMA Shifts ==
  ASSUME NEW c \in Nat, NEW d, d = c \div 64
  PROVE  Last6(d) = Next6(c) /\ Next6(d) = Third6(c)
  <1>1. d \div 64 = c \div 4096
    OBVIOUS
  <1>2. QED
    BY <1>1 DEF Last6, Next6, Third6

\* t is s with one more byte.
OneMoreByte(s, x, t) ==
  /\ t \in Seq(Nat) /\ Len(t) = Len(s) + 1 /\ t[Len(s) + 1] = x
  /\ \A i \in 1 .. Len(s) : t[i] = s[i]

LEMMA ContinuationGrows ==
  ASSUME NEW c \in Nat, 128 <= c, NEW d, d = c \div 64, Continuation[d] \in Seq(Nat)
  PROVE  OneMoreByte(Continuation[d], Last6(c), Continuation[c])
  <1> DEFINE x == Last6(c)
             s == Continuation[d]
  <1>1. x \in Nat
    BY AreBytes
  <1>2. Continuation[c] = Append(s, x)
    BY ContinuationStep DEF Last6
  <1> HIDE DEF x, s
  <1>3. OneMoreByte(s, x, Append(s, x))
    BY <1>1 DEF OneMoreByte, s
  <1>4. QED
    BY <1>2, <1>3 DEF x, s

\* The bytes after the first one.
LEMMA NoneFollows ==
  ASSUME NEW c \in Nat, c < 128
  PROVE  Continuation[c] = <<>>
  BY ContinuationIs

LEMMA OneFollows ==
  ASSUME NEW c \in Nat, 128 <= c, c < 8192
  PROVE  One(Continuation[c], Last6(c))
  <1> DEFINE d == c \div 64
             s == Continuation[d]
  <1>1. d \in Nat /\ d < 128
    OBVIOUS
  <1> HIDE DEF d
  <1>2. s = <<>>
    BY <1>1, NoneFollows
  <1>3. s \in Seq(Nat) /\ Len(s) = 0
    BY <1>2
  <1> HIDE DEF s
  <1>4. OneMoreByte(s, Last6(c), Continuation[c])
    BY <1>3, ContinuationGrows DEF s, d
  <1>5. QED
    BY <1>3, <1>4 DEF OneMoreByte, One

LEMMA TwoFollow ==
  ASSUME NEW c \in Nat, 8192 <= c, c < 524288
  PROVE  Two(Continuation[c], Next6(c), Last6(c))
  <1> DEFINE d == c \div 64
             s == Continuation[d]
             t == Continuation[c]
  <1>1. d \in Nat /\ 128 <= d /\ d < 8192 /\ 128 <= c
    BY SMT
  <1> HIDE DEF d
  <1>2. One(s, Last6(d))
    BY <1>1, OneFollows, SMT
  <1>3. OneMoreByte(s, Last6(c), t)
    BY <1>1, <1>2, ContinuationGrows, SMT DEF One, d
  <1> HIDE DEF s, t
  <1>4. t \in Seq(Nat) /\ Len(t) = 2 /\ t[1] = s[1] /\ t[2] = Last6(c)
    BY <1>2, <1>3, SMT DEF OneMoreByte, One
  <1>5. Two(t, Last6(d), Last6(c))
    BY <1>2, <1>4, SMT DEF One, Two
  <1>6. Last6(d) = Next6(c)
    BY Shifts DEF d
  <1>7. QED
    BY <1>5, <1>6, SMT DEF t

LEMMA ThreeFollow ==
  ASSUME NEW c \in Nat, 524288 <= c, c < 33554432
  PROVE  Three(Continuation[c], Third6(c), Next6(c), Last6(c))
  <1> DEFINE d == c \div 64
             s == Continuation[d]
             t == Continuation[c]
  <1>1. d \in Nat /\ 8192 <= d /\ d < 524288 /\ 128 <= c
    BY SMT
  <1>2. Next6(d) = Third6(c) /\ Last6(d) = Next6(c)
    BY Shifts
  <1> HIDE DEF d
  <1>3. Two(s, Next6(d), Last6(d))
    BY <1>1, TwoFollow, SMT
  <1>4. OneMoreByte(s, Last6(c), t)
    BY <1>1, <1>3, ContinuationGrows, SMT DEF Two, d
  <1> HIDE DEF s, t
  <1>5. t \in Seq(Nat) /\ Len(t) = 3 /\ t[3] = Last6(c)
    BY <1>3, <1>4, SMT DEF OneMoreByte, Two
  <1>6. t[1] = s[1] /\ t[2] = s[2]
    BY <1>3, <1>4, SMT DEF OneMoreByte, Two
  <1>7. Three(t, Next6(d), Last6(d), Last6(c))
    BY <1>3, <1>5, <1>6, SMT DEF Two, Three
  <1>8. QED
    BY <1>2, <1>7, SMT DEF t

-----------------------------------------------------------------------------
(* UTF-8 by its definition. *)

LEMMA Constants ==
  /\ Leads[1] = 0 /\ Leads[2] = 192 /\ Leads[3] = 224 /\ Leads[4] = 240
  /\ Powers[1] = 1 /\ Powers[2] = 64 /\ Powers[3] = 4096 /\ Powers[4] = 262144
  BY SMT DEF Leads, Powers

RestOf(c, n) == [k \in 1 .. n |-> 128 + ((c \div Powers[(n - k) + 1]) % 64)]

LEMMA Utf8Is ==
  ASSUME NEW c \in Nat, NEW n, n = Following(c)
  PROVE  Utf8(c) = <<Leads[n + 1] + c \div Powers[n + 1]>> \o RestOf(c, n)
  BY DEF Utf8, RestOf

LEMMA RestOfOne ==
  ASSUME NEW c \in Nat
  PROVE  One(RestOf(c, 1), Last6(c))
  <1> DEFINE e == [k \in 1 .. 1 |-> 128 + ((c \div Powers[(1 - k) + 1]) % 64)]
  <1>1. \A k \in 1 .. 1 : Powers[(1 - k) + 1] = 1
    BY Constants, SMT
  <1>2. \A k \in 1 .. 1 : 128 + ((c \div Powers[(1 - k) + 1]) % 64) = Last6(c)
    BY <1>1, SMT DEF Last6
  <1>3. Last6(c) \in Nat
    BY AreBytes
  <1>4. One(e, Last6(c))
    BY <1>2, <1>3, SMT DEF One
  <1>5. QED
    BY <1>4, Zenon DEF RestOf

LEMMA RestOfTwo ==
  ASSUME NEW c \in Nat
  PROVE  Two(RestOf(c, 2), Next6(c), Last6(c))
  <1> DEFINE x(k) == 128 + ((c \div Powers[(2 - k) + 1]) % 64)
             e == [k \in 1 .. 2 |-> x(k)]
  <1>1. x(1) = Next6(c) /\ x(2) = Last6(c)
    BY Constants, SMT DEF Next6, Last6
  <1>2. x(1) \in Nat /\ x(2) \in Nat
    BY <1>1, AreBytes
  <1> HIDE DEF x
  <1>3. Two(e, x(1), x(2))
    BY <1>2, SMT DEF Two
  <1>4. RestOf(c, 2) = e
    BY Zenon DEF RestOf, x
  <1> HIDE DEF e
  <1>5. QED
    BY <1>1, <1>3, <1>4, SMT

LEMMA RestOfThree ==
  ASSUME NEW c \in Nat
  PROVE  Three(RestOf(c, 3), Third6(c), Next6(c), Last6(c))
  <1> DEFINE x(k) == 128 + ((c \div Powers[(3 - k) + 1]) % 64)
             e == [k \in 1 .. 3 |-> x(k)]
  <1>1. x(1) = Third6(c) /\ x(2) = Next6(c) /\ x(3) = Last6(c)
    BY Constants, SMT DEF Third6, Next6, Last6
  <1>2. Third6(c) \in Nat /\ Next6(c) \in Nat /\ Last6(c) \in Nat
    BY AreBytes
  <1>3. RestOf(c, 3) = e
    BY Zenon DEF RestOf
  <1> HIDE DEF x
  <1>4. Three(e, Third6(c), Next6(c), Last6(c))
    BY <1>1, <1>2, SMT DEF Three
  <1> HIDE DEF e
  <1>5. QED
    BY <1>3, <1>4

LEMMA RestIsOne ==
  ASSUME NEW c \in Nat, NEW s, One(s, Last6(c))
  PROVE  s = RestOf(c, 1)
  BY RestOfOne, OneTells

LEMMA RestIsTwo ==
  ASSUME NEW c \in Nat, NEW s, Two(s, Next6(c), Last6(c))
  PROVE  s = RestOf(c, 2)
  BY RestOfTwo, TwoTells

LEMMA RestIsThree ==
  ASSUME NEW c \in Nat, NEW s, Three(s, Third6(c), Next6(c), Last6(c))
  PROVE  s = RestOf(c, 3)
  BY RestOfThree, ThreeTells

\* The loop takes as many bytes as the head announces, but for the codes of CutShort.
LEMMA ContinuationIsRest ==
  ASSUME NEW c \in Nat, c < 1114112, ~CutShort(c)
  PROVE  Continuation[c] = RestOf(c, Following(c))
  <1> DEFINE s == Continuation[c]
  <1>1. CASE c < 128
    <2>1. Following(c) = 0
      BY <1>1 DEF Following
    <2>2. s = <<>>
      BY <1>1, NoneFollows, SMT
    <2>3. RestOf(c, 0) = <<>>
      BY SMT DEF RestOf
    <2>4. QED
      BY <2>1, <2>2, <2>3, SMT
  <1>2. CASE 128 <= c /\ c < 2048
    <2>1. Following(c) = 1
      BY <1>2, SMT DEF Following
    <2>2. One(s, Last6(c))
      BY <1>2, OneFollows, SMT
    <2> HIDE DEF s
    <2>3. s = RestOf(c, 1)
      BY <2>2, RestIsOne, SMT
    <2>4. QED
      BY <2>1, <2>3, SMT DEF s
  <1>3. CASE 8192 <= c /\ c < 65536
    <2>1. Following(c) = 2
      BY <1>3, SMT DEF Following
    <2>2. Two(s, Next6(c), Last6(c))
      BY <1>3, TwoFollow, SMT
    <2> HIDE DEF s
    <2>3. s = RestOf(c, 2)
      BY <2>2, RestIsTwo, SMT
    <2>4. QED
      BY <2>1, <2>3, SMT DEF s
  <1>4. CASE 524288 <= c
    <2>1. Following(c) = 3
      BY <1>4, SMT DEF Following
    <2>2. Three(s, Third6(c), Next6(c), Last6(c))
      BY <1>4, ThreeFollow, SMT
    <2> HIDE DEF s
    <2>3. s = RestOf(c, 3)
      BY <2>2, RestIsThree, SMT
    <2>4. QED
      BY <2>1, <2>3, SMT DEF s
  <1>5. QED
    BY <1>1, <1>2, <1>3, <1>4, SMT DEF CutShort

LEMMA HeadIs ==
  ASSUME NEW c \in Nat, c < 1114112
  PROVE  HeadOf(c) = Leads[Following(c) + 1] + c \div Powers[Following(c) + 1]
  <1>1. CASE c < 128
    <2>1. Following(c) = 0 /\ HeadOf(c) = c
      BY <1>1, SMT DEF Following, HeadOf
    <2>2. QED
      BY <2>1, Constants, SMT
  <1>2. CASE 128 <= c /\ c < 2048
    <2>1. Following(c) = 1 /\ HeadOf(c) = 192 + ((c \div 64) % 32)
      BY <1>2, SMT DEF Following, HeadOf
    <2>2. (c \div 64) % 32 = c \div 64
      BY <1>2, SMT
    <2>3. QED
      BY <2>1, <2>2, Constants, SMT
  <1>3. CASE 2048 <= c /\ c < 65536
    <2>1. Following(c) = 2 /\ HeadOf(c) = 224 + ((c \div 4096) % 16)
      BY <1>3, SMT DEF Following, HeadOf
    <2>2. (c \div 4096) % 16 = c \div 4096
      BY <1>3, SMT
    <2>3. QED
      BY <2>1, <2>2, Constants, SMT
  <1>4. CASE 65536 <= c
    <2>1. Following(c) = 3 /\ HeadOf(c) = 240 + ((c \div 262144) % 8)
      BY <1>4, SMT DEF Following, HeadOf
    <2>2. (c \div 262144) % 8 = c \div 262144
      BY <1>4, SMT
    <2>3. QED
      BY <2>1, <2>2, Constants, SMT
  <1>5. QED
    BY <1>1, <1>2, <1>3, <1>4, SMT

LEMMA CodeEncoded ==
  ASSUME NEW c \in Nat, c < 1114112, ~CutShort(c)
  PROVE  UcnToUtf8(c) = Utf8(c)
  BY Utf8Is, ContinuationIsRest, HeadIs, SMT DEF UcnToUtf8

LEMMA CodeCutShort ==
  ASSUME NEW c \in Nat, CutShort(c)
  PROVE  Len(UcnToUtf8(c)) = Announced(UcnToUtf8(c)[1])
  <1> DEFINE s == Continuation[c]
             h == HeadOf(c)
  <1>1. CASE 2048 <= c /\ c < 8192
    <2>1. s \in Seq(Nat) /\ Len(s) = 1
      BY <1>1, OneFollows, SMT DEF One
    <2>2. h = 224 + ((c \div 4096) % 16)
      BY <1>1, SMT DEF HeadOf
    <2>3. h \in Nat /\ 224 <= h /\ h < 240
      BY <2>2, SMT
    <2> HIDE DEF s, h
    <2>4. Announced(h) = 2
      BY <2>3, SMT DEF Announced
    <2>5. Announced(h) = Len(s) + 1
      BY <2>1, <2>4, SMT
    <2>6. Len(<<h>> \o s) = Len(s) + 1 /\ (<<h>> \o s)[1] = h
      <3>1. h \in Nat /\ s \in Seq(Nat)
        BY <2>1, <2>3
      <3>2. QED
        BY <3>1, HeadFirst, Zenon
    <2>7. UcnToUtf8(c) = <<h>> \o s
      BY SMT DEF UcnToUtf8, s, h
    <2>8. QED
      BY <2>5, <2>6, <2>7, SMT
  <1>2. CASE 65536 <= c /\ c < 524288
    <2>1. s \in Seq(Nat) /\ Len(s) = 2
      BY <1>2, TwoFollow, SMT DEF Two
    <2>2. h = 240 + ((c \div 262144) % 8)
      BY <1>2, SMT DEF HeadOf
    <2>3. h \in Nat /\ 240 <= h
      BY <2>2, SMT
    <2> HIDE DEF s, h
    <2>4. Announced(h) = 3
      BY <2>3, SMT DEF Announced
    <2>5. Announced(h) = Len(s) + 1
      BY <2>1, <2>4, SMT
    <2>6. Len(<<h>> \o s) = Len(s) + 1 /\ (<<h>> \o s)[1] = h
      <3>1. h \in Nat /\ s \in Seq(Nat)
        BY <2>1, <2>3
      <3>2. QED
        BY <3>1, HeadFirst, Zenon
    <2>7. UcnToUtf8(c) = <<h>> \o s
      BY SMT DEF UcnToUtf8, s, h
    <2>8. QED
      BY <2>5, <2>6, <2>7, SMT
  <1>3. QED
    BY <1>1, <1>2, SMT DEF CutShort

\* The numbers of the characters.
IsCode(c) == c \in Nat /\ c < 1114112

LEMMA CodeDecoded ==
  ASSUME NEW c, IsCode(c)
  PROVE  /\ ~CutShort(c) => UcnToUtf8(c) = Utf8(c)
         /\ CutShort(c) => Len(UcnToUtf8(c)) = Announced(UcnToUtf8(c)[1])
  BY CodeEncoded, CodeCutShort, SMT DEF IsCode

\* A character of seven bits is its own encoding.
LEMMA SevenBits ==
  ASSUME NEW c \in Nat, c < 128
  PROVE  Utf8(c) = <<c>> /\ ~CutShort(c)
  <1>1. UcnToUtf8(c) = <<c>> \o <<>>
    <2>1. HeadOf(c) = c
      BY SMT DEF HeadOf
    <2>2. QED
      BY <2>1, NoneFollows, Zenon DEF UcnToUtf8
  <1>2. <<c>> \o <<>> = <<c>>
    OBVIOUS
  <1>3. ~CutShort(c)
    BY SMT DEF CutShort
  <1>4. IsCode(c)
    BY SMT DEF IsCode
  <1>5. QED
    BY <1>1, <1>2, <1>3, <1>4, CodeDecoded, Zenon

\* Two surrogates, a high one and a low one, are the code of a character, and not of a surrogate.
LEMMA PairIsCode ==
  ASSUME NEW e, e[1] \in Nat, e[2] \in Nat, IsHigh(e[1]), IsLow(e[2])
  PROVE  IsCode(PairCode(e)) /\ ~IsSurrogate(PairCode(e))
  BY SMT DEF PairCode, IsCode, IsHigh, IsLow, IsSurrogate

-----------------------------------------------------------------------------
(* The steps, one alternative of the rules at a time. *)

\* What EscapesDecoded asks of the bytes an escape other than a backslash one gives for c.
Encodes(c, given) ==
  /\ ~CutShort(c) => given = Utf8(c)
  /\ CutShort(c) => Len(given) = Announced(given[1])

LEMMA NotBackslash ==
  ASSUME escape.rule # "backslash", UNCHANGED escape,
         \A c \in Meant(escape) : outcome' = "bytes" /\ Encodes(c, bytes')
  PROVE  EscapesDecoded'
  BY Zenon DEF EscapesDecoded, Encodes

LEMMA SevenBitsEncode ==
  ASSUME NEW c \in Nat, c < 128
  PROVE  Encodes(c, <<c>>)
  BY SevenBits, Zenon DEF Encodes

LEMMA CodesEncode ==
  ASSUME NEW c, IsCode(c)
  PROVE  Encodes(c, UcnToUtf8(c))
  BY CodeDecoded, Zenon DEF Encodes

LEMMA AmpersandDecodes ==
  ASSUME escape \in Escapes, Ampersand, UNCHANGED escape
  PROVE  EscapesDecoded'
  <1>1. escape.rule = "ampersand" /\ escape.name \in {"gt", "lt", "amp", "none"}
    BY EscapesAssumption DEF Ampersand
  <1>2. PICK c \in {62, 60, 38} : Meant(escape) = {c} /\ outcome' = "bytes" /\ bytes' = <<c>>
    BY <1>1 DEF Ampersand, Gives, Meant
  <1>3. c \in Nat /\ c < 128
    OBVIOUS
  <1>4. QED
    BY <1>1, <1>2, <1>3, SevenBitsEncode, NotBackslash

LEMMA CharDecodes ==
  ASSUME escape \in Escapes, Char, UNCHANGED escape
  PROVE  EscapesDecoded'
  <1>1. escape.rule = "char" /\ escape.char \in Nat
    BY EscapesAssumption DEF Char, Below
  <1>2. \A c \in Meant(escape) : c = escape.char /\ c < 128
    BY <1>1 DEF Meant
  <1>3. \A c \in Meant(escape) : outcome' = "bytes" /\ bytes' = <<c>>
    BY <1>1, <1>2 DEF Char, Gives
  <1>4. QED
    BY <1>1, <1>2, <1>3, SevenBitsEncode, NotBackslash

LEMMA UcnDecodes ==
  ASSUME escape \in Escapes, Ucn, UNCHANGED escape
  PROVE  EscapesDecoded'
  <1> DEFINE e == escape.codes
  <1>1. escape.rule = "ucn"
    BY DEF Ucn
  <1>2. e \in Seq(Nat) /\ Len(e) \in {1, 2} /\ \A i \in DOMAIN e : Below(e[i], 65536)
    BY <1>1, EscapesAssumption, SMT
  <1> HIDE DEF e
  <1>3. e[1] \in Nat /\ IsCode(e[1])
    BY <1>2, SMT DEF Below, IsCode
  <1>4. CASE ~IsSurrogate(e[1])
    <2>1. Meant(escape) = {e[1]}
      BY <1>1, <1>4, Zenon DEF Meant, e
    <2>2. outcome' = "bytes" /\ bytes' = UcnToUtf8(e[1])
      BY <1>4, Zenon DEF Ucn, Gives, e
    <2>3. Encodes(e[1], UcnToUtf8(e[1]))
      BY <1>3, CodesEncode, Zenon
    <2>4. QED
      BY <1>1, <2>1, <2>2, <2>3, NotBackslash, Zenon
  <1>5. CASE IsSurrogate(e[1])
    <2> DEFINE p == PairCode(e)
    <2> HIDE DEF p
    <2>1. \A c \in Meant(escape) : c = p /\ Len(e) = 2 /\ IsHigh(e[1]) /\ IsLow(e[2])
      BY <1>1, <1>5, SMT DEF Meant, e, p
    <2> SUFFICES ASSUME NEW c \in Meant(escape)
                 PROVE  outcome' = "bytes" /\ Encodes(c, bytes')
      BY <1>1, NotBackslash, Zenon
    <2>2. c = p /\ Len(e) = 2 /\ IsHigh(e[1]) /\ IsLow(e[2])
      BY <2>1
    <2>3. e[2] \in Nat
      BY <1>2, <2>2, SMT DEF Below
    <2>4. IsCode(p) /\ ~IsSurrogate(p)
      BY <1>3, <2>2, <2>3, PairIsCode, Zenon DEF p
    <2>5. Len(e) # 1
      BY <2>2, SMT
    <2>6. outcome' = "bytes" /\ bytes' = UcnToUtf8(p)
      BY <1>5, <2>4, <2>5, Zenon DEF Ucn, Gives, e, p
    <2>7. QED
      BY <2>2, <2>4, <2>6, CodesEncode, Zenon
  <1>6. QED
    BY <1>4, <1>5

\* A letter comes out as another character, which a tweet holds as a line feed only for \n; the
\* rest of the characters that may be escaped come out as themselves.
LEMMA BackslashDecodes ==
  ASSUME escape \in Escapes, Backslash, UNCHANGED escape
  PROVE  EscapesDecoded'
  <1> DEFINE b == escape.char
  <1>1. escape.rule = "backslash" /\ b \in Nat
    BY EscapesAssumption DEF Backslash, Below
  <1>2. \A x \in Nat : InTweet(<<x>>) = <<IF x = 13 THEN 10 ELSE x>>
    <2> SUFFICES ASSUME NEW x \in Nat, NEW t, t = <<x>>
                 PROVE  InTweet(t) = <<IF x = 13 THEN 10 ELSE x>>
      OBVIOUS
    <2>1. DOMAIN t = 1 .. 1 /\ \A i \in 1 .. 1 : t[i] = x
      OBVIOUS
    <2>2. InTweet(t) = [i \in 1 .. 1 |-> IF x = 13 THEN 10 ELSE x]
      BY <2>1 DEF InTweet
    <2>3. QED
      BY <2>2
  <1> SUFFICES ASSUME NEW c \in Meant(escape)
               PROVE  /\ outcome' = "bytes"
                      /\ c \notin Mistaken => InTweet(bytes') = Utf8(c)
                      /\ c \in Mistaken => InTweet(bytes') \notin {<<8>>, <<10>>}
    BY <1>1, Zenon DEF EscapesDecoded
  <1>3. \/ b \in {34, 47, 92} /\ c = b
        \/ b = 98 /\ c = 8
        \/ b = 102 /\ c = 12
        \/ b = 110 /\ c = 10
        \/ b = 114 /\ c = 13
        \/ b = 116 /\ c = 9
    BY <1>1 DEF Meant
  <1>4. CASE b \in {34, 47, 92}
    <2>1. outcome' = "bytes" /\ bytes' = <<c>> /\ c \in Nat /\ c < 128 /\ c > 13
      BY <1>3, <1>4 DEF Backslash, Gives, Letters
    <2>2. InTweet(bytes') = <<c>> /\ Utf8(c) = <<c>> /\ c \notin Mistaken
      BY <1>2, <2>1, SevenBits DEF Mistaken
    <2>3. QED
      BY <2>1, <2>2
  <1>5. CASE b = 110
    <2>1. outcome' = "bytes" /\ bytes' = <<13>> /\ c = 10
      BY <1>3, <1>5 DEF Backslash, Gives, Letters, Letter
    <2>2. InTweet(bytes') = <<10>> /\ Utf8(10) = <<10>> /\ 10 \notin Mistaken
      BY <1>2, <2>1, SevenBits DEF Mistaken
    <2>3. QED
      BY <2>1, <2>2
  <1>6. CASE b \in {98, 102, 114, 116}
    <2>1. outcome' = "bytes" /\ bytes' = <<b - 97>> /\ c \in Mistaken
      BY <1>3, <1>6 DEF Backslash, Gives, Letters, Letter, Mistaken
    <2>2. PICK x \in {1, 5, 17, 19} : b - 97 = x
      BY <1>6
    <2>3. InTweet(bytes') = <<x>>
      BY <1>2, <2>1, <2>2
    <2>4. <<x>> \notin {<<8>>, <<10>>}
      BY <2>2
    <2>5. QED
      BY <2>1, <2>3, <2>4
  <1>7. QED
    BY <1>3, <1>4, <1>5, <1>6

\* What the rule is at is one of the escapes it may be at, and it has been decoded if it was read.
EscIInv == escape \in Escapes /\ EscapesDecoded

\* Every escape the rule reads comes out as the character it stands for, but for the codes that
\* ucn_to_utf8 cuts short, whose bytes are no encoding, and the letters, whose codes are wrong.
THEOREM EscapesAreDecoded == EscapeSpec => []EscapesDecoded
  <1>1. EscapeInit => EscIInv
    BY Zenon DEF EscapeInit, EscIInv, EscapesDecoded
  <1>2. EscIInv /\ [EscapeNext]_escapeVars => EscIInv'
    <2> SUFFICES ASSUME EscIInv, [EscapeNext]_escapeVars
                 PROVE  EscIInv'
      OBVIOUS
    <2>1. CASE Ampersand /\ UNCHANGED escape
      BY <2>1, AmpersandDecodes, Zenon DEF EscIInv
    <2>2. CASE Backslash /\ UNCHANGED escape
      BY <2>2, BackslashDecodes, Zenon DEF EscIInv
    <2>3. CASE Ucn /\ UNCHANGED escape
      BY <2>3, UcnDecodes, Zenon DEF EscIInv
    <2>4. CASE Char /\ UNCHANGED escape
      BY <2>4, CharDecodes, Zenon DEF EscIInv
    <2>5. CASE UNCHANGED escapeVars
      BY <2>5, Zenon DEF EscIInv, escapeVars, EscapesDecoded
    <2>6. QED
      BY <2>1, <2>2, <2>3, <2>4, <2>5, Zenon DEF EscapeNext
  <1>3. EscIInv => EscapesDecoded
    BY Zenon DEF EscIInv
  <1>4. QED
    BY <1>1, <1>2, <1>3, PTL DEF EscapeSpec

-----------------------------------------------------------------------------
(* Encoding.  Sets of a few numbers in their order. *)

LEMMA OrderedIs ==
  ASSUME NEW S, NEW n \in Nat, Cardinality(S) = n, NEW t \in [1 .. n -> S],
         \A i, j \in 1 .. n : i < j => t[i] < t[j],
         \A u \in [1 .. n -> S] : (\A i, j \in 1 .. n : i < j => u[i] < u[j]) => u = t
  PROVE  Ordered(S) = t
  <1> DEFINE Up(u) == \A i, j \in DOMAIN u : i < j => u[i] < u[j]
  <1>1. t \in [1 .. Cardinality(S) -> S] /\ Up(t)
    OBVIOUS
  <1>2. \A u \in [1 .. Cardinality(S) -> S] : Up(u) => u = t
    OBVIOUS
  <1>3. Ordered(S) = CHOOSE u \in [1 .. Cardinality(S) -> S] : Up(u)
    BY Zenon DEF Ordered
  <1> HIDE DEF Up
  <1>4. QED
    BY <1>1, <1>2, <1>3, Zenon

LEMMA OrderedNone == Ordered({}) = <<>>
  <1> DEFINE S == {}
             t == <<>>
             n == 0
  <1>1. Cardinality(S) = n
    BY FS_EmptySet
  <1>2. t \in [1 .. n -> S] /\ \A u \in [1 .. n -> S] : u = t
    OBVIOUS
  <1>3. \A i, j \in 1 .. n : i < j => t[i] < t[j]
    OBVIOUS
  <1>4. n \in Nat
    OBVIOUS
  <1> HIDE DEF S, t, n
  <1>5. Ordered(S) = t
    BY <1>1, <1>2, <1>3, <1>4, OrderedIs
  <1>6. QED
    BY <1>5 DEF S, t

LEMMA OrderedOne ==
  ASSUME NEW a \in Nat
  PROVE  Ordered({a}) = <<a>>
  <1>1. Cardinality({a}) = 1
    BY FS_Singleton
  <1> DEFINE S == {a}
             t == <<a>>
  <1>2. t \in [1 .. 1 -> S] /\ \A u \in [1 .. 1 -> S] : u = t
    OBVIOUS
  <1>3. \A i, j \in 1 .. 1 : i < j => t[i] < t[j]
    OBVIOUS
  <1> HIDE DEF S, t
  <1>4. Ordered(S) = t
    BY <1>1, <1>2, <1>3, OrderedIs DEF S
  <1>5. QED
    BY <1>4 DEF S, t

LEMMA OrderedTwo ==
  ASSUME NEW a \in Nat, NEW b \in Nat, a < b
  PROVE  Ordered({a, b}) = <<a, b>>
  <1> DEFINE S == {a, b}
             t == <<a, b>>
  <1>1. Cardinality(S) = 2
    <2>1. IsFiniteSet({a}) /\ Cardinality({a}) = 1
      BY FS_Singleton
    <2>2. b \notin {a} /\ {a} \cup {b} = S
      OBVIOUS
    <2>3. QED
      BY <2>1, <2>2, FS_AddElement
  <1>2. t \in [1 .. 2 -> S] /\ \A i, j \in 1 .. 2 : i < j => t[i] < t[j]
    OBVIOUS
  <1>3. ASSUME NEW u \in [1 .. 2 -> S], \A i, j \in 1 .. 2 : i < j => u[i] < u[j]
        PROVE  u = t
    <2>1. u[1] \in S /\ u[2] \in S /\ u[1] < u[2]
      BY <1>3
    <2>2. u[1] = a /\ u[2] = b
      BY <2>1
    <2>3. QED
      BY <2>2
  <1> HIDE DEF S, t
  <1>4. Ordered(S) = t
    BY <1>1, <1>2, <1>3, OrderedIs
  <1>5. QED
    BY <1>4 DEF S, t

LEMMA OrderedThree ==
  ASSUME NEW a \in Nat, NEW b \in Nat, NEW c \in Nat, a < b, b < c
  PROVE  Ordered({a, b, c}) = <<a, b, c>>
  <1> DEFINE S == {a, b, c}
             t == <<a, b, c>>
  <1>1. Cardinality(S) = 3
    <2>1. IsFiniteSet({a, b}) /\ Cardinality({a, b}) = 2
      <3>1. IsFiniteSet({a}) /\ Cardinality({a}) = 1
        BY FS_Singleton
      <3>2. b \notin {a} /\ {a} \cup {b} = {a, b}
        OBVIOUS
      <3>3. QED
        BY <3>1, <3>2, FS_AddElement
    <2>2. c \notin {a, b} /\ {a, b} \cup {c} = S
      OBVIOUS
    <2>3. QED
      BY <2>1, <2>2, FS_AddElement
  <1>2. t \in [1 .. 3 -> S] /\ \A i, j \in 1 .. 3 : i < j => t[i] < t[j]
    OBVIOUS
  <1>3. ASSUME NEW u \in [1 .. 3 -> S], \A i, j \in 1 .. 3 : i < j => u[i] < u[j]
        PROVE  u = t
    <2>1. u[1] \in S /\ u[2] \in S /\ u[3] \in S /\ u[1] < u[2] /\ u[2] < u[3]
      BY <1>3
    <2>2. u[1] = a /\ u[2] = b /\ u[3] = c
      BY <2>1
    <2>3. QED
      BY <2>2
  <1> HIDE DEF S, t
  <1>4. Ordered(S) = t
    BY <1>1, <1>2, <1>3, OrderedIs
  <1>5. QED
    BY <1>4 DEF S, t

-----------------------------------------------------------------------------
(* A few sequences joined, and split again. *)

LEMMA JoinOne ==
  ASSUME NEW x \in Seq(Nat)
  PROVE  FlattenSeq(<<x>>) = x
  <1>1. <<>> \in Seq(Seq(Nat)) /\ <<x>> = Append(<<>>, x)
    OBVIOUS
  <1>2. FlattenSeq(<<>>) = <<>>
    BY DEF FlattenSeq
  <1>3. FlattenSeq(<<x>>) = <<>> \o x
    BY <1>1, <1>2, FlattenAppend
  <1>4. QED
    BY <1>3, EmptyConcat

LEMMA JoinTwo ==
  ASSUME NEW x \in Seq(Nat), NEW y \in Seq(Nat)
  PROVE  FlattenSeq(<<x, y>>) = x \o y
  <1> DEFINE s == <<x>>
  <1>1. s \in Seq(Seq(Nat)) /\ <<x, y>> = Append(s, y)
    OBVIOUS
  <1>2. FlattenSeq(s) = x
    BY JoinOne
  <1> HIDE DEF s
  <1>3. QED
    BY <1>1, <1>2, FlattenAppend

LEMMA JoinThree ==
  ASSUME NEW x \in Seq(Nat), NEW y \in Seq(Nat), NEW z \in Seq(Nat)
  PROVE  FlattenSeq(<<x, y, z>>) = (x \o y) \o z
  <1> DEFINE s == <<x, y>>
  <1>1. s \in Seq(Seq(Nat)) /\ <<x, y, z>> = Append(s, z)
    OBVIOUS
  <1>2. FlattenSeq(s) = x \o y
    BY JoinTwo
  <1> HIDE DEF s
  <1>3. QED
    BY <1>1, <1>2, FlattenAppend

LEMMA SameSequence ==
  ASSUME NEW T, NEW s \in Seq(T), NEW t \in Seq(T), Len(s) = Len(t),
         \A i \in 1 .. Len(s) : s[i] = t[i]
  PROVE  s = t
  OBVIOUS

LEMMA ConcatIs ==
  ASSUME NEW T, NEW a \in Seq(T), NEW b \in Seq(T)
  PROVE  /\ a \o b \in Seq(T) /\ Len(a \o b) = Len(a) + Len(b)
         /\ \A i \in 1 .. Len(a) : (a \o b)[i] = a[i]
         /\ \A i \in 1 .. Len(b) : (a \o b)[Len(a) + i] = b[i]
  OBVIOUS

LEMMA ConcatAssociates ==
  ASSUME NEW T, NEW a \in Seq(T), NEW b \in Seq(T), NEW c \in Seq(T)
  PROVE  (a \o b) \o c = a \o (b \o c)
  OBVIOUS

Around(a, b, c) == (a \o <<b>>) \o c

\* What is where in a sequence with b between two others.
IsAround(s, a, b, c) ==
  /\ Len(s) = Len(a) + 1 + Len(c)
  /\ \A i \in 1 .. Len(a) : s[i] = a[i]
  /\ s[Len(a) + 1] = b
  /\ \A i \in 1 .. Len(c) : s[Len(a) + 1 + i] = c[i]

LEMMA AroundIs ==
  ASSUME NEW T, NEW a \in Seq(T), NEW b \in T, NEW c \in Seq(T)
  PROVE  Around(a, b, c) \in Seq(T) /\ IsAround(Around(a, b, c), a, b, c)
  <1> DEFINE d == a \o <<b>>
  <1>1. /\ d \in Seq(T) /\ Len(d) = Len(a) + 1
        /\ \A i \in 1 .. Len(a) : d[i] = a[i]
        /\ d[Len(a) + 1] = b
    OBVIOUS
  <1> HIDE DEF d
  <1> DEFINE s == d \o c
  <1>2. /\ s \in Seq(T) /\ Len(s) = Len(d) + Len(c)
        /\ \A i \in 1 .. Len(d) : s[i] = d[i]
        /\ \A i \in 1 .. Len(c) : s[Len(d) + i] = c[i]
    BY <1>1
  <1> HIDE DEF s
  <1>3. Around(a, b, c) = s
    BY Zenon DEF Around, d, s
  <1>4. s \in Seq(T) /\ IsAround(s, a, b, c)
    BY <1>1, <1>2 DEF IsAround
  <1>5. QED
    BY <1>3, <1>4

\* The parts of s between the places in o.
Parts(s, o) ==
  LET cuts == <<0>> \o o \o <<Len(s) + 1>>
  IN [k \in 1 .. Len(cuts) - 1 |-> SubSeq(s, cuts[k] + 1, cuts[k + 1] - 1)]

LEMMA SplitIs ==
  ASSUME NEW s, NEW b
  PROVE  Split(s, b) = Parts(s, Ordered({i \in DOMAIN s : s[i] = b}))
  BY Zenon DEF Split, Parts

LEMMA SliceIs ==
  ASSUME NEW T, NEW s \in Seq(T), NEW m \in Nat, NEW a \in Seq(T), m + Len(a) <= Len(s),
         \A i \in 1 .. Len(a) : s[m + i] = a[i]
  PROVE  SubSeq(s, m + 1, m + Len(a)) = a
  <1> DEFINE p == m + 1
             q == m + Len(a)
             t == SubSeq(s, p, q)
  <1>1. t \in Seq(T) /\ Len(t) = Len(a) /\ \A i \in 1 .. Len(a) : t[i] = s[m + i]
    <2>1. p \in 1 .. Len(s) + 1 /\ q \in 0 .. Len(s) /\ (q - p) + 1 = Len(a) /\ p <= q + 1
      <3> DEFINE k == Len(a)
                 l == Len(s)
      <3>1. k \in Nat /\ l \in Nat /\ m + k <= l
        OBVIOUS
      <3> HIDE DEF k, l
      <3>2. m + 1 \in 1 .. l + 1 /\ m + k \in 0 .. l /\ ((m + k) - (m + 1)) + 1 = k
            /\ m + 1 <= (m + k) + 1
        BY <3>1
      <3>3. QED
        BY <3>2 DEF k, l
    <2>2. \A i \in 1 .. Len(a) : (p + i) - 1 = m + i
      OBVIOUS
    <2> HIDE DEF p, q
    <2>3. t \in Seq(T)
      BY <2>1
    <2>4. Len(t) = (q - p) + 1 /\ \A i \in 1 .. (q - p) + 1 : t[i] = s[(p + i) - 1]
      BY <2>1
    <2>5. QED
      BY <2>1, <2>2, <2>4, <2>3
  <1> HIDE DEF t
  <1>2. t = a
    BY <1>1, SameSequence
  <1>3. QED
    BY <1>2 DEF t, p, q

LEMMA SplitNone ==
  ASSUME NEW T, NEW b, b \notin T, NEW a \in Seq(T)
  PROVE  Split(a, b) = <<a>>
  <1>1. {i \in DOMAIN a : a[i] = b} = {}
    OBVIOUS
  <1>2. Split(a, b) = Parts(a, <<>>)
    BY <1>1, SplitIs, OrderedNone
  <1> DEFINE cuts == <<0>> \o <<>> \o <<Len(a) + 1>>
  <1>3. Len(cuts) = 2 /\ cuts[1] = 0 /\ cuts[2] = Len(a) + 1
    OBVIOUS
  <1>4. Parts(a, <<>>) = [k \in 1 .. Len(cuts) - 1 |-> SubSeq(a, cuts[k] + 1, cuts[k + 1] - 1)]
    BY Zenon DEF Parts
  <1> HIDE DEF cuts
  <1>5. SubSeq(a, 0 + 1, (Len(a) + 1) - 1) = a
    OBVIOUS
  <1>6. QED
    BY <1>2, <1>3, <1>4, <1>5

LEMMA SplitOne ==
  ASSUME NEW T, NEW b, b \notin T, NEW a \in Seq(T), NEW c \in Seq(T)
  PROVE  Split(Around(a, b, c), b) = <<a, c>>
  <1> DEFINE s == Around(a, b, c)
             U == T \cup {b}
             n == Len(a)
  <1>1. /\ s \in Seq(U) /\ Len(s) = n + 1 + Len(c)
        /\ \A i \in 1 .. n : s[i] = a[i]
        /\ s[n + 1] = b
        /\ \A i \in 1 .. Len(c) : s[n + 1 + i] = c[i]
    <2>1. a \in Seq(U) /\ c \in Seq(U) /\ b \in U
      OBVIOUS
    <2> HIDE DEF U
    <2> HIDE DEF s
    <2>2. s \in Seq(U) /\ IsAround(s, a, b, c)
      BY <2>1, AroundIs DEF s
    <2>3. QED
      BY <2>2 DEF IsAround
  <1>2. n \in Nat /\ Len(c) \in Nat /\ a \in Seq(U) /\ c \in Seq(U)
    OBVIOUS
  <1>3. /\ \A i \in 1 .. n : a[i] \in T
        /\ \A i \in 1 .. Len(c) : c[i] \in T
    OBVIOUS
  <1> HIDE DEF s, n, U
  <1>4. {i \in DOMAIN s : s[i] = b} = {n + 1}
    <2>1. ASSUME NEW i \in 1 .. Len(s), s[i] = b PROVE i = n + 1
      <3>1. CASE i > n + 1
        <4>1. i - (n + 1) \in 1 .. Len(c) /\ i = n + 1 + (i - (n + 1))
          BY <1>1, <1>2, <3>1
        <4>2. QED
          BY <1>1, <1>3, <2>1, <4>1
      <3>2. CASE i <= n
        <4>1. i \in 1 .. n
          BY <1>2, <2>1, <3>2
        <4>2. s[i] = a[i] /\ a[i] \in T
          BY <1>1, <1>3, <4>1, Zenon
        <4>3. QED
          BY <2>1, <4>2, Zenon
      <3>3. QED
        BY <1>2, <3>1, <3>2
    <2>2. n + 1 \in 1 .. Len(s) /\ DOMAIN s = 1 .. Len(s)
      BY <1>1, <1>2
    <2>3. QED
      BY <1>1, <2>1, <2>2
  <1>5. Split(s, b) = Parts(s, <<n + 1>>)
    <2>1. n + 1 \in Nat
      BY <1>2
    <2>2. QED
      BY <1>4, <2>1, SplitIs, OrderedOne
  <1> DEFINE cuts == <<0>> \o <<n + 1>> \o <<Len(s) + 1>>
  <1>6. Len(cuts) = 3 /\ cuts[1] = 0 /\ cuts[2] = n + 1 /\ cuts[3] = Len(s) + 1
    BY <1>1, <1>2
  <1>7. Parts(s, <<n + 1>>) = [k \in 1 .. Len(cuts) - 1 |-> SubSeq(s, cuts[k] + 1, cuts[k + 1] - 1)]
    BY Zenon DEF Parts
  <1> HIDE DEF cuts
  <1>8. SubSeq(s, 0 + 1, (n + 1) - 1) = a
    <2>1. SubSeq(s, 0 + 1, 0 + Len(a)) = a
      <3>1. 0 \in Nat /\ 0 + Len(a) <= Len(s) /\ \A i \in 1 .. Len(a) : s[0 + i] = a[i]
        BY <1>1, <1>2 DEF n
      <3>2. QED
        BY <1>1, <1>2, <3>1, SliceIs
    <2>2. (n + 1) - 1 = 0 + Len(a)
      BY <1>2 DEF n
    <2>3. QED
      BY <2>1, <2>2
  <1>9. SubSeq(s, (n + 1) + 1, (Len(s) + 1) - 1) = c
    <2>1. SubSeq(s, (n + 1) + 1, (n + 1) + Len(c)) = c
      <3>1. n + 1 \in Nat /\ (n + 1) + Len(c) <= Len(s) /\ \A i \in 1 .. Len(c) : s[(n + 1) + i] = c[i]
        BY <1>1, <1>2
      <3>2. QED
        BY <1>1, <1>2, <3>1, SliceIs
    <2>2. (Len(s) + 1) - 1 = (n + 1) + Len(c)
      BY <1>1, <1>2
    <2>3. QED
      BY <2>1, <2>2
  <1>10. [k \in 1 .. Len(cuts) - 1 |-> SubSeq(s, cuts[k] + 1, cuts[k + 1] - 1)] = <<a, c>>
    <2>1. Len(cuts) - 1 = 2
      BY <1>6
    <2> DEFINE p == [k \in 1 .. 2 |-> SubSeq(s, cuts[k] + 1, cuts[k + 1] - 1)]
    <2>2. p[1] = a /\ p[2] = c
      BY <1>6, <1>8, <1>9
    <2>3. p = <<p[1], p[2]>>
      OBVIOUS
    <2>4. QED
      BY <2>1, <2>2, <2>3
  <1>11. QED
    BY <1>5, <1>7, <1>10 DEF s

LEMMA SplitTwo ==
  ASSUME NEW T, NEW b, b \notin T, NEW a \in Seq(T), NEW c \in Seq(T), NEW d \in Seq(T)
  PROVE  Split(Around(a, b, Around(c, b, d)), b) = <<a, c, d>>
  <1> DEFINE U == T \cup {b}
             e == Around(c, b, d)
             s == Around(a, b, e)
             n == Len(a)
             m == Len(c)
  <1>1. a \in Seq(U) /\ b \in U /\ c \in Seq(U) /\ d \in Seq(U)
    OBVIOUS
  <1> HIDE DEF U, e, s
  <1>2. e \in Seq(U) /\ IsAround(e, c, b, d)
    BY <1>1, AroundIs DEF e
  <1>3. s \in Seq(U) /\ IsAround(s, a, b, e)
    BY <1>1, <1>2, AroundIs DEF s
  <1>4. n \in Nat /\ m \in Nat /\ Len(d) \in Nat
    OBVIOUS
  <1>5. /\ \A i \in 1 .. n : a[i] \in T
        /\ \A i \in 1 .. m : c[i] \in T
        /\ \A i \in 1 .. Len(d) : d[i] \in T
    OBVIOUS
  <1> DEFINE p == n + 1
             q == n + 1 + m + 1
  <1>6. /\ Len(s) = q + Len(d)
        /\ \A i \in 1 .. n : s[i] = a[i]
        /\ s[p] = b
        /\ \A i \in 1 .. m : s[p + i] = c[i]
        /\ s[q] = b
        /\ \A i \in 1 .. Len(d) : s[q + i] = d[i]
    <2>1. Len(e) = m + 1 + Len(d) /\ \A i \in 1 .. Len(e) : s[p + i] = e[i]
      BY <1>2, <1>3 DEF IsAround
    <2>2. /\ \A i \in 1 .. m : i \in 1 .. Len(e) /\ e[i] = c[i]
          /\ m + 1 \in 1 .. Len(e) /\ e[m + 1] = b
          /\ \A i \in 1 .. Len(d) : m + 1 + i \in 1 .. Len(e) /\ e[m + 1 + i] = d[i]
      BY <1>2, <1>4 DEF IsAround
    <2>3. p + (m + 1) = q /\ \A i \in 1 .. Len(d) : p + (m + 1 + i) = q + i
      BY <1>4
    <2>4. Len(s) = n + 1 + Len(e) /\ s[p] = b /\ \A i \in 1 .. n : s[i] = a[i]
      BY <1>3 DEF IsAround
    <2>5. Len(s) = q + Len(d)
      BY <1>4, <2>1, <2>4
    <2> HIDE DEF p, q
    <2>6. \A i \in 1 .. m : s[p + i] = c[i]
      BY <2>1, <2>2
    <2>7. s[q] = b
      BY <2>1, <2>2, <2>3
    <2>8. \A i \in 1 .. Len(d) : s[q + i] = d[i]
      BY <2>1, <2>2, <2>3
    <2>9. QED
      BY <2>4, <2>5, <2>6, <2>7, <2>8
  <1>7. p \in Nat /\ q \in Nat /\ p < q /\ n < p /\ p = n + 1 /\ q = (p + m) + 1
    BY <1>4
  <1> HIDE DEF p, q, n, m
  <1>8. {i \in DOMAIN s : s[i] = b} = {p, q}
    <2>1. ASSUME NEW i \in 1 .. Len(s), s[i] = b PROVE i = p \/ i = q
      <3>1. CASE i > q
        <4>1. i - q \in 1 .. Len(d) /\ i = q + (i - q)
          BY <1>4, <1>6, <1>7, <3>1
        <4>2. QED
          BY <1>5, <1>6, <2>1, <4>1
      <3>2. CASE i > p /\ i < q
        <4>1. i - p \in 1 .. m /\ i = p + (i - p)
          BY <1>4, <1>7, <3>2
        <4>2. QED
          BY <1>5, <1>6, <2>1, <4>1
      <3>3. CASE i < p
        <4>1. i \in 1 .. n
          BY <1>4, <1>7, <3>3
        <4>2. QED
          BY <1>5, <1>6, <2>1, <4>1
      <3>4. QED
        BY <1>7, <3>1, <3>2, <3>3
    <2>2. p \in 1 .. Len(s) /\ q \in 1 .. Len(s) /\ DOMAIN s = 1 .. Len(s)
      BY <1>3, <1>4, <1>6, <1>7
    <2>3. QED
      BY <1>6, <2>1, <2>2
  <1>9. Split(s, b) = Parts(s, <<p, q>>)
    BY <1>7, <1>8, SplitIs, OrderedTwo
  <1> DEFINE cuts == <<0>> \o <<p, q>> \o <<Len(s) + 1>>
  <1>10. Len(cuts) = 4 /\ cuts[1] = 0 /\ cuts[2] = p /\ cuts[3] = q /\ cuts[4] = Len(s) + 1
    BY <1>3, <1>7
  <1>11. Parts(s, <<p, q>>) = [k \in 1 .. Len(cuts) - 1 |-> SubSeq(s, cuts[k] + 1, cuts[k + 1] - 1)]
    BY Zenon DEF Parts
  <1> HIDE DEF cuts
  <1>12. SubSeq(s, 0 + 1, p - 1) = a
    <2>1. SubSeq(s, 0 + 1, 0 + Len(a)) = a
      <3>1. 0 \in Nat /\ 0 + Len(a) <= Len(s) /\ \A i \in 1 .. Len(a) : s[0 + i] = a[i]
        BY <1>4, <1>6, <1>7 DEF n
      <3>2. QED
        BY <1>1, <1>3, <3>1, SliceIs
    <2>2. p - 1 = 0 + Len(a)
      BY <1>4, <1>7 DEF n
    <2>3. QED
      BY <2>1, <2>2
  <1>13. SubSeq(s, p + 1, q - 1) = c
    <2>1. SubSeq(s, p + 1, p + Len(c)) = c
      <3>1. p + Len(c) <= Len(s) /\ \A i \in 1 .. Len(c) : s[p + i] = c[i]
        BY <1>4, <1>6, <1>7 DEF m
      <3>2. QED
        BY <1>1, <1>3, <1>7, <3>1, SliceIs
    <2>2. q - 1 = p + Len(c)
      BY <1>4, <1>7 DEF m
    <2>3. QED
      BY <2>1, <2>2
  <1>14. SubSeq(s, q + 1, (Len(s) + 1) - 1) = d
    <2>1. SubSeq(s, q + 1, q + Len(d)) = d
      <3>1. q + Len(d) <= Len(s) /\ \A i \in 1 .. Len(d) : s[q + i] = d[i]
        BY <1>4, <1>6, <1>7
      <3>2. QED
        BY <1>1, <1>3, <1>7, <3>1, SliceIs
    <2>2. (Len(s) + 1) - 1 = q + Len(d)
      BY <1>4, <1>6, <1>7
    <2>3. QED
      BY <2>1, <2>2
  <1>15. [k \in 1 .. Len(cuts) - 1 |-> SubSeq(s, cuts[k] + 1, cuts[k + 1] - 1)] = <<a, c, d>>
    <2>1. Len(cuts) - 1 = 3
      BY <1>10
    <2> DEFINE r == [k \in 1 .. 3 |-> SubSeq(s, cuts[k] + 1, cuts[k + 1] - 1)]
    <2>2. r[1] = a /\ r[2] = c /\ r[3] = d
      BY <1>10, <1>12, <1>13, <1>14
    <2>3. r = <<r[1], r[2], r[3]>>
      OBVIOUS
    <2>4. QED
      BY <2>1, <2>2, <2>3
  <1>16. QED
    BY <1>9, <1>11, <1>15 DEF s, e

-----------------------------------------------------------------------------
(* Escapes, and how they are read. *)

LEMMA ByteIs == \A b : b \in Byte <=> b \in Nat /\ b < 256
  BY SMT DEF Byte

\* What url_escape leaves as it is, and all it puts out.
Plain(b) == IsAlnum(b) \/ b \in {45, 46, 95, 126}
Safe == {b \in Byte : Plain(b) \/ b = 37}

LEMMA UnreservedIs ==
  ASSUME NEW b \in Nat
  PROVE  b \in Unreserved <=> Plain(b)
  BY SMT DEF Unreserved, Plain, IsAlnum

\* A half of a byte, and the digit that is written for it.
LEMMA HexIs ==
  ASSUME NEW d \in Nat, d < 16
  PROVE  /\ Hex(d) = UpperHex[d + 1] /\ Digit(Hex(d)) = d
         /\ Hex(d) \in Safe /\ Hex(d) # 37
  <1>1. CASE d < 10
    <2>1. Hex(d) = 48 + d
      BY <1>1, SMT DEF Hex
    <2>2. \/ d = 0 \/ d = 1 \/ d = 2 \/ d = 3 \/ d = 4 \/ d = 5 \/ d = 6 \/ d = 7 \/ d = 8 \/ d = 9
      BY <1>1, SMT
    <2>3. UpperHex[d + 1] = 48 + d
      BY <2>2, SMT DEF UpperHex
    <2>4. Digit(48 + d) = d
      BY <1>1, SMT DEF Digit
    <2>5. 48 + d \in Safe
      BY <1>1, ByteIs, SMT DEF Safe, Plain, IsAlnum
    <2>6. QED
      BY <1>1, <2>1, <2>3, <2>4, <2>5, SMT
  <1>2. CASE d >= 10
    <2>1. Hex(d) = 55 + d
      BY <1>2, SMT DEF Hex
    <2>2. \/ d = 10 \/ d = 11 \/ d = 12 \/ d = 13 \/ d = 14 \/ d = 15
      BY <1>2, SMT
    <2>3. UpperHex[d + 1] = 55 + d
      BY <2>2, SMT DEF UpperHex
    <2>4. Digit(55 + d) = d
      BY <1>2, SMT DEF Digit
    <2>5. 55 + d \in Safe
      BY <1>2, ByteIs, SMT DEF Safe, Plain, IsAlnum
    <2>6. QED
      BY <1>2, <2>1, <2>3, <2>4, <2>5, SMT
  <1>3. QED
    BY <1>1, <1>2

\* The sign of a char does not show in the digits.
LEMMA HalvesAre ==
  ASSUME NEW b \in Byte
  PROVE  /\ (Signed(b) \div 16) % 16 = b \div 16 /\ Signed(b) % 16 = b % 16
         /\ b \div 16 \in Nat /\ b \div 16 < 16 /\ b % 16 \in Nat /\ b % 16 < 16
         /\ 16 * (b \div 16) + (b % 16) = b
  <1>1. b \in Nat /\ b < 256
    BY ByteIs
  <1>2. /\ b \div 16 \in Nat /\ b \div 16 < 16 /\ b % 16 \in Nat /\ b % 16 < 16
        /\ 16 * (b \div 16) + (b % 16) = b
    BY <1>1, SMT
  <1>3. CASE b < 128
    <2>1. Signed(b) = b
      BY <1>3, SMT DEF Signed
    <2>2. (b \div 16) % 16 = b \div 16
      BY <1>1, SMT
    <2>3. QED
      BY <1>2, <2>1, <2>2, SMT
  <1>4. CASE b >= 128
    <2>1. Signed(b) = b - 256
      BY <1>1, <1>4, SMT DEF Signed
    <2>2. ((b - 256) \div 16) % 16 = b \div 16 /\ (b - 256) % 16 = b % 16
      BY <1>1, <1>4, SMT
    <2>3. QED
      BY <1>2, <2>1, <2>2, SMT
  <1>5. QED
    BY <1>1, <1>3, <1>4, SMT

LEMMA OneBeforeTwo ==
  ASSUME NEW T, NEW x \in T, NEW y \in T, NEW z \in T
  PROVE  <<x>> \o <<y, z>> = <<x, y, z>>
  <1> DEFINE a == <<x>>
             b == <<y, z>>
             c == <<x, y, z>>
             d == a \o b
  <1>1. a \in Seq(T) /\ b \in Seq(T) /\ c \in Seq(T)
    OBVIOUS
  <1>2. Len(a) = 1 /\ Len(b) = 2 /\ Len(c) = 3
    OBVIOUS
  <1>3. a[1] = x /\ b[1] = y /\ b[2] = z /\ c[1] = x /\ c[2] = y /\ c[3] = z
    OBVIOUS
  <1> HIDE DEF a, b, c
  <1>4. d \in Seq(T) /\ Len(d) = 3 /\ d[1] = x /\ d[2] = y /\ d[3] = z
    <2>1. /\ d \in Seq(T) /\ Len(d) = Len(a) + Len(b)
          /\ \A i \in 1 .. Len(a) : d[i] = a[i]
          /\ \A i \in 1 .. Len(b) : d[Len(a) + i] = b[i]
      BY <1>1
    <2> HIDE DEF d
    <2>2. Len(d) = 3 /\ d[1] = a[1] /\ d[1 + 1] = b[1] /\ d[1 + 2] = b[2]
      BY <1>2, <2>1
    <2>3. 1 + 1 = 2 /\ 1 + 2 = 3
      OBVIOUS
    <2>4. d[2] = b[1] /\ d[3] = b[2]
      BY <2>2, <2>3, Zenon
    <2>5. QED
      BY <1>3, <2>1, <2>2, <2>4
  <1> HIDE DEF d
  <1>5. \A i \in 1 .. 3 : i = 1 \/ i = 2 \/ i = 3
    OBVIOUS
  <1>6. d = c
    BY <1>1, <1>2, <1>3, <1>4, <1>5, SameSequence
  <1>7. QED
    BY <1>6 DEF a, b, c, d

InHex(b) == <<37, Hex(b \div 16), Hex(b % 16)>>

LEMMA EscapeIs ==
  ASSUME NEW b \in Byte
  PROVE  /\ DoEscape(b) = IF Plain(b) THEN <<b>> ELSE InHex(b)
         /\ DoEscape(b) \in Seq(Safe)
         /\ DoEscape(b) = IF b \in Unreserved THEN <<b>>
                          ELSE <<37, UpperHex[b \div 16 + 1], UpperHex[(b % 16) + 1]>>
  <1> DEFINE x == Hex(b \div 16)
             y == Hex(b % 16)
  <1>1. /\ x = UpperHex[b \div 16 + 1] /\ y = UpperHex[(b % 16) + 1]
        /\ x \in Safe /\ y \in Safe
    BY HalvesAre, HexIs
  <1>2. Hexanizer(<<37>>, b) = <<37>> \o <<x, y>>
    BY HalvesAre, Zenon DEF Hexanizer
  <1>3. InHex(b) = <<37, x, y>>
    BY Zenon DEF InHex
  <1> HIDE DEF x, y
  <1>4. <<37>> \o <<x, y>> = <<37, x, y>>
    <2>1. 37 \in Safe
      BY ByteIs, SMT DEF Safe
    <2>2. QED
      BY <1>1, <2>1, OneBeforeTwo
  <1>5. DoEscape(b) = IF Plain(b) THEN <<b>> ELSE InHex(b)
    BY <1>2, <1>3, <1>4, Zenon DEF DoEscape, Plain
  <1>6. b \in Nat
    BY ByteIs
  <1>7. 37 \in Safe /\ (Plain(b) => b \in Safe)
    BY ByteIs, SMT DEF Safe
  <1>8. <<37, x, y>> \in Seq(Safe) /\ (Plain(b) => <<b>> \in Seq(Safe))
    <2> DEFINE h == 37
    <2>1. h \in Safe
      BY <1>7
    <2> HIDE DEF h
    <2>2. <<h, x, y>> \in Seq(Safe)
      BY <1>1, <2>1
    <2>3. Plain(b) => <<b>> \in Seq(Safe)
      BY <1>7
    <2>4. QED
      BY <2>2, <2>3 DEF h
  <1>9. QED
    BY <1>1, <1>3, <1>5, <1>6, <1>8, UnreservedIs, Zenon

LEMMA UrlEscapeIs ==
  ASSUME NEW s \in Seq(Byte)
  PROVE  UrlEscape(s) \in Seq(Safe) /\ UrlEscape(s) = Escaped(s)
  <1> DEFINE ss == [i \in DOMAIN s |-> DoEscape(s[i])]
  <1>1. \A i \in DOMAIN s : s[i] \in Byte
    OBVIOUS
  <1>2. ss \in Seq(Seq(Safe))
    <2>1. \A i \in 1 .. Len(s) : DoEscape(s[i]) \in Seq(Safe)
      BY <1>1, EscapeIs
    <2>2. QED
      BY <2>1
  <1>3. ss = [i \in DOMAIN s |-> IF s[i] \in Unreserved THEN <<s[i]>>
                                 ELSE <<37, UpperHex[s[i] \div 16 + 1], UpperHex[(s[i] % 16) + 1]>>]
    BY <1>1, EscapeIs, Zenon
  <1>4. UrlEscape(s) = FlattenSeq(ss)
    BY Zenon DEF UrlEscape
  <1>5. Escaped(s) = FlattenSeq(ss)
    BY <1>3, Zenon DEF Escaped
  <1> HIDE DEF ss
  <1>6. FlattenSeq(ss) \in Seq(Safe)
    <2>1. \A x \in Seq(Safe) : FlattenSeq(ss) \in Seq(Safe)
      BY <1>2, FlattenAppend
    <2>2. <<>> \in Seq(Safe)
      OBVIOUS
    <2>3. QED
      BY <2>1, <2>2, Zenon
  <1>7. QED
    BY <1>4, <1>5, <1>6

\* What Unescaped reads at a place, and where it goes on.
CodedAt(t, i) == t[i] = 37 /\ i + 2 <= Len(t)

ReadAt(t, i, plus) == IF CodedAt(t, i) THEN 16 * Digit(t[i + 1]) + Digit(t[i + 2])
                      ELSE IF t[i] = 43 THEN plus ELSE t[i]

NextAt(t, i) == IF CodedAt(t, i) THEN i + 3 ELSE i + 1

Reads(f, t, plus) ==
  f = [i \in 1 .. Len(t) + 1 |->
         IF i > Len(t) THEN <<>> ELSE <<ReadAt(t, i, plus)>> \o f[NextAt(t, i)]]

LEMMA UnescapedIs ==
  ASSUME NEW t, NEW plus
  PROVE  Unescaped(t, plus) = (CHOOSE f : Reads(f, t, plus))[1]
  <1> DEFINE C(i) == t[i] = 37 /\ i + 2 <= Len(t)
             g(f) == [i \in 1 .. Len(t) + 1 |->
                        IF i > Len(t) THEN <<>>
                        ELSE IF C(i) THEN <<16 * Digit(t[i + 1]) + Digit(t[i + 2])>> \o f[i + 3]
                        ELSE <<IF t[i] = 43 THEN plus ELSE t[i]>> \o f[i + 1]]
  <1>1. Unescaped(t, plus) = (CHOOSE f : f = g(f))[1]
    BY Zenon DEF Unescaped
  <1>2. ASSUME NEW f PROVE Reads(f, t, plus) <=> f = g(f)
    <2> DEFINE h == [i \in 1 .. Len(t) + 1 |->
                       IF i > Len(t) THEN <<>> ELSE <<ReadAt(t, i, plus)>> \o f[NextAt(t, i)]]
    <2>1. \A i : (IF i > Len(t) THEN <<>> ELSE <<ReadAt(t, i, plus)>> \o f[NextAt(t, i)])
                 = IF i > Len(t) THEN <<>>
                   ELSE IF C(i) THEN <<16 * Digit(t[i + 1]) + Digit(t[i + 2])>> \o f[i + 3]
                   ELSE <<IF t[i] = 43 THEN plus ELSE t[i]>> \o f[i + 1]
      BY Zenon DEF ReadAt, NextAt, CodedAt
    <2>2. h = g(f)
      BY <2>1, Zenon
    <2>3. QED
      BY <2>2, Zenon DEF Reads
  <1> HIDE DEF g
  <1>3. \A f : Reads(f, t, plus) <=> f = g(f)
    BY <1>2
  <1>4. (CHOOSE f : Reads(f, t, plus)) = CHOOSE f : f = g(f)
    BY <1>3, Zenon
  <1>5. QED
    BY <1>1, <1>4, Zenon

LEMMA DigitIsNat == \A b \in Nat : Digit(b) \in Nat
  BY SMT DEF Digit

LEMMA UnescapedReads ==
  ASSUME NEW t \in Seq(Nat), NEW plus \in Nat
  PROVE  \E f :
           /\ Unescaped(t, plus) = f[1] /\ f[Len(t) + 1] = <<>>
           /\ \A i \in 1 .. Len(t) : f[i] = <<ReadAt(t, i, plus)>> \o f[NextAt(t, i)]
  <1> DEFINE L == Len(t)
             D == 1 .. L + 1
             V == Seq(Nat)
             stop == {L + 1}
             base == [i \in D |-> <<>>]
             next == [i \in D |-> IF i = L + 1 THEN i ELSE NextAt(t, i)]
             read(i) == IF i = L + 1 THEN 0 ELSE ReadAt(t, i, plus)
             step == [i \in D |-> [v \in V |-> <<read(i)>> \o v]]
             size == [i \in D |-> L + 1 - i]
  <1>1. L \in Nat
    OBVIOUS
  <1>2. \A i \in 1 .. L : NextAt(t, i) \in i + 1 .. L + 1
    BY DEF NextAt, CodedAt
  <1>3. \A i \in D : read(i) \in Nat
    <2>1. ASSUME NEW i \in 1 .. L PROVE ReadAt(t, i, plus) \in Nat
      <3>1. t[i] \in Nat
        OBVIOUS
      <3>2. CASE CodedAt(t, i)
        <4>1. i + 1 \in 1 .. L /\ i + 2 \in 1 .. L
          BY <3>2 DEF CodedAt
        <4>2. t[i + 1] \in Nat /\ t[i + 2] \in Nat
          BY <4>1
        <4>3. Digit(t[i + 1]) \in Nat /\ Digit(t[i + 2]) \in Nat
          BY <4>2, DigitIsNat
        <4>4. QED
          BY <3>2, <4>3 DEF ReadAt
      <3>3. QED
        BY <3>1, <3>2 DEF ReadAt
    <2>2. QED
      BY <2>1
  <1>4. \A i \in D : i = L + 1 \/ i \in 1 .. L
    BY <1>1
  <1> HIDE DEF read
  <1>5. /\ base \in [D -> V] /\ next \in [D -> D] /\ size \in [D -> Nat] /\ step \in [D -> [V -> V]]
    <2>1. \A i \in D : [v \in V |-> <<read(i)>> \o v] \in [V -> V]
      <3>1. \A i \in D : \A v \in V : <<read(i)>> \o v \in V
        BY <1>3
      <3>2. QED
        BY <3>1
    <2>2. next \in [D -> D]
      BY <1>1, <1>2, <1>4
    <2>3. size \in [D -> Nat]
      BY <1>1
    <2> HIDE DEF D, next, size
    <2>4. QED
      BY <2>1, <2>2, <2>3
  <1>6. Shrinks(D, stop, next, size)
    <2>1. ASSUME NEW i \in D \ stop PROVE size[next[i]] < size[i]
      <3>1. i \in 1 .. L /\ i # L + 1 /\ i \in D
        BY <1>1
      <3>2. next[i] = NextAt(t, i) /\ NextAt(t, i) \in D /\ NextAt(t, i) > i /\ NextAt(t, i) \in Nat
        BY <1>1, <1>2, <3>1
      <3>3. size[i] = L + 1 - i /\ size[next[i]] = L + 1 - NextAt(t, i)
        BY <3>1, <3>2, Zenon
      <3>4. QED
        BY <1>1, <3>1, <3>2, <3>3
    <2>2. QED
      BY <2>1, Zenon DEF Shrinks
  <1>7. \A i \in D : /\ base[i] = <<>> /\ (i \in stop <=> i > L)
                     /\ i <= L => next[i] = NextAt(t, i) /\ read(i) = ReadAt(t, i, plus)
                     /\ \A v \in V : step[i][v] = <<read(i)>> \o v
    BY <1>1 DEF read
  <1> HIDE DEF V, stop, base, next, step, size
  <1>8. PICK f \in [D -> V] : Recurs(f, D, stop, base, step, next)
    <2> HIDE DEF D
    <2>1. QED
      BY <1>5, <1>6, RecursionExists
  <1>9. \A i \in D : f[i] = IF i \in stop THEN base[i] ELSE step[i][f[next[i]]]
    <2>1. f = [i \in D |-> IF i \in stop THEN base[i] ELSE step[i][f[next[i]]]]
      BY <1>8, Zenon DEF Recurs
    <2> HIDE DEF D
    <2>2. QED
      BY <2>1, Zenon
  <1>10. \A i \in D : f[i] = IF i > L THEN <<>> ELSE <<ReadAt(t, i, plus)>> \o f[NextAt(t, i)]
    <2>1. ASSUME NEW i \in D
          PROVE  f[i] = IF i > L THEN <<>> ELSE <<ReadAt(t, i, plus)>> \o f[NextAt(t, i)]
      <3>1. f[next[i]] \in V
        BY <1>5
      <3>2. CASE i > L
        BY <1>7, <1>9, <3>2
      <3>3. CASE ~(i > L)
        <4>1. i <= L
          BY <1>1, <3>3
        <4> HIDE DEF D
        <4>2. i \notin stop /\ next[i] = NextAt(t, i) /\ step[i][f[next[i]]] = <<read(i)>> \o f[next[i]]
              /\ read(i) = ReadAt(t, i, plus)
          BY <1>7, <3>1, <3>3, <4>1, Zenon
        <4>3. QED
          BY <1>9, <3>3, <4>2, Zenon
      <3>4. QED
        BY <3>2, <3>3
    <2>2. QED
      BY <2>1
  <1>11. Reads(f, t, plus)
    <2>1. f = [i \in D |-> f[i]]
      <3> HIDE DEF D
      <3>1. QED
        OBVIOUS
    <2>2. f = [i \in D |-> IF i > L THEN <<>> ELSE <<ReadAt(t, i, plus)>> \o f[NextAt(t, i)]]
      <3> HIDE DEF D
      <3>1. QED
        BY <1>10, <2>1, Zenon
    <2>3. QED
      BY <2>2, Zenon DEF Reads
  <1> DEFINE h == CHOOSE g : Reads(g, t, plus)
  <1>12. Reads(h, t, plus)
    BY <1>11, Zenon
  <1>13. Unescaped(t, plus) = h[1]
    BY UnescapedIs, Zenon
  <1> HIDE DEF h
  <1>14. \A i \in D : h[i] = IF i > L THEN <<>> ELSE <<ReadAt(t, i, plus)>> \o h[NextAt(t, i)]
    BY <1>12, Zenon DEF Reads
  <1>15. h[L + 1] = <<>>
    <2>1. L + 1 \in D /\ L + 1 > L
      BY <1>1
    <2> HIDE DEF D
    <2>2. QED
      BY <1>14, <2>1, Zenon
  <1>16. \A i \in 1 .. L : h[i] = <<ReadAt(t, i, plus)>> \o h[NextAt(t, i)]
    <2>1. \A i \in 1 .. L : i \in D /\ ~(i > L)
      BY <1>1
    <2> HIDE DEF D
    <2>2. QED
      BY <1>14, <2>1, Zenon
  <1>17. QED
    BY <1>13, <1>15, <1>16, Zenon

\* An escape is read back as the byte it was made of.
LEMMA EscapeIsRead ==
  ASSUME NEW b \in Byte, NEW t \in Seq(Nat), NEW n \in Nat, NEW plus \in Nat,
         n + Len(DoEscape(b)) <= Len(t),
         \A k \in 1 .. Len(DoEscape(b)) : t[n + k] = DoEscape(b)[k]
  PROVE  ReadAt(t, n + 1, plus) = b /\ NextAt(t, n + 1) = n + Len(DoEscape(b)) + 1
  <1> DEFINE d == DoEscape(b)
  <1>1. b \in Nat /\ Len(t) \in Nat
    BY ByteIs
  <1>2. CASE Plain(b)
    <2>1. d = <<b>>
      BY <1>2, EscapeIs
    <2>2. Len(d) = 1 /\ d[1] = b
      BY <2>1
    <2> HIDE DEF d
    <2>3. t[n + 1] = b
      BY <2>2 DEF d
    <2>4. b # 37 /\ b # 43
      BY <1>2, SMT DEF Plain, IsAlnum
    <2>5. ~CodedAt(t, n + 1)
      BY <2>3, <2>4, Zenon DEF CodedAt
    <2>6. ReadAt(t, n + 1, plus) = b /\ NextAt(t, n + 1) = (n + 1) + 1
      BY <2>3, <2>4, <2>5, Zenon DEF ReadAt, NextAt
    <2>7. QED
      BY <2>2, <2>6 DEF d
  <1>3. CASE ~Plain(b)
    <2> DEFINE x == b \div 16
               y == b % 16
    <2>1. d = <<37, Hex(x), Hex(y)>>
      BY <1>3, EscapeIs, Zenon DEF InHex
    <2>2. Len(d) = 3 /\ d[1] = 37 /\ d[2] = Hex(x) /\ d[3] = Hex(y)
      BY <2>1
    <2>3. x \in Nat /\ x < 16 /\ y \in Nat /\ y < 16 /\ 16 * x + y = b
      BY HalvesAre
    <2> HIDE DEF d, x, y
    <2>4. n + 3 <= Len(t) /\ t[n + 1] = 37 /\ t[n + 2] = Hex(x) /\ t[n + 3] = Hex(y)
      BY <2>2 DEF d
    <2>5. (n + 1) + 1 = n + 2 /\ (n + 1) + 2 = n + 3 /\ (n + 1) + 3 = n + 3 + 1
      OBVIOUS
    <2>6. CodedAt(t, n + 1)
      BY <2>4, <2>5, Zenon DEF CodedAt
    <2>7. ReadAt(t, n + 1, plus) = 16 * Digit(Hex(x)) + Digit(Hex(y)) /\ NextAt(t, n + 1) = n + 3 + 1
      BY <2>4, <2>5, <2>6, Zenon DEF ReadAt, NextAt
    <2>8. Digit(Hex(x)) = x /\ Digit(Hex(y)) = y
      BY <2>3, HexIs
    <2>9. QED
      BY <2>2, <2>3, <2>7, <2>8 DEF d
  <1>4. QED
    BY <1>2, <1>3

\* What is left of s after its first n.
Remaining(s, n) == [i \in 1 .. Len(s) - n |-> s[n + i]]

LEMMA TailIs ==
  ASSUME NEW T, NEW s \in Seq(T), NEW n \in Nat, n < Len(s)
  PROVE  Remaining(s, n) = <<s[n + 1]>> \o Remaining(s, n + 1)
  <1> DEFINE a == <<s[n + 1]>>
             b == Remaining(s, n + 1)
             c == Remaining(s, n)
             L == Len(s)
             d == a \o b
  <1>1. L \in Nat /\ n + 1 \in 1 .. L /\ \A i \in 1 .. L : s[i] \in T
    OBVIOUS
  <1>2. a \in Seq(T) /\ Len(a) = 1 /\ a[1] = s[n + 1]
    BY <1>1
  <1>3. b \in Seq(T) /\ Len(b) = L - (n + 1) /\ \A i \in 1 .. L - (n + 1) : b[i] = s[n + 1 + i]
    <2> DEFINE m == L - (n + 1)
    <2>1. m \in Nat /\ \A i \in 1 .. m : n + 1 + i \in 1 .. L
      BY <1>1
    <2>2. b = [i \in 1 .. m |-> s[n + 1 + i]]
      BY Zenon DEF Remaining
    <2> HIDE DEF m, b, L
    <2>3. b \in [1 .. m -> T]
      BY <1>1, <2>1, <2>2
    <2>4. b \in Seq(T) /\ Len(b) = m
      BY <2>1, <2>3, FunctionIsSeq
    <2>5. QED
      BY <2>2, <2>4 DEF m
  <1>4. c \in Seq(T) /\ Len(c) = L - n /\ \A i \in 1 .. L - n : c[i] = s[n + i]
    <2> DEFINE m == L - n
    <2>1. m \in Nat /\ \A i \in 1 .. m : n + i \in 1 .. L
      BY <1>1
    <2>2. c = [i \in 1 .. m |-> s[n + i]]
      BY Zenon DEF Remaining
    <2> HIDE DEF m, c, L
    <2>3. c \in [1 .. m -> T]
      BY <1>1, <2>1, <2>2
    <2>4. c \in Seq(T) /\ Len(c) = m
      BY <2>1, <2>3, FunctionIsSeq
    <2>5. QED
      BY <2>2, <2>4 DEF m
  <1> HIDE DEF a, b, c, L
  <1>5. /\ d \in Seq(T) /\ Len(d) = L - n /\ d[1] = a[1]
        /\ \A i \in 1 .. L - (n + 1) : d[1 + i] = b[i]
    <2>1. /\ d \in Seq(T) /\ Len(d) = Len(a) + Len(b)
          /\ \A i \in 1 .. Len(a) : d[i] = a[i]
          /\ \A i \in 1 .. Len(b) : d[Len(a) + i] = b[i]
      <3>1. a \in Seq(T) /\ b \in Seq(T)
        BY <1>2, <1>3
      <3>2. QED
        BY <3>1, ConcatIs
    <2> HIDE DEF d
    <2>2. Len(d) = L - n /\ d[1] = a[1]
      BY <1>1, <1>2, <1>3, <2>1
    <2>3. \A i \in 1 .. L - (n + 1) : d[1 + i] = b[i]
      BY <1>2, <1>3, <2>1
    <2>4. QED
      BY <2>1, <2>2, <2>3
  <1> HIDE DEF d
  <1>6. ASSUME NEW i \in 1 .. L - n PROVE d[i] = c[i]
    <2>1. CASE i = 1
      BY <1>2, <1>4, <1>5, <2>1
    <2>2. CASE i # 1
      <3>1. i - 1 \in 1 .. L - (n + 1) /\ 1 + (i - 1) = i /\ n + 1 + (i - 1) = n + i
        BY <1>1, <2>2
      <3>2. d[i] = b[i - 1] /\ b[i - 1] = s[n + i]
        BY <1>3, <1>5, <3>1
      <3>3. QED
        BY <1>4, <3>2
    <2>3. QED
      BY <2>1, <2>2
  <1>7. c = d
    BY <1>4, <1>5, <1>6, SameSequence
  <1>8. QED
    BY <1>7 DEF a, b, c, d

\* What has been escaped is read back, whatever a plus sign stands for.
LEMMA EscapedIsRead ==
  ASSUME NEW s \in Seq(Byte), NEW plus \in Nat
  PROVE  Unescaped(UrlEscape(s), plus) = s
  <1> DEFINE t == UrlEscape(s)
             N == Len(s)
             ss == [i \in 1 .. N |-> DoEscape(s[i])]
             w == [i \in 1 .. N |-> Len(DoEscape(s[i]))]
             at == Sums(w)
  <1>1. N \in Nat /\ DOMAIN s = 1 .. N /\ \A i \in 1 .. N : s[i] \in Byte
    OBVIOUS
  <1>2. t = FlattenSeq(ss) /\ t \in Seq(Nat)
    <2>1. t = FlattenSeq(ss)
      BY <1>1, Zenon DEF UrlEscape
    <2>2. \A b \in Safe : b \in Nat
      BY ByteIs DEF Safe
    <2>3. t \in Seq(Safe)
      BY UrlEscapeIs
    <2> HIDE DEF t
    <2>4. QED
      BY <2>1, <2>2, <2>3
  <1>3. /\ ss \in Seq(Seq(Safe)) /\ Len(ss) = N
        /\ w \in Seq(Nat) /\ Len(w) = N
        /\ \A i \in 1 .. N : ss[i] = DoEscape(s[i]) /\ w[i] = Len(DoEscape(s[i]))
    <2>1. \A i \in 1 .. N : DoEscape(s[i]) \in Seq(Safe) /\ Len(DoEscape(s[i])) \in Nat
      BY <1>1, EscapeIs
    <2>2. ss \in [1 .. N -> Seq(Safe)] /\ w \in [1 .. N -> Nat]
      BY <2>1
    <2>3. ss \in Seq(Seq(Safe)) /\ Len(ss) = N
      BY <1>1, <2>2, FunctionIsSeq
    <2>4. w \in Seq(Nat) /\ Len(w) = N
      BY <1>1, <2>2, FunctionIsSeq
    <2>5. QED
      BY <2>3, <2>4
  <1> HIDE DEF ss, w, t
  <1>4. /\ Len(t) = at[N] /\ at \in [0 .. N -> Nat] /\ at[0] = 0
        /\ \A i \in 1 .. N : at[i] = at[i - 1] + w[i]
        /\ \A i \in 1 .. N : \A k \in 1 .. w[i] : t[at[i - 1] + k] = ss[i][k]
    <2>1. /\ Len(FlattenSeq(ss)) = Sums(w)[Len(ss)]
          /\ \A i \in 1 .. Len(ss) : \A k \in 1 .. w[i] : FlattenSeq(ss)[Sums(w)[i - 1] + k] = ss[i][k]
      <3>1. /\ ss \in Seq(Seq(Safe)) /\ w \in Seq(Nat) /\ Len(w) = Len(ss)
            /\ \A i \in 1 .. Len(ss) : w[i] = Len(ss[i])
        BY <1>3
      <3>2. QED
        BY <3>1, FlattenPlaces
    <2>2. /\ Sums(w) \in [0 .. N -> Nat] /\ Sums(w)[0] = 0
          /\ \A i \in 1 .. N : Sums(w)[i] = Sums(w)[i - 1] + w[i]
      BY <1>3, SumsAre
    <2>3. QED
      BY <1>2, <1>3, <2>1, <2>2
  <1>5. \A i \in 0 .. N : at[i] <= Len(t)
    <2>1. ASSUME NEW i \in 0 .. N PROVE at[i] <= at[N]
      BY <1>1, <1>3, SumsGrow
    <2>2. QED
      BY <1>4, <2>1
  <1> HIDE DEF at
  <1>6. PICK f : /\ Unescaped(t, plus) = f[1] /\ f[Len(t) + 1] = <<>>
                 /\ \A i \in 1 .. Len(t) : f[i] = <<ReadAt(t, i, plus)>> \o f[NextAt(t, i)]
    BY <1>2, UnescapedReads
  <1> DEFINE G == {m \in Nat : m <= N => f[at[N - m] + 1] = Remaining(s, N - m)}
  <1>7. 0 \in G
    <2>1. Remaining(s, N) = <<>>
      <3>1. N - N = 0
        BY <1>1
      <3>2. Remaining(s, N) = [i \in 1 .. 0 |-> s[N + i]]
        BY <3>1, Zenon DEF Remaining
      <3>3. QED
        BY <3>2
    <2>2. N - 0 = N
      BY <1>1
    <2>3. f[at[N - 0] + 1] = Remaining(s, N - 0)
      BY <1>4, <1>6, <2>1, <2>2
    <2>4. QED
      BY <2>3
  <1>8. ASSUME NEW m \in G PROVE m + 1 \in G
    <2> SUFFICES ASSUME m + 1 <= N PROVE f[at[N - (m + 1)] + 1] = Remaining(s, N - (m + 1))
      OBVIOUS
    <2> DEFINE n == N - (m + 1)
               b == s[n + 1]
    <2>1. n \in Nat /\ n < N /\ n + 1 \in 1 .. N /\ (n + 1) - 1 = n /\ n + 1 = N - m /\ n \in 0 .. N
          /\ n + 1 \in 0 .. N
      BY <1>1
    <2>2. f[at[N - m] + 1] = Remaining(s, N - m)
      BY <1>1
    <2> HIDE DEF n, G
    <2>3. /\ b \in Byte /\ w[n + 1] = Len(DoEscape(b)) /\ ss[n + 1] = DoEscape(b)
          /\ at[n] \in Nat /\ at[n + 1] = at[n] + w[n + 1] /\ at[n + 1] <= Len(t)
      BY <1>1, <1>3, <1>4, <1>5, <2>1
    <2>4. \A k \in 1 .. w[n + 1] : t[at[n] + k] = ss[n + 1][k]
      BY <1>4, <2>1
    <2> HIDE DEF b
    <2>5. ReadAt(t, at[n] + 1, plus) = b /\ NextAt(t, at[n] + 1) = at[n] + Len(DoEscape(b)) + 1
      <3> DEFINE p == at[n]
      <3>1. p \in Nat /\ b \in Byte /\ p + Len(DoEscape(b)) <= Len(t)
        BY <2>3
      <3>2. \A k \in 1 .. Len(DoEscape(b)) : t[p + k] = DoEscape(b)[k]
        BY <2>3, <2>4
      <3> HIDE DEF p
      <3>3. ReadAt(t, p + 1, plus) = b /\ NextAt(t, p + 1) = p + Len(DoEscape(b)) + 1
        BY <1>2, <3>1, <3>2, EscapeIsRead
      <3>4. QED
        BY <3>3 DEF p
    <2>6. at[n] + 1 \in 1 .. Len(t)
      <3>1. Len(DoEscape(b)) >= 1 /\ Len(DoEscape(b)) \in Nat
        <4>1. DoEscape(b) = <<b>> \/ DoEscape(b) = InHex(b)
          BY <2>3, EscapeIs
        <4>2. Len(<<b>>) = 1 /\ Len(InHex(b)) = 3
          BY DEF InHex
        <4>3. Len(DoEscape(b)) = 1 \/ Len(DoEscape(b)) = 3
          BY <4>1, <4>2, Zenon
        <4> DEFINE l == Len(DoEscape(b))
        <4> HIDE DEF l
        <4>4. l = 1 \/ l = 3
          BY <4>3 DEF l
        <4>5. l >= 1 /\ l \in Nat
          BY <4>4
        <4>6. QED
          BY <4>5 DEF l
      <3>2. Len(t) \in Nat
        BY <1>2
      <3>3. QED
        BY <2>3, <3>1, <3>2
    <2>7. f[at[n] + 1] = <<b>> \o f[at[n + 1] + 1]
      BY <1>6, <2>3, <2>5, <2>6
    <2>8. Remaining(s, n) = <<b>> \o Remaining(s, n + 1)
      BY <2>1, TailIs DEF b
    <2>9. QED
      BY <2>1, <2>2, <2>7, <2>8 DEF n
  <1>9. G = Nat
    <2>1. G \in SUBSET Nat
      OBVIOUS
    <2> HIDE DEF G
    <2>2. QED
      BY <1>7, <1>8, <2>1, NatSetInduction
  <1>10. f[at[N - N] + 1] = Remaining(s, N - N)
    <2>1. N \in G
      <3> HIDE DEF G
      <3>1. QED
        BY <1>1, <1>9
    <2>2. QED
      BY <1>1, <2>1
  <1>11. N - N = 0 /\ at[0] + 1 = 1
    BY <1>1, <1>4
  <1>12. Remaining(s, 0) = s
    <2>1. Remaining(s, 0) = [i \in 1 .. N - 0 |-> s[0 + i]]
      BY Zenon DEF Remaining
    <2>2. N - 0 = N /\ \A i \in 1 .. N : 0 + i = i
      BY <1>1
    <2>3. s = [i \in 1 .. N |-> s[i]]
      BY <1>1
    <2> HIDE DEF N
    <2>4. QED
      BY <2>1, <2>2, <2>3
  <1> HIDE DEF G, N
  <1>13. Unescaped(t, plus) = s
    BY <1>6, <1>10, <1>11, <1>12
  <1>14. QED
    BY <1>13 DEF t

Names == {Nonce, Signature, Token, Status}

\* What can be rendered: the texts of two or of three names.
IsParams(ps, D) ==
  /\ ps \in [D -> Seq(Byte)]
  /\ D \in SUBSET Names
  /\ \/ \E a, b \in D : a < b /\ D = {a, b}
     \/ \E a, b, c \in D : a < b /\ b < c /\ D = {a, b, c}

LEMMA NamesAre == Names = {110, 115, 116, 117}
  BY DEF Names, Nonce, Signature, Token, Status

LEMMA TextLacks ==
  ASSUME NEW s \in Seq(Byte), NEW x \in {34, 38, 44, 61, 43}
  PROVE  UrlEscape(s) \in Seq(Nat \ {x})
  <1>1. \A b \in Safe : b \in Nat \ {x}
    BY ByteIs, SMT DEF Safe, Plain, IsAlnum
  <1>2. UrlEscape(s) \in Seq(Safe)
    BY UrlEscapeIs
  <1> DEFINE T == Nat \ {x}
             t == UrlEscape(s)
  <1> HIDE DEF T, t
  <1>3. t \in Seq(T)
    BY <1>1, <1>2 DEF T, t
  <1>4. QED
    BY <1>3 DEF T, t

-----------------------------------------------------------------------------
(* What make_request joins. *)

LEMMA MakeTwo ==
  ASSUME NEW joiner \in Seq(Nat), NEW a \in Nat, NEW b \in Nat, a < b,
         NEW f \in [{a, b} -> Seq(Nat)]
  PROVE  MakeRequest(f, joiner) = f[a] \o (joiner \o f[b])
  <1> DEFINE names == <<a, b>>
             x == f[a]
             y == f[b]
             ss == [i \in DOMAIN names |-> (IF i = 1 THEN <<>> ELSE joiner) \o f[names[i]]]
             z == joiner \o y
  <1>1. x \in Seq(Nat) /\ y \in Seq(Nat) /\ DOMAIN f = {a, b}
    OBVIOUS
  <1>2. Ordered(DOMAIN f) = names
    BY <1>1, OrderedTwo
  <1>3. MakeRequest(f, joiner) = FlattenSeq(ss)
    BY <1>2, Zenon DEF MakeRequest
  <1>4. DOMAIN names = 1 .. 2 /\ names[1] = a /\ names[2] = b
    OBVIOUS
  <1> HIDE DEF names
  <1>5. <<>> \o x = x /\ z \in Seq(Nat)
    BY <1>1, EmptyConcat, ConcatLength
  <1>6. ss = <<x, z>>
    <2>1. ss = [i \in 1 .. 2 |-> (IF i = 1 THEN <<>> ELSE joiner) \o f[names[i]]]
      BY <1>4, Zenon
    <2>2. 1 \in 1 .. 2 /\ 2 \in 1 .. 2 /\ 2 # 1
      OBVIOUS
    <2>3. ss[1] = <<>> \o x /\ ss[2] = z
      BY <1>4, <2>1, <2>2, Zenon
    <2>4. ss = <<ss[1], ss[2]>>
      <3> DEFINE g(i) == (IF i = 1 THEN <<>> ELSE joiner) \o f[names[i]]
      <3> HIDE DEF g
      <3>1. [i \in 1 .. 2 |-> g(i)] = <<[i \in 1 .. 2 |-> g(i)][1], [i \in 1 .. 2 |-> g(i)][2]>>
        OBVIOUS
      <3>2. QED
        BY <2>1, <3>1, Zenon DEF g
    <2> HIDE DEF ss, x, z
    <2>5. QED
      BY <1>5, <2>3, <2>4
  <1> HIDE DEF ss, x, z
  <1>7. FlattenSeq(ss) = x \o z
    BY <1>1, <1>5, <1>6, JoinTwo
  <1>8. QED
    BY <1>3, <1>7 DEF x, z

AreTexts(j, x, y, z) == j \in Seq(Nat) /\ x \in Seq(Nat) /\ y \in Seq(Nat) /\ z \in Seq(Nat)

JoinsThree(j, x, y, z) == FlattenSeq(<<x, j \o y, j \o z>>) = x \o (j \o (y \o (j \o z)))

LEMMA JoinThreeWith ==
  ASSUME NEW j, NEW x, NEW y, NEW z, AreTexts(j, x, y, z)
  PROVE  JoinsThree(j, x, y, z)
  <1> DEFINE u == j \o y
             v == j \o z
  <1>1. j \in Seq(Nat) /\ x \in Seq(Nat) /\ y \in Seq(Nat) /\ z \in Seq(Nat)
    BY DEF AreTexts
  <1>2. u \in Seq(Nat) /\ v \in Seq(Nat)
    BY <1>1, ConcatLength
  <1>3. j \o (y \o v) = u \o v
    <2>1. j \in Seq(Nat) /\ y \in Seq(Nat) /\ v \in Seq(Nat)
      BY <1>1, <1>2
    <2> HIDE DEF v
    <2>2. QED
      BY <2>1, ConcatAssociates
  <1> HIDE DEF u, v
  <1>4. x \in Seq(Nat) /\ u \in Seq(Nat) /\ v \in Seq(Nat)
    BY <1>1, <1>2
  <1>5. FlattenSeq(<<x, u, v>>) = (x \o u) \o v /\ (x \o u) \o v = x \o (u \o v)
    <2>1. (x \o u) \o v = x \o (u \o v)
      BY <1>4, ConcatAssociates
    <2>2. FlattenSeq(<<x, u, v>>) = (x \o u) \o v
      BY <1>4, JoinThree
    <2>3. QED
      BY <2>1, <2>2
  <1>6. QED
    BY <1>3, <1>5, Zenon DEF u, v, JoinsThree

LEMMA MakeThree ==
  ASSUME NEW joiner \in Seq(Nat), NEW a \in Nat, NEW b \in Nat, NEW c \in Nat, a < b, b < c,
         NEW f \in [{a, b, c} -> Seq(Nat)]
  PROVE  MakeRequest(f, joiner) = f[a] \o (joiner \o (f[b] \o (joiner \o f[c])))
  <1> DEFINE names == <<a, b, c>>
             x == f[a]
             y == f[b]
             z == f[c]
             ss == [i \in DOMAIN names |-> (IF i = 1 THEN <<>> ELSE joiner) \o f[names[i]]]
  <1>1. x \in Seq(Nat) /\ y \in Seq(Nat) /\ z \in Seq(Nat) /\ DOMAIN f = {a, b, c}
    OBVIOUS
  <1>2. Ordered(DOMAIN f) = names
    BY <1>1, OrderedThree
  <1>3. MakeRequest(f, joiner) = FlattenSeq(ss)
    BY <1>2, Zenon DEF MakeRequest
  <1>4. DOMAIN names = 1 .. 3 /\ names[1] = a /\ names[2] = b /\ names[3] = c
    OBVIOUS
  <1> HIDE DEF names
  <1>5. <<>> \o x = x
    BY <1>1, EmptyConcat
  <1>6. ss = <<x, joiner \o y, joiner \o z>>
    <2>1. ss = [i \in 1 .. 3 |-> (IF i = 1 THEN <<>> ELSE joiner) \o f[names[i]]]
      BY <1>4, Zenon
    <2>2. 1 \in 1 .. 3 /\ 2 \in 1 .. 3 /\ 3 \in 1 .. 3 /\ 2 # 1 /\ 3 # 1
      OBVIOUS
    <2>3. ss[1] = <<>> \o x /\ ss[2] = joiner \o y /\ ss[3] = joiner \o z
      BY <1>4, <2>1, <2>2, Zenon
    <2>4. ss = <<ss[1], ss[2], ss[3]>>
      <3> DEFINE g(i) == (IF i = 1 THEN <<>> ELSE joiner) \o f[names[i]]
                 r == [i \in 1 .. 3 |-> g(i)]
      <3> HIDE DEF g
      <3>1. r = <<r[1], r[2], r[3]>>
        OBVIOUS
      <3>2. QED
        BY <2>1, <3>1, Zenon DEF g
    <2> HIDE DEF ss, x, y, z
    <2>5. QED
      BY <1>5, <2>3, <2>4
  <1>7. AreTexts(joiner, x, y, z)
    BY <1>1, Zenon DEF AreTexts
  <1> HIDE DEF ss, x, y, z
  <1>8. FlattenSeq(ss) = x \o (joiner \o (y \o (joiner \o z)))
    <2>1. JoinsThree(joiner, x, y, z)
      BY <1>7, JoinThreeWith, Zenon
    <2>2. QED
      BY <1>6, <2>1, Zenon DEF JoinsThree
  <1>9. QED
    BY <1>3, <1>8, Zenon DEF x, y, z

LEMMA BetweenIs ==
  ASSUME NEW T, NEW x \in Seq(T), NEW b \in T, NEW y \in Seq(T)
  PROVE  x \o (<<b>> \o y) = Around(x, b, y)
  <1> DEFINE s == <<b>>
  <1>1. s \in Seq(T)
    OBVIOUS
  <1> HIDE DEF s
  <1>2. x \o (s \o y) = (x \o s) \o y
    BY <1>1, ConcatAssociates
  <1>3. QED
    BY <1>2, Zenon DEF Around, s

-----------------------------------------------------------------------------
(* What the server finds in the parts of a text. *)

\* The parts of a text: for each name in D a piece, which an equals sign cuts in two.
AreParts(text0, joint, D, piece, head, value) ==
  /\ {q \in ToSet(Split(text0, joint)) : q # <<>>} = {piece[n] : n \in D}
  /\ \A n \in D : Split(piece[n], 61) = <<head[n], value[n]>> /\ Last(head[n]) = n

ValuesAre(text0, joint, D, value) == Pairs(text0, joint) = [n \in D |-> value[n]]

LEMMA PairsAre ==
  ASSUME NEW text0, NEW joint, NEW D, NEW piece, NEW head, NEW value,
         AreParts(text0, joint, D, piece, head, value)
  PROVE  ValuesAre(text0, joint, D, value)
  <1> DEFINE parts == {Split(p, 61) : p \in {q \in ToSet(Split(text0, joint)) : q # <<>>}}
             Name(p) == Last(p[1])
             both(n) == <<head[n], value[n]>>
  <1>0. /\ {q \in ToSet(Split(text0, joint)) : q # <<>>} = {piece[n] : n \in D}
        /\ \A n \in D : Split(piece[n], 61) = <<head[n], value[n]>> /\ Last(head[n]) = n
    BY Zenon DEF AreParts
  <1>1. parts = {both(n) : n \in D}
    <2> DEFINE q0 == {q \in ToSet(Split(text0, joint)) : q # <<>>}
    <2>1. parts = {Split(p, 61) : p \in {piece[n] : n \in D}}
      <3>1. parts = {Split(p, 61) : p \in q0} /\ q0 = {piece[n] : n \in D}
        BY <1>0, Zenon
      <3> HIDE DEF q0, parts
      <3>2. QED
        BY <3>1, Zenon
    <2>2. {Split(p, 61) : p \in {piece[n] : n \in D}} = {both(n) : n \in D}
      <3>1. \A n \in D : Split(piece[n], 61) = both(n)
        BY <1>0
      <3> DEFINE cut(p) == Split(p, 61)
      <3> HIDE DEF both, cut
      <3>2. {cut(p) : p \in {piece[n] : n \in D}} = {both(n) : n \in D}
        <4>1. \A n \in D : cut(piece[n]) = both(n)
          BY <3>1, Zenon DEF cut
        <4>2. QED
          BY <4>1
      <3>3. QED
        BY <3>2, Zenon DEF cut
    <2>3. QED
      BY <2>1, <2>2, Zenon
  <1>2. \A n \in D : Name(both(n)) = n /\ both(n)[2] = value[n]
    <2>1. \A n : both(n)[1] = head[n] /\ both(n)[2] = value[n]
      OBVIOUS
    <2>2. QED
      BY <1>0, <2>1, Zenon
  <1>3. Pairs(text0, joint) = [n \in {Name(p) : p \in parts} |-> (CHOOSE p \in parts : Name(p) = n)[2]]
    BY Zenon DEF Pairs
  <1> HIDE DEF parts, Name, both
  <1>4. {Name(p) : p \in parts} = D
    <2>1. \A p : p \in parts <=> \E n \in D : p = both(n)
      BY <1>1, Zenon
    <2>2. \A n \in D : both(n) \in parts /\ Name(both(n)) = n
      BY <1>2, <2>1, Zenon
    <2>3. \A p \in parts : Name(p) \in D
      BY <1>2, <2>1, Zenon
    <2>4. \A n \in D : n \in {Name(p) : p \in parts}
      BY <2>2, Zenon
    <2>5. \A x \in {Name(p) : p \in parts} : x \in D
      BY <2>3, Zenon
    <2>6. QED
      BY <2>4, <2>5
  <1>5. ASSUME NEW n \in D PROVE (CHOOSE p \in parts : Name(p) = n)[2] = value[n]
    <2>1. \E p \in parts : Name(p) = n
      BY <1>1, <1>2, Zenon
    <2>2. PICK p : p = (CHOOSE q \in parts : Name(q) = n)
      OBVIOUS
    <2>3. p \in parts /\ Name(p) = n
      BY <2>1, <2>2, Zenon
    <2>4. p = both(n)
      BY <1>1, <1>2, <2>3, Zenon
    <2>5. QED
      BY <1>2, <2>2, <2>4, Zenon
  <1>6. QED
    BY <1>3, <1>4, <1>5, Zenon DEF ValuesAre

LEMMA FormPairsAre ==
  ASSUME NEW text0, NEW D, NEW f, Pairs(text0, 38) = [n \in D |-> UrlEscape(f[n])],
         f \in [D -> Seq(Byte)]
  PROVE  FormPairs(text0) = f
  <1> DEFINE p == Pairs(text0, 38)
             g == [n \in D |-> UrlEscape(f[n])]
  <1>1. FormPairs(text0) = [n \in DOMAIN p |-> Unescaped(p[n], 32)]
    BY Zenon DEF FormPairs
  <1>2. p = g
    OBVIOUS
  <1>3. DOMAIN g = D /\ \A n \in D : g[n] = UrlEscape(f[n])
    BY Zenon
  <1>4. \A n \in D : Unescaped(g[n], 32) = f[n]
    <2>1. \A n \in D : f[n] \in Seq(Byte) /\ 32 \in Nat
      OBVIOUS
    <2>2. QED
      BY <1>3, <2>1, EscapedIsRead
  <1> HIDE DEF p, g
  <1>5. FormPairs(text0) = [n \in D |-> f[n]]
    BY <1>1, <1>2, <1>3, <1>4, Zenon
  <1>6. f = [n \in D |-> f[n]]
    OBVIOUS
  <1>7. QED
    BY <1>5, <1>6, Zenon

-----------------------------------------------------------------------------
(* The parameters of the message. *)

\* A name and its text.
Pair(n, v) == Around(<<n>>, 61, UrlEscape(v))

LEMMA PlainIn ==
  ASSUME NEW T, NEW S, NEW s \in Seq(S), \A x \in S : x \in T
  PROVE  s \in Seq(T)
  OBVIOUS

LEMMA NameIs ==
  ASSUME NEW n \in Names
  PROVE  /\ n \in Byte /\ n \in Nat
         /\ \A x \in {32, 34, 38, 44, 61, 43} : n # x
  BY NamesAre, ByteIs, SMT

LEMMA TextIs ==
  ASSUME NEW v \in Seq(Byte)
  PROVE  UrlEscape(v) \in Seq(Byte) /\ UrlEscape(v) \in Seq(Nat)
  <1>1. UrlEscape(v) \in Seq(Safe)
    BY UrlEscapeIs
  <1>2. \A b \in Safe : b \in Byte /\ b \in Nat
    BY ByteIs, Zenon DEF Safe
  <1>3. QED
    BY <1>1, <1>2, PlainIn, Zenon

LEMMA OneThen ==
  ASSUME NEW T, NEW x \in T, NEW y \in T
  PROVE  <<x, y>> = <<x>> \o <<y>>
  <1> DEFINE a == <<x>>
             b == <<y>>
             c == <<x, y>>
             d == a \o b
  <1>0. a \in Seq(T) /\ b \in Seq(T)
    OBVIOUS
  <1>1. c \in Seq(T) /\ Len(a) = 1 /\ Len(b) = 1 /\ Len(c) = 2
    OBVIOUS
  <1>2. a[1] = x /\ b[1] = y /\ c[1] = x /\ c[2] = y
    OBVIOUS
  <1> HIDE DEF a, b, c
  <1>3. d \in Seq(T) /\ Len(d) = 2 /\ d[1] = a[1] /\ d[2] = b[1]
    <2>1. /\ d \in Seq(T) /\ Len(d) = Len(a) + Len(b)
          /\ \A i \in 1 .. Len(a) : d[i] = a[i]
          /\ \A i \in 1 .. Len(b) : d[Len(a) + i] = b[i]
      BY <1>0
    <2> HIDE DEF d
    <2>2. Len(d) = 2 /\ d[1] = a[1] /\ d[1 + 1] = b[1]
      BY <1>1, <2>1
    <2>3. 1 + 1 = 2
      OBVIOUS
    <2>4. QED
      BY <2>1, <2>2, <2>3, Zenon
  <1> HIDE DEF d
  <1>4. \A i \in 1 .. 2 : i = 1 \/ i = 2
    OBVIOUS
  <1>5. d = c
    BY <1>1, <1>2, <1>3, <1>4, SameSequence
  <1>6. QED
    BY <1>5 DEF a, b, c, d

LEMMA CombinedIs ==
  ASSUME NEW n \in Names, NEW v \in Seq(Byte)
  PROVE  CombineAsGetParam(n, v) = Pair(n, v)
  <1>1. <<n, 61>> = <<n>> \o <<61>>
    BY NameIs, OneThen
  <1>2. QED
    BY <1>1, Zenon DEF CombineAsGetParam, Pair, Around

LEMMA PairIs ==
  ASSUME NEW n \in Names, NEW v \in Seq(Byte)
  PROVE  /\ Pair(n, v) \in Seq(Byte)
         /\ Pair(n, v) \in Seq(Nat \ {38})
         /\ Pair(n, v) # <<>>
         /\ Split(Pair(n, v), 61) = <<<<n>>, UrlEscape(v)>>
         /\ Last(<<n>>) = n
  <1> DEFINE u == UrlEscape(v)
             s == <<n>>
             p == Pair(n, v)
             A == Nat \ {38}
             B == Nat \ {61}
  <1>1. u \in Seq(Byte) /\ u \in Seq(A) /\ u \in Seq(B)
    BY TextIs, TextLacks
  <1>2. s \in Seq(Byte) /\ s \in Seq(A) /\ s \in Seq(B) /\ Len(s) = 1 /\ s[1] = n
    BY NameIs
  <1>3. 61 \in Byte /\ 61 \in A /\ 61 \notin B
    BY ByteIs, SMT
  <1>4. p = Around(s, 61, u)
    BY Zenon DEF Pair
  <1> HIDE DEF u, s, p, A, B
  <1>5. p \in Seq(Byte) /\ IsAround(p, s, 61, u)
    BY <1>1, <1>2, <1>3, <1>4, AroundIs
  <1>6. p \in Seq(A)
    BY <1>1, <1>2, <1>3, <1>4, AroundIs
  <1>7. p # <<>>
    <2>1. Len(p) = Len(s) + 1 + Len(u) /\ Len(u) \in Nat
      BY <1>1, <1>5 DEF IsAround
    <2>2. Len(p) # 0
      BY <1>2, <2>1
    <2>3. QED
      BY <2>2
  <1>8. Split(p, 61) = <<s, u>>
    BY <1>1, <1>2, <1>3, <1>4, SplitOne
  <1>9. Last(s) = n
    BY <1>2 DEF Last
  <1>10. QED
    BY <1>5, <1>6, <1>7, <1>8, <1>9 DEF p, A, s, u

LEMMA GetTwo ==
  ASSUME NEW a \in Names, NEW b \in Names, a < b, NEW ps \in [{a, b} -> Seq(Byte)]
  PROVE  GetRequest(ps) = Around(Pair(a, ps[a]), 38, Pair(b, ps[b]))
  <1> DEFINE D == {a, b}
             f == [n \in DOMAIN ps |-> CombineAsGetParam(n, ps[n])]
  <1>1. DOMAIN ps = D /\ \A n \in D : n \in Names /\ ps[n] \in Seq(Byte)
    OBVIOUS
  <1>2. a \in D /\ b \in D
    OBVIOUS
  <1>3. \A n \in D : f[n] = Pair(n, ps[n])
    BY <1>1, CombinedIs
  <1>4. \A n \in D : Pair(n, ps[n]) \in Seq(Nat)
    <2>1. \A n \in D : Pair(n, ps[n]) \in Seq(Nat \ {38})
      BY <1>1, PairIs
    <2>2. QED
      BY <2>1, PlainIn
  <1>5. GetRequest(ps) = MakeRequest(f, <<38>>)
    BY Zenon DEF GetRequest
  <1>6. f \in [D -> Seq(Nat)]
    <2>1. f = [n \in D |-> Pair(n, ps[n])]
      BY <1>1, <1>3, Zenon
    <2> HIDE DEF D, f
    <2>2. QED
      BY <1>4, <2>1
  <1> HIDE DEF f
  <1>7. a \in Nat /\ b \in Nat /\ <<38>> \in Seq(Nat)
    BY NameIs
  <1>8. MakeRequest(f, <<38>>) = f[a] \o (<<38>> \o f[b])
    BY <1>6, <1>7, MakeTwo
  <1> HIDE DEF D
  <1>9. GetRequest(ps) = Pair(a, ps[a]) \o (<<38>> \o Pair(b, ps[b]))
    BY <1>2, <1>3, <1>5, <1>8, Zenon
  <1>10. Pair(a, ps[a]) \in Seq(Nat) /\ Pair(b, ps[b]) \in Seq(Nat) /\ 38 \in Nat
    BY <1>2, <1>4
  <1>11. QED
    BY <1>9, <1>10, BetweenIs

LEMMA GetThree ==
  ASSUME NEW a \in Names, NEW b \in Names, NEW c \in Names, a < b, b < c,
         NEW ps \in [{a, b, c} -> Seq(Byte)]
  PROVE  GetRequest(ps) = Around(Pair(a, ps[a]), 38, Around(Pair(b, ps[b]), 38, Pair(c, ps[c])))
  <1> DEFINE D == {a, b, c}
             f == [n \in DOMAIN ps |-> CombineAsGetParam(n, ps[n])]
  <1>1. DOMAIN ps = D /\ \A n \in D : n \in Names /\ ps[n] \in Seq(Byte)
    OBVIOUS
  <1>2. a \in D /\ b \in D /\ c \in D
    OBVIOUS
  <1>3. \A n \in D : f[n] = Pair(n, ps[n])
    BY <1>1, CombinedIs
  <1>4. \A n \in D : Pair(n, ps[n]) \in Seq(Nat)
    <2>1. \A n \in D : Pair(n, ps[n]) \in Seq(Nat \ {38})
      BY <1>1, PairIs
    <2>2. QED
      BY <2>1, PlainIn
  <1>5. GetRequest(ps) = MakeRequest(f, <<38>>)
    BY Zenon DEF GetRequest
  <1>6. f \in [D -> Seq(Nat)]
    <2>1. f = [n \in D |-> Pair(n, ps[n])]
      BY <1>1, <1>3, Zenon
    <2> HIDE DEF D, f
    <2>2. QED
      BY <1>4, <2>1
  <1> HIDE DEF f
  <1>7. a \in Nat /\ b \in Nat /\ c \in Nat /\ <<38>> \in Seq(Nat)
    BY NameIs
  <1>8. MakeRequest(f, <<38>>) = f[a] \o (<<38>> \o (f[b] \o (<<38>> \o f[c])))
    <2> DEFINE j == <<38>>
    <2>1. j \in Seq(Nat)
      BY <1>7
    <2> HIDE DEF j
    <2>2. MakeRequest(f, j) = f[a] \o (j \o (f[b] \o (j \o f[c])))
      BY <1>6, <1>7, <2>1, MakeThree, Zenon
    <2>3. QED
      BY <2>2, Zenon DEF j
  <1> HIDE DEF D
  <1> DEFINE x == Pair(a, ps[a])
             y == Pair(b, ps[b])
             z == Pair(c, ps[c])
  <1>9. GetRequest(ps) = x \o (<<38>> \o (y \o (<<38>> \o z)))
    BY <1>2, <1>3, <1>5, <1>8, Zenon
  <1>10. x \in Seq(Nat) /\ y \in Seq(Nat) /\ z \in Seq(Nat) /\ 38 \in Nat
    BY <1>2, <1>4
  <1> HIDE DEF x, y, z
  <1>11. y \o (<<38>> \o z) = Around(y, 38, z)
    BY <1>10, BetweenIs
  <1>12. Around(y, 38, z) \in Seq(Nat)
    BY <1>10, AroundIs
  <1>13. x \o (<<38>> \o Around(y, 38, z)) = Around(x, 38, Around(y, 38, z))
    BY <1>10, <1>12, BetweenIs
  <1>14. QED
    BY <1>9, <1>11, <1>13 DEF x, y, z

LEMMA AllOfTwo ==
  ASSUME NEW x, NEW y, x # <<>>, y # <<>>
  PROVE  {q \in ToSet(<<x, y>>) : q # <<>>} = {x, y}
  BY DEF ToSet

LEMMA AllOfThree ==
  ASSUME NEW x, NEW y, NEW z, x # <<>>, y # <<>>, z # <<>>
  PROVE  {q \in ToSet(<<x, y, z>>) : q # <<>>} = {x, y, z}
  BY DEF ToSet

LEMMA GetIsRead ==
  ASSUME NEW D, D \subseteq Names, NEW ps \in [D -> Seq(Byte)],
         {q \in ToSet(Split(GetRequest(ps), 38)) : q # <<>>} = {Pair(n, ps[n]) : n \in D}
  PROVE  FormPairs(GetRequest(ps)) = ps
  <1> DEFINE piece == [n \in D |-> Pair(n, ps[n])]
             head  == [n \in D |-> <<n>>]
             value == [n \in D |-> UrlEscape(ps[n])]
             g == GetRequest(ps)
  <1>1. \A n \in D : n \in Names /\ ps[n] \in Seq(Byte)
    OBVIOUS
  <1>2. \A n \in D : piece[n] = Pair(n, ps[n]) /\ head[n] = <<n>> /\ value[n] = UrlEscape(ps[n])
    BY Zenon
  <1>3. value = [n \in D |-> value[n]]
    BY <1>2, Zenon
  <1>4. {Pair(n, ps[n]) : n \in D} = {piece[n] : n \in D}
    <2> HIDE DEF piece
    <2>1. QED
      BY <1>2
  <1> HIDE DEF piece, head, value, g
  <1>5. \A n \in D : Split(piece[n], 61) = <<head[n], value[n]>> /\ Last(head[n]) = n
    BY <1>1, <1>2, PairIs, Zenon
  <1>6. {q \in ToSet(Split(g, 38)) : q # <<>>} = {piece[n] : n \in D}
    BY <1>4, Zenon DEF g
  <1>7. Pairs(g, 38) = [n \in D |-> value[n]]
    <2>1. AreParts(g, 38, D, piece, head, value)
      BY <1>5, <1>6, Zenon DEF AreParts
    <2>2. ValuesAre(g, 38, D, value)
      BY <2>1, PairsAre
    <2>3. QED
      BY <2>2, Zenon DEF ValuesAre
  <1>8. Pairs(g, 38) = [n \in D |-> UrlEscape(ps[n])]
    BY <1>3, <1>7, Zenon DEF value
  <1>9. FormPairs(g) = ps
    BY <1>8, FormPairsAre
  <1>10. QED
    BY <1>9 DEF g

LEMMA GetRequestIsRead ==
  ASSUME NEW D, NEW ps, IsParams(ps, D)
  PROVE  GetRequest(ps) \in Seq(Byte) /\ FormPairs(GetRequest(ps)) = ps
  <1> DEFINE g == GetRequest(ps)
             A == Nat \ {38}
             all == {q \in ToSet(Split(g, 38)) : q # <<>>}
  <1>1. D \subseteq Names /\ ps \in [D -> Seq(Byte)] /\ \A n \in D : n \in Names /\ ps[n] \in Seq(Byte)
    BY Zenon DEF IsParams
  <1>2. 38 \in Byte /\ 38 \notin A
    BY ByteIs, SMT
  <1>3. \A n \in D : Pair(n, ps[n]) \in Seq(Byte) /\ Pair(n, ps[n]) \in Seq(A) /\ Pair(n, ps[n]) # <<>>
    BY <1>1, PairIs
  <1> HIDE DEF g, A
  <1>4. ASSUME NEW a \in D, NEW b \in D, a < b, D = {a, b}
        PROVE  g \in Seq(Byte) /\ all = {Pair(n, ps[n]) : n \in D}
    <2> DEFINE x == Pair(a, ps[a])
               y == Pair(b, ps[b])
    <2>1. x \in Seq(Byte) /\ x \in Seq(A) /\ x # <<>> /\ y \in Seq(Byte) /\ y \in Seq(A) /\ y # <<>>
      BY <1>3
    <2>2. {Pair(n, ps[n]) : n \in D} = {x, y}
      BY <1>4, Zenon
    <2>3. g = Around(x, 38, y)
      BY <1>1, <1>4, GetTwo DEF g
    <2> HIDE DEF x, y
    <2>4. g \in Seq(Byte)
      BY <1>2, <2>1, <2>3, AroundIs
    <2>5. Split(g, 38) = <<x, y>>
      BY <1>2, <2>1, <2>3, SplitOne
    <2>6. QED
      BY <2>1, <2>2, <2>4, <2>5, AllOfTwo, Zenon
  <1>5. ASSUME NEW a \in D, NEW b \in D, NEW c \in D, a < b, b < c, D = {a, b, c}
        PROVE  g \in Seq(Byte) /\ all = {Pair(n, ps[n]) : n \in D}
    <2> DEFINE x == Pair(a, ps[a])
               y == Pair(b, ps[b])
               z == Pair(c, ps[c])
    <2>1. /\ x \in Seq(Byte) /\ x \in Seq(A) /\ x # <<>>
          /\ y \in Seq(Byte) /\ y \in Seq(A) /\ y # <<>>
          /\ z \in Seq(Byte) /\ z \in Seq(A) /\ z # <<>>
      BY <1>3
    <2>2. {Pair(n, ps[n]) : n \in D} = {x, y, z}
      BY <1>5, Zenon
    <2>3. g = Around(x, 38, Around(y, 38, z))
      BY <1>1, <1>5, GetThree DEF g
    <2> HIDE DEF x, y, z
    <2>4. g \in Seq(Byte)
      <3>1. Around(y, 38, z) \in Seq(Byte)
        BY <1>2, <2>1, AroundIs
      <3>2. QED
        BY <1>2, <2>1, <2>3, <3>1, AroundIs
    <2>5. Split(g, 38) = <<x, y, z>>
      BY <1>2, <2>1, <2>3, SplitTwo
    <2>6. QED
      BY <2>1, <2>2, <2>4, <2>5, AllOfThree, Zenon
  <1>6. g \in Seq(Byte) /\ all = {Pair(n, ps[n]) : n \in D}
    BY <1>4, <1>5, Zenon DEF IsParams
  <1>7. FormPairs(g) = ps
    BY <1>1, <1>6, GetIsRead DEF g
  <1>8. QED
    BY <1>6, <1>7 DEF g

-----------------------------------------------------------------------------
(* The header and the body. *)

\* A text in quotes, and the parameters of the header: the first, and those a space goes before.
Quoted(v) == Around(<<>>, 34, Around(UrlEscape(v), 34, <<>>))
Field(head, v) == Around(head, 61, Quoted(v))

AreSeqs(a, b, c) == a \in Seq(Nat) /\ b \in Seq(Nat) /\ c \in Seq(Nat)

Regroups(a, b, c) == (a \o b) \o c = a \o (b \o c)

LEMMA Regroup ==
  ASSUME NEW a, NEW b, NEW c, AreSeqs(a, b, c)
  PROVE  Regroups(a, b, c)
  <1>1. a \in Seq(Nat) /\ b \in Seq(Nat) /\ c \in Seq(Nat)
    BY DEF AreSeqs
  <1>2. QED
    BY <1>1, ConcatAssociates DEF Regroups

LEMMA QuotedIs ==
  ASSUME NEW v \in Seq(Byte)
  PROVE  /\ Quoted(v) \in Seq(Nat) /\ Quoted(v) \in Seq(Nat \ {44}) /\ Quoted(v) \in Seq(Nat \ {61})
         /\ Split(Quoted(v), 34) = <<<<>>, UrlEscape(v), <<>>>>
         /\ Quoted(v) = <<34>> \o (UrlEscape(v) \o <<34>>)
  <1> DEFINE u == UrlEscape(v)
             q == Quoted(v)
             r == Around(u, 34, <<>>)
             T == Nat \ {34}
  <1>1. q = Around(<<>>, 34, r)
    BY Zenon DEF Quoted
  <1>2. u \in Seq(T) /\ <<>> \in Seq(T) /\ 34 \notin T
    BY TextLacks
  <1> HIDE DEF u, q
  <1>3. Split(q, 34) = <<<<>>, u, <<>>>>
    <2> DEFINE e == <<>>
               h == 34
    <2>0. u \in Seq(T) /\ e \in Seq(T) /\ h \notin T
      BY <1>2
    <2> HIDE DEF T, e, h
    <2>1. Split(Around(e, h, Around(u, h, e)), h) = <<e, u, e>>
      BY <2>0, SplitTwo
    <2>2. QED
      BY <1>1, <2>1, Zenon DEF e, h
  <1>4. ASSUME NEW S, 34 \in S, u \in Seq(S)
        PROVE  q \in Seq(S) /\ q = <<34>> \o (u \o <<34>>)
    <2> DEFINE e == <<>>
               h == <<34>>
    <2>1. e \in Seq(S) /\ h \in Seq(S)
      BY <1>4
    <2>2. e \o h = h
      BY <2>1, EmptyConcat
    <2>3. u \o h \in Seq(S)
      BY <1>4, <2>1, ConcatLength
    <2>4. (u \o h) \o <<>> = u \o h
      BY <2>3, EmptyConcat
    <2>5. r = u \o h
      BY <2>4, Zenon DEF Around
    <2>6. r \in Seq(S)
      BY <2>3, <2>5
    <2>7. q \in Seq(S)
      <3> HIDE DEF r
      <3>1. QED
        BY <1>1, <1>4, <2>1, <2>6, AroundIs DEF e
    <2>8. q = h \o (u \o h)
      <3>1. q = (e \o h) \o r
        BY <1>1, Zenon DEF Around
      <3>2. QED
        BY <2>2, <2>5, <3>1, Zenon
    <2>9. QED
      BY <2>7, <2>8, Zenon
  <1>5. /\ u \in Seq(Nat) /\ u \in Seq(Nat \ {44}) /\ u \in Seq(Nat \ {61})
        /\ 34 \in Nat /\ 34 \in Nat \ {44} /\ 34 \in Nat \ {61}
    BY TextIs, TextLacks DEF u
  <1>6. q \in Seq(Nat) /\ q = <<34>> \o (u \o <<34>>)
    BY <1>4, <1>5
  <1>7. q \in Seq(Nat \ {44})
    <2> DEFINE S == Nat \ {44}
    <2>1. 34 \in S /\ u \in Seq(S)
      BY <1>5
    <2> HIDE DEF S
    <2>2. q \in Seq(S)
      BY <1>4, <2>1
    <2>3. QED
      BY <2>2 DEF S
  <1>8. q \in Seq(Nat \ {61})
    <2> DEFINE S == Nat \ {61}
    <2>1. 34 \in S /\ u \in Seq(S)
      BY <1>5
    <2> HIDE DEF S
    <2>2. q \in Seq(S)
      BY <1>4, <2>1
    <2>3. QED
      BY <2>2 DEF S
  <1>9. QED
    BY <1>3, <1>6, <1>7, <1>8, Zenon DEF q, u

LEMMA FieldIs ==
  ASSUME NEW n \in Names, NEW v \in Seq(Byte)
  PROVE  CombineAsPostParam(n, v) = Field(<<n>>, v)
  <1> DEFINE u == UrlEscape(v)
             s == <<n>>
             e == <<61>>
             h == <<34>>
             a == s \o e
             q == Quoted(v)
  <1>1. /\ n \in Nat /\ u \in Seq(Nat) /\ s \in Seq(Nat) /\ e \in Seq(Nat) /\ h \in Seq(Nat)
    BY NameIs, TextIs
  <1>2. q = h \o (u \o h)
    BY QuotedIs, Zenon
  <1>3. <<n, 61, 34>> = s \o <<61, 34>> /\ <<61, 34>> = e \o h
    <2>1. 61 \in Nat /\ 34 \in Nat
      OBVIOUS
    <2>2. QED
      BY <1>1, <2>1, OneBeforeTwo, OneThen
  <1>4. CombineAsPostParam(n, v) = (<<n, 61, 34>> \o u) \o h
    BY Zenon DEF CombineAsPostParam
  <1>5. Field(<<n>>, v) = a \o q
    BY Zenon DEF Field, Around
  <1> HIDE DEF u, s, e, h, q
  <1>6. s \o (e \o h) = a \o h
    <2>1. AreSeqs(s, e, h)
      BY <1>1, Zenon DEF AreSeqs
    <2>2. Regroups(s, e, h)
      BY <2>1, Regroup, Zenon
    <2>3. QED
      BY <2>2, Zenon DEF Regroups
  <1>7. a \in Seq(Nat)
    BY <1>1, ConcatLength
  <1> HIDE DEF a
  <1>8. ((a \o h) \o u) \o h = a \o (h \o (u \o h))
    <2> DEFINE w == u \o h
    <2>1. (a \o h) \in Seq(Nat) /\ w \in Seq(Nat)
      BY <1>1, <1>7, ConcatLength
    <2>2. ((a \o h) \o u) \o h = (a \o h) \o w
      <3> DEFINE k == a \o h
      <3>1. k \in Seq(Nat) /\ u \in Seq(Nat) /\ h \in Seq(Nat)
        BY <1>1, <2>1
      <3> HIDE DEF k
      <3>2. (k \o u) \o h = k \o (u \o h)
        <4>1. AreSeqs(k, u, h)
          BY <3>1, Zenon DEF AreSeqs
        <4>2. Regroups(k, u, h)
          BY <4>1, Regroup, Zenon
        <4>3. QED
          BY <4>2, Zenon DEF Regroups
      <3>3. QED
        BY <3>2, Zenon DEF k
    <2>3. (a \o h) \o w = a \o (h \o w)
      <3>1. a \in Seq(Nat) /\ h \in Seq(Nat) /\ w \in Seq(Nat)
        BY <1>1, <1>7, <2>1
      <3> HIDE DEF w
      <3>2. QED
        BY <3>1, ConcatAssociates
    <2>4. QED
      BY <2>2, <2>3, Zenon
  <1>9. QED
    BY <1>2, <1>3, <1>4, <1>5, <1>6, <1>8, Zenon

\* The parts of a field, whose name is the last in its head.
LEMMA FieldHas ==
  ASSUME NEW head \in Seq(Nat), head \in Seq(Nat \ {44}), head \in Seq(Nat \ {61}),
         NEW v \in Seq(Byte)
  PROVE  /\ Field(head, v) \in Seq(Nat)
         /\ Field(head, v) \in Seq(Nat \ {44})
         /\ Field(head, v) # <<>>
         /\ Split(Field(head, v), 61) = <<head, Quoted(v)>>
  <1> DEFINE q == Quoted(v)
             p == Field(head, v)
             A == Nat \ {44}
             B == Nat \ {61}
  <1>1. q \in Seq(Nat) /\ q \in Seq(A) /\ q \in Seq(B)
    BY QuotedIs
  <1>2. head \in Seq(A) /\ head \in Seq(B)
    OBVIOUS
  <1>3. 61 \in Nat /\ 61 \in A /\ 61 \notin B
    OBVIOUS
  <1>4. p = Around(head, 61, q)
    BY Zenon DEF Field
  <1> HIDE DEF q, p, A, B
  <1>5. p \in Seq(Nat) /\ IsAround(p, head, 61, q)
    BY <1>1, <1>3, <1>4, AroundIs
  <1>6. p \in Seq(A)
    BY <1>1, <1>2, <1>3, <1>4, AroundIs
  <1>7. p # <<>>
    <2>1. Len(p) = Len(head) + 1 + Len(q) /\ Len(q) \in Nat /\ Len(head) \in Nat
      BY <1>1, <1>5 DEF IsAround
    <2>2. Len(p) # 0
      BY <2>1
    <2>3. QED
      BY <2>2
  <1>8. Split(p, 61) = <<head, q>>
    BY <1>1, <1>2, <1>3, <1>4, SplitOne
  <1>9. QED
    BY <1>5, <1>6, <1>7, <1>8 DEF p, q, A

LEMMA NameHeadIs ==
  ASSUME NEW n \in Names
  PROVE  /\ <<n>> \in Seq(Nat) /\ <<n>> \in Seq(Nat \ {44}) /\ <<n>> \in Seq(Nat \ {61})
         /\ <<32, n>> \in Seq(Nat) /\ <<32, n>> \in Seq(Nat \ {44}) /\ <<32, n>> \in Seq(Nat \ {61})
         /\ Last(<<n>>) = n /\ Last(<<32, n>>) = n
  <1>1. n \in Nat /\ n \in Nat \ {44} /\ n \in Nat \ {61}
    BY NameIs
  <1>2. 32 \in Nat /\ 32 \in Nat \ {44} /\ 32 \in Nat \ {61}
    OBVIOUS
  <1>3. Last(<<n>>) = n /\ Last(<<32, n>>) = n
    <2>1. Len(<<n>>) = 1 /\ Len(<<32, n>>) = 2 /\ <<n>>[1] = n /\ <<32, n>>[2] = n
      OBVIOUS
    <2>2. QED
      BY <2>1, Zenon DEF Last
  <1>4. QED
    BY <1>1, <1>2, <1>3

\* The space that follows a comma goes to the next name.
LEMMA SpaceBefore ==
  ASSUME NEW n \in Names, NEW v \in Seq(Byte)
  PROVE  <<44, 32>> \o Field(<<n>>, v) = <<44>> \o Field(<<32, n>>, v)
  <1> DEFINE c == <<44>>
             b == <<32>>
             s == <<n>>
             e == <<61>>
             q == Quoted(v)
             a == s \o e
  <1>1. c \in Seq(Nat) /\ b \in Seq(Nat) /\ s \in Seq(Nat) /\ e \in Seq(Nat) /\ q \in Seq(Nat)
    <2>1. c \in Seq(Nat) /\ b \in Seq(Nat) /\ e \in Seq(Nat)
      OBVIOUS
    <2>2. s \in Seq(Nat) /\ q \in Seq(Nat)
      BY NameHeadIs, QuotedIs, Zenon
    <2>3. QED
      BY <2>1, <2>2
  <1>2. <<44, 32>> = c \o b /\ <<32, n>> = b \o s
    <2>1. 44 \in Nat /\ 32 \in Nat /\ n \in Nat
      BY NameIs
    <2>2. QED
      BY <2>1, OneThen
  <1>3. Field(<<n>>, v) = a \o q /\ Field(<<32, n>>, v) = (<<32, n>> \o e) \o q
    BY Zenon DEF Field, Around
  <1> HIDE DEF c, b, s, e, q
  <1>4. (b \o s) \o e = b \o a
    <2>1. AreSeqs(b, s, e)
      BY <1>1, Zenon DEF AreSeqs
    <2>2. Regroups(b, s, e)
      BY <2>1, Regroup, Zenon
    <2>3. QED
      BY <2>2, Zenon DEF Regroups
  <1>5. a \in Seq(Nat)
    BY <1>1, ConcatLength
  <1> HIDE DEF a
  <1> DEFINE f == a \o q
  <1>6. (b \o a) \o q = b \o f
    <2>1. AreSeqs(b, a, q)
      BY <1>1, <1>5, Zenon DEF AreSeqs
    <2>2. Regroups(b, a, q)
      BY <2>1, Regroup, Zenon
    <2>3. QED
      BY <2>2, Zenon DEF Regroups
  <1>7. f \in Seq(Nat)
    BY <1>1, <1>5, ConcatLength
  <1> HIDE DEF f
  <1>8. (c \o b) \o f = c \o (b \o f)
    <2>1. AreSeqs(c, b, f)
      BY <1>1, <1>7, Zenon DEF AreSeqs
    <2>2. Regroups(c, b, f)
      BY <2>1, Regroup, Zenon
    <2>3. QED
      BY <2>2, Zenon DEF Regroups
  <1>9. QED
    BY <1>2, <1>3, <1>4, <1>6, <1>8, Zenon DEF f, c

\* The header: a space goes before every name but the first.
HeadIn(a, n) == IF n = a THEN <<n>> ELSE <<32, n>>

LEMMA PostThree ==
  ASSUME NEW a \in Names, NEW b \in Names, NEW c \in Names, a < b, b < c,
         NEW ps \in [{a, b, c} -> Seq(Byte)]
  PROVE  PostRequest(ps) = Around(Field(<<a>>, ps[a]), 44,
                             Around(Field(<<32, b>>, ps[b]), 44, Field(<<32, c>>, ps[c])))
  <1> DEFINE D == {a, b, c}
             f == [n \in DOMAIN ps |-> CombineAsPostParam(n, ps[n])]
             j == <<44, 32>>
  <1>1. DOMAIN ps = D /\ \A n \in D : n \in Names /\ ps[n] \in Seq(Byte)
    OBVIOUS
  <1>2. a \in D /\ b \in D /\ c \in D
    OBVIOUS
  <1>3. \A n \in D : f[n] = Field(<<n>>, ps[n])
    BY <1>1, FieldIs
  <1>4. \A n \in D : Field(<<n>>, ps[n]) \in Seq(Nat) /\ Field(<<32, n>>, ps[n]) \in Seq(Nat)
    <2>1. ASSUME NEW n \in D
          PROVE  Field(<<n>>, ps[n]) \in Seq(Nat) /\ Field(<<32, n>>, ps[n]) \in Seq(Nat)
      <3> DEFINE h == <<n>>
                 k == <<32, n>>
      <3>1. n \in Names /\ ps[n] \in Seq(Byte)
        BY <1>1
      <3>2. /\ h \in Seq(Nat) /\ h \in Seq(Nat \ {44}) /\ h \in Seq(Nat \ {61})
            /\ k \in Seq(Nat) /\ k \in Seq(Nat \ {44}) /\ k \in Seq(Nat \ {61})
        BY <3>1, NameHeadIs, Zenon
      <3> HIDE DEF h, k, D
      <3>3. Field(h, ps[n]) \in Seq(Nat)
        BY <3>1, <3>2, FieldHas, Zenon
      <3>4. Field(k, ps[n]) \in Seq(Nat)
        BY <3>1, <3>2, FieldHas, Zenon
      <3>5. QED
        BY <3>3, <3>4 DEF h, k
    <2>2. QED
      BY <2>1
  <1>5. PostRequest(ps) = MakeRequest(f, j)
    BY Zenon DEF PostRequest
  <1>6. f \in [D -> Seq(Nat)]
    <2>1. f = [n \in D |-> Field(<<n>>, ps[n])]
      BY <1>1, <1>3, Zenon
    <2> HIDE DEF D, f
    <2>2. QED
      BY <1>4, <2>1
  <1> HIDE DEF f
  <1>7. a \in Nat /\ b \in Nat /\ c \in Nat /\ j \in Seq(Nat)
    BY NameIs
  <1> HIDE DEF j
  <1>8. MakeRequest(f, j) = f[a] \o (j \o (f[b] \o (j \o f[c])))
    BY <1>6, <1>7, MakeThree, Zenon
  <1> HIDE DEF D
  <1> DEFINE x == Field(<<a>>, ps[a])
             y == Field(<<b>>, ps[b])
             z == Field(<<c>>, ps[c])
             y1 == Field(<<32, b>>, ps[b])
             z1 == Field(<<32, c>>, ps[c])
             m == <<44>>
  <1>9. PostRequest(ps) = x \o (j \o (y \o (j \o z)))
    BY <1>2, <1>3, <1>5, <1>8, Zenon
  <1>10. j \o y = m \o y1 /\ j \o z = m \o z1
    BY <1>1, <1>2, SpaceBefore, Zenon DEF j
  <1>11. /\ x \in Seq(Nat) /\ y \in Seq(Nat) /\ z \in Seq(Nat) /\ y1 \in Seq(Nat) /\ z1 \in Seq(Nat)
         /\ m \in Seq(Nat) /\ 44 \in Nat
    <2>1. m \in Seq(Nat) /\ 44 \in Nat
      OBVIOUS
    <2>2. QED
      BY <1>2, <1>4, <2>1, Zenon
  <1> HIDE DEF x, y, z, y1, z1
  <1> DEFINE w == m \o z1
             e == Around(y1, 44, z1)
  <1>12. y1 \o w = e /\ e \in Seq(Nat)
    BY <1>11, BetweenIs, AroundIs
  <1>13. w \in Seq(Nat)
    BY <1>11, ConcatLength
  <1> HIDE DEF m, w
  <1>14. j \o (y \o w) = m \o e
    <2>1. AreSeqs(j, y, w) /\ AreSeqs(m, y1, w)
      BY <1>7, <1>11, <1>13, Zenon DEF AreSeqs
    <2>2. Regroups(j, y, w) /\ Regroups(m, y1, w)
      BY <2>1, Regroup, Zenon
    <2>3. QED
      BY <1>10, <1>12, <2>2, Zenon DEF Regroups
  <1>15. x \o (m \o e) = Around(x, 44, e)
    <2> HIDE DEF e
    <2>1. QED
      BY <1>11, <1>12, BetweenIs DEF m
  <1>16. PostRequest(ps) = Around(x, 44, e)
    BY <1>9, <1>10, <1>14, <1>15, Zenon DEF w
  <1>17. QED
    BY <1>16, Zenon DEF x, y1, z1

LEMMA HeaderIsRead ==
  ASSUME NEW a \in Names, NEW b \in Names, NEW c \in Names, a < b, b < c,
         NEW ps \in [{a, b, c} -> Seq(Byte)]
  PROVE  HeaderPairs(PostRequest(ps)) = ps
  <1> DEFINE D == {a, b, c}
             A == Nat \ {44}
             g == PostRequest(ps)
             piece == [n \in D |-> Field(HeadIn(a, n), ps[n])]
             head  == [n \in D |-> HeadIn(a, n)]
             value == [n \in D |-> Quoted(ps[n])]
  <1>1. a \in D /\ b \in D /\ c \in D /\ \A n \in D : n \in Names /\ ps[n] \in Seq(Byte)
    OBVIOUS
  <1>2. a # b /\ a # c
    <2>1. a \in Nat /\ b \in Nat /\ c \in Nat
      BY NameIs
    <2>2. QED
      BY <2>1
  <1>3. \A n \in D : /\ HeadIn(a, n) \in Seq(Nat)
                     /\ HeadIn(a, n) \in Seq(A) /\ HeadIn(a, n) \in Seq(Nat \ {61})
                     /\ Last(HeadIn(a, n)) = n
    <2> HIDE DEF D
    <2>1. QED
      BY <1>1, NameHeadIs, Zenon DEF HeadIn
  <1>4. \A n \in D : /\ piece[n] = Field(HeadIn(a, n), ps[n]) /\ head[n] = HeadIn(a, n)
                     /\ value[n] = Quoted(ps[n])
    BY Zenon
  <1>5. value = [n \in D |-> value[n]]
    BY <1>4, Zenon
  <1>0. g = Around(Field(<<a>>, ps[a]), 44,
             Around(Field(<<32, b>>, ps[b]), 44, Field(<<32, c>>, ps[c])))
    BY PostThree, Zenon
  <1> HIDE DEF D, g, piece, head, value
  <1>6. \A n \in D : /\ piece[n] \in Seq(A) /\ piece[n] # <<>>
                     /\ Split(piece[n], 61) = <<head[n], value[n]>> /\ Last(head[n]) = n
    <2>1. ASSUME NEW n \in D
          PROVE  /\ piece[n] \in Seq(A) /\ piece[n] # <<>>
                 /\ Split(piece[n], 61) = <<head[n], value[n]>> /\ Last(head[n]) = n
      <3>1. /\ Field(HeadIn(a, n), ps[n]) \in Seq(A) /\ Field(HeadIn(a, n), ps[n]) # <<>>
            /\ Split(Field(HeadIn(a, n), ps[n]), 61) = <<HeadIn(a, n), Quoted(ps[n])>>
        BY <1>1, <1>3, FieldHas, Zenon
      <3>2. QED
        BY <1>3, <1>4, <3>1, Zenon
    <2>2. QED
      BY <2>1
  <1>7. Split(g, 44) = <<piece[a], piece[b], piece[c]>>
    <2> DEFINE x == piece[a]
               y == piece[b]
               z == piece[c]
    <2>1. g = Around(x, 44, Around(y, 44, z))
      <3>1. x = Field(<<a>>, ps[a]) /\ y = Field(<<32, b>>, ps[b]) /\ z = Field(<<32, c>>, ps[c])
        BY <1>1, <1>2, <1>4, Zenon DEF HeadIn
      <3>2. QED
        BY <1>0, <3>1, Zenon
    <2>2. x \in Seq(A) /\ y \in Seq(A) /\ z \in Seq(A) /\ 44 \notin A
      BY <1>1, <1>6
    <2> HIDE DEF x, y, z, A
    <2>3. QED
      BY <2>1, <2>2, SplitTwo DEF x, y, z
  <1>8. {q \in ToSet(Split(g, 44)) : q # <<>>} = {piece[n] : n \in D}
    <2>1. {q \in ToSet(Split(g, 44)) : q # <<>>} = {piece[a], piece[b], piece[c]}
      <3> DEFINE x == piece[a]
                 y == piece[b]
                 z == piece[c]
      <3>1. x # <<>> /\ y # <<>> /\ z # <<>> /\ Split(g, 44) = <<x, y, z>>
        BY <1>1, <1>6, <1>7, Zenon
      <3> HIDE DEF x, y, z
      <3>2. {q \in ToSet(<<x, y, z>>) : q # <<>>} = {x, y, z}
        BY <3>1 DEF ToSet
      <3>3. QED
        BY <3>1, <3>2, Zenon DEF x, y, z
    <2>2. {piece[n] : n \in D} = {piece[a], piece[b], piece[c]}
      BY Zenon DEF D
    <2>3. QED
      BY <2>1, <2>2, Zenon
  <1>9. Pairs(g, 44) = value
    <2>1. AreParts(g, 44, D, piece, head, value)
      BY <1>6, <1>8, Zenon DEF AreParts
    <2>2. ValuesAre(g, 44, D, value)
      BY <2>1, PairsAre
    <2>3. QED
      BY <1>5, <2>2, Zenon DEF ValuesAre
  <1> DEFINE p == Pairs(g, 44)
  <1>10. HeaderPairs(g) = [n \in DOMAIN p |-> Unescaped(Split(p[n], 34)[2], 43)]
    BY Zenon DEF HeaderPairs
  <1>11. DOMAIN p = D /\ \A n \in D : p[n] = Quoted(ps[n])
    BY <1>4, <1>9, Zenon DEF value
  <1> HIDE DEF p
  <1>12. \A n \in D : Unescaped(Split(p[n], 34)[2], 43) = ps[n]
    <2>1. ASSUME NEW n \in D PROVE Unescaped(Split(p[n], 34)[2], 43) = ps[n]
      <3> DEFINE v == ps[n]
                 u == UrlEscape(v)
      <3>1. v \in Seq(Byte)
        BY <1>1
      <3>2. Split(p[n], 34) = <<<<>>, u, <<>>>>
        BY <1>11, <3>1, QuotedIs, Zenon
      <3> HIDE DEF u, v
      <3>3. Split(p[n], 34)[2] = u
        BY <3>2
      <3>4. 43 \in Nat
        OBVIOUS
      <3>5. Unescaped(u, 43) = v
        BY <3>1, <3>4, EscapedIsRead DEF u
      <3>6. QED
        BY <3>3, <3>5, Zenon DEF v
    <2>2. QED
      BY <2>1
  <1>13. HeaderPairs(g) = [n \in D |-> ps[n]]
    BY <1>10, <1>11, <1>12, Zenon
  <1>14. ps = [n \in D |-> ps[n]]
    BY DEF D
  <1>15. QED
    BY <1>13, <1>14, Zenon DEF g

LEMMA NothingIsRead ==
  /\ FormPairs(<<>>) = [n \in {} |-> <<>>]
  /\ HeaderPairs(<<>>) = [n \in {} |-> <<>>]
  <1> DEFINE e == <<>>
             none == [n \in {} |-> <<>>]
  <1>1. ASSUME NEW b \in Nat PROVE Pairs(e, b) = none
    <2> DEFINE T == {}
    <2>1. b \notin T /\ e \in Seq(T)
      OBVIOUS
    <2> HIDE DEF T, e
    <2>2. Split(e, b) = <<e>>
      BY <2>1, SplitNone
    <2>3. {q \in ToSet(<<e>>) : q # <<>>} = {}
      BY DEF ToSet, e
    <2>4. AreParts(e, b, {}, none, none, none)
      BY <2>2, <2>3, Zenon DEF AreParts
    <2>5. ValuesAre(e, b, {}, none)
      BY <2>4, PairsAre
    <2>6. QED
      BY <2>5, Zenon DEF ValuesAre
  <1>2. Pairs(e, 38) = none /\ Pairs(e, 44) = none
    <2>1. 38 \in Nat /\ 44 \in Nat
      OBVIOUS
    <2>2. QED
      BY <1>1, <2>1
  <1>3. DOMAIN none = {}
    OBVIOUS
  <1>4. FormPairs(e) = none
    <2>1. FormPairs(e) = [n \in DOMAIN Pairs(e, 38) |-> Unescaped(Pairs(e, 38)[n], 32)]
      BY Zenon DEF FormPairs
    <2> HIDE DEF e
    <2>2. QED
      BY <1>2, <1>3, <2>1, Zenon
  <1>5. HeaderPairs(e) = none
    <2>1. HeaderPairs(e) = [n \in DOMAIN Pairs(e, 44) |-> Unescaped(Split(Pairs(e, 44)[n], 34)[2], 43)]
      BY Zenon DEF HeaderPairs
    <2> HIDE DEF e
    <2>2. QED
      BY <1>2, <1>3, <2>1, Zenon
  <1>6. QED
    BY <1>4, <1>5, Zenon

LEMMA BodyIsRead ==
  ASSUME NEW n \in Names, NEW v \in Seq(Byte)
  PROVE  /\ <<n, 61>> \o UrlEscape(v) # <<>>
         /\ FormPairs(<<n, 61>> \o UrlEscape(v)) = [m \in {n} |-> v]
  <1> DEFINE g == <<n, 61>> \o UrlEscape(v)
             D == {n}
             f == [m \in D |-> v]
             piece == [m \in D |-> Pair(m, v)]
             head  == [m \in D |-> <<m>>]
             value == [m \in D |-> UrlEscape(v)]
             T == Nat \ {38}
  <1>1. g = Pair(n, v)
    BY CombinedIs, Zenon DEF CombineAsGetParam
  <1>2. /\ g \in Seq(T) /\ g # <<>> /\ Split(g, 61) = <<<<n>>, UrlEscape(v)>> /\ Last(<<n>>) = n
    BY <1>1, PairIs
  <1>3. piece[n] = g /\ head[n] = <<n>> /\ value[n] = UrlEscape(v)
    BY <1>1, Zenon
  <1>4. value = [m \in D |-> value[m]]
    BY Zenon
  <1>5. {piece[m] : m \in D} = {piece[n]}
    BY Zenon
  <1>6. Split(g, 38) = <<g>>
    <2>1. 38 \notin T
      OBVIOUS
    <2> HIDE DEF T, g
    <2>2. QED
      BY <1>2, <2>1, SplitNone
  <1>7. {q \in ToSet(<<g>>) : q # <<>>} = {g}
    <2> HIDE DEF g
    <2>1. QED
      BY <1>2 DEF ToSet
  <1> HIDE DEF g, piece, head, value
  <1>8. AreParts(g, 38, D, piece, head, value)
    <2>1. {q \in ToSet(Split(g, 38)) : q # <<>>} = {piece[m] : m \in D}
      BY <1>3, <1>5, <1>6, <1>7, Zenon
    <2>2. \A m \in D : Split(piece[m], 61) = <<head[m], value[m]>> /\ Last(head[m]) = m
      BY <1>2, <1>3, Zenon
    <2>3. QED
      BY <2>1, <2>2, Zenon DEF AreParts
  <1>9. ValuesAre(g, 38, D, value)
    BY <1>8, PairsAre
  <1>10. Pairs(g, 38) = [m \in D |-> UrlEscape(f[m])]
    BY <1>4, <1>9, Zenon DEF ValuesAre, value
  <1>11. f \in [D -> Seq(Byte)]
    OBVIOUS
  <1>12. FormPairs(g) = f
    <2> HIDE DEF f, D
    <2>1. QED
      BY <1>10, <1>11, FormPairsAre
  <1>13. QED
    BY <1>2, <1>12 DEF g

-----------------------------------------------------------------------------
(* Method, uri and message. *)

LEMMA OrderedIn ==
  ASSUME NEW D, NEW ps, IsParams(ps, D)
  PROVE  \A i \in DOMAIN Ordered(D) : Ordered(D)[i] \in D
  <1>1. \A n \in D : n \in Nat
    BY NameIs DEF IsParams
  <1>2. ASSUME NEW a \in D, NEW b \in D, a < b, D = {a, b}
        PROVE  \A i \in DOMAIN Ordered(D) : Ordered(D)[i] \in D
    <2>1. Ordered(D) = <<a, b>>
      BY <1>1, <1>2, OrderedTwo
    <2>2. \A i \in DOMAIN <<a, b>> : <<a, b>>[i] \in D
      OBVIOUS
    <2>3. QED
      BY <2>1, <2>2, Zenon
  <1>3. ASSUME NEW a \in D, NEW b \in D, NEW c \in D, a < b, b < c, D = {a, b, c}
        PROVE  \A i \in DOMAIN Ordered(D) : Ordered(D)[i] \in D
    <2>1. Ordered(D) = <<a, b, c>>
      BY <1>1, <1>3, OrderedThree
    <2>2. \A i \in DOMAIN <<a, b, c>> : <<a, b, c>>[i] \in D
      OBVIOUS
    <2>3. QED
      BY <2>1, <2>2, Zenon
  <1>4. QED
    BY <1>2, <1>3, Zenon DEF IsParams

Methods == {Get, Post}

LEMMA MethodIs ==
  ASSUME NEW m \in Methods
  PROVE  m \in Seq(Nat) /\ m \in Seq(Nat \ {38})
  <1>1. Get \in Seq(Nat) /\ Get \in Seq(Nat \ {38})
    BY DEF Get
  <1>2. Post \in Seq(Nat) /\ Post \in Seq(Nat \ {38})
    BY DEF Post
  <1>3. QED
    BY <1>1, <1>2, Zenon DEF Methods

LEMMA UriIs == Uri \in Seq(Byte)
  <1>1. 104 \in Byte /\ 58 \in Byte /\ 47 \in Byte
    BY ByteIs, SMT
  <1>2. QED
    BY <1>1 DEF Uri

\* The server joins the parameters as the client does.
LEMMA ServerWrites ==
  ASSUME NEW D, NEW ps, IsParams(ps, D), NEW m
  PROVE  ServerMessage(m, ps) = Message(m, ps)
  <1> DEFINE names == Ordered(DOMAIN ps)
             p(i) == <<names[i], 61>> \o Escaped(ps[names[i]])
             f == [n \in DOMAIN ps |-> CombineAsGetParam(n, ps[n])]
             ss == [i \in DOMAIN names |-> IF i = 1 THEN p(i) ELSE <<38>> \o p(i)]
             tt == [i \in DOMAIN names |-> (IF i = 1 THEN <<>> ELSE <<38>>) \o f[names[i]]]
  <1>1. D \subseteq Names /\ ps \in [D -> Seq(Byte)]
    BY Zenon DEF IsParams
  <1>2. DOMAIN ps = D /\ \A n \in D : n \in Names /\ ps[n] \in Seq(Byte)
    BY <1>1
  <1>3. \A i \in DOMAIN names : names[i] \in D
    BY <1>2, OrderedIn, Zenon
  <1>4. DOMAIN f = DOMAIN ps
    BY Zenon
  <1>5. GetRequest(ps) = FlattenSeq(tt)
    <2>1. GetRequest(ps) = MakeRequest(f, <<38>>)
      BY Zenon DEF GetRequest
    <2> HIDE DEF f
    <2>2. MakeRequest(f, <<38>>) = FlattenSeq(tt)
      BY <1>4, Zenon DEF MakeRequest
    <2>3. QED
      BY <2>1, <2>2, Zenon
  <1>6. \A i \in DOMAIN names : f[names[i]] = p(i) /\ p(i) \in Seq(Byte)
    <2>1. ASSUME NEW i \in DOMAIN names PROVE f[names[i]] = p(i) /\ p(i) \in Seq(Byte)
      <3> DEFINE n == names[i]
                 v == ps[n]
      <3>1. n \in D
        BY <1>3
      <3>2. n \in Names /\ v \in Seq(Byte)
        BY <1>2, <3>1
      <3>3. f[n] = CombineAsGetParam(n, v)
        BY <1>2, <3>1, Zenon
      <3>4. Escaped(v) = UrlEscape(v)
        BY <3>2, UrlEscapeIs
      <3>5. CombineAsGetParam(n, v) = <<n, 61>> \o Escaped(v)
        BY <3>4, Zenon DEF CombineAsGetParam
      <3> HIDE DEF n, v, f
      <3>6. CombineAsGetParam(n, v) = Pair(n, v) /\ Pair(n, v) \in Seq(Byte)
        BY <3>2, CombinedIs, PairIs
      <3>7. QED
        BY <3>3, <3>5, <3>6, Zenon DEF n, v
    <2>2. QED
      BY <2>1, Zenon
  <1>7. \A i \in DOMAIN names : <<>> \o p(i) = p(i)
    <2> HIDE DEF names, p
    <2>1. QED
      BY <1>6, EmptyConcat
  <1> HIDE DEF f
  <1>8. ss = tt
    <2>1. \A i \in DOMAIN names : (IF i = 1 THEN p(i) ELSE <<38>> \o p(i))
                                  = (IF i = 1 THEN <<>> ELSE <<38>>) \o f[names[i]]
      <3> HIDE DEF names, p
      <3>1. QED
        BY <1>6, <1>7, Zenon
    <2> HIDE DEF names, p
    <2>2. QED
      BY <2>1, Zenon
  <1> DEFINE joined == FlattenSeq(ss)
  <1>9. ServerMessage(m, ps) = m \o <<38>> \o Escaped(Uri) \o <<38>> \o Escaped(joined)
    BY Zenon DEF ServerMessage
  <1> HIDE DEF ss, tt
  <1>10. joined = GetRequest(ps)
    BY <1>5, <1>8
  <1>11. joined \in Seq(Byte)
    BY <1>10, GetRequestIsRead, Zenon
  <1> HIDE DEF joined
  <1>12. Escaped(Uri) = UrlEscape(Uri) /\ Escaped(joined) = UrlEscape(joined)
    BY <1>11, UriIs, UrlEscapeIs
  <1>13. QED
    BY <1>9, <1>10, <1>12, Zenon DEF Message

\* A message is cut where its parts were joined.
LEMMA MessageIsRead ==
  ASSUME NEW D, NEW ps, IsParams(ps, D), NEW m \in Methods
  PROVE  /\ Split(Message(m, ps), 38) = <<m, UrlEscape(Uri), UrlEscape(GetRequest(ps))>>
         /\ FormPairs(Unescaped(UrlEscape(GetRequest(ps)), 43)) = ps
         /\ Message(m, ps) # <<>>
  <1> DEFINE u == UrlEscape(Uri)
             g == GetRequest(ps)
             w == UrlEscape(g)
             s == <<38>>
             T == Nat \ {38}
             M == Message(m, ps)
  <1>1. g \in Seq(Byte) /\ FormPairs(g) = ps
    BY GetRequestIsRead, Zenon
  <1>2. u \in Seq(T) /\ w \in Seq(T) /\ m \in Seq(T) /\ 38 \notin T
    <2> HIDE DEF g
    <2>1. UrlEscape(Uri) \in Seq(Nat \ {38}) /\ UrlEscape(g) \in Seq(Nat \ {38})
      BY <1>1, UriIs, TextLacks
    <2>2. QED
      BY <2>1, MethodIs
  <1>3. u \in Seq(Nat) /\ w \in Seq(Nat) /\ m \in Seq(Nat) /\ s \in Seq(Nat) /\ 38 \in Nat
    <2> HIDE DEF g
    <2>1. u \in Seq(Nat) /\ w \in Seq(Nat)
      BY <1>1, UriIs, TextIs
    <2>2. QED
      BY <2>1, MethodIs
  <1>4. M = (((m \o s) \o u) \o s) \o w
    BY Zenon DEF Message
  <1> HIDE DEF u, w, s, T, M, g
  <1> DEFINE a == m \o s
             b == u \o s
             c == b \o w
  <1>5. a \in Seq(Nat) /\ b \in Seq(Nat)
    BY <1>3, ConcatLength
  <1>6. (a \o u) \o s = a \o b
    <2> HIDE DEF a
    <2>1. AreSeqs(a, u, s)
      BY <1>3, <1>5, Zenon DEF AreSeqs
    <2>2. Regroups(a, u, s)
      BY <2>1, Regroup, Zenon
    <2>3. QED
      BY <2>2, Zenon DEF Regroups
  <1>7. (a \o b) \o w = a \o c
    <2> HIDE DEF a, b
    <2>1. AreSeqs(a, b, w)
      BY <1>3, <1>5, Zenon DEF AreSeqs
    <2>2. Regroups(a, b, w)
      BY <2>1, Regroup, Zenon
    <2>3. QED
      BY <2>2, Zenon DEF Regroups
  <1>8. M = a \o c
    BY <1>4, <1>6, <1>7, Zenon
  <1>9. a \o c = Around(m, 38, Around(u, 38, w))
    BY Zenon DEF Around, s
  <1>10. Split(M, 38) = <<m, u, w>>
    <2> HIDE DEF a, c
    <2>1. Split(Around(m, 38, Around(u, 38, w)), 38) = <<m, u, w>>
      BY <1>2, SplitTwo
    <2>2. QED
      BY <1>8, <1>9, <2>1, Zenon
  <1>11. M # <<>>
    <2> DEFINE e == Around(u, 38, w)
    <2>1. e \in Seq(Nat)
      BY <1>3, AroundIs
    <2> HIDE DEF e, a, c
    <2>2. IsAround(Around(m, 38, e), m, 38, e)
      BY <1>3, <2>1, AroundIs
    <2>3. M = Around(m, 38, e)
      BY <1>8, <1>9, Zenon DEF e
    <2>4. Len(M) = Len(m) + 1 + Len(e) /\ Len(m) \in Nat /\ Len(e) \in Nat
      BY <1>3, <2>1, <2>2, <2>3 DEF IsAround
    <2>5. Len(M) # 0
      BY <2>4
    <2>6. QED
      BY <2>5
  <1>12. Unescaped(w, 43) = g
    <2>1. 43 \in Nat
      OBVIOUS
    <2>2. QED
      BY <1>1, <2>1, EscapedIsRead DEF w
  <1>13. QED
    BY <1>1, <1>10, <1>11, <1>12, Zenon DEF M, u, w, g

-----------------------------------------------------------------------------
(* Base64. *)

LEMMA DigitPlaces == \A k : k \in 1 .. 64 <=> k \in Nat /\ 1 <= k /\ k <= 64
  BY SMT

\* A digit of base64, by its place among them.
LEMMA DigitAt ==
  ASSUME NEW k \in Nat, 1 <= k, k <= 64
  PROVE  /\ k <= 26 => Base64Digits[k] = 64 + k
         /\ 27 <= k /\ k <= 52 => Base64Digits[k] = 70 + k
         /\ 53 <= k /\ k <= 62 => Base64Digits[k] = k - 5
         /\ k = 63 => Base64Digits[k] = 43
         /\ k = 64 => Base64Digits[k] = 47
  <1> DEFINE d(i) == CASE i <= 26 -> 64 + i
                       [] 27 <= i /\ i <= 52 -> 70 + i
                       [] 53 <= i /\ i <= 62 -> i - 5
                       [] i = 63 -> 43
                       [] i = 64 -> 47
  <1>1. k \in 1 .. 64
    BY DigitPlaces
  <1>2. Base64Digits[k] = d(k)
    BY <1>1, Zenon DEF Base64Digits
  <1>3. CASE k <= 26
    <2>1. d(k) = 64 + k
      BY <1>3
    <2>2. QED
      BY <1>2, <1>3, <2>1
  <1>4. CASE 27 <= k /\ k <= 52
    <2>1. d(k) = 70 + k
      BY <1>4
    <2>2. QED
      BY <1>2, <1>4, <2>1
  <1>5. CASE 53 <= k /\ k <= 62
    <2>1. d(k) = k - 5
      BY <1>5
    <2>2. QED
      BY <1>2, <1>5, <2>1
  <1>6. CASE k = 63
    <2>1. d(k) = 43
      BY <1>6
    <2>2. QED
      BY <1>2, <1>6, <2>1
  <1>7. CASE k = 64
    <2>1. d(k) = 47
      BY <1>7
    <2>2. QED
      BY <1>2, <1>7, <2>1
  <1>8. k <= 26 \/ (27 <= k /\ k <= 52) \/ (53 <= k /\ k <= 62) \/ k = 63 \/ k = 64
    OBVIOUS
  <1>9. QED
    BY <1>3, <1>4, <1>5, <1>6, <1>7, <1>8

LEMMA DigitsDiffer ==
  ASSUME NEW j \in Nat, 1 <= j, j <= 64, NEW k \in Nat, 1 <= k, k <= 64,
         Base64Digits[j] = Base64Digits[k]
  PROVE  j = k
  <1> DEFINE x == Base64Digits[j]
             y == Base64Digits[k]
  <1>1. /\ j <= 26 => x = 64 + j
        /\ 27 <= j /\ j <= 52 => x = 70 + j
        /\ 53 <= j /\ j <= 62 => x = j - 5
        /\ j = 63 => x = 43
        /\ j = 64 => x = 47
    BY DigitAt
  <1>2. /\ k <= 26 => y = 64 + k
        /\ 27 <= k /\ k <= 52 => y = 70 + k
        /\ 53 <= k /\ k <= 62 => y = k - 5
        /\ k = 63 => y = 43
        /\ k = 64 => y = 47
    BY DigitAt
  <1>3. x = y
    OBVIOUS
  <1> HIDE DEF x, y
  <1>4. QED
    BY <1>1, <1>2, <1>3

LEMMA SingleIs ==
  ASSUME NEW c \in Nat, c < 64
  PROVE  /\ Base64ConvertSingle(c) = Base64Digits[c + 1]
         /\ Base64ConvertSingle(c) # 61 /\ Base64ConvertSingle(c) \in Byte
  <1> DEFINE k == c + 1
             x == Base64ConvertSingle(c)
  <1>1. k \in Nat /\ 1 <= k /\ k <= 64 /\ c = k - 1
    OBVIOUS
  <1>2. /\ c < 26 => x = 65 + c
        /\ 26 <= c /\ c < 52 => x = 97 + c - 26
        /\ 52 <= c /\ c < 62 => x = 48 + c - 52
        /\ c = 62 => x = 43
        /\ c = 63 => x = 47
    <2>1. c < 26 => x = 65 + c
      BY DEF Base64ConvertSingle
    <2>2. 26 <= c /\ c < 52 => x = 97 + c - 26
      BY DEF Base64ConvertSingle
    <2>3. 52 <= c /\ c < 62 => x = 48 + c - 52
      BY DEF Base64ConvertSingle
    <2>4. c = 62 => x = 43
      BY DEF Base64ConvertSingle
    <2>5. c = 63 => x = 47
      BY DEF Base64ConvertSingle
    <2>6. QED
      BY <2>1, <2>2, <2>3, <2>4, <2>5
  <1> HIDE DEF x
  <1>3. x = Base64Digits[k]
    <2>1. /\ k <= 26 => Base64Digits[k] = 64 + k
          /\ 27 <= k /\ k <= 52 => Base64Digits[k] = 70 + k
          /\ 53 <= k /\ k <= 62 => Base64Digits[k] = k - 5
          /\ k = 63 => Base64Digits[k] = 43
          /\ k = 64 => Base64Digits[k] = 47
      BY <1>1, DigitAt
    <2> DEFINE y == Base64Digits[k]
    <2> HIDE DEF y, k
    <2>2. x = y
      BY <1>1, <1>2, <2>1 DEF y
    <2>3. QED
      BY <2>2 DEF y
  <1>4. x # 61 /\ x \in Nat /\ x < 256
    BY <1>2
  <1>5. QED
    BY <1>3, <1>4, ByteIs DEF x

\* The bits of a digit: those of its place, of which it has six.
Bit(c, i) == (c \div <<32, 16, 8, 4, 2, 1>>[i + 1]) % 2

LEMMA BitOfIs ==
  ASSUME NEW c \in Nat, c < 64, NEW i
  PROVE  BitOf(Base64ConvertSingle(c), i) = Bit(c, i)
  <1> DEFINE x == Base64ConvertSingle(c)
             P(k) == Base64Digits[k] = x
             k0 == CHOOSE k \in 1 .. 64 : P(k)
  <1>1. c + 1 \in 1 .. 64 /\ P(c + 1)
    BY SingleIs, DigitPlaces
  <1> HIDE DEF P
  <1>2. k0 \in 1 .. 64 /\ P(k0)
    BY <1>1, Zenon
  <1> HIDE DEF k0
  <1>3. k0 = c + 1
    <2>1. k0 \in Nat /\ 1 <= k0 /\ k0 <= 64 /\ c + 1 \in Nat /\ 1 <= c + 1 /\ c + 1 <= 64
      BY <1>2, DigitPlaces
    <2>2. Base64Digits[k0] = Base64Digits[c + 1]
      BY <1>1, <1>2 DEF P
    <2>3. QED
      BY <2>1, <2>2, DigitsDiffer
  <1>4. k0 - 1 = c
    BY <1>3
  <1>5. BitOf(x, i) = ((k0 - 1) \div <<32, 16, 8, 4, 2, 1>>[i + 1]) % 2
    BY Zenon DEF BitOf, P, k0
  <1>6. QED
    BY <1>4, <1>5, Zenon DEF Bit

LEMMA BitsAre ==
  ASSUME NEW c \in Nat, c < 64
  PROVE  /\ Bit(c, 0) = (c \div 32) % 2 /\ Bit(c, 1) = (c \div 16) % 2 /\ Bit(c, 2) = (c \div 8) % 2
         /\ Bit(c, 3) = (c \div 4) % 2 /\ Bit(c, 4) = (c \div 2) % 2 /\ Bit(c, 5) = (c \div 1) % 2
  <1> DEFINE t == <<32, 16, 8, 4, 2, 1>>
  <1>1. t[1] = 32 /\ t[2] = 16 /\ t[3] = 8 /\ t[4] = 4 /\ t[5] = 2 /\ t[6] = 1
    OBVIOUS
  <1> HIDE DEF t
  <1>2. \A i : Bit(c, i) = (c \div t[i + 1]) % 2
    BY Zenon DEF Bit, t
  <1>3. 0 + 1 = 1 /\ 1 + 1 = 2 /\ 2 + 1 = 3 /\ 3 + 1 = 4 /\ 4 + 1 = 5 /\ 5 + 1 = 6
    OBVIOUS
  <1>4. QED
    BY <1>1, <1>2, <1>3, Zenon

\* The parts of a digit that its bits make.
LEMMA BitsMake ==
  ASSUME NEW c \in Nat, c < 64
  PROVE  /\ 128 * Bit(c, 0) + 64 * Bit(c, 1) + 32 * Bit(c, 2) + 16 * Bit(c, 3)
              + 8 * Bit(c, 4) + 4 * Bit(c, 5) = 4 * c
         /\ 2 * Bit(c, 0) + Bit(c, 1) = c \div 16
         /\ 128 * Bit(c, 2) + 64 * Bit(c, 3) + 32 * Bit(c, 4) + 16 * Bit(c, 5) = 16 * (c % 16)
         /\ 8 * Bit(c, 0) + 4 * Bit(c, 1) + 2 * Bit(c, 2) + Bit(c, 3) = c \div 4
         /\ 128 * Bit(c, 4) + 64 * Bit(c, 5) = 64 * (c % 4)
         /\ 32 * Bit(c, 0) + 16 * Bit(c, 1) + 8 * Bit(c, 2) + 4 * Bit(c, 3)
              + 2 * Bit(c, 4) + Bit(c, 5) = c
         /\ \A i \in 0 .. 5 : Bit(c, i) \in {0, 1}
  <1> DEFINE b0 == (c \div 32) % 2
             b1 == (c \div 16) % 2
             b2 == (c \div 8) % 2
             b3 == (c \div 4) % 2
             b4 == (c \div 2) % 2
             b5 == c % 2
  <1>1. /\ b0 \in {0, 1} /\ b1 \in {0, 1} /\ b2 \in {0, 1} /\ b3 \in {0, 1} /\ b4 \in {0, 1}
        /\ b5 \in {0, 1}
        /\ c = 32 * b0 + 16 * b1 + 8 * b2 + 4 * b3 + 2 * b4 + b5
    BY SMT
  <1>2. c \div 1 = c
    BY SMT
  <1>3. /\ Bit(c, 0) = b0 /\ Bit(c, 1) = b1 /\ Bit(c, 2) = b2 /\ Bit(c, 3) = b3 /\ Bit(c, 4) = b4
        /\ Bit(c, 5) = b5
    BY <1>2, BitsAre, Zenon
  <1> HIDE DEF b0, b1, b2, b3, b4, b5
  <1>4. c \div 16 = 2 * b0 + b1 /\ c % 16 = 8 * b2 + 4 * b3 + 2 * b4 + b5
    BY <1>1, SMT
  <1>5. c \div 4 = 8 * b0 + 4 * b1 + 2 * b2 + b3 /\ c % 4 = 2 * b4 + b5
    BY <1>1, SMT
  <1>6. \A i \in 0 .. 5 : i = 0 \/ i = 1 \/ i = 2 \/ i = 3 \/ i = 4 \/ i = 5
    BY SMT
  <1>7. \A i \in 0 .. 5 : Bit(c, i) \in {0, 1}
    BY <1>1, <1>3, <1>6, Zenon
  <1>8. QED
    BY <1>1, <1>3, <1>4, <1>5, <1>7, SMT

Single(c) == Base64ConvertSingle(c)

\* The four digits of three bytes.
First(x)     == x \div 4
Second(x, y) == 16 * (x % 4) + (y \div 16)
Third(y, z)  == 4 * (y % 16) + (z \div 64)
Fourth(z)    == z % 64

AreThree(x, y, z) ==
  x \in Nat /\ x < 256 /\ y \in Nat /\ y < 256 /\ z \in Nat /\ z < 256

\* The bytes are made of the parts of four digits.
Make(a, b, c, d, x, y, z) ==
  /\ a \in Nat /\ a < 64 /\ b \in Nat /\ b < 64 /\ c \in Nat /\ c < 64 /\ d \in Nat /\ d < 64
  /\ 4 * a + (b \div 16) = x /\ 16 * (b % 16) + (c \div 4) = y /\ 64 * (c % 4) + d = z

LEMMA DigitsOfBytes ==
  ASSUME NEW x, NEW y, NEW z, AreThree(x, y, z)
  PROVE  Make(First(x), Second(x, y), Third(y, z), Fourth(z), x, y, z)
  <1>0. x \in Nat /\ x < 256 /\ y \in Nat /\ y < 256 /\ z \in Nat /\ z < 256
    BY Zenon DEF AreThree
  <1> DEFINE a == x \div 4
             b == x % 4
             c == y \div 16
             d == y % 16
             e == z \div 64
             f == z % 64
  <1>1. /\ a \in Nat /\ a < 64 /\ b \in Nat /\ b < 4 /\ 4 * a + b = x
        /\ c \in Nat /\ c < 16 /\ d \in Nat /\ d < 16 /\ 16 * c + d = y
        /\ e \in Nat /\ e < 4 /\ f \in Nat /\ f < 64 /\ 64 * e + f = z
    BY <1>0, SMT
  <1>2. First(x) = a /\ Second(x, y) = 16 * b + c /\ Third(y, z) = 4 * d + e /\ Fourth(z) = f
    BY Zenon DEF First, Second, Third, Fourth
  <1> HIDE DEF a, b, c, d, e, f
  <1>3. (16 * b + c) \div 16 = b /\ (16 * b + c) % 16 = c
    BY <1>1, SMT
  <1>4. (4 * d + e) \div 4 = d /\ (4 * d + e) % 4 = e
    BY <1>1, SMT
  <1>5. QED
    BY <1>1, <1>2, <1>3, <1>4, SMT DEF Make

OfThree(t, x, y, z) == t = x * 65536 + y * 256 + z

AreSixBits(t, x, y, z) ==
  /\ (t \div 262144) % 64 = First(x) /\ (t \div 4096) % 64 = Second(x, y)
  /\ (t \div 64) % 64 = Third(y, z) /\ (t \div 1) % 64 = Fourth(z)

LEMMA SixBits ==
  ASSUME NEW x, NEW y, NEW z, AreThree(x, y, z), NEW t, OfThree(t, x, y, z)
  PROVE  AreSixBits(t, x, y, z)
  <1>0. /\ x \in Nat /\ x < 256 /\ y \in Nat /\ y < 256 /\ z \in Nat /\ z < 256
        /\ t = x * 65536 + y * 256 + z
    BY SMT DEF AreThree, OfThree
  <1> DEFINE a == First(x)
             b == Second(x, y)
             c == Third(y, z)
             d == Fourth(z)
  <1>1. /\ a \in Nat /\ a < 64 /\ b \in Nat /\ b < 64 /\ c \in Nat /\ c < 64 /\ d \in Nat /\ d < 64
        /\ 4 * a + (b \div 16) = x /\ 16 * (b % 16) + (c \div 4) = y /\ 64 * (c % 4) + d = z
    <2>1. Make(a, b, c, d, x, y, z)
      BY DigitsOfBytes, Zenon
    <2> HIDE DEF a, b, c, d
    <2>2. QED
      BY <2>1, SMT DEF Make
  <1> HIDE DEF a, b, c, d
  <1>2. t = a * 262144 + b * 4096 + c * 64 + d
    <2>1. 16 * (b \div 16) + (b % 16) = b /\ 4 * (c \div 4) + (c % 4) = c
      BY <1>1, SMT
    <2>2. b \div 16 \in Nat /\ b % 16 \in Nat /\ c \div 4 \in Nat /\ c % 4 \in Nat
      BY <1>1, SMT
    <2>3. QED
      BY <1>0, <1>1, <2>1, <2>2, SMT
  <1>3. t \div 262144 = a
    BY <1>1, <1>2, SMT
  <1>4. t \div 4096 = 64 * a + b
    BY <1>1, <1>2, SMT
  <1>5. t \div 64 = 64 * (64 * a + b) + c
    BY <1>1, <1>2, SMT
  <1>6. t \div 1 = 64 * (64 * (64 * a + b) + c) + d
    BY <1>1, <1>2, SMT
  <1>7. \A m, n \in Nat : n < 64 => (64 * m + n) % 64 = n
    BY SMT
  <1>8. a % 64 = a
    BY <1>1, SMT
  <1>9. 64 * a + b \in Nat /\ 64 * (64 * a + b) + c \in Nat
    BY <1>1, SMT
  <1>10. /\ (64 * a + b) % 64 = b /\ (64 * (64 * a + b) + c) % 64 = c
         /\ (64 * (64 * (64 * a + b) + c) + d) % 64 = d
    BY <1>1, <1>7, <1>9
  <1>11. QED
    BY <1>3, <1>4, <1>5, <1>6, <1>8, <1>10, SMT DEF a, b, c, d, AreSixBits

LEMMA GroupIs ==
  ASSUME NEW s, NEW x \in Nat, x < 256, NEW y \in Nat, y < 256, NEW z \in Nat, z < 256,
         s[1] = x, s[2] = y, s[3] = z, NEW pad
  PROVE  Base64Group(s, pad) = <<Single(First(x)), Single(Second(x, y)),
                                 IF pad > 1 THEN 61 ELSE Single(Third(y, z)),
                                 IF pad > 0 THEN 61 ELSE Single(Fourth(z))>>
  <1> DEFINE t == s[1] * 65536 + s[2] * 256 + s[3]
  <1>1. /\ (t \div 262144) % 64 = First(x) /\ (t \div 4096) % 64 = Second(x, y)
        /\ (t \div 64) % 64 = Third(y, z) /\ (t \div 1) % 64 = Fourth(z)
    <2>1. OfThree(t, x, y, z) /\ AreThree(x, y, z)
      BY SMT DEF OfThree, AreThree
    <2> HIDE DEF t
    <2>2. AreSixBits(t, x, y, z)
      BY <2>1, SixBits, Zenon
    <2>3. QED
      BY <2>2, SMT DEF AreSixBits
  <1>2. Base64Group(s, pad) = <<Single((t \div 262144) % 64), Single((t \div 4096) % 64),
                                IF pad > 1 THEN 61 ELSE Single((t \div 64) % 64),
                                IF pad > 0 THEN 61 ELSE Single((t \div 1) % 64)>>
    BY SMT DEF Base64Group, Single
  <1> HIDE DEF t
  <1>3. QED
    BY <1>1, <1>2, SMT

\* Groups of four that are joined.
LEMMA FoursJoined ==
  ASSUME NEW T, NEW ss \in Seq(Seq(T)), \A g \in 1 .. Len(ss) : Len(ss[g]) = 4
  PROVE  /\ FlattenSeq(ss) \in Seq(T) /\ Len(FlattenSeq(ss)) = 4 * Len(ss)
         /\ \A g \in 1 .. Len(ss) : \A k \in 1 .. 4 : FlattenSeq(ss)[4 * (g - 1) + k] = ss[g][k]
  <1> DEFINE G == Len(ss)
             w == [g \in 1 .. G |-> 4]
             at == Sums(w)
             N == {m \in Nat : m <= G => at[m] = 4 * m}
  <1>1. G \in Nat
    OBVIOUS
  <1>2. w \in Seq(Nat) /\ Len(w) = G /\ \A g \in 1 .. G : w[g] = 4
    <2>1. w \in [1 .. G -> Nat] /\ \A g \in 1 .. G : w[g] = 4
      OBVIOUS
    <2> HIDE DEF w
    <2>2. QED
      BY <1>1, <2>1, FunctionIsSeq
  <1> HIDE DEF w
  <1>3. at[0] = 0 /\ \A g \in 1 .. G : at[g] = at[g - 1] + 4
    <2>1. Sums(w)[0] = 0 /\ \A i \in 1 .. Len(w) : Sums(w)[i] = Sums(w)[i - 1] + w[i]
      BY <1>2, SumsAre
    <2>2. QED
      BY <1>2, <2>1
  <1>4. /\ FlattenSeq(ss) \in Seq(T) /\ Len(FlattenSeq(ss)) = at[G]
        /\ \A g \in 1 .. G : \A k \in 1 .. w[g] : FlattenSeq(ss)[at[g - 1] + k] = ss[g][k]
    <2>1. w \in Seq(Nat) /\ Len(w) = Len(ss) /\ \A i \in 1 .. Len(ss) : w[i] = Len(ss[i])
      BY <1>2
    <2>2. QED
      BY <2>1, FlattenPlaces
  <1> HIDE DEF at, G
  <1>5. 0 \in N
    BY <1>3
  <1>6. ASSUME NEW m \in N PROVE m + 1 \in N
    <2> SUFFICES ASSUME m + 1 <= G PROVE at[m + 1] = 4 * (m + 1)
      OBVIOUS
    <2>1. at[m] = 4 * m /\ m + 1 \in 1 .. G /\ (m + 1) - 1 = m
      BY <1>1
    <2>2. at[m + 1] = at[m] + 4
      BY <1>3, <2>1
    <2>3. QED
      BY <2>1, <2>2
  <1>7. N = Nat
    <2>1. N \in SUBSET Nat
      OBVIOUS
    <2> HIDE DEF N
    <2>2. QED
      BY <1>5, <1>6, <2>1, NatSetInduction
  <1>8. \A m \in 0 .. G : at[m] = 4 * m
    BY <1>1, <1>7
  <1>9. at[G] = 4 * G /\ \A g \in 1 .. G : at[g - 1] = 4 * (g - 1)
    BY <1>1, <1>8
  <1>10. QED
    BY <1>2, <1>4, <1>9 DEF G

\* A text of base64: of G groups for a sequence s that pad zeros fill up.
InGroup(t, s, g, pad) ==
  LET x == s[3 * g - 2]
      y == s[3 * g - 1]
      z == s[3 * g]
  IN /\ t[4 * (g - 1) + 1] = Single(First(x))
     /\ t[4 * (g - 1) + 2] = Single(Second(x, y))
     /\ t[4 * (g - 1) + 3] = IF pad > 1 THEN 61 ELSE Single(Third(y, z))
     /\ t[4 * (g - 1) + 4] = IF pad > 0 THEN 61 ELSE Single(Fourth(z))

IsEncoded(t, d, s, G, pad) ==
  /\ G \in Nat /\ pad \in Nat /\ pad < 3 /\ Len(d) + pad = 3 * G
  /\ s \in Seq(Byte) /\ Len(s) = 3 * G /\ \A i \in 1 .. Len(d) : s[i] = d[i]
  /\ t \in Seq(Byte) /\ Len(t) = 4 * G
  /\ \A g \in 1 .. G : InGroup(t, s, g, IF g = G THEN pad ELSE 0)

LEMMA SingleInByte ==
  ASSUME NEW x, NEW y, NEW z, AreThree(x, y, z)
  PROVE  /\ Single(First(x)) \in Byte /\ Single(Second(x, y)) \in Byte
         /\ Single(Third(y, z)) \in Byte /\ Single(Fourth(z)) \in Byte
         /\ Single(First(x)) # 61 /\ Single(Second(x, y)) # 61
         /\ Single(Third(y, z)) # 61 /\ Single(Fourth(z)) # 61
  <1> DEFINE a == First(x)
             b == Second(x, y)
             c == Third(y, z)
             d == Fourth(z)
  <1>1. Make(a, b, c, d, x, y, z)
    BY DigitsOfBytes, Zenon
  <1> HIDE DEF a, b, c, d
  <1>2. /\ a \in Nat /\ a < 64 /\ b \in Nat /\ b < 64 /\ c \in Nat /\ c < 64 /\ d \in Nat /\ d < 64
    BY <1>1, Zenon DEF Make
  <1>3. \A n \in {a, b, c, d} : Single(n) # 61 /\ Single(n) \in Byte
    BY <1>2, SingleIs DEF Single
  <1>4. QED
    BY <1>3, Zenon DEF a, b, c, d

LEMMA EncodedIs ==
  ASSUME NEW d \in Seq(Byte)
  PROVE  \E s, G, pad : IsEncoded(Base64Encode(d), d, s, G, pad)
  <1> DEFINE L == Len(d)
             pad == (-L) % 3
             zeros == [i \in 1 .. pad |-> 0]
             s == d \o zeros
             G == Len(s) \div 3
             part(g) == SubSeq(s, 3 * g - 2, 3 * g)
             rest(g) == IF g = G THEN pad ELSE 0
             ss == [g \in 1 .. G |-> Base64Group(part(g), rest(g))]
             t == FlattenSeq(ss)
  <1>1. Base64Encode(d) = t
    BY Zenon DEF Base64Encode
  <1>2. L \in Nat
    OBVIOUS
  <1>3. pad \in Nat /\ pad < 3 /\ (L + pad) % 3 = 0
    <2> HIDE DEF L
    <2>1. QED
      BY <1>2, SMT
  <1> HIDE DEF pad
  <1>4. zeros \in Seq(Byte) /\ Len(zeros) = pad
    <2>1. 0 \in Byte
      BY ByteIs
    <2>2. zeros \in [1 .. pad -> Byte]
      BY <2>1
    <2> HIDE DEF zeros
    <2>3. QED
      BY <1>3, <2>2, FunctionIsSeq
  <1> HIDE DEF zeros
  <1>5. s \in Seq(Byte) /\ Len(s) = L + pad /\ \A i \in 1 .. L : s[i] = d[i]
    BY <1>4, ConcatIs
  <1> HIDE DEF s
  <1>6. G \in Nat /\ L + pad = 3 * G /\ Len(s) = 3 * G
    <2> HIDE DEF L
    <2>1. QED
      BY <1>2, <1>3, <1>5, SMT
  <1> HIDE DEF G
  <1>7. ASSUME NEW g \in 1 .. G
        PROVE  /\ AreThree(s[3 * g - 2], s[3 * g - 1], s[3 * g])
               /\ part(g)[1] = s[3 * g - 2] /\ part(g)[2] = s[3 * g - 1] /\ part(g)[3] = s[3 * g]
    <2> DEFINE m == 3 * g - 2
               n == 3 * g
    <2>1. m \in 1 .. Len(s) /\ n \in 1 .. Len(s) /\ m + 1 \in 1 .. Len(s)
          /\ n = m + 2 /\ m + 1 = 3 * g - 1
      BY <1>6
    <2> HIDE DEF m, n
    <2>2. s[m] \in Byte /\ s[m + 1] \in Byte /\ s[n] \in Byte
      BY <1>5, <2>1
    <2>3. Len(SubSeq(s, m, n)) = 3
      BY <1>5, <2>1
    <2>4. /\ SubSeq(s, m, n)[1] = s[m] /\ SubSeq(s, m, n)[2] = s[m + 1]
          /\ SubSeq(s, m, n)[3] = s[n]
      BY <1>5, <2>1, <2>3
    <2>5. AreThree(s[m], s[m + 1], s[n])
      BY <2>2, ByteIs DEF AreThree
    <2>6. QED
      BY <2>1, <2>4, <2>5, Zenon DEF m, n
  <1> HIDE DEF part, rest
  <1>8. ASSUME NEW g \in 1 .. G
        PROVE  LET x == s[3 * g - 2]
                   y == s[3 * g - 1]
                   z == s[3 * g]
               IN /\ ss[g] = <<Single(First(x)), Single(Second(x, y)),
                               IF rest(g) > 1 THEN 61 ELSE Single(Third(y, z)),
                               IF rest(g) > 0 THEN 61 ELSE Single(Fourth(z))>>
                  /\ ss[g] \in Seq(Byte) /\ Len(ss[g]) = 4
    <2> DEFINE x == s[3 * g - 2]
               y == s[3 * g - 1]
               z == s[3 * g]
               k == part(g)
               q == rest(g)
    <2>1. AreThree(x, y, z) /\ k[1] = x /\ k[2] = y /\ k[3] = z
      BY <1>7
    <2>2. ss[g] = Base64Group(k, q)
      BY Zenon
    <2> HIDE DEF x, y, z, k, q, ss
    <2> DEFINE e1 == Single(First(x))
               e2 == Single(Second(x, y))
               e3 == IF q > 1 THEN 61 ELSE Single(Third(y, z))
               e4 == IF q > 0 THEN 61 ELSE Single(Fourth(z))
    <2>3. Base64Group(k, q) = <<e1, e2, e3, e4>>
      <3>1. x \in Nat /\ x < 256 /\ y \in Nat /\ y < 256 /\ z \in Nat /\ z < 256
        BY <2>1, Zenon DEF AreThree
      <3>2. QED
        BY <2>1, <3>1, GroupIs
    <2>4. e1 \in Byte /\ e2 \in Byte /\ e3 \in Byte /\ e4 \in Byte
      <3>1. 61 \in Byte
        BY ByteIs, SMT
      <3>2. QED
        BY <2>1, <3>1, SingleInByte, Zenon
    <2> HIDE DEF e1, e2, e3, e4
    <2>5. <<e1, e2, e3, e4>> \in Seq(Byte) /\ Len(<<e1, e2, e3, e4>>) = 4
      BY <2>4
    <2>6. QED
      BY <2>2, <2>3, <2>5, Zenon DEF e1, e2, e3, e4, x, y, z, q
  <1>9. ss \in Seq(Seq(Byte)) /\ Len(ss) = G
    <2>1. \A g \in 1 .. G : ss[g] \in Seq(Byte)
      BY <1>8, Zenon
    <2>2. ss = [g \in 1 .. G |-> ss[g]]
      OBVIOUS
    <2> HIDE DEF ss
    <2>3. ss \in [1 .. G -> Seq(Byte)]
      BY <2>1, <2>2
    <2>4. QED
      BY <1>6, <2>3, FunctionIsSeq
  <1>10. \A g \in 1 .. Len(ss) : Len(ss[g]) = 4
    BY <1>8, <1>9, Zenon
  <1> HIDE DEF ss
  <1>11. t \in Seq(Byte) /\ Len(t) = 4 * G /\ \A g \in 1 .. G : \A k \in 1 .. 4 : t[4 * (g - 1) + k] = ss[g][k]
    BY <1>9, <1>10, FoursJoined, Zenon
  <1> HIDE DEF t
  <1>12. ASSUME NEW g \in 1 .. G PROVE InGroup(t, s, g, IF g = G THEN pad ELSE 0)
    <2> DEFINE x == s[3 * g - 2]
               y == s[3 * g - 1]
               z == s[3 * g]
               q == rest(g)
               e1 == Single(First(x))
               e2 == Single(Second(x, y))
               e3 == IF q > 1 THEN 61 ELSE Single(Third(y, z))
               e4 == IF q > 0 THEN 61 ELSE Single(Fourth(z))
    <2>1. ss[g] = <<e1, e2, e3, e4>>
      BY <1>8, Zenon
    <2> HIDE DEF e1, e2, e3, e4
    <2>2. ss[g][1] = e1 /\ ss[g][2] = e2 /\ ss[g][3] = e3 /\ ss[g][4] = e4
      BY <2>1
    <2>3. 1 \in 1 .. 4 /\ 2 \in 1 .. 4 /\ 3 \in 1 .. 4 /\ 4 \in 1 .. 4
      OBVIOUS
    <2>4. /\ t[4 * (g - 1) + 1] = e1 /\ t[4 * (g - 1) + 2] = e2
          /\ t[4 * (g - 1) + 3] = e3 /\ t[4 * (g - 1) + 4] = e4
      BY <1>11, <2>2, <2>3, Zenon
    <2>5. QED
      BY <2>4, Zenon DEF InGroup, e1, e2, e3, e4, rest
  <1> HIDE DEF L
  <1>13. IsEncoded(t, d, s, G, pad)
    BY <1>3, <1>5, <1>6, <1>11, <1>12, Zenon DEF IsEncoded, L
  <1>14. QED
    BY <1>1, <1>13, Zenon

\* A bit of a text of base64, and the byte whose bits begin at a place.
BitAt(t, i) == BitOf(t[(i \div 6) + 1], i % 6)

ByteAt(t, m) ==
  128 * BitAt(t, m) + 64 * BitAt(t, m + 1) + 32 * BitAt(t, m + 2) + 16 * BitAt(t, m + 3)
    + 8 * BitAt(t, m + 4) + 4 * BitAt(t, m + 5) + 2 * BitAt(t, m + 6) + BitAt(t, m + 7)

LEMMA DecodedIs ==
  ASSUME NEW t
  PROVE  Base64Decoded(t)
           = [i \in 1 .. (6 * (Len(t) - Cardinality({j \in DOMAIN t : t[j] = 61}))) \div 8 |->
                ByteAt(t, 8 * (i - 1))]
  BY Zenon DEF Base64Decoded, ByteAt, BitAt

\* The digit at place n of the group that follows h others.
HasDigit(t, h, n, c) ==
  /\ h \in Nat /\ n \in Nat /\ c \in Nat /\ c < 64
  /\ t[4 * h + n + 1] = Single(c)

LEMMA BitAtIs ==
  ASSUME NEW t, NEW h, NEW n, NEW c, HasDigit(t, h, n, c), NEW k \in {0, 1, 2, 3, 4, 5}
  PROVE  BitAt(t, 24 * h + 6 * n + k) = Bit(c, k)
  <1> DEFINE m == 4 * h + n
             i == 24 * h + 6 * n + k
  <1>1. h \in Nat /\ n \in Nat /\ c \in Nat /\ c < 64 /\ t[m + 1] = Single(c) /\ k \in Nat /\ k < 6
    BY SMT DEF HasDigit
  <1>2. m \in Nat /\ i = 6 * m + k
    BY <1>1, SMT
  <1> HIDE DEF m, i
  <1>3. i \div 6 = m /\ i % 6 = k
    BY <1>1, <1>2, SMT
  <1>4. BitAt(t, i) = BitOf(Single(c), k)
    BY <1>1, <1>3, Zenon DEF BitAt
  <1>5. BitOf(Single(c), k) = Bit(c, k)
    BY <1>1, BitOfIs, Zenon DEF Single
  <1>6. QED
    BY <1>4, <1>5, Zenon DEF i

\* The three bytes of a group.
LEMMA FirstByte ==
  ASSUME NEW t, NEW h, NEW a, NEW b, HasDigit(t, h, 0, a), HasDigit(t, h, 1, b)
  PROVE  ByteAt(t, 24 * h) = 4 * a + (b \div 16)
  <1> DEFINE m == 24 * h
             u0 == Bit(a, 0)
             u1 == Bit(a, 1)
             u2 == Bit(a, 2)
             u3 == Bit(a, 3)
             u4 == Bit(a, 4)
             u5 == Bit(a, 5)
             u6 == Bit(b, 0)
             u7 == Bit(b, 1)
  <1>0. h \in Nat /\ a \in Nat /\ a < 64 /\ b \in Nat /\ b < 64
    BY Zenon DEF HasDigit
  <1>1. /\ m = 24 * h + 6 * 0 + 0 /\ m + 1 = 24 * h + 6 * 0 + 1
        /\ m + 2 = 24 * h + 6 * 0 + 2 /\ m + 3 = 24 * h + 6 * 0 + 3
        /\ m + 4 = 24 * h + 6 * 0 + 4 /\ m + 5 = 24 * h + 6 * 0 + 5
        /\ m + 6 = 24 * h + 6 * 1 + 0 /\ m + 7 = 24 * h + 6 * 1 + 1
    BY <1>0, SMT
  <1> HIDE DEF m
  <1>2. /\ BitAt(t, m) = u0 /\ BitAt(t, m + 1) = u1 /\ BitAt(t, m + 2) = u2 /\ BitAt(t, m + 3) = u3
        /\ BitAt(t, m + 4) = u4 /\ BitAt(t, m + 5) = u5 /\ BitAt(t, m + 6) = u6 /\ BitAt(t, m + 7) = u7
    <2>1. \A k \in {0, 1, 2, 3, 4, 5} : BitAt(t, 24 * h + 6 * 0 + k) = Bit(a, k)
      BY BitAtIs, Zenon
    <2>2. \A k \in {0, 1, 2, 3, 4, 5} : BitAt(t, 24 * h + 6 * 1 + k) = Bit(b, k)
      BY BitAtIs, Zenon
    <2>3. QED
      BY <1>1, <2>1, <2>2, Zenon
  <1>3. ByteAt(t, m) = 128 * u0 + 64 * u1 + 32 * u2 + 16 * u3 + 8 * u4 + 4 * u5 + 2 * u6 + u7
    BY <1>2, Zenon DEF ByteAt
  <1>4. /\ u0 \in Nat /\ u1 \in Nat /\ u2 \in Nat /\ u3 \in Nat
        /\ u4 \in Nat /\ u5 \in Nat /\ u6 \in Nat /\ u7 \in Nat
    <2>1. \A c0 \in {a, b} : \A i \in 0 .. 5 : Bit(c0, i) \in {0, 1}
      BY <1>0, BitsMake
    <2>2. \A i \in {0, 1, 2, 3, 4, 5} : i \in 0 .. 5
      BY SMT
    <2>3. \A i \in {0, 1} : i \in Nat
      OBVIOUS
    <2>4. QED
      BY <2>1, <2>2, <2>3, Zenon
  <1>5. 128 * u0 + 64 * u1 + 32 * u2 + 16 * u3 + 8 * u4 + 4 * u5 = 4 * a /\ 2 * u6 + u7 = b \div 16
    BY <1>0, BitsMake
  <1> HIDE DEF u0, u1, u2, u3, u4, u5, u6, u7
  <1>6. ByteAt(t, m) = 4 * a + (b \div 16)
    BY <1>0, <1>3, <1>4, <1>5, SMT
  <1>7. QED
    BY <1>6, Zenon DEF m

LEMMA SecondByte ==
  ASSUME NEW t, NEW h, NEW b, NEW c, HasDigit(t, h, 1, b), HasDigit(t, h, 2, c)
  PROVE  ByteAt(t, 24 * h + 8) = 16 * (b % 16) + (c \div 4)
  <1> DEFINE m == 24 * h + 8
             u0 == Bit(b, 2)
             u1 == Bit(b, 3)
             u2 == Bit(b, 4)
             u3 == Bit(b, 5)
             u4 == Bit(c, 0)
             u5 == Bit(c, 1)
             u6 == Bit(c, 2)
             u7 == Bit(c, 3)
  <1>0. h \in Nat /\ b \in Nat /\ b < 64 /\ c \in Nat /\ c < 64
    BY Zenon DEF HasDigit
  <1>1. /\ m = 24 * h + 6 * 1 + 2 /\ m + 1 = 24 * h + 6 * 1 + 3
        /\ m + 2 = 24 * h + 6 * 1 + 4 /\ m + 3 = 24 * h + 6 * 1 + 5
        /\ m + 4 = 24 * h + 6 * 2 + 0 /\ m + 5 = 24 * h + 6 * 2 + 1
        /\ m + 6 = 24 * h + 6 * 2 + 2 /\ m + 7 = 24 * h + 6 * 2 + 3
    BY <1>0, SMT
  <1> HIDE DEF m
  <1>2. /\ BitAt(t, m) = u0 /\ BitAt(t, m + 1) = u1 /\ BitAt(t, m + 2) = u2 /\ BitAt(t, m + 3) = u3
        /\ BitAt(t, m + 4) = u4 /\ BitAt(t, m + 5) = u5 /\ BitAt(t, m + 6) = u6 /\ BitAt(t, m + 7) = u7
    <2>1. \A k \in {0, 1, 2, 3, 4, 5} : BitAt(t, 24 * h + 6 * 1 + k) = Bit(b, k)
      BY BitAtIs, Zenon
    <2>2. \A k \in {0, 1, 2, 3, 4, 5} : BitAt(t, 24 * h + 6 * 2 + k) = Bit(c, k)
      BY BitAtIs, Zenon
    <2>3. QED
      BY <1>1, <2>1, <2>2, Zenon
  <1>3. ByteAt(t, m) = 128 * u0 + 64 * u1 + 32 * u2 + 16 * u3 + 8 * u4 + 4 * u5 + 2 * u6 + u7
    BY <1>2, Zenon DEF ByteAt
  <1>4. /\ u0 \in Nat /\ u1 \in Nat /\ u2 \in Nat /\ u3 \in Nat
        /\ u4 \in Nat /\ u5 \in Nat /\ u6 \in Nat /\ u7 \in Nat
    <2>1. \A c0 \in {b, c} : \A i \in 0 .. 5 : Bit(c0, i) \in {0, 1}
      BY <1>0, BitsMake
    <2>2. \A i \in {0, 1, 2, 3, 4, 5} : i \in 0 .. 5
      BY SMT
    <2>3. \A i \in {0, 1} : i \in Nat
      OBVIOUS
    <2>4. QED
      BY <2>1, <2>2, <2>3, Zenon
  <1>5. /\ 128 * u0 + 64 * u1 + 32 * u2 + 16 * u3 = 16 * (b % 16)
        /\ 8 * u4 + 4 * u5 + 2 * u6 + u7 = c \div 4
    BY <1>0, BitsMake
  <1> HIDE DEF u0, u1, u2, u3, u4, u5, u6, u7
  <1>6. ByteAt(t, m) = 16 * (b % 16) + (c \div 4)
    BY <1>0, <1>3, <1>4, <1>5, SMT
  <1>7. QED
    BY <1>6, Zenon DEF m

LEMMA ThirdByte ==
  ASSUME NEW t, NEW h, NEW c, NEW d, HasDigit(t, h, 2, c), HasDigit(t, h, 3, d)
  PROVE  ByteAt(t, 24 * h + 16) = 64 * (c % 4) + d
  <1> DEFINE m == 24 * h + 16
             u0 == Bit(c, 4)
             u1 == Bit(c, 5)
             u2 == Bit(d, 0)
             u3 == Bit(d, 1)
             u4 == Bit(d, 2)
             u5 == Bit(d, 3)
             u6 == Bit(d, 4)
             u7 == Bit(d, 5)
  <1>0. h \in Nat /\ c \in Nat /\ c < 64 /\ d \in Nat /\ d < 64
    BY Zenon DEF HasDigit
  <1>1. /\ m = 24 * h + 6 * 2 + 4 /\ m + 1 = 24 * h + 6 * 2 + 5
        /\ m + 2 = 24 * h + 6 * 3 + 0 /\ m + 3 = 24 * h + 6 * 3 + 1
        /\ m + 4 = 24 * h + 6 * 3 + 2 /\ m + 5 = 24 * h + 6 * 3 + 3
        /\ m + 6 = 24 * h + 6 * 3 + 4 /\ m + 7 = 24 * h + 6 * 3 + 5
    BY <1>0, SMT
  <1> HIDE DEF m
  <1>2. /\ BitAt(t, m) = u0 /\ BitAt(t, m + 1) = u1 /\ BitAt(t, m + 2) = u2 /\ BitAt(t, m + 3) = u3
        /\ BitAt(t, m + 4) = u4 /\ BitAt(t, m + 5) = u5 /\ BitAt(t, m + 6) = u6 /\ BitAt(t, m + 7) = u7
    <2>1. \A k \in {0, 1, 2, 3, 4, 5} : BitAt(t, 24 * h + 6 * 2 + k) = Bit(c, k)
      BY BitAtIs, Zenon
    <2>2. \A k \in {0, 1, 2, 3, 4, 5} : BitAt(t, 24 * h + 6 * 3 + k) = Bit(d, k)
      BY BitAtIs, Zenon
    <2>3. QED
      BY <1>1, <2>1, <2>2, Zenon
  <1>3. ByteAt(t, m) = 128 * u0 + 64 * u1 + 32 * u2 + 16 * u3 + 8 * u4 + 4 * u5 + 2 * u6 + u7
    BY <1>2, Zenon DEF ByteAt
  <1>4. /\ u0 \in Nat /\ u1 \in Nat /\ u2 \in Nat /\ u3 \in Nat
        /\ u4 \in Nat /\ u5 \in Nat /\ u6 \in Nat /\ u7 \in Nat
    <2>1. \A c0 \in {c, d} : \A i \in 0 .. 5 : Bit(c0, i) \in {0, 1}
      BY <1>0, BitsMake
    <2>2. \A i \in {0, 1, 2, 3, 4, 5} : i \in 0 .. 5
      BY SMT
    <2>3. \A i \in {0, 1} : i \in Nat
      OBVIOUS
    <2>4. QED
      BY <2>1, <2>2, <2>3, Zenon
  <1>5. /\ 128 * u0 + 64 * u1 = 64 * (c % 4)
        /\ 32 * u2 + 16 * u3 + 8 * u4 + 4 * u5 + 2 * u6 + u7 = d
    BY <1>0, BitsMake
  <1> HIDE DEF u0, u1, u2, u3, u4, u5, u6, u7
  <1>6. ByteAt(t, m) = 64 * (c % 4) + d
    BY <1>0, <1>3, <1>4, <1>5, SMT
  <1>7. QED
    BY <1>6, Zenon DEF m

\* A group of text: its digits, but where padding is.
LEMMA GroupHas ==
  ASSUME NEW t, NEW d, NEW s, NEW G, NEW pad, IsEncoded(t, d, s, G, pad), NEW g \in 1 .. G
  PROVE  /\ AreThree(s[3 * g - 2], s[3 * g - 1], s[3 * g])
         /\ InGroup(t, s, g, IF g = G THEN pad ELSE 0)
  <1>1. G \in Nat /\ s \in Seq(Byte) /\ Len(s) = 3 * G
    BY Zenon DEF IsEncoded
  <1> DEFINE m == 3 * g - 2
             l == 3 * g - 1
             n == 3 * g
  <1>2. m \in 1 .. Len(s) /\ n \in 1 .. Len(s) /\ l \in 1 .. Len(s)
    BY <1>1
  <1> HIDE DEF m, n, l
  <1>3. s[m] \in Byte /\ s[l] \in Byte /\ s[n] \in Byte
    BY <1>1, <1>2
  <1>4. AreThree(s[m], s[l], s[n])
    BY <1>3, ByteIs DEF AreThree
  <1>5. InGroup(t, s, g, IF g = G THEN pad ELSE 0)
    BY Zenon DEF IsEncoded
  <1>6. QED
    BY <1>4, <1>5, Zenon DEF m, l, n

PaddedAt(t, g, G, pad) ==
  /\ t[4 * (g - 1) + 1] # 61 /\ t[4 * (g - 1) + 2] # 61
  /\ t[4 * (g - 1) + 3] = 61 <=> g = G /\ pad > 1
  /\ t[4 * (g - 1) + 4] = 61 <=> g = G /\ pad > 0

LEMMA PaddingIs ==
  ASSUME NEW t, NEW d, NEW s, NEW G, NEW pad, IsEncoded(t, d, s, G, pad), NEW g \in 1 .. G
  PROVE  PaddedAt(t, g, G, pad)
  <1> DEFINE x == s[3 * g - 2]
             y == s[3 * g - 1]
             z == s[3 * g]
             q == IF g = G THEN pad ELSE 0
  <1>1. AreThree(x, y, z) /\ InGroup(t, s, g, q)
    BY GroupHas, Zenon
  <1> HIDE DEF x, y, z, q
  <1>2. /\ Single(First(x)) # 61 /\ Single(Second(x, y)) # 61
        /\ Single(Third(y, z)) # 61 /\ Single(Fourth(z)) # 61
    BY <1>1, SingleInByte, Zenon
  <1>3. /\ t[4 * (g - 1) + 1] = Single(First(x))
        /\ t[4 * (g - 1) + 2] = Single(Second(x, y))
        /\ t[4 * (g - 1) + 3] = IF q > 1 THEN 61 ELSE Single(Third(y, z))
        /\ t[4 * (g - 1) + 4] = IF q > 0 THEN 61 ELSE Single(Fourth(z))
    BY <1>1, Zenon DEF InGroup, x, y, z
  <1>4. (q > 1 <=> g = G /\ pad > 1) /\ (q > 0 <=> g = G /\ pad > 0)
    BY DEF q
  <1>5. QED
    BY <1>2, <1>3, <1>4, Zenon DEF PaddedAt

LEMMA TwoCounted ==
  ASSUME NEW a, NEW b, a # b
  PROVE  Cardinality({a, b}) = 2
  <1>1. IsFiniteSet({a}) /\ Cardinality({a}) = 1
    BY FS_Singleton
  <1>2. b \notin {a} /\ {a} \cup {b} = {a, b}
    OBVIOUS
  <1>3. QED
    BY <1>1, <1>2, FS_AddElement

LEMMA PaddingCounted ==
  ASSUME NEW t, NEW d, d \in Seq(Byte), NEW s, NEW G, NEW pad, IsEncoded(t, d, s, G, pad)
  PROVE  Cardinality({j \in DOMAIN t : t[j] = 61}) = pad
  <1> DEFINE P == {j \in DOMAIN t : t[j] = 61}
  <1>1. /\ G \in Nat /\ pad \in Nat /\ pad < 3 /\ Len(d) + pad = 3 * G /\ Len(d) \in Nat
        /\ t \in Seq(Byte) /\ Len(t) = 4 * G
    <2>1. Len(d) \in Nat
      OBVIOUS
    <2>2. QED
      BY <2>1, Zenon DEF IsEncoded
  <1>2. DOMAIN t = 1 .. 4 * G
    BY <1>1
  <1>3. \A g \in 1 .. G :
          /\ t[4 * (g - 1) + 1] # 61 /\ t[4 * (g - 1) + 2] # 61
          /\ t[4 * (g - 1) + 3] = 61 <=> g = G /\ pad > 1
          /\ t[4 * (g - 1) + 4] = 61 <=> g = G /\ pad > 0
    <2>1. \A g \in 1 .. G : PaddedAt(t, g, G, pad)
      BY PaddingIs, Zenon
    <2>2. QED
      BY <2>1, Zenon DEF PaddedAt
  <1>4. pad > 0 => G > 0
    BY <1>1
  <1>5. ASSUME NEW j \in 1 .. 4 * G
        PROVE  t[j] = 61 <=> (j = 4 * G /\ pad > 0) \/ (j = 4 * G - 1 /\ pad > 1)
    <2> DEFINE g == ((j - 1) \div 4) + 1
               k == (j - 1) % 4
    <2>1. /\ g \in Nat /\ g >= 1 /\ g <= G /\ k \in Nat /\ k < 4 /\ j = 4 * (g - 1) + (k + 1)
      BY <1>1, SMT
    <2> HIDE DEF g, k
    <2>2. g \in 1 .. G
      BY <1>1, <2>1
    <2>3. k = 0 \/ k = 1 \/ k = 2 \/ k = 3
      BY <2>1
    <2>4. /\ (t[j] = 61) <=> (k = 2 /\ g = G /\ pad > 1) \/ (k = 3 /\ g = G /\ pad > 0)
      <3>1. CASE k = 0
        <4>1. j = 4 * (g - 1) + 1
          BY <2>1, <3>1
        <4>2. QED
          BY <1>3, <2>2, <3>1, <4>1
      <3>2. CASE k = 1
        <4>1. j = 4 * (g - 1) + 2
          BY <2>1, <3>2
        <4>2. QED
          BY <1>3, <2>2, <3>2, <4>1
      <3>3. CASE k = 2
        <4>1. j = 4 * (g - 1) + 3
          BY <2>1, <3>3
        <4>2. QED
          BY <1>3, <2>2, <3>3, <4>1
      <3>4. CASE k = 3
        <4>1. j = 4 * (g - 1) + 4
          BY <2>1, <3>4
        <4>2. QED
          BY <1>3, <2>2, <3>4, <4>1
      <3>5. QED
        BY <2>3, <3>1, <3>2, <3>3, <3>4
    <2>5. (k = 2 /\ g = G) <=> j = 4 * G - 1
      BY <1>1, <2>1
    <2>6. (k = 3 /\ g = G) <=> j = 4 * G
      BY <1>1, <2>1
    <2>7. QED
      BY <2>4, <2>5, <2>6, Zenon
  <1>6. CASE pad = 0
    <2>1. P = {}
      BY <1>2, <1>5, <1>6
    <2>2. QED
      BY <1>6, <2>1, FS_EmptySet
  <1>7. CASE pad = 1
    <2> DEFINE a == 4 * G
    <2>1. a \in 1 .. a
      BY <1>1, <1>4, <1>7
    <2>2. P = {a}
      BY <1>2, <1>5, <1>7, <2>1
    <2>3. QED
      BY <1>7, <2>2, FS_Singleton
  <1>8. CASE pad = 2
    <2> DEFINE a == 4 * G
               b == 4 * G - 1
    <2>1. a \in 1 .. a /\ b \in 1 .. a /\ a # b
      BY <1>1, <1>4, <1>8
    <2>2. P = {a, b}
      BY <1>2, <1>5, <1>8, <2>1
    <2> HIDE DEF a, b, P
    <2>3. Cardinality({a, b}) = 2
      BY <2>1, TwoCounted, Zenon
    <2>4. QED
      BY <1>8, <2>2, <2>3 DEF P
  <1>9. QED
    BY <1>1, <1>6, <1>7, <1>8

\* The bytes of a group are read back, but where padding is.
ReadAfter(t, s, h, pad) ==
  /\ ByteAt(t, 24 * h) = s[3 * h + 1]
  /\ pad < 2 => ByteAt(t, 24 * h + 8) = s[3 * h + 2]
  /\ pad < 1 => ByteAt(t, 24 * h + 16) = s[3 * h + 3]

LEMMA GroupIsRead ==
  ASSUME NEW t, NEW d, NEW s, NEW G, NEW pad, IsEncoded(t, d, s, G, pad), NEW h \in Nat, h < G
  PROVE  ReadAfter(t, s, h, IF h + 1 = G THEN pad ELSE 0)
  <1> DEFINE g == h + 1
             q == IF g = G THEN pad ELSE 0
             x == s[3 * g - 2]
             y == s[3 * g - 1]
             z == s[3 * g]
             a == First(x)
             b == Second(x, y)
             c == Third(y, z)
             e == Fourth(z)
  <1>0. G \in Nat /\ pad \in Nat
    BY Zenon DEF IsEncoded
  <1>1. g \in 1 .. G /\ g - 1 = h
    BY <1>0
  <1>2. 3 * g - 2 = 3 * h + 1 /\ 3 * g - 1 = 3 * h + 2 /\ 3 * g = 3 * h + 3
    OBVIOUS
  <1> HIDE DEF g
  <1>3. AreThree(x, y, z) /\ InGroup(t, s, g, q)
    BY <1>1, GroupHas, Zenon
  <1>4. q \in Nat
    BY <1>0
  <1>5. x = s[3 * h + 1] /\ y = s[3 * h + 2] /\ z = s[3 * h + 3]
    BY <1>2, Zenon
  <1>6. /\ t[4 * h + 1] = Single(a)
        /\ t[4 * h + 2] = Single(b)
        /\ t[4 * h + 3] = IF q > 1 THEN 61 ELSE Single(c)
        /\ t[4 * h + 4] = IF q > 0 THEN 61 ELSE Single(e)
    BY <1>1, <1>3, Zenon DEF InGroup
  <1> HIDE DEF x, y, z, q
  <1>7. Make(a, b, c, e, x, y, z)
    BY <1>3, DigitsOfBytes, Zenon
  <1> HIDE DEF a, b, c, e
  <1>8. /\ a \in Nat /\ a < 64 /\ b \in Nat /\ b < 64 /\ c \in Nat /\ c < 64 /\ e \in Nat /\ e < 64
    BY <1>7, Zenon DEF Make
  <1>9. 4 * a + (b \div 16) = x /\ 16 * (b % 16) + (c \div 4) = y /\ 64 * (c % 4) + e = z
    BY <1>7, Zenon DEF Make
  <1>10. 4 * h + 0 + 1 = 4 * h + 1 /\ 4 * h + 1 + 1 = 4 * h + 2 /\ 4 * h + 2 + 1 = 4 * h + 3
         /\ 4 * h + 3 + 1 = 4 * h + 4 /\ 0 \in Nat /\ 1 \in Nat /\ 2 \in Nat /\ 3 \in Nat
    OBVIOUS
  <1>11. HasDigit(t, h, 0, a) /\ HasDigit(t, h, 1, b)
    BY <1>6, <1>8, <1>10, Zenon DEF HasDigit
  <1>12. q < 2 => HasDigit(t, h, 2, c)
    <2>1. q < 2 => ~(q > 1)
      BY <1>4
    <2>2. QED
      BY <1>6, <1>8, <1>10, <2>1, Zenon DEF HasDigit
  <1>13. q < 1 => HasDigit(t, h, 2, c) /\ HasDigit(t, h, 3, e)
    <2>1. q < 1 => ~(q > 1) /\ ~(q > 0)
      BY <1>4
    <2>2. QED
      BY <1>6, <1>8, <1>10, <2>1, Zenon DEF HasDigit
  <1>14. ByteAt(t, 24 * h) = x
    <2>1. ByteAt(t, 24 * h) = 4 * a + (b \div 16)
      BY <1>11, FirstByte
    <2>2. QED
      BY <1>9, <2>1, Zenon
  <1>15. q < 2 => ByteAt(t, 24 * h + 8) = y
    <2>1. q < 2 => ByteAt(t, 24 * h + 8) = 16 * (b % 16) + (c \div 4)
      BY <1>11, <1>12, SecondByte
    <2>2. QED
      BY <1>9, <2>1, Zenon
  <1>16. q < 1 => ByteAt(t, 24 * h + 16) = z
    <2>1. q < 1 => ByteAt(t, 24 * h + 16) = 64 * (c % 4) + e
      BY <1>13, ThirdByte
    <2>2. QED
      BY <1>9, <2>1, Zenon
  <1>17. QED
    BY <1>5, <1>14, <1>15, <1>16, Zenon DEF ReadAfter, q, g

\* What base64_encode wrote is decoded.
LEMMA Base64IsRead ==
  ASSUME NEW d \in Seq(Byte)
  PROVE  /\ Base64Encode(d) \in Seq(Byte) /\ Len(Base64Encode(d)) % 4 = 0
         /\ Base64Decoded(Base64Encode(d)) = d
  <1> DEFINE t == Base64Encode(d)
             L == Len(d)
  <1>1. PICK s, G, pad : IsEncoded(t, d, s, G, pad)
    BY EncodedIs, Zenon
  <1> HIDE DEF t
  <1>2. /\ G \in Nat /\ pad \in Nat /\ pad < 3 /\ L + pad = 3 * G /\ L \in Nat
        /\ t \in Seq(Byte) /\ Len(t) = 4 * G
        /\ \A i \in 1 .. L : s[i] = d[i]
    <2>1. L \in Nat
      OBVIOUS
    <2>2. QED
      BY <1>1, <2>1, Zenon DEF IsEncoded
  <1>3. Len(t) % 4 = 0
    BY <1>2, SMT
  <1>4. Cardinality({j \in DOMAIN t : t[j] = 61}) = pad
    BY <1>1, PaddingCounted, Zenon
  <1>5. Base64Decoded(t) = [i \in 1 .. (6 * (4 * G - pad)) \div 8 |-> ByteAt(t, 8 * (i - 1))]
    BY <1>2, <1>4, DecodedIs, Zenon
  <1> HIDE DEF L
  <1>6. (6 * (4 * G - pad)) \div 8 = L
    BY <1>2, SMT
  <1>7. ASSUME NEW i \in 1 .. L PROVE ByteAt(t, 8 * (i - 1)) = d[i]
    <2> DEFINE h == (i - 1) \div 3
               r == (i - 1) % 3
               q == IF h + 1 = G THEN pad ELSE 0
    <2>1. h \in Nat /\ r \in Nat /\ r < 3 /\ i = 3 * h + r + 1 /\ i \in Nat /\ i <= L
      BY <1>2, SMT
    <2> HIDE DEF h, r
    <2>2. h < G
      BY <1>2, <2>1
    <2>3. /\ ByteAt(t, 24 * h) = s[3 * h + 1]
          /\ q < 2 => ByteAt(t, 24 * h + 8) = s[3 * h + 2]
          /\ q < 1 => ByteAt(t, 24 * h + 16) = s[3 * h + 3]
      <3>1. ReadAfter(t, s, h, q)
        BY <1>1, <2>1, <2>2, GroupIsRead, Zenon
      <3>2. QED
        BY <3>1, Zenon DEF ReadAfter
    <2>4. r + q < 3
      BY <1>2, <2>1
    <2>5. q \in Nat
      BY <1>2
    <2> HIDE DEF q
    <2>6. s[i] = d[i]
      BY <1>2
    <2>7. CASE r = 0
      <3>1. 8 * (i - 1) = 24 * h /\ i = 3 * h + 1
        BY <2>1, <2>7
      <3>2. QED
        BY <2>3, <2>6, <3>1, Zenon
    <2>8. CASE r = 1
      <3>1. 8 * (i - 1) = 24 * h + 8 /\ i = 3 * h + 2 /\ q < 2
        BY <2>1, <2>4, <2>5, <2>8
      <3>2. QED
        BY <2>3, <2>6, <3>1, Zenon
    <2>9. CASE r = 2
      <3>1. 8 * (i - 1) = 24 * h + 16 /\ i = 3 * h + 3 /\ q < 1
        BY <2>1, <2>4, <2>5, <2>9
      <3>2. QED
        BY <2>3, <2>6, <3>1, Zenon
    <2>10. QED
      BY <2>1, <2>7, <2>8, <2>9
  <1>8. Base64Decoded(t) = [i \in 1 .. L |-> d[i]]
    BY <1>5, <1>6, <1>7, Zenon
  <1>9. d = [i \in 1 .. L |-> d[i]]
    BY DEF L
  <1>10. QED
    BY <1>2, <1>3, <1>8, <1>9, Zenon DEF t

-----------------------------------------------------------------------------
(* The parameters of a request. *)

LEMMA WithIs ==
  ASSUME NEW ps, NEW n, NEW v
  PROVE  /\ DOMAIN With(ps, n, v) = DOMAIN ps \cup {n}
         /\ \A m \in DOMAIN ps \cup {n} : With(ps, n, v)[m] = IF m = n THEN v ELSE ps[m]
  BY Zenon DEF With

LEMMA WithoutIs ==
  ASSUME NEW ps, NEW n
  PROVE  /\ DOMAIN Without(ps, n) = DOMAIN ps \ {n}
         /\ \A m \in DOMAIN ps \ {n} : Without(ps, n)[m] = ps[m]
  BY Zenon DEF Without

LEMMA WithType ==
  ASSUME NEW D, NEW V, NEW ps \in [D -> V], NEW n, NEW v \in V
  PROVE  With(ps, n, v) \in [D \cup {n} -> V]
  BY DEF With

LEMMA WithoutType ==
  ASSUME NEW D, NEW V, NEW ps \in [D -> V], NEW n
  PROVE  Without(ps, n) \in [D \ {n} -> V]
  BY DEF Without

LEMMA SameFunction ==
  ASSUME NEW D, NEW V, NEW f \in [D -> V], NEW g \in [D -> V], \A m \in D : f[m] = g[m]
  PROVE  f = g
  OBVIOUS

\* What was put in last is all that is taken out.
LEMMA WithThenWithout ==
  ASSUME NEW D, NEW V, NEW ps \in [D -> V], NEW n, n \notin D, NEW v \in V
  PROVE  Without(With(ps, n, v), n) = ps
  <1> DEFINE f == With(ps, n, v)
             g == Without(f, n)
  <1>1. f \in [D \cup {n} -> V] /\ \A m \in D : f[m] = ps[m]
    <2>1. f \in [D \cup {n} -> V]
      BY WithType
    <2>2. DOMAIN ps = D
      OBVIOUS
    <2>3. \A m \in D : m # n /\ m \in DOMAIN ps \cup {n}
      BY <2>2
    <2>4. \A m \in D : f[m] = ps[m]
      BY <2>3, Zenon DEF With
    <2>5. QED
      BY <2>1, <2>4
  <1> HIDE DEF f
  <1>2. g \in [(D \cup {n}) \ {n} -> V]
    BY <1>1, WithoutType
  <1>3. (D \cup {n}) \ {n} = D
    OBVIOUS
  <1>4. \A m \in D : g[m] = f[m]
    <2>1. DOMAIN f = D \cup {n}
      BY <1>1
    <2>2. QED
      BY <1>3, <2>1, WithoutIs, Zenon
  <1> HIDE DEF g
  <1>5. g = ps
    BY <1>1, <1>2, <1>3, <1>4, SameFunction
  <1>6. QED
    BY <1>5 DEF f, g

LEMMA NamesDiffer ==
  /\ Nonce \in Names /\ Signature \in Names /\ Token \in Names /\ Status \in Names
  /\ Nonce < Signature /\ Signature < Token /\ Token < Status /\ Nonce < Token
  /\ Nonce # Signature /\ Nonce # Token /\ Nonce # Status /\ Signature # Token
  /\ Signature # Status /\ Token # Status
  BY DEF Names, Nonce, Signature, Token, Status

SignedNames(r) == IF r.status = <<>> THEN {Nonce, Token} ELSE {Nonce, Token, Status}

MethodOf(r) == IF r.status = <<>> THEN Get ELSE Post

\* The parameters that were signed for a request, all that it has, and what is sent.
IsSigned(r, ps) ==
  /\ ps \in [SignedNames(r) -> Seq(Byte)]
  /\ ps[Token] = r.token
  /\ r.status # <<>> => ps[Status] = r.status[1]

Complete(r, ps) == With(ps, Signature, Base64Encode(r.digest))

WireOf(r, ps) ==
  IF r.status = <<>>
    THEN [method |-> Get, query |-> GetRequest(Complete(r, ps)), header |-> <<>>, body |-> <<>>]
    ELSE [method |-> Post, query |-> <<>>, header |-> PostRequest(Without(Complete(r, ps), Status)),
          body |-> <<Status, 61>> \o UrlEscape(r.status[1])]

LEMMA RequestIs ==
  ASSUME NEW r \in Requests
  PROVE  /\ r.token \in Seq(Byte) /\ r.random \in Seq(Byte) /\ r.digest \in Seq(Byte)
         /\ r.status # <<>> => r.status[1] \in Seq(Byte)
  BY EncodingAssumption

LEMMA SignedAreParams ==
  ASSUME NEW r, NEW ps, IsSigned(r, ps)
  PROVE  IsParams(ps, SignedNames(r))
  <1> DEFINE D == SignedNames(r)
  <1>1. ps \in [D -> Seq(Byte)]
    BY Zenon DEF IsSigned
  <1>2. CASE r.status = <<>>
    <2>1. D = {Nonce, Token}
      BY <1>2, Zenon DEF SignedNames
    <2> HIDE DEF D
    <2>2. D \in SUBSET Names /\ \E a, b \in D : a < b /\ D = {a, b}
      BY <2>1, NamesDiffer
    <2>3. QED
      BY <1>1, <2>2, Zenon DEF IsParams, D
  <1>3. CASE r.status # <<>>
    <2>1. D = {Nonce, Token, Status}
      BY <1>3, Zenon DEF SignedNames
    <2> HIDE DEF D
    <2>2. D \in SUBSET Names /\ \E a, b, c \in D : a < b /\ b < c /\ D = {a, b, c}
      <3>1. D \in SUBSET Names
        BY <2>1, NamesDiffer
      <3>2. Nonce \in D /\ Token \in D /\ Status \in D /\ Nonce < Token /\ Token < Status
        BY <2>1, NamesDiffer
      <3>3. QED
        BY <2>1, <3>1, <3>2, Zenon
    <2>3. QED
      BY <1>1, <2>2, Zenon DEF IsParams, D
  <1>4. QED
    BY <1>2, <1>3

LEMMA MethodOfIs == \A r : MethodOf(r) \in Methods
  BY Zenon DEF MethodOf, Methods

\* The nonce is text.
LEMMA NonceIs ==
  ASSUME request \in Requests
  PROVE  GenNonce \in Seq(Byte)
  <1> DEFINE s == request.random
             N == Len(s)
             ss == [i \in DOMAIN s |-> Hexanizer(<<>>, s[i])]
  <1>1. s \in Seq(Byte)
    BY RequestIs
  <1>2. GenNonce = FlattenSeq(ss)
    BY Zenon DEF GenNonce
  <1>3. \A b \in Byte : Hexanizer(<<>>, b) \in Seq(Byte)
    <2>1. ASSUME NEW b \in Byte PROVE Hexanizer(<<>>, b) \in Seq(Byte)
      <3> DEFINE x == Hex(b \div 16)
                 y == Hex(b % 16)
      <3>1. x \in Safe /\ y \in Safe
        BY HalvesAre, HexIs
      <3>2. x \in Byte /\ y \in Byte
        BY <3>1, Zenon DEF Safe
      <3>3. Hexanizer(<<>>, b) = <<>> \o <<x, y>>
        BY HalvesAre, Zenon DEF Hexanizer
      <3> HIDE DEF x, y
      <3> DEFINE t == <<x, y>>
      <3>4. t \in Seq(Byte)
        BY <3>2
      <3> HIDE DEF t
      <3>5. <<>> \o t = t
        BY <3>4, EmptyConcat
      <3>6. QED
        BY <3>3, <3>4, <3>5 DEF t
    <2>2. QED
      BY <2>1
  <1> HIDE DEF s
  <1>4. ss \in Seq(Seq(Byte))
    <2>1. N \in Nat /\ DOMAIN s = 1 .. N /\ \A i \in 1 .. N : s[i] \in Byte
      BY <1>1
    <2>2. ss \in [1 .. N -> Seq(Byte)]
      BY <1>3, <2>1
    <2> HIDE DEF ss, N
    <2>3. QED
      BY <2>1, <2>2, FunctionIsSeq
  <1> HIDE DEF ss
  <1>5. QED
    <2>1. \A x \in Seq(Byte) : FlattenSeq(ss) \in Seq(Byte)
      BY <1>4, FlattenAppend
    <2>2. <<>> \in Seq(Byte)
      OBVIOUS
    <2>3. QED
      BY <1>2, <2>1, <2>2, Zenon

IsEither(h, f, D, g, E, V) ==
  /\ h \in [D \cup E -> V]
  /\ \A m \in D \cup E : h[m] = IF m \in D THEN f[m] ELSE g[m]

LEMMA EitherIs ==
  ASSUME NEW V, NEW D, NEW E, NEW f, f \in [D -> V], NEW g, g \in [E -> V]
  PROVE  IsEither(Either(f, g), f, D, g, E, V)
  <1>1. DOMAIN f = D /\ DOMAIN g = E
    OBVIOUS
  <1>2. Either(f, g) = [n \in D \cup E |-> IF n \in D THEN f[n] ELSE g[n]]
    BY <1>1, Zenon DEF Either
  <1>3. QED
    BY <1>2 DEF IsEither

\* The parameters before they are signed.
Unsigned(r) ==
  LET alone == [n \in {Token} |-> r.token]
  IN IF r.status = <<>> THEN alone ELSE With(alone, Status, r.status[1])

LEMMA SignedHas ==
  ASSUME NEW r \in Requests, NEW nonce \in Seq(Byte)
  PROVE  IsSigned(r, With(Without(Unsigned(r), Signature), Nonce, nonce))
  <1> DEFINE b == Unsigned(r)
             w == Without(b, Signature)
             f == With(w, Nonce, nonce)
             alone == [n \in {Token} |-> r.token]
             D == IF r.status = <<>> THEN {Token} ELSE {Token, Status}
  <1>1. /\ b \in [D -> Seq(Byte)] /\ b[Token] = r.token
        /\ r.status # <<>> => b[Status] = r.status[1]
    <2>1. alone \in [{Token} -> Seq(Byte)] /\ DOMAIN alone = {Token} /\ alone[Token] = r.token
      BY RequestIs
    <2>2. CASE r.status = <<>>
      <3>1. b = alone /\ D = {Token}
        BY <2>2, Zenon DEF Unsigned
      <3>2. QED
        BY <2>1, <2>2, <3>1, Zenon
    <2>3. CASE r.status # <<>>
      <3> HIDE DEF alone
      <3>1. b = With(alone, Status, r.status[1]) /\ D = {Token} \cup {Status}
        BY <2>3 DEF Unsigned, alone
      <3>2. r.status[1] \in Seq(Byte)
        BY <2>3, RequestIs
      <3>3. With(alone, Status, r.status[1]) \in [{Token} \cup {Status} -> Seq(Byte)]
        BY <2>1, <3>2, WithType
      <3>4. \A m \in {Token} \cup {Status} :
              With(alone, Status, r.status[1])[m] = IF m = Status THEN r.status[1] ELSE alone[m]
        BY <2>1, Zenon DEF With
      <3>5. Token \in {Token} \cup {Status} /\ Status \in {Token} \cup {Status} /\ Token # Status
        BY NamesDiffer
      <3>6. With(alone, Status, r.status[1])[Token] = r.token
            /\ With(alone, Status, r.status[1])[Status] = r.status[1]
        BY <2>1, <3>4, <3>5, Zenon
      <3>7. QED
        BY <3>1, <3>3, <3>6, Zenon
    <2>4. QED
      BY <2>2, <2>3, Zenon
  <1>2. Signature \notin D /\ Nonce \notin D /\ Token \in D /\ D \cup {Nonce} = SignedNames(r)
        /\ (r.status # <<>> => Status \in D)
    BY NamesDiffer DEF SignedNames
  <1> HIDE DEF b, D
  <1>3. w \in [D -> Seq(Byte)] /\ \A m \in D : w[m] = b[m]
    <2>1. D \ {Signature} = D /\ DOMAIN b = D
      BY <1>1, <1>2
    <2>2. w \in [D -> Seq(Byte)]
      <3>1. w \in [D \ {Signature} -> Seq(Byte)]
        BY <1>1, WithoutType
      <3>2. QED
        BY <2>1, <3>1
    <2>3. \A m \in D : w[m] = b[m]
      BY <2>1, WithoutIs, Zenon
    <2>4. QED
      BY <2>2, <2>3
  <1> HIDE DEF w
  <1>4. f \in [D \cup {Nonce} -> Seq(Byte)] /\ \A m \in D : f[m] = w[m]
    <2>1. DOMAIN w = D /\ f \in [D \cup {Nonce} -> Seq(Byte)]
      BY <1>3, WithType
    <2>2. \A m \in D : m # Nonce /\ m \in DOMAIN w \cup {Nonce}
      BY <1>2, <2>1
    <2>3. \A m \in D : f[m] = w[m]
      BY <2>2, Zenon DEF With
    <2>4. QED
      BY <2>1, <2>3
  <1> HIDE DEF f
  <1>5. f \in [SignedNames(r) -> Seq(Byte)]
    BY <1>2, <1>4
  <1>6. f[Token] = r.token /\ (r.status # <<>> => f[Status] = r.status[1])
    BY <1>1, <1>2, <1>3, <1>4, Zenon
  <1>7. IsSigned(r, f)
    BY <1>5, <1>6, Zenon DEF IsSigned
  <1>8. QED
    BY <1>7 DEF f, w, b

LEMMA CompleteIs ==
  ASSUME NEW r \in Requests, NEW ps, IsSigned(r, ps)
  PROVE  /\ Complete(r, ps) \in [SignedNames(r) \cup {Signature} -> Seq(Byte)]
         /\ Complete(r, ps)[Signature] = Base64Encode(r.digest)
         /\ \A n \in SignedNames(r) : Complete(r, ps)[n] = ps[n]
         /\ Without(Complete(r, ps), Signature) = ps
  <1> DEFINE D == SignedNames(r)
             v == Base64Encode(r.digest)
             f == With(ps, Signature, v)
  <1>1. v \in Seq(Byte)
    BY RequestIs, Base64IsRead
  <1>2. ps \in [D -> Seq(Byte)] /\ Signature \notin D
    <2>1. Signature \notin D
      BY NamesDiffer DEF SignedNames
    <2>2. QED
      BY <2>1, Zenon DEF IsSigned
  <1>3. Complete(r, ps) = f
    BY Zenon DEF Complete
  <1> HIDE DEF D, v
  <1>4. f \in [D \cup {Signature} -> Seq(Byte)]
    BY <1>1, <1>2, WithType
  <1>5. f[Signature] = v /\ \A n \in D : f[n] = ps[n]
    <2>1. DOMAIN ps = D
      BY <1>2
    <2>2. \A m \in D \cup {Signature} : f[m] = IF m = Signature THEN v ELSE ps[m]
      BY <2>1, Zenon DEF With
    <2>3. Signature \in D \cup {Signature} /\ \A n \in D : n \in D \cup {Signature} /\ n # Signature
      BY <1>2
    <2>4. QED
      BY <2>2, <2>3, Zenon
  <1>6. Without(f, Signature) = ps
    BY <1>1, <1>2, WithThenWithout
  <1>7. QED
    BY <1>3, <1>4, <1>5, <1>6, Zenon DEF D, v

\* What arrives is what was sent.
LEMMA ReceivedIs ==
  ASSUME request \in Requests, NEW ps, IsSigned(request, ps), wire = WireOf(request, ps)
  PROVE  wire.method = MethodOf(request) /\ Received = Complete(request, ps)
  <1> DEFINE f == Complete(request, ps)
             D == SignedNames(request)
             S == D \cup {Signature}
             T == {Nonce, Signature, Token}
             B == Seq(Byte)
             none == [n \in {} |-> <<>>]
  <1>1. f \in [S -> B] /\ DOMAIN f = S
    <2>1. f \in [S -> B]
      BY CompleteIs
    <2> HIDE DEF f, S, B
    <2>2. QED
      BY <2>1
  <1>2. none \in [{} -> B]
    OBVIOUS
  <1>3. FormPairs(<<>>) = none /\ HeaderPairs(<<>>) = none
    BY NothingIsRead, Zenon
  <1>4. CASE request.status = <<>>
    <2>1. /\ wire.method = Get /\ wire.query = GetRequest(f) /\ wire.header = <<>> /\ wire.body = <<>>
      BY <1>4 DEF WireOf
    <2>2. S = T
      BY <1>4 DEF SignedNames
    <2> HIDE DEF f, D, none
    <2>3. IsParams(f, S)
      <3>1. /\ T \in SUBSET Names /\ Nonce \in T /\ Signature \in T /\ Token \in T
            /\ Nonce < Signature /\ Signature < Token
        BY NamesDiffer
      <3> HIDE DEF S
      <3>2. QED
        BY <1>1, <2>2, <3>1, Zenon DEF IsParams
    <2>4. FormPairs(wire.query) = f
      BY <2>1, <2>3, GetRequestIsRead, Zenon
    <2>5. Received = Either(f, Either(none, none))
      BY <1>3, <2>1, <2>4, Zenon DEF Received
    <2> DEFINE e == Either(none, none)
    <2> HIDE DEF S, B
    <2>6. e \in [{} -> B]
      <3>1. IsEither(e, none, {}, none, {}, B)
        BY <1>2, EitherIs, Zenon
      <3> HIDE DEF e
      <3>2. QED
        BY <3>1 DEF IsEither
    <2> HIDE DEF e
    <2>7. Either(f, e) \in [S \cup {} -> B] /\ \A m \in S : Either(f, e)[m] = f[m]
      <3>1. IsEither(Either(f, e), f, S, e, {}, B)
        BY <1>1, <2>6, EitherIs, Zenon
      <3>2. QED
        BY <3>1 DEF IsEither
    <2>8. Either(f, e) = f
      BY <1>1, <2>7, SameFunction
    <2>9. QED
      BY <1>4, <2>1, <2>5, <2>8, Zenon DEF MethodOf, e, f
  <1>5. CASE request.status # <<>>
    <2> DEFINE v == request.status[1]
               h == Without(f, Status)
               b == [n \in {Status} |-> v]
    <2>1. /\ wire.method = Post /\ wire.query = <<>> /\ wire.header = PostRequest(h)
          /\ wire.body = <<Status, 61>> \o UrlEscape(v)
      BY <1>5 DEF WireOf
    <2>2. S = T \cup {Status} /\ S \ {Status} = T /\ Status \in D /\ Status \in S
      BY <1>5, NamesDiffer DEF SignedNames
    <2>3. v \in Seq(Byte) /\ f[Status] = v
      <3>1. ps[Status] = v /\ f[Status] = ps[Status]
        <4>1. ps[Status] = v
          BY <1>5, Zenon DEF IsSigned
        <4>2. f[Status] = ps[Status]
          BY <2>2, CompleteIs
        <4>3. QED
          BY <4>1, <4>2
      <3>2. v \in Seq(Byte)
        BY <1>5, RequestIs
      <3>3. QED
        BY <3>1, <3>2, Zenon
    <2> HIDE DEF f, D, S, v, none
    <2>4. h \in [T -> B] /\ \A m \in T : h[m] = f[m]
      <3>1. h \in [S \ {Status} -> B]
        BY <1>1, WithoutType
      <3>2. \A m \in S \ {Status} : h[m] = f[m]
        BY <1>1, Zenon DEF Without
      <3> HIDE DEF h
      <3>3. QED
        BY <2>2, <3>1, <3>2
    <2> HIDE DEF h, B
    <2>5. HeaderPairs(wire.header) = h
      <3>1. HeaderPairs(PostRequest(h)) = h
        <4>1. Nonce \in Names /\ Signature \in Names /\ Token \in Names
              /\ Nonce < Signature /\ Signature < Token
          BY NamesDiffer
        <4>2. h \in [T -> Seq(Byte)]
          BY <2>4 DEF B
        <4>3. QED
          BY <4>1, <4>2, HeaderIsRead, Zenon
      <3>2. QED
        BY <2>1, <3>1, Zenon
    <2>6. FormPairs(wire.body) = b
      BY <2>1, <2>3, NamesDiffer, BodyIsRead, Zenon
    <2>7. FormPairs(wire.query) = none
      BY <1>3, <2>1, Zenon
    <2>8. Received = Either(none, Either(h, b))
      BY <2>5, <2>6, <2>7, Zenon DEF Received
    <2>9. b \in [{Status} -> B] /\ b[Status] = v
      BY <2>3 DEF B
    <2> HIDE DEF b, T
    <2> DEFINE e == Either(h, b)
    <2>10. e \in [T \cup {Status} -> B]
           /\ \A m \in T \cup {Status} : e[m] = IF m \in T THEN h[m] ELSE b[m]
      <3>1. IsEither(e, h, T, b, {Status}, B)
        BY <2>4, <2>9, EitherIs, Zenon
      <3>2. QED
        BY <3>1, Zenon DEF IsEither
    <2>11. e \in [S -> B] /\ \A m \in S : e[m] = f[m]
      <3>1. \A m \in S : e[m] = f[m]
        <4>1. \A m \in S : m \in T \/ m = Status
          BY <2>2
        <4>2. Status \notin T
          BY <2>2
        <4> HIDE DEF e
        <4>3. QED
          BY <2>2, <2>3, <2>4, <2>9, <2>10, <4>1, <4>2, Zenon
      <3>2. QED
        BY <2>2, <2>10, <3>1, Zenon
    <2> HIDE DEF e
    <2>12. e = f
      BY <1>1, <2>11, SameFunction
    <2>13. Either(none, e) \in [{} \cup S -> B] /\ \A m \in S : Either(none, e)[m] = e[m]
      <3>1. IsEither(Either(none, e), none, {}, e, S, B)
        BY <1>2, <2>11, EitherIs, Zenon DEF none, B
      <3>2. QED
        BY <3>1 DEF IsEither
    <2>14. Either(none, e) = e
      <3>1. {} \cup S = S
        OBVIOUS
      <3>2. QED
        BY <2>11, <2>13, <3>1, SameFunction
    <2>15. QED
      BY <1>5, <2>1, <2>8, <2>12, <2>14, Zenon DEF MethodOf, e, f
  <1>6. QED
    BY <1>4, <1>5

-----------------------------------------------------------------------------
(* A request, from what it is made of to what is sent. *)

\* What was signed, what the requester keeps and what is sent are made of the same parameters ps.
EncodingIInv ==
  /\ request \in Requests
  /\ message = <<>> => params = TokenAlone /\ wire = <<>>
  /\ message # <<>> =>
       \E ps : /\ IsSigned(request, ps) /\ message = Message(MethodOf(request), ps)
               /\ wire = <<>> => params = Complete(request, ps)
               /\ wire # <<>> => wire = WireOf(request, ps)

LEMMA SignStep ==
  ASSUME EncodingIInv, Sign
  PROVE  EncodingIInv'
  <1> DEFINE s == With(Without(Unsigned(request), Signature), Nonce, GenNonce)
             m == MethodOf(request)
  <1>1. request \in Requests /\ message = <<>> /\ params = TokenAlone /\ wire = <<>>
        /\ request' = request /\ wire' = wire
    BY Zenon DEF EncodingIInv, Sign
  <1>2. IsSigned(request, s)
    BY <1>1, NonceIs, SignedHas
  <1>3. message' = Message(m, s) /\ params' = Complete(request, s)
    <2>1. CASE request.status = <<>>
      <3>1. Unsigned(request) = params /\ m = Get
        BY <1>1, <2>1, Zenon DEF Unsigned, TokenAlone, MethodOf
      <3>2. GenRequestSignature(params, Get)
        BY <2>1, Zenon DEF Sign
      <3>3. QED
        BY <3>1, <3>2, Zenon DEF GenRequestSignature, Complete
    <2>2. CASE request.status # <<>>
      <3>1. Unsigned(request) = With(params, Status, request.status[1]) /\ m = Post
        BY <1>1, <2>2, Zenon DEF Unsigned, TokenAlone, MethodOf
      <3>2. GenRequestSignature(With(params, Status, request.status[1]), Post)
        BY <2>2, Zenon DEF Sign
      <3>3. QED
        BY <3>1, <3>2, Zenon DEF GenRequestSignature, Complete
    <2>3. QED
      BY <2>1, <2>2, Zenon
  <1> HIDE DEF s, m
  <1>4. message' # <<>>
    <2>1. IsParams(s, SignedNames(request)) /\ m \in Methods
      BY <1>2, SignedAreParams, MethodOfIs, Zenon DEF m
    <2>2. Message(m, s) # <<>>
      BY <2>1, MessageIsRead, Zenon
    <2>3. QED
      BY <1>3, <2>2, Zenon
  <1>5. IsSigned(request', s) /\ message' = Message(MethodOf(request'), s)
        /\ params' = Complete(request', s)
    BY <1>1, <1>2, <1>3, Zenon DEF m
  <1>6. QED
    BY <1>1, <1>4, <1>5, Zenon DEF EncodingIInv

LEMMA SendTimelineStep ==
  ASSUME EncodingIInv, SendTimelineRequest
  PROVE  EncodingIInv'
  <1>1. /\ message # <<>> /\ wire = <<>> /\ request.status = <<>>
        /\ Sent(GetRequest(params), <<>>, <<>>)
        /\ request' = request /\ params' = params /\ message' = message
    BY Zenon DEF SendTimelineRequest
  <1>2. PICK ps : /\ IsSigned(request, ps) /\ message = Message(MethodOf(request), ps)
                  /\ params = Complete(request, ps)
    BY <1>1, Zenon DEF EncodingIInv
  <1>3. wire' = WireOf(request, ps)
    BY <1>1, <1>2, Zenon DEF Sent, WireOf
  <1>4. wire' # <<>>
    BY <1>1, <1>3 DEF WireOf
  <1>5. request \in Requests
    BY Zenon DEF EncodingIInv
  <1>6. QED
    BY <1>1, <1>2, <1>3, <1>4, <1>5, Zenon DEF EncodingIInv

LEMMA SendStatusStep ==
  ASSUME EncodingIInv, SendStatus
  PROVE  EncodingIInv'
  <1> DEFINE body == <<Status, 61>> \o UrlEscape(request.status[1])
  <1>1. /\ message # <<>> /\ wire = <<>> /\ request.status # <<>>
        /\ params' = Without(params, Status)
        /\ Sent(<<>>, PostRequest(params'), body)
        /\ request' = request /\ message' = message
    BY Zenon DEF SendStatus
  <1>2. PICK ps : /\ IsSigned(request, ps) /\ message = Message(MethodOf(request), ps)
                  /\ params = Complete(request, ps)
    BY <1>1, Zenon DEF EncodingIInv
  <1>3. request \in Requests
    BY Zenon DEF EncodingIInv
  <1>4. body # <<>>
    <2>1. request.status[1] \in Seq(Byte)
      BY <1>1, <1>3, RequestIs
    <2>2. QED
      BY <2>1, NamesDiffer, BodyIsRead, Zenon
  <1> HIDE DEF body
  <1>5. wire' = WireOf(request, ps)
    BY <1>1, <1>2, <1>4, Zenon DEF Sent, WireOf, body
  <1>6. wire' # <<>>
    BY <1>1, <1>5 DEF WireOf
  <1>7. QED
    BY <1>1, <1>2, <1>3, <1>5, <1>6, Zenon DEF EncodingIInv

LEMMA EncodingKept == EncodingSpec => []EncodingIInv
  <1>1. EncodingInit => EncodingIInv
    BY Zenon DEF EncodingInit, EncodingIInv
  <1>2. EncodingIInv /\ [EncodingNext]_encodingVars => EncodingIInv'
    <2> SUFFICES ASSUME EncodingIInv, [EncodingNext]_encodingVars PROVE EncodingIInv'
      OBVIOUS
    <2>1. CASE Sign
      BY <2>1, SignStep
    <2>2. CASE SendTimelineRequest
      BY <2>2, SendTimelineStep
    <2>3. CASE SendStatus
      BY <2>3, SendStatusStep
    <2>4. CASE UNCHANGED encodingVars
      BY <2>4, Zenon DEF encodingVars, EncodingIInv, TokenAlone
    <2>5. QED
      BY <2>1, <2>2, <2>3, <2>4, Zenon DEF EncodingNext
  <1>3. QED
    BY <1>1, <1>2, PTL DEF EncodingSpec

-----------------------------------------------------------------------------
(* The properties. *)

\* The message is read in one way: method, uri and parameters.
THEOREM OneReading == EncodingSpec => []MessageHasOneReading
  <1>1. ASSUME EncodingIInv PROVE MessageHasOneReading
    <2> SUFFICES ASSUME message # <<>>
                 PROVE  LET parts == Split(message, 38)
                        IN /\ Len(parts) = 3
                           /\ parts[1] = IF request.status = <<>> THEN Get ELSE Post
                           /\ Without(FormPairs(Unescaped(parts[3], 43)), Nonce)
                                = IF request.status = <<>> THEN TokenAlone
                                  ELSE With(TokenAlone, Status, request.status[1])
      BY Zenon DEF MessageHasOneReading
    <2>1. PICK ps : IsSigned(request, ps) /\ message = Message(MethodOf(request), ps)
      BY <1>1, Zenon DEF EncodingIInv
    <2>2. request \in Requests
      BY <1>1, Zenon DEF EncodingIInv
    <2> DEFINE m == MethodOf(request)
               u == UrlEscape(Uri)
               w == UrlEscape(GetRequest(ps))
               parts == Split(message, 38)
    <2>3. parts = <<m, u, w>> /\ FormPairs(Unescaped(w, 43)) = ps
      <3>1. IsParams(ps, SignedNames(request)) /\ m \in Methods
        BY <2>1, SignedAreParams, MethodOfIs, Zenon
      <3>2. QED
        BY <2>1, <3>1, MessageIsRead, Zenon
    <2> HIDE DEF m, u, w, parts
    <2>4. Len(parts) = 3 /\ parts[1] = m /\ parts[3] = w
      BY <2>3
    <2> DEFINE D == SignedNames(request) \ {Nonce}
               B == Seq(Byte)
               x == Without(ps, Nonce)
    <2>5. ps \in [SignedNames(request) -> B] /\ ps[Token] = request.token
      BY <2>1, Zenon DEF IsSigned
    <2>6. x \in [D -> B] /\ \A n \in D : x[n] = ps[n]
      <3>1. x \in [D -> B]
        BY <2>5, WithoutType
      <3>2. DOMAIN ps = SignedNames(request)
        BY <2>5
      <3>3. \A n \in D : x[n] = ps[n]
        BY <3>2, Zenon DEF Without
      <3>4. QED
        BY <3>1, <3>3
    <2>7. TokenAlone \in [{Token} -> B] /\ TokenAlone[Token] = request.token /\ DOMAIN TokenAlone = {Token}
      BY <2>2, RequestIs DEF TokenAlone
    <2>8. CASE request.status = <<>>
      <3>1. D = {Token}
        BY <2>8, NamesDiffer DEF SignedNames
      <3> HIDE DEF D, x
      <3>2. \A n \in {Token} : x[n] = TokenAlone[n]
        BY <2>5, <2>6, <2>7, <3>1, Zenon
      <3>3. x = TokenAlone
        BY <2>6, <2>7, <3>1, <3>2, SameFunction
      <3>4. m = Get
        BY <2>8, Zenon DEF m, MethodOf
      <3>5. QED
        BY <2>3, <2>4, <2>8, <3>3, <3>4, Zenon DEF parts, x
    <2>9. CASE request.status # <<>>
      <3> DEFINE v == request.status[1]
                 y == With(TokenAlone, Status, v)
      <3>1. D = {Token, Status} /\ Token # Status
        BY <2>9, NamesDiffer DEF SignedNames
      <3>2. v \in B /\ ps[Status] = v
        <4>1. ps[Status] = v
          BY <2>1, <2>9, Zenon DEF IsSigned
        <4>2. v \in B
          BY <2>2, <2>9, RequestIs
        <4>3. QED
          BY <4>1, <4>2
      <3> HIDE DEF D, x, v, B
      <3>3. y \in [{Token} \cup {Status} -> B]
        BY <2>7, <3>2, WithType
      <3>4. \A n \in {Token} \cup {Status} : y[n] = IF n = Status THEN v ELSE TokenAlone[n]
        BY <2>7, Zenon DEF With
      <3>5. y[Token] = request.token /\ y[Status] = v
        <4>1. Token \in {Token} \cup {Status} /\ Status \in {Token} \cup {Status}
          OBVIOUS
        <4>2. QED
          BY <2>7, <3>1, <3>4, <4>1, Zenon
      <3> HIDE DEF y
      <3>6. y \in [D -> B]
        <4>1. {Token} \cup {Status} = D
          BY <3>1
        <4>2. QED
          BY <3>3, <4>1, Zenon
      <3>7. \A n \in D : x[n] = y[n]
        BY <2>5, <2>6, <3>1, <3>2, <3>5, Zenon
      <3>8. x = y
        BY <2>6, <3>6, <3>7, SameFunction
      <3>9. m = Post
        BY <2>9, Zenon DEF m, MethodOf
      <3>10. QED
        BY <2>3, <2>4, <2>9, <3>8, <3>9, Zenon DEF parts, x, y, v
    <2>10. QED
      BY <2>8, <2>9
  <1>2. QED
    BY <1>1, EncodingKept, PTL

\* What is sent is what was signed and the signature.
LEMMA SentIs ==
  ASSUME EncodingIInv, wire # <<>>
  PROVE  \E ps : /\ IsSigned(request, ps) /\ message = Message(MethodOf(request), ps)
                 /\ wire.method = MethodOf(request) /\ Received = Complete(request, ps)
  <1>1. request \in Requests /\ message # <<>>
    BY Zenon DEF EncodingIInv
  <1>2. PICK ps : /\ IsSigned(request, ps) /\ message = Message(MethodOf(request), ps)
                  /\ wire = WireOf(request, ps)
    BY <1>1, Zenon DEF EncodingIInv
  <1>3. QED
    BY <1>1, <1>2, ReceivedIs, Zenon

\* The server writes the message again from what it received.
THEOREM MessageIsWritten == EncodingSpec => []ServerWritesMessage
  <1>1. ASSUME EncodingIInv PROVE ServerWritesMessage
    <2> SUFFICES ASSUME wire # <<>>
                 PROVE  ServerMessage(wire.method, Without(Received, Signature)) = message
      BY Zenon DEF ServerWritesMessage
    <2>1. PICK ps : /\ IsSigned(request, ps) /\ message = Message(MethodOf(request), ps)
                    /\ wire.method = MethodOf(request) /\ Received = Complete(request, ps)
      BY <1>1, SentIs, Zenon
    <2>2. request \in Requests
      BY <1>1, Zenon DEF EncodingIInv
    <2>3. Without(Complete(request, ps), Signature) = ps
      BY <2>1, <2>2, CompleteIs, Zenon
    <2>4. ServerMessage(MethodOf(request), ps) = Message(MethodOf(request), ps)
      BY <2>1, SignedAreParams, ServerWrites, Zenon
    <2>5. QED
      BY <2>1, <2>3, <2>4, Zenon
  <1>2. QED
    BY <1>1, EncodingKept, PTL

\* The digest comes through base64 and the escapes as it was made.
THEOREM DigestIsRead == EncodingSpec => []DigestArrives
  <1>1. ASSUME EncodingIInv PROVE DigestArrives
    <2> SUFFICES ASSUME wire # <<>>
                 PROVE  /\ Len(Received[Signature]) % 4 = 0
                        /\ Base64Decoded(Received[Signature]) = request.digest
      BY Zenon DEF DigestArrives
    <2>1. PICK ps : IsSigned(request, ps) /\ Received = Complete(request, ps)
      BY <1>1, SentIs, Zenon
    <2>2. request \in Requests
      BY <1>1, Zenon DEF EncodingIInv
    <2>3. Received[Signature] = Base64Encode(request.digest)
      BY <2>1, <2>2, CompleteIs, Zenon
    <2>4. request.digest \in Seq(Byte)
      BY <2>2, RequestIs
    <2>5. QED
      BY <2>3, <2>4, Base64IsRead, Zenon
  <1>2. QED
    BY <1>1, EncodingKept, PTL

=============================================================================
