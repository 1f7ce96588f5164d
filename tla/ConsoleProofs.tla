---------------------------- MODULE ConsoleProofs ----------------------------
(***************************************************************************)
(* Theorems about Console, for any words, key sequences, capacities and    *)
(* conversions (ConsoleAssumption, ConversionsAssumption).                 *)
(*                                                                         *)
(* The inductive invariant says what the program has made of the keys that *)
(* it has read: what in_handler sent and kept is what an editor makes of   *)
(* them, for as long as every conversion was exact (EditedSoFar), which    *)
(* needs that what it kept is free of backspaces (NoBackspace); each       *)
(* command is what Parse makes of its buffer (Parsed); and the words sent  *)
(* are those in the commands, the buffer and the pipe (WordsKept).         *)
(*                                                                         *)
(* The first sections say what the operators do.  A string of characters   *)
(* for which a pass has room is converted as it is (WidenedExact).  A      *)
(* round of the loop over backspaces shortens the line whatever the        *)
(* conversions make of it (RubShortens), so the loop ends; and where they  *)
(* are exact it erases the first key and backspace that meet               *)
(* (RubTakesTwo), which leaves the same line as taking the keys one by one *)
(* (RubOutEdits).                                                          *)
(***************************************************************************)
EXTENDS Console, Induction, FiniteSetTheorems, TLAPS

-----------------------------------------------------------------------------
(* The operators of the model. *)

LEMMA SymbolsDiffer ==
  /\ {"nl", "sp", "bs"} \subseteq Symbols /\ Words \subseteq Symbols
  /\ "nl" \notin Words /\ "sp" \notin Words /\ "bs" \notin Words
  /\ \A x \in Symbols : x \in Words \/ x = "nl" \/ x = "sp" \/ x = "bs"
  BY ConsoleAssumption DEF Symbols

LEMMA FirstOfIs ==
  ASSUME NEW S \in SUBSET Symbols, NEW s \in Seq(Symbols)
  PROVE  /\ FirstOf[S][s] \in Nat /\ 1 <= FirstOf[S][s] /\ FirstOf[S][s] <= Len(s) + 1
         /\ \A i \in 1 .. Len(s) : i < FirstOf[S][s] => s[i] \notin S
         /\ FirstOf[S][s] <= Len(s) => s[FirstOf[S][s]] \in S
  <1> DEFINE D == {i \in DOMAIN s : s[i] \in S} \cup {Len(s) + 1}
             m == Min(D)
  <1>1. D \in SUBSET Nat /\ D # {}
    OBVIOUS
  <1>2. \E k \in D : \A i \in D : k <= i
    <2> HIDE DEF D
    <2>1. QED
      BY <1>1, LeastNumber
  <1>3. m \in D /\ \A i \in D : m <= i
    <2> HIDE DEF D
    <2>1. QED
      BY <1>2 DEF Min
  <1>4. FirstOf[S][s] = m
    BY Zenon DEF FirstOf
  <1> HIDE DEF m
  <1>5. m \in Nat /\ 1 <= m /\ m <= Len(s) + 1
    BY <1>3
  <1>6. \A i \in 1 .. Len(s) : i < m => s[i] \notin S
    BY <1>3, <1>5
  <1>7. m <= Len(s) => s[m] \in S
    BY <1>3, <1>5
  <1>8. QED
    BY <1>4, <1>5, <1>6, <1>7

\* The converse: whatever is like that is the first one.
LEMMA FirstOfThere ==
  ASSUME NEW S \in SUBSET Symbols, NEW s \in Seq(Symbols), NEW n \in Nat,
         1 <= n, n <= Len(s), s[n] \in S, \A i \in 1 .. Len(s) : i < n => s[i] \notin S
  PROVE  FirstOf[S][s] = n
  <1> DEFINE m == FirstOf[S][s]
  <1>1. /\ m \in Nat /\ 1 <= m /\ m <= Len(s) + 1
        /\ \A i \in 1 .. Len(s) : i < m => s[i] \notin S
        /\ m <= Len(s) => s[m] \in S
    BY FirstOfIs
  <1> HIDE DEF m
  <1>2. ~(m < n)
    BY <1>1
  <1>3. ~(n < m)
    BY <1>1
  <1>4. m = n
    BY <1>1, <1>2, <1>3
  <1>5. QED
    BY <1>4 DEF m

LEMMA DropIs ==
  ASSUME NEW T, NEW s \in Seq(T), NEW n \in Nat, n <= Len(s)
  PROVE  /\ Drop(s, n) \in Seq(T) /\ Len(Drop(s, n)) = Len(s) - n
         /\ \A i \in 1 .. Len(s) - n : Drop(s, n)[i] = s[n + i]
         /\ s = SubSeq(s, 1, n) \o Drop(s, n)
  BY SplitAt DEF Drop

-----------------------------------------------------------------------------
(* The line editor, as a step for each key. *)

Key == [x \in Symbols |-> [a \in Seq(Symbols) |-> IF x = "bs" THEN Front(a) ELSE Append(a, x)]]

\* What the keys s make of the line a.
Edit(a, s) == After(Key, a, s)

LEMMA KeyIs ==
  /\ Key \in [Symbols -> [Seq(Symbols) -> Seq(Symbols)]]
  /\ \A x \in Symbols : \A a \in Seq(Symbols) :
       Key[x][a] = IF x = "bs" THEN Front(a) ELSE Append(a, x)
  <1>1. \A a \in Seq(Symbols) : Front(a) \in Seq(Symbols)
    BY DEF Front
  <1>2. QED
    BY <1>1 DEF Key

LEMMA EditType ==
  ASSUME NEW a \in Seq(Symbols), NEW s \in Seq(Symbols)
  PROVE  Edit(a, s) \in Seq(Symbols)
  <1> DEFINE Q == Seq(Symbols)
  <1>1. Key \in [Symbols -> [Q -> Q]] /\ a \in Q
    BY KeyIs
  <1> HIDE DEF Q
  <1>2. After(Key, a, s) \in Q
    BY <1>1, AfterType
  <1>3. QED
    BY <1>2 DEF Q, Edit

LEMMA EditConcat ==
  ASSUME NEW a \in Seq(Symbols), NEW s \in Seq(Symbols), NEW t \in Seq(Symbols)
  PROVE  Edit(a, s \o t) = Edit(Edit(a, s), t)
  <1> DEFINE Q == Seq(Symbols)
  <1>1. Key \in [Symbols -> [Q -> Q]] /\ a \in Q
    BY KeyIs
  <1> HIDE DEF Q
  <1>2. After(Key, a, s \o t) = After(Key, After(Key, a, s), t)
    BY <1>1, AfterConcat
  <1>3. QED
    BY <1>2 DEF Edit

LEMMA EditOne ==
  ASSUME NEW a \in Seq(Symbols), NEW x \in Symbols
  PROVE  Edit(a, <<x>>) = IF x = "bs" THEN Front(a) ELSE Append(a, x)
  <1> DEFINE Q == Seq(Symbols)
  <1>1. Key \in [Symbols -> [Q -> Q]] /\ a \in Q
    BY KeyIs
  <1> HIDE DEF Q
  <1>2. After(Key, a, <<x>>) = Key[x][a]
    BY <1>1, AfterOne
  <1>3. QED
    BY <1>2, KeyIs DEF Edit

\* Without backspaces the keys just follow.
LEMMA EditPlain ==
  ASSUME NEW a \in Seq(Symbols), NEW s \in Seq(Symbols), ~Has(s, "bs")
  PROVE  Edit(a, s) = a \o s
  <1> DEFINE Q == Seq(Symbols)
             f == [n \in 0 .. Len(s) |-> a \o SubSeq(s, 1, n)]
  <1>1. f[0] = a
    <2>1. 0 \in 0 .. Len(s) /\ SubSeq(s, 1, 0) = <<>>
      OBVIOUS
    <2>2. QED
      BY <2>1, EmptyConcat
  <1>2. ASSUME NEW n \in 1 .. Len(s) PROVE f[n] = Key[s[n]][f[n - 1]]
    <2> DEFINE b == SubSeq(s, 1, n - 1)
    <2>1. /\ b \in Seq(Symbols) /\ s[n] \in Symbols /\ s[n] # "bs"
          /\ n \in 0 .. Len(s) /\ n - 1 \in 0 .. Len(s)
      BY DEF Has
    <2>2. SubSeq(s, 1, n) = Append(b, s[n])
      <3>1. SubSeq(s, 1, (n - 1) + 1) = Append(b, s[(n - 1) + 1])
        OBVIOUS
      <3>2. QED
        BY <3>1
    <2>3. f[n - 1] = a \o b /\ f[n] = a \o Append(b, s[n])
      BY <2>1, <2>2
    <2> HIDE DEF b, f
    <2>4. a \o b \in Seq(Symbols) /\ a \o Append(b, s[n]) = Append(a \o b, s[n])
      BY <2>1, SMTT(30)
    <2>5. QED
      BY <2>1, <2>3, <2>4, KeyIs
  <1>3. f[Len(s)] = a \o s
    <2>1. Len(s) \in 0 .. Len(s) /\ SubSeq(s, 1, Len(s)) = s
      OBVIOUS
    <2>2. QED
      BY <2>1
  <1>4. Key \in [Symbols -> [Q -> Q]] /\ a \in Q
    BY KeyIs
  <1> HIDE DEF f, Q
  <1>5. Follows(f, Q, Key, a, s)
    BY <1>1, <1>2 DEF Follows
  <1>6. f[Len(s)] = After(Key, a, s)
    BY <1>4, <1>5, StepsEndAfter
  <1>7. QED
    BY <1>3, <1>6 DEF Edit

LEMMA EditedIs ==
  ASSUME NEW ks \in Seq(Symbols)
  PROVE  Edited(ks) = Edit(<<>>, ks)
  <1> DEFINE Q == Seq(Symbols)
             e == <<>>
             Steps(f) == f = [n \in 0 .. Len(ks) |->
                                IF n = 0 THEN <<>>
                                ELSE IF ks[n] = "bs" THEN Front(f[n - 1])
                                ELSE Append(f[n - 1], ks[n])]
  <1>1. Key \in [Symbols -> [Q -> Q]] /\ e \in Q
    BY KeyIs
  <1>2. PICK f \in [0 .. Len(ks) -> Q] : Runs(f, Key, e, ks)
    <2> HIDE DEF Q, e
    <2>1. QED
      BY <1>1, RunExists
  <1>3. Steps(f)
    <2>1. \A n \in 0 .. Len(ks) : f[n] = IF n = 0 THEN e ELSE Key[ks[n]][f[n - 1]]
      BY <1>2, Zenon DEF Runs
    <2>2. ASSUME NEW n \in 0 .. Len(ks), n # 0
          PROVE  Key[ks[n]][f[n - 1]] = IF ks[n] = "bs" THEN Front(f[n - 1])
                                        ELSE Append(f[n - 1], ks[n])
      <3>1. n - 1 \in 0 .. Len(ks) /\ n \in 1 .. Len(ks)
        BY <2>2
      <3>2. ks[n] \in Symbols /\ f[n - 1] \in Seq(Symbols)
        BY <3>1
      <3>3. QED
        BY <3>2, KeyIs
    <2>3. \A n \in 0 .. Len(ks) : f[n] = IF n = 0 THEN <<>>
                                         ELSE IF ks[n] = "bs" THEN Front(f[n - 1])
                                         ELSE Append(f[n - 1], ks[n])
      BY <2>1, <2>2
    <2>4. QED
      BY <2>3
  <1>4. \E g : Steps(g) /\ Edited(ks) = g[Len(ks)]
    <2> DEFINE g == CHOOSE h : Steps(h)
    <2>1. Steps(g)
      BY <1>3, Zenon
    <2>2. Edited(ks) = g[Len(ks)]
      BY Zenon DEF Edited
    <2> HIDE DEF g, Steps
    <2>3. QED
      BY <2>1, <2>2, Zenon
  <1>5. PICK g : Steps(g) /\ Edited(ks) = g[Len(ks)]
    BY <1>4
  <1>6. \A n \in 0 .. Len(ks) : g[n] = IF n = 0 THEN <<>>
                                       ELSE IF ks[n] = "bs" THEN Front(g[n - 1])
                                       ELSE Append(g[n - 1], ks[n])
    BY <1>5, Zenon
  <1>7. g[0] = e
    <2>1. 0 \in 0 .. Len(ks)
      OBVIOUS
    <2>2. QED
      BY <1>6, <2>1, Zenon
  <1>8. ASSUME NEW n \in 1 .. Len(ks), g[n - 1] \in Seq(Symbols) PROVE g[n] = Key[ks[n]][g[n - 1]]
    <2>1. n \in 0 .. Len(ks) /\ n # 0 /\ ks[n] \in Symbols
      OBVIOUS
    <2>2. QED
      BY <1>6, <1>8, <2>1, KeyIs
  <1> HIDE DEF e
  <1>9. Follows(g, Q, Key, e, ks)
    BY <1>7, <1>8, Zenon DEF Follows
  <1> HIDE DEF Q
  <1>10. g[Len(ks)] = After(Key, e, ks)
    BY <1>1, <1>9, StepsEndAfter
  <1>11. QED
    BY <1>5, <1>10 DEF Edit, e

-----------------------------------------------------------------------------
(* The conversions. *)

WideState == [ws : Seq(Symbols), room : 0 .. WideFits]

NothingWide == [ws |-> <<>>, room |-> WideFits]

LEMMA PassIs ==
  /\ Pass \in [Symbols -> [WideState -> WideState]] /\ NothingWide \in WideState
  /\ \A x \in Symbols : \A w \in WideState :
       /\ Len(Pass[x][w].ws) <= Len(w.ws) + 1
       /\ x \notin Invalid /\ w.room # 0 =>
            Pass[x][w] = [ws |-> Append(w.ws, x), room |-> w.room - 1]
  <1>1. NothingWide \in WideState
    BY ConsoleAssumption DEF NothingWide, WideState
  <1> DEFINE out(x, w) == IF x \in Invalid \/ w.room = 0 THEN [ws |-> w.ws, room |-> WideFits]
                          ELSE [ws |-> Append(w.ws, x), room |-> w.room - 1]
  <1>2. Pass = [x \in Symbols |-> [w \in WideState |-> out(x, w)]]
    BY Zenon DEF Pass, WideState
  <1>3. ASSUME NEW x \in Symbols, NEW w \in WideState
        PROVE  out(x, w) \in WideState /\ Len(out(x, w).ws) <= Len(w.ws) + 1
    <2>1. w.ws \in Seq(Symbols) /\ w.room \in 0 .. WideFits /\ WideFits \in Nat
      BY ConsoleAssumption DEF WideState
    <2>2. CASE x \in Invalid \/ w.room = 0
      BY <2>1, <2>2 DEF WideState
    <2>3. CASE ~(x \in Invalid \/ w.room = 0)
      <3> DEFINE a == Append(w.ws, x)
      <3>1. a \in Seq(Symbols) /\ Len(a) = Len(w.ws) + 1 /\ w.room - 1 \in 0 .. WideFits
        BY <2>1, <2>3
      <3> HIDE DEF a
      <3>2. out(x, w) = [ws |-> a, room |-> w.room - 1]
        BY <2>3 DEF a
      <3>3. QED
        BY <2>1, <3>1, <3>2 DEF WideState
    <2>4. QED
      BY <2>2, <2>3
  <1>4. \A x \in Symbols : \A w \in WideState : Pass[x][w] = out(x, w)
    BY <1>2
  <1>5. Pass \in [Symbols -> [WideState -> WideState]]
    <2> HIDE DEF out
    <2>1. QED
      BY <1>2, <1>3
  <1>6. QED
    BY <1>1, <1>3, <1>4, <1>5

LEMMA WidenedRuns ==
  ASSUME NEW s
  PROVE  Widened(s) = After(Pass, NothingWide, s).ws
  BY Zenon DEF Widened, After, Runs, NothingWide

LEMMA WidenedIs ==
  ASSUME NEW s \in Seq(Symbols)
  PROVE  Widened(s) \in Seq(Symbols) /\ Len(Widened(s)) <= Len(s)
  <1> DEFINE W == WideState
             w0 == NothingWide
  <1>1. Pass \in [Symbols -> [W -> W]] /\ w0 \in W
    BY PassIs
  <1> HIDE DEF W, w0
  <1>2. PICK g \in [0 .. Len(s) -> W] : Runs(g, Pass, w0, s)
    BY <1>1, RunExists
  <1>3. g[Len(s)] = After(Pass, w0, s)
    BY <1>2, RunEndsAfter, Zenon
  <1>4. \A n \in 0 .. Len(s) : g[n] = IF n = 0 THEN w0 ELSE Pass[s[n]][g[n - 1]]
    BY <1>2, Zenon DEF Runs
  <1>5. \A n \in 0 .. Len(s) : g[n] \in WideState /\ g[n].ws \in Seq(Symbols)
    BY <1>2 DEF W, WideState
  <1> DEFINE G == {n \in Nat : n <= Len(s) => Len(g[n].ws) <= n}
  <1>6. 0 \in G
    <2>1. 0 \in 0 .. Len(s) /\ w0.ws = <<>>
      BY DEF w0, NothingWide
    <2>2. QED
      BY <1>4, <2>1
  <1>7. ASSUME NEW n \in G PROVE n + 1 \in G
    <2> SUFFICES ASSUME n + 1 <= Len(s) PROVE Len(g[n + 1].ws) <= n + 1
      OBVIOUS
    <2>1. n \in 0 .. Len(s) /\ n + 1 \in 0 .. Len(s) /\ n + 1 \in 1 .. Len(s) /\ Len(g[n].ws) <= n
          /\ n + 1 # 0 /\ (n + 1) - 1 = n
      BY <1>7
    <2>2. s[n + 1] \in Symbols /\ g[n + 1] = Pass[s[n + 1]][g[n]]
      BY <1>4, <2>1
    <2>3. Len(g[n + 1].ws) <= Len(g[n].ws) + 1
      BY <1>5, <2>1, <2>2, PassIs
    <2>4. Len(g[n].ws) \in Nat /\ Len(g[n + 1].ws) \in Nat
      BY <1>5, <2>1
    <2>5. QED
      BY <2>1, <2>3, <2>4
  <1>8. G \in SUBSET Nat
    OBVIOUS
  <1>9. Len(s) \in G
    <2> HIDE DEF G
    <2>1. G = Nat
      BY <1>6, <1>7, <1>8, NatSetInduction
    <2>2. QED
      BY <2>1
  <1>10. Widened(s) = g[Len(s)].ws
    BY <1>3, WidenedRuns DEF w0
  <1>11. Len(s) \in 0 .. Len(s)
    OBVIOUS
  <1>12. QED
    BY <1>5, <1>9, <1>10, <1>11

\* A string of characters that one pass has room for is converted as it is.
LEMMA WidenedExact ==
  ASSUME NEW s \in Seq(Symbols), Len(s) <= WideFits, \A i \in DOMAIN s : s[i] \notin Invalid
  PROVE  Widened(s) = s
  <1> DEFINE W == WideState
             w0 == NothingWide
             f == [n \in 0 .. Len(s) |-> [ws |-> SubSeq(s, 1, n), room |-> WideFits - n]]
  <1>1. Pass \in [Symbols -> [W -> W]] /\ w0 \in W /\ WideFits \in Nat
    BY PassIs, ConsoleAssumption
  <1>2. f[0] = w0
    <2>1. 0 \in 0 .. Len(s) /\ SubSeq(s, 1, 0) = <<>> /\ WideFits - 0 = WideFits
      BY <1>1
    <2>2. QED
      BY <2>1 DEF NothingWide
  <1>3. ASSUME NEW n \in 1 .. Len(s) PROVE f[n] = Pass[s[n]][f[n - 1]]
    <2> DEFINE b == SubSeq(s, 1, n - 1)
    <2>1. /\ n \in 0 .. Len(s) /\ n - 1 \in 0 .. Len(s) /\ s[n] \in Symbols /\ s[n] \notin Invalid
          /\ WideFits - (n - 1) \in 0 .. WideFits /\ WideFits - (n - 1) # 0
          /\ (WideFits - (n - 1)) - 1 = WideFits - n
      BY <1>1
    <2>2. b \in Seq(Symbols) /\ SubSeq(s, 1, n) = Append(b, s[n])
      <3>1. SubSeq(s, 1, (n - 1) + 1) = Append(b, s[(n - 1) + 1])
        OBVIOUS
      <3>2. QED
        BY <3>1
    <2>3. /\ f[n - 1] = [ws |-> b, room |-> WideFits - (n - 1)]
          /\ f[n] = [ws |-> Append(b, s[n]), room |-> WideFits - n]
      BY <2>1, <2>2
    <2> HIDE DEF b, f
    <2>4. f[n - 1] \in WideState /\ f[n - 1].room # 0
      BY <2>1, <2>2, <2>3 DEF WideState
    <2>5. Pass[s[n]][f[n - 1]] = [ws |-> Append(f[n - 1].ws, s[n]), room |-> f[n - 1].room - 1]
      BY <2>1, <2>4, PassIs
    <2>6. f[n - 1].ws = b /\ f[n - 1].room - 1 = WideFits - n
      BY <2>1, <2>3
    <2>7. QED
      BY <2>3, <2>5, <2>6
  <1>4. f[Len(s)].ws = s
    <2>1. Len(s) \in 0 .. Len(s) /\ SubSeq(s, 1, Len(s)) = s
      OBVIOUS
    <2>2. QED
      BY <2>1
  <1> HIDE DEF f, W, w0
  <1>5. Follows(f, W, Pass, w0, s)
    BY <1>2, <1>3 DEF Follows
  <1>6. f[Len(s)] = After(Pass, w0, s)
    BY <1>1, <1>5, StepsEndAfter
  <1>7. QED
    BY <1>4, <1>6, WidenedRuns DEF w0

LEMMA NarrowedIs ==
  ASSUME NEW ws \in Seq(Symbols)
  PROVE  /\ Narrowed(ws) \in Seq(Symbols) /\ Len(Narrowed(ws)) <= Len(ws)
         /\ Len(ws) <= NarrowFits => Narrowed(ws) = ws
  <1>1. NarrowFits \in Nat
    BY ConsoleAssumption
  <1>2. CASE ws \in DOMAIN Garbled
    BY <1>1, <1>2, ConversionsAssumption DEF Narrowed
  <1>3. CASE ws \notin DOMAIN Garbled
    BY <1>3 DEF Narrowed
  <1>4. QED
    BY <1>2, <1>3

LEMMA ToUtf8Is ==
  ASSUME NEW d \in Seq(Symbols)
  PROVE  ToUtf8(d) \in Seq(Symbols) /\ (d \notin DOMAIN Recoded => ToUtf8(d) = d)
  BY ConversionsAssumption DEF ToUtf8

-----------------------------------------------------------------------------
(* The loop over backspaces. *)

\* Where it stops: no backspace is left, or nothing to take is before the first one.
Stops == {s \in Seq(Symbols) :
            \/ FirstOf[{"bs"}][s] = Len(s) + 1
            \/ Widened(SubSeq(s, 1, FirstOf[{"bs"}][s] - 1)) = <<>>}

Rub == [s \in Seq(Symbols) |->
          IF s \in Stops THEN s
          ELSE Narrowed(Front(Widened(SubSeq(s, 1, FirstOf[{"bs"}][s] - 1))))
                 \o Drop(s, FirstOf[{"bs"}][s])]

\* A round of it makes the line shorter, and takes nothing from behind the backspace.
LEMMA RubShortens ==
  ASSUME NEW s \in Seq(Symbols) \ Stops
  PROVE  Rub[s] \in Seq(Symbols) /\ Len(Rub[s]) < Len(s)
  <1> DEFINE p == FirstOf[{"bs"}][s]
             pre == SubSeq(s, 1, p - 1)
             ws == Widened(pre)
             a == Narrowed(Front(ws))
             b == Drop(s, p)
  <1>0. {"bs"} \in SUBSET Symbols
    BY SymbolsDiffer
  <1>1. p \in Nat /\ 1 <= p /\ p <= Len(s) + 1 /\ p # Len(s) + 1 /\ ws # <<>>
    BY <1>0, FirstOfIs DEF Stops
  <1>2. Rub[s] = a \o b
    BY DEF Rub
  <1> HIDE DEF p
  <1>3. p <= Len(s) /\ p - 1 \in Nat /\ p - 1 <= Len(s) /\ Len(s) \in Nat
    BY <1>1
  <1>4. pre \in Seq(Symbols) /\ Len(pre) = p - 1
    <2> DEFINE m == p - 1
    <2>1. m \in Nat /\ m <= Len(s)
      BY <1>3
    <2> HIDE DEF m
    <2>2. SubSeq(s, 1, m) \in Seq(Symbols) /\ Len(SubSeq(s, 1, m)) = m
      BY <2>1, SplitAt
    <2>3. QED
      BY <2>2 DEF m
  <1>5. b \in Seq(Symbols) /\ Len(b) = Len(s) - p
    BY <1>1, <1>3, DropIs
  <1> HIDE DEF pre, b
  <1>6. ws \in Seq(Symbols) /\ Len(ws) <= p - 1
    BY <1>4, WidenedIs
  <1> HIDE DEF ws
  <1>7. Front(ws) \in Seq(Symbols) /\ Len(Front(ws)) = Len(ws) - 1
    <2> DEFINE m == Len(ws) - 1
    <2>1. m \in Nat /\ m <= Len(ws)
      BY <1>1, <1>6
    <2>2. SubSeq(ws, 1, m) \in Seq(Symbols) /\ Len(SubSeq(ws, 1, m)) = m
      <3> HIDE DEF m
      <3>1. QED
        BY <1>6, <2>1, SplitAt
    <2>3. Front(ws) = SubSeq(ws, 1, m)
      BY Zenon DEF Front
    <2>4. QED
      BY <2>2, <2>3
  <1>8. a \in Seq(Symbols) /\ Len(a) <= Len(ws) - 1
    BY <1>7, NarrowedIs
  <1> HIDE DEF a
  <1>9. a \o b \in Seq(Symbols) /\ Len(a \o b) = Len(a) + Len(b)
    BY <1>5, <1>8, ConcatLength
  <1>10. Len(a) \in Nat /\ Len(b) \in Nat /\ Len(ws) \in Nat
    BY <1>5, <1>6, <1>8
  <1>11. QED
    <2>1. Len(a) + Len(b) < Len(s)
      BY <1>1, <1>3, <1>5, <1>6, <1>8, <1>10
    <2>2. QED
      BY <1>2, <1>9, <2>1

\* Where the conversions are exact, it takes out a symbol and the backspace after it.
LEMMA RubTakesTwo ==
  ASSUME NEW s \in Seq(Symbols) \ Stops, Convertible(s)
  PROVE  \E a \in Seq(Symbols), b \in Seq(Symbols), x \in Symbols :
            /\ Rub[s] = a \o b
            /\ s = a \o (<<x>> \o (<<"bs">> \o b))
            /\ x # "bs"
  <1> DEFINE p == FirstOf[{"bs"}][s]
             pre == SubSeq(s, 1, p - 1)
             a == SubSeq(s, 1, p - 2)
             b == Drop(s, p)
             x == s[p - 1]
  <1>1. {"bs"} \in SUBSET Symbols
    BY SymbolsDiffer
  <1>2. /\ p \in Nat /\ 1 <= p /\ p <= Len(s) + 1
        /\ \A i \in 1 .. Len(s) : i < p => s[i] \notin {"bs"}
        /\ p <= Len(s) => s[p] \in {"bs"}
        /\ p # Len(s) + 1 /\ Widened(pre) # <<>>
    BY <1>1, FirstOfIs DEF Stops
  <1>3. Rub[s] = Narrowed(Front(Widened(pre))) \o b
    BY DEF Rub
  <1> HIDE DEF p
  <1>4. /\ pre \in Seq(Symbols) /\ Len(pre) = p - 1 /\ ~Has(pre, "bs")
        /\ \A i \in 1 .. p - 1 : pre[i] = s[i]
    <2> DEFINE m == p - 1
    <2>1. m \in Nat /\ m <= Len(s) /\ \A i \in 1 .. m : i \in 1 .. Len(s) /\ i < p
      BY <1>2
    <2> HIDE DEF m
    <2>2. /\ SubSeq(s, 1, m) \in Seq(Symbols) /\ Len(SubSeq(s, 1, m)) = m
          /\ \A i \in 1 .. m : SubSeq(s, 1, m)[i] = s[i]
      BY <2>1, SplitAt
    <2> DEFINE q == SubSeq(s, 1, m)
    <2>3. ~Has(q, "bs")
      <3>1. DOMAIN q = 1 .. m
        BY <2>2
      <3>2. QED
        BY <1>2, <2>1, <2>2, <3>1 DEF Has
    <2>4. QED
      BY <2>2, <2>3 DEF m
  <1>5. Len(pre) <= WideFits /\ Widened(pre) = pre
    <2>1. Edited(pre) = pre
      <3> HIDE DEF pre
      <3>1. <<>> \in Seq(Symbols)
        OBVIOUS
      <3>2. Edited(pre) = <<>> \o pre
        BY <1>4, <3>1, EditedIs, EditPlain
      <3>3. QED
        BY <1>4, <3>2, EmptyConcat
    <2>2. p \in DOMAIN s /\ s[p] = "bs"
      BY <1>2
    <2>3. Len(Edited(pre)) <= WideFits /\ \A i \in DOMAIN Edited(pre) : Edited(pre)[i] \notin Invalid
      BY <2>2, Zenon DEF Convertible
    <2> HIDE DEF pre
    <2>4. QED
      BY <1>4, <2>1, <2>3, WidenedExact
  <1>6. p # 1
    BY <1>2, <1>4, <1>5
  <1>7. /\ p \in Nat /\ 1 <= p /\ p <= Len(s) + 1
        /\ \A i \in 1 .. Len(s) : i < p => s[i] \notin {"bs"}
        /\ p <= Len(s) => s[p] \in {"bs"}
        /\ p # 1 /\ p # Len(s) + 1
    BY <1>2, <1>6
  <1>8. Narrowed(Front(pre)) = a
    <2>1. Front(pre) = a
      <3>1. Front(pre) = SubSeq(pre, 1, p - 2)
        BY <1>7, <1>4 DEF Front
      <3>2. SubSeq(pre, 1, p - 2) = a
        BY <1>7
      <3>3. QED
        BY <3>1, <3>2
    <2>2. a \in Seq(Symbols) /\ Len(a) = p - 2
      <3> DEFINE m == p - 2
      <3>1. m \in Nat /\ m <= Len(s)
        BY <1>7
      <3> HIDE DEF m
      <3>2. SubSeq(s, 1, m) \in Seq(Symbols) /\ Len(SubSeq(s, 1, m)) = m
        BY <3>1, SplitAt
      <3>3. QED
        BY <3>2 DEF m
    <2>3. WideFits \in Nat /\ NarrowFits \in Nat /\ WideFits <= NarrowFits
      BY ConsoleAssumption
    <2> HIDE DEF pre, a
    <2>4. Len(a) <= NarrowFits
      BY <1>7, <1>4, <1>5, <2>2, <2>3
    <2>5. QED
      BY <2>1, <2>2, <2>4, NarrowedIs
  <1>9. Rub[s] = a \o b
    BY <1>3, <1>5, <1>8
  <1> HIDE DEF pre
  <1>10. /\ p - 2 \in Nat /\ p - 2 <= Len(s) /\ p <= Len(s) /\ p - 1 \in 1 .. Len(s)
        /\ p \in 1 .. Len(s)
    BY <1>7
  <1>11. /\ a \in Seq(Symbols) /\ Len(a) = p - 2
        /\ \A i \in 1 .. p - 2 : a[i] = s[i]
    <2> DEFINE m == p - 2
    <2>1. m \in Nat /\ m <= Len(s)
      BY <1>10
    <2> HIDE DEF m
    <2>2. /\ SubSeq(s, 1, m) \in Seq(Symbols) /\ Len(SubSeq(s, 1, m)) = m
          /\ \A i \in 1 .. m : SubSeq(s, 1, m)[i] = s[i]
      BY <2>1, SplitAt
    <2>3. QED
      BY <2>2 DEF m
  <1>12. /\ b \in Seq(Symbols) /\ Len(b) = Len(s) - p
        /\ \A i \in 1 .. Len(s) - p : b[i] = s[p + i]
    BY <1>7, <1>10, DropIs
  <1>13. x \in Symbols /\ x # "bs" /\ s[p] = "bs" /\ "bs" \in Symbols
    BY <1>1, <1>7, <1>10
  <1> HIDE DEF a, b, x
  <1> DEFINE t == a \o (<<x>> \o (<<"bs">> \o b))
  <1>14. s = t
    <2>1. t \in Seq(Symbols) /\ Len(t) = Len(s)
      <3>1. <<"bs">> \o b \in Seq(Symbols) /\ Len(<<"bs">> \o b) = 1 + Len(b)
        BY <1>12, <1>13
      <3>2. /\ <<x>> \o (<<"bs">> \o b) \in Seq(Symbols)
            /\ Len(<<x>> \o (<<"bs">> \o b)) = 2 + Len(b)
        BY <1>12, <1>13, <3>1
      <3> DEFINE w == <<x>> \o (<<"bs">> \o b)
      <3>3. w \in Seq(Symbols) /\ Len(w) = 2 + Len(b) /\ t = a \o w
        BY <3>2
      <3> HIDE DEF t, w
      <3>4. t \in Seq(Symbols) /\ Len(t) = Len(a) + Len(w)
        BY <1>11, <3>3, ConcatLength
      <3>5. QED
        BY <1>10, <1>11, <1>12, <3>3, <3>4
    <2>2. \A i \in 1 .. Len(s) : t[i] = s[i]
      <3> SUFFICES ASSUME NEW i \in 1 .. Len(s) PROVE t[i] = s[i]
        OBVIOUS
      <3> DEFINE u == <<x>> \o (<<"bs">> \o b)
      <3>1. u \in Seq(Symbols) /\ Len(u) = 2 + Len(b) /\ u[1] = x /\ u[2] = "bs"
            /\ \A j \in 1 .. Len(b) : u[2 + j] = b[j]
        BY <1>12, <1>13
      <3> HIDE DEF u
      <3>2. t = a \o u
        BY DEF u
      <3> HIDE DEF t
      <3>3. i <= p - 2 => t[i] = s[i]
        BY <1>10, <1>11, <3>1, <3>2
      <3>4. i > p - 2 => t[i] = u[i - (p - 2)]
        <4>1. Len(a) = p - 2 /\ p - 2 \in Nat /\ Len(s) = (p - 2) + Len(u) /\ Len(u) \in Nat
          BY <1>7, <1>10, <1>11, <1>12, <3>1
        <4>2. \A k \in 1 .. Len(a) + Len(u) : k > Len(a) => (a \o u)[k] = u[k - Len(a)]
          BY <1>11, <3>1
        <4>3. QED
          BY <3>2, <4>1, <4>2
      <3>5. i = p - 1 => t[i] = s[i]
        <4>1. p - 1 > p - 2 /\ (p - 1) - (p - 2) = 1
          BY <1>10
        <4>2. QED
          BY <3>1, <3>4, <4>1 DEF x
      <3>6. i = p => t[i] = s[i]
        <4>1. p > p - 2 /\ p - (p - 2) = 2
          BY <1>10
        <4>2. QED
          BY <1>13, <3>1, <3>4, <4>1
      <3>7. i > p => t[i] = s[i]
        <4> SUFFICES ASSUME i > p PROVE t[i] = s[i]
          OBVIOUS
        <4>1. i > p - 2 /\ i - p \in 1 .. Len(b) /\ i - (p - 2) = 2 + (i - p) /\ p + (i - p) = i
              /\ i - p \in 1 .. Len(s) - p
          BY <1>7, <1>12
        <4>2. QED
          BY <1>12, <3>1, <3>4, <4>1
      <3>8. i <= p - 2 \/ i = p - 1 \/ i = p \/ i > p
        BY <1>7
      <3>9. QED
        BY <3>3, <3>5, <3>6, <3>7, <3>8, Zenon
    <2> HIDE DEF t
    <2>3. QED
      BY <2>1, <2>2
  <1>15. QED
    BY <1>9, <1>11, <1>12, <1>13, <1>14

LEMMA RubType ==
  /\ Rub \in [Seq(Symbols) -> Seq(Symbols)]
  /\ \A s \in Seq(Symbols) \ Stops : Len(Rub[s]) < Len(s)
  <1>1. ASSUME NEW s \in Seq(Symbols) PROVE Rub[s] \in Seq(Symbols)
    <2>1. CASE s \in Stops
      BY <2>1 DEF Rub
    <2>2. CASE s \notin Stops
      BY <2>2, RubShortens
    <2>3. QED
      BY <2>1, <2>2
  <1>2. Rub = [s \in Seq(Symbols) |-> Rub[s]]
    BY DEF Rub
  <1>3. Rub \in [Seq(Symbols) -> Seq(Symbols)]
    BY <1>1, <1>2
  <1>4. QED
    BY <1>3, RubShortens

LEMMA RubOutLoops == Loops(RubOut, Seq(Symbols), Stops, Rub)
  <1> DEFINE D == Seq(Symbols)
             size == [s \in D |-> Len(s)]
             Before(s) == Widened(SubSeq(s, 1, FirstOf[{"bs"}][s] - 1))
             Over(s) == FirstOf[{"bs"}][s] = Len(s) + 1 \/ Before(s) = <<>>
             Steps(f) == f = [s \in D |->
                          IF Over(s) THEN s
                          ELSE f[Narrowed(Front(Before(s))) \o Drop(s, FirstOf[{"bs"}][s])]]
  <1>1. size \in [D -> Nat] /\ Rub \in [D -> D] /\ Shrinks(D, Stops, Rub, size)
    BY RubType DEF Shrinks
  <1>2. PICK f \in [D -> D] : Loops(f, D, Stops, Rub)
    <2> HIDE DEF D, size
    <2>1. QED
      BY <1>1, LoopExists
  <1>3. ASSUME NEW g, Loops(g, D, Stops, Rub) PROVE Steps(g)
    <2>1. g = [s \in D |-> IF s \in Stops THEN s ELSE g[Rub[s]]]
      BY <1>3, Zenon DEF Loops
    <2>2. ASSUME NEW s \in D
          PROVE  (IF s \in Stops THEN s ELSE g[Rub[s]])
                   = IF Over(s) THEN s
                     ELSE g[Narrowed(Front(Before(s))) \o Drop(s, FirstOf[{"bs"}][s])]
      BY <2>2, Zenon DEF Stops, Rub
    <2>3. QED
      BY <2>1, <2>2
  <1>4. ASSUME NEW g, Steps(g) PROVE Loops(g, D, Stops, Rub)
    <2>1. g = [s \in D |->
                 IF Over(s) THEN s
                 ELSE g[Narrowed(Front(Before(s))) \o Drop(s, FirstOf[{"bs"}][s])]]
      BY <1>4, Zenon
    <2>2. ASSUME NEW s \in D
          PROVE  (IF s \in Stops THEN s ELSE g[Rub[s]])
                   = IF Over(s) THEN s
                     ELSE g[Narrowed(Front(Before(s))) \o Drop(s, FirstOf[{"bs"}][s])]
      BY <2>2, Zenon DEF Stops, Rub
    <2>3. QED
      BY <2>1, <2>2 DEF Loops
  <1>5. Steps(f)
    BY <1>2, <1>3
  <1>6. RubOut = CHOOSE h : Steps(h)
    BY Zenon DEF RubOut
  <1>7. Steps(RubOut)
    <2> HIDE DEF Steps
    <2>1. QED
      BY <1>5, <1>6, Zenon
  <1>8. QED
    BY <1>4, <1>7

\* What each round preserves, the loop does.
LEMMA RubOutKeeps ==
  ASSUME NEW P \in SUBSET Seq(Symbols), Closed(P, Stops, Rub), NEW s \in P
  PROVE  RubOut[s] \in P /\ RubOut[s] \in Stops
  <1> DEFINE D == Seq(Symbols)
             size == [t \in D |-> Len(t)]
  <1>1. /\ size \in [D -> Nat] /\ Rub \in [D -> D] /\ Shrinks(D, Stops, Rub, size)
        /\ Loops(RubOut, D, Stops, Rub) /\ P \in SUBSET D
    BY RubType, RubOutLoops DEF Shrinks
  <1> HIDE DEF D, size
  <1>3. \A t \in P : RubOut[t] \in P /\ RubOut[t] \in Stops
    BY <1>1, LoopKeeps
  <1>4. QED
    BY <1>3

LEMMA RubOutType ==
  ASSUME NEW s \in Seq(Symbols)
  PROVE  RubOut[s] \in Seq(Symbols)
  <1>1. Closed(Seq(Symbols), Stops, Rub)
    BY RubType DEF Closed
  <1>2. QED
    BY <1>1, RubOutKeeps

\* A symbol and a backspace after it leave nothing behind.
LEMMA TwoGone ==
  ASSUME NEW e \in Seq(Symbols), NEW a \in Seq(Symbols), NEW b \in Seq(Symbols),
         NEW x \in Symbols, x # "bs"
  PROVE  Edit(e, a \o (<<x>> \o (<<"bs">> \o b))) = Edit(e, a \o b)
  <1> DEFINE c == Edit(e, a)
             u == <<"bs">> \o b
             v == <<x>> \o u
  <1>1. /\ <<x>> \in Seq(Symbols) /\ <<"bs">> \in Seq(Symbols) /\ "bs" \in Symbols
        /\ u \in Seq(Symbols) /\ v \in Seq(Symbols)
    BY SymbolsDiffer
  <1>2. c \in Seq(Symbols)
    BY EditType
  <1> HIDE DEF c, u, v
  <1>3. Append(c, x) \in Seq(Symbols) /\ Front(Append(c, x)) = c
    <2>1. Append(c, x) \in Seq(Symbols) /\ Len(Append(c, x)) = Len(c) + 1
      BY <1>2
    <2>2. SubSeq(Append(c, x), 1, Len(c)) = c
      BY <1>2
    <2>3. QED
      BY <1>2, <2>1, <2>2 DEF Front
  <1>4. Edit(e, a \o v) = Edit(c, v)
    BY <1>1, EditConcat DEF c
  <1>5. Edit(c, v) = Edit(Append(c, x), u)
    <2>1. Edit(c, v) = Edit(Edit(c, <<x>>), u)
      BY <1>1, <1>2, EditConcat, Zenon DEF v
    <2>2. Edit(c, <<x>>) = Append(c, x)
      BY <1>2, EditOne
    <2>3. QED
      BY <2>1, <2>2
  <1>6. Edit(Append(c, x), u) = Edit(c, b)
    <2>1. Edit(Append(c, x), u) = Edit(Edit(Append(c, x), <<"bs">>), b)
      BY <1>1, <1>3, EditConcat, Zenon DEF u
    <2>2. Edit(Append(c, x), <<"bs">>) = c
      BY <1>1, <1>3, EditOne
    <2>3. QED
      BY <2>1, <2>2
  <1>7. Edit(c, b) = Edit(e, a \o b)
    BY EditConcat DEF c
  <1>8. QED
    BY <1>4, <1>5, <1>6, <1>7, Zenon DEF v, u

\* What comes before the i-th symbol of two lines.
LEMMA Beginning ==
  ASSUME NEW a \in Seq(Symbols), NEW b \in Seq(Symbols), NEW i \in Nat
  PROVE  /\ i <= Len(a) => SubSeq(a \o b, 1, i) = SubSeq(a, 1, i)
         /\ i <= Len(b) => SubSeq(a \o b, 1, Len(a) + i) = a \o SubSeq(b, 1, i)
  <1> DEFINE s == a \o b
  <1>1. /\ s \in Seq(Symbols) /\ Len(s) = Len(a) + Len(b) /\ Len(a) \in Nat /\ Len(b) \in Nat
        /\ \A k \in 1 .. Len(a) : s[k] = a[k]
        /\ \A k \in 1 .. Len(b) : s[Len(a) + k] = b[k]
    OBVIOUS
  <1> HIDE DEF s
  <1>2. ASSUME i <= Len(a) PROVE SubSeq(s, 1, i) = SubSeq(a, 1, i)
    <2> DEFINE u == SubSeq(s, 1, i)
               v == SubSeq(a, 1, i)
    <2>1. i <= Len(s)
      BY <1>1, <1>2
    <2>2. u \in Seq(Symbols) /\ Len(u) = i /\ \A k \in 1 .. i : u[k] = s[k]
      BY <1>1, <2>1, SplitAt
    <2>3. v \in Seq(Symbols) /\ Len(v) = i /\ \A k \in 1 .. i : v[k] = a[k]
      BY <1>2, SplitAt
    <2> HIDE DEF u, v
    <2>4. \A k \in 1 .. i : k \in 1 .. Len(a)
      BY <1>1, <1>2
    <2>5. u = v
      BY <1>1, <2>2, <2>3, <2>4
    <2>6. QED
      BY <2>5 DEF u, v
  <1>3. ASSUME i <= Len(b) PROVE SubSeq(s, 1, Len(a) + i) = a \o SubSeq(b, 1, i)
    <2> DEFINE u == SubSeq(s, 1, Len(a) + i)
               w == SubSeq(b, 1, i)
               v == a \o w
    <2>1. Len(a) + i <= Len(s) /\ Len(a) + i \in Nat
      BY <1>1, <1>3
    <2>2. u \in Seq(Symbols) /\ Len(u) = Len(a) + i /\ \A k \in 1 .. Len(a) + i : u[k] = s[k]
      BY <1>1, <2>1, SplitAt
    <2>3. w \in Seq(Symbols) /\ Len(w) = i /\ \A k \in 1 .. i : w[k] = b[k]
      BY <1>3, SplitAt
    <2> HIDE DEF u, w
    <2>4. /\ v \in Seq(Symbols) /\ Len(v) = Len(a) + i
          /\ \A k \in 1 .. Len(a) : v[k] = a[k]
          /\ \A k \in 1 .. Len(a) + i : k > Len(a) => v[k] = w[k - Len(a)]
      BY <2>3
    <2> HIDE DEF v
    <2>5. ASSUME NEW k \in 1 .. Len(a) + i PROVE u[k] = v[k]
      <3>1. CASE k <= Len(a)
        <4>1. k \in 1 .. Len(a)
          BY <3>1
        <4>2. QED
          BY <1>1, <2>2, <2>4, <4>1
      <3>2. CASE k > Len(a)
        <4>1. k - Len(a) \in 1 .. i /\ k - Len(a) \in 1 .. Len(b) /\ Len(a) + (k - Len(a)) = k
          BY <1>1, <1>3, <3>2
        <4>2. s[k] = b[k - Len(a)]
          BY <1>1, <4>1
        <4>3. QED
          BY <2>2, <2>3, <2>4, <3>2, <4>1, <4>2
      <3>3. QED
        BY <1>1, <3>1, <3>2
    <2>6. u = v
      BY <2>2, <2>4, <2>5
    <2>7. QED
      BY <2>6 DEF u, v, w
  <1>4. QED
    BY <1>2, <1>3 DEF s

\* A round leaves a line that the conversions are exact for.
LEMMA RubConvertible ==
  ASSUME NEW s \in Seq(Symbols) \ Stops, Convertible(s)
  PROVE  Convertible(Rub[s])
  <1>1. PICK a \in Seq(Symbols), b \in Seq(Symbols), x \in Symbols :
          Rub[s] = a \o b /\ s = a \o (<<x>> \o (<<"bs">> \o b)) /\ x # "bs"
    BY RubTakesTwo
  <1> DEFINE t == a \o b
             c == <<x>> \o <<"bs">>
             ac == a \o c
             Short(line) == Len(line) <= WideFits /\ \A i \in DOMAIN line : line[i] \notin Invalid
  <1>2. /\ c \in Seq(Symbols) /\ Len(c) = 2 /\ t \in Seq(Symbols) /\ Len(t) = Len(a) + Len(b)
        /\ ac \in Seq(Symbols) /\ Len(ac) = Len(a) + 2 /\ Len(a) \in Nat /\ Len(b) \in Nat
    BY SymbolsDiffer
  <1>3. s = a \o (c \o b) /\ s = ac \o b
    <2>1. <<x>> \in Seq(Symbols) /\ <<"bs">> \in Seq(Symbols)
      BY SymbolsDiffer
    <2>2. <<x>> \o (<<"bs">> \o b) = c \o b
      BY <2>1, SMTT(30)
    <2> HIDE DEF c
    <2>3. a \o (c \o b) = ac \o b
      BY <1>2, SMTT(30)
    <2>4. QED
      BY <1>1, <2>2, <2>3
  <1>4. \A p \in DOMAIN s : s[p] = "bs" => Short(Edited(SubSeq(s, 1, p - 1)))
    BY Zenon DEF Convertible
  <1> HIDE DEF Short
  <1>5. ASSUME NEW q \in DOMAIN t, t[q] = "bs" PROVE Short(Edited(SubSeq(t, 1, q - 1)))
    <2>1. q \in 1 .. Len(t) /\ q - 1 \in Nat
      BY <1>2
    <2>2. CASE q <= Len(a)
      <3> DEFINE cb == c \o b
      <3>1. cb \in Seq(Symbols) /\ q - 1 <= Len(a) /\ q \in 1 .. Len(a)
        BY <1>2, <2>1, <2>2
      <3>2. SubSeq(t, 1, q - 1) = SubSeq(a, 1, q - 1)
        BY <2>1, <3>1, Beginning
      <3>3. s = a \o cb
        BY <1>3
      <3> HIDE DEF cb
      <3>4. SubSeq(s, 1, q - 1) = SubSeq(a, 1, q - 1)
        BY <2>1, <3>1, <3>3, Beginning
      <3>5. q \in DOMAIN s /\ s[q] = a[q]
        BY <3>1, <3>3
      <3>6. t[q] = a[q]
        BY <3>1
      <3>7. QED
        BY <1>4, <1>5, <3>2, <3>4, <3>5, <3>6
    <2>3. CASE q > Len(a)
      <3> DEFINE k == q - Len(a)
                 b1 == SubSeq(b, 1, k - 1)
      <3>1. /\ k \in 1 .. Len(b) /\ k - 1 \in Nat /\ k - 1 <= Len(b)
            /\ q - 1 = Len(a) + (k - 1) /\ Len(ac) + k = q + 2 /\ (q + 2) - 1 = Len(ac) + (k - 1)
        BY <1>2, <2>1, <2>3
      <3>2. t[q] = b[k]
        BY <1>2, <2>1, <2>3
      <3> HIDE DEF ac, t, k
      <3>3. q + 2 \in DOMAIN s /\ s[q + 2] = b[k]
        <4>1. \A j \in 1 .. Len(b) : Len(ac) + j \in DOMAIN (ac \o b) /\ (ac \o b)[Len(ac) + j] = b[j]
          BY <1>2
        <4>2. QED
          BY <1>3, <3>1, <4>1
      <3>4. SubSeq(t, 1, q - 1) = a \o b1
        <4>1. SubSeq(a \o b, 1, Len(a) + (k - 1)) = a \o SubSeq(b, 1, k - 1)
          BY <1>2, <3>1, Beginning
        <4>2. QED
          BY <3>1, <4>1 DEF t
      <3>5. SubSeq(s, 1, (q + 2) - 1) = ac \o b1
        <4>1. SubSeq(ac \o b, 1, Len(ac) + (k - 1)) = ac \o SubSeq(b, 1, k - 1)
          BY <1>2, <3>1, Beginning
        <4>2. QED
          BY <1>3, <3>1, <4>1
      <3>6. b1 \in Seq(Symbols)
        BY <3>1, SplitAt
      <3> HIDE DEF b1
      <3>7. ac \o b1 = a \o (<<x>> \o (<<"bs">> \o b1))
        <4>1. <<x>> \in Seq(Symbols) /\ <<"bs">> \in Seq(Symbols)
          BY SymbolsDiffer
        <4>2. <<x>> \o (<<"bs">> \o b1) = c \o b1
          BY <3>6, <4>1, SMTT(30)
        <4> HIDE DEF c
        <4>3. a \o (c \o b1) = (a \o c) \o b1
          BY <1>2, <3>6, SMTT(30)
        <4>4. QED
          BY <4>2, <4>3 DEF ac
      <3>8. ac \o b1 \in Seq(Symbols) /\ a \o b1 \in Seq(Symbols) /\ <<>> \in Seq(Symbols)
        BY <1>2, <3>6, ConcatLength
      <3>9. Edit(<<>>, ac \o b1) = Edit(<<>>, a \o b1)
        <4>1. Edit(<<>>, a \o (<<x>> \o (<<"bs">> \o b1))) = Edit(<<>>, a \o b1)
          <5> DEFINE e == <<>>
          <5>1. e \in Seq(Symbols) /\ x # "bs"
            BY <1>1, <3>8
          <5> HIDE DEF e
          <5> HIDE DEF c
          <5>2. ASSUME NEW g \in Seq(Symbols), NEW h \in Seq(Symbols)
                PROVE  Edit(e, g \o (<<x>> \o (<<"bs">> \o h))) = Edit(e, g \o h)
            BY <5>1, TwoGone
          <5>3. Edit(e, a \o (<<x>> \o (<<"bs">> \o b1))) = Edit(e, a \o b1)
            BY <3>6, <5>2, Zenon
          <5>4. QED
            BY <5>3 DEF e
        <4>2. QED
          BY <3>7, <4>1
      <3>10. Edited(ac \o b1) = Edited(a \o b1)
        BY <3>8, <3>9, EditedIs
      <3>11. Short(Edited(SubSeq(s, 1, (q + 2) - 1)))
        BY <1>4, <1>5, <3>2, <3>3
      <3>12. QED
        BY <3>4, <3>5, <3>10, <3>11
    <2>4. QED
      BY <1>2, <2>1, <2>2, <2>3
  <1>6. Convertible(t)
    BY <1>5, Zenon DEF Convertible, Short
  <1>7. QED
    BY <1>1, <1>6

\* A line editor would make the same of the line before and after the loop.
LEMMA RubOutEdits ==
  ASSUME NEW a \in Seq(Symbols), NEW s \in Seq(Symbols), Convertible(s)
  PROVE  Edit(a, RubOut[s]) = Edit(a, s)
  <1> DEFINE P == {t \in Seq(Symbols) : Convertible(t) /\ Edit(a, t) = Edit(a, s)}
  <1>1. ASSUME NEW t \in P \ Stops PROVE Rub[t] \in P
    <2>1. t \in Seq(Symbols) \ Stops /\ Convertible(t) /\ Edit(a, t) = Edit(a, s)
      OBVIOUS
    <2>2. PICK c \in Seq(Symbols), b \in Seq(Symbols), x \in Symbols :
            /\ Rub[t] = c \o b
            /\ t = c \o (<<x>> \o (<<"bs">> \o b))
            /\ x # "bs"
      BY <2>1, RubTakesTwo
    <2>3. Edit(a, t) = Edit(a, c \o b)
      BY <2>2, TwoGone
    <2>4. Convertible(Rub[t]) /\ Rub[t] \in Seq(Symbols)
      BY <2>1, RubConvertible, RubShortens
    <2>5. QED
      BY <2>1, <2>2, <2>3, <2>4
  <1>2. s \in P /\ P \in SUBSET Seq(Symbols)
    OBVIOUS
  <1> HIDE DEF P
  <1>3. RubOut[s] \in P
    BY <1>1, <1>2, RubOutKeeps DEF Closed
  <1>4. QED
    BY <1>3 DEF P

\* The loop brings in no line end.
AtMostOne(s, x) == \A i, j \in 1 .. Len(s) : s[i] = x /\ s[j] = x => i = j

LEMMA PartsKeepOne ==
  ASSUME NEW a \in Seq(Symbols), NEW b \in Seq(Symbols), NEW c \in Seq(Symbols),
         AtMostOne(a \o (c \o b), "nl")
  PROVE  AtMostOne(a \o b, "nl")
  <1> DEFINE s == a \o (c \o b)
             t == a \o b
             to(i) == IF i <= Len(a) THEN i ELSE i + Len(c)
  <1>1. /\ Len(s) = Len(a) + Len(c) + Len(b) /\ Len(t) = Len(a) + Len(b)
        /\ Len(a) \in Nat /\ Len(b) \in Nat /\ Len(c) \in Nat
    OBVIOUS
  <1>2. ASSUME NEW i \in 1 .. Len(t) PROVE to(i) \in 1 .. Len(s) /\ s[to(i)] = t[i]
    <2>1. CASE i <= Len(a)
      BY <2>1
    <2>2. CASE ~(i <= Len(a))
      <3> DEFINE k == i - Len(a)
                 u == c \o b
      <3>1. k \in 1 .. Len(b) /\ Len(c) + k \in 1 .. Len(u) /\ to(i) = Len(a) + (Len(c) + k)
            /\ to(i) \in 1 .. Len(s)
        BY <1>1, <2>2
      <3>2. t[i] = b[k]
        BY <1>1, <2>2
      <3>3. u[Len(c) + k] = b[k] /\ u \in Seq(Symbols)
        BY <3>1
      <3>4. ASSUME NEW j \in 1 .. Len(u) PROVE (a \o u)[Len(a) + j] = u[j]
        <4> HIDE DEF u
        <4>1. QED
          BY <3>3, SMTT(30)
      <3>5. s = a \o u
        OBVIOUS
      <3> HIDE DEF s, t, u, k, to
      <3>6. s[to(i)] = u[Len(c) + k]
        BY <3>1, <3>4, <3>5
      <3>7. QED
        BY <3>1, <3>2, <3>3, <3>6
    <2>3. QED
      BY <2>1, <2>2
  <1>3. \A i, j \in 1 .. Len(t) : to(i) = to(j) => i = j
    BY <1>1, SMTT(30)
  <1> HIDE DEF s, t, to
  <1>4. AtMostOne(s, "nl")
    BY DEF s
  <1>5. AtMostOne(t, "nl")
    BY <1>2, <1>3, <1>4 DEF AtMostOne
  <1>6. QED
    BY <1>5 DEF t

LEMMA RubOutKeepsOne ==
  ASSUME NEW s \in Seq(Symbols), AtMostOne(s, "nl"), Convertible(s)
  PROVE  AtMostOne(RubOut[s], "nl")
  <1> DEFINE P == {t \in Seq(Symbols) : Convertible(t) /\ AtMostOne(t, "nl")}
  <1>1. ASSUME NEW t \in P \ Stops PROVE Rub[t] \in P
    <2>1. t \in Seq(Symbols) \ Stops /\ Convertible(t) /\ AtMostOne(t, "nl")
      OBVIOUS
    <2>2. PICK a \in Seq(Symbols), b \in Seq(Symbols), x \in Symbols :
            Rub[t] = a \o b /\ t = a \o (<<x>> \o (<<"bs">> \o b))
      BY <2>1, RubTakesTwo
    <2> DEFINE c == <<x>> \o <<"bs">>
    <2>3. /\ <<x>> \in Seq(Symbols) /\ <<"bs">> \in Seq(Symbols) /\ c \in Seq(Symbols)
          /\ a \o b \in Seq(Symbols)
      BY SymbolsDiffer
    <2>4. <<x>> \o (<<"bs">> \o b) = c \o b
      BY <2>3, SMTT(30)
    <2> HIDE DEF c
    <2>5. AtMostOne(a \o b, "nl")
      BY <2>1, <2>2, <2>3, <2>4, PartsKeepOne
    <2>6. Convertible(Rub[t])
      BY <2>1, RubConvertible
    <2>7. QED
      BY <2>2, <2>3, <2>5, <2>6
  <1>2. s \in P /\ P \in SUBSET Seq(Symbols)
    OBVIOUS
  <1> HIDE DEF P
  <1>3. RubOut[s] \in P
    BY <1>1, <1>2, RubOutKeeps DEF Closed
  <1>4. QED
    BY <1>3 DEF P

-----------------------------------------------------------------------------
(* What is made of the lines. *)

LEMMA LineOneIs ==
  ASSUME NEW s \in Seq(Symbols), Has(s, "nl")
  PROVE  Line(s, 1) = SubSeq(s, 1, FirstOf[{"nl"}][s]) /\ FirstOf[{"nl"}][s] <= Len(s)
  <1> DEFINE n == FirstOf[{"nl"}][s]
             Ends(j) == {i \in DOMAIN SubSeq(s, 1, j) : SubSeq(s, 1, j)[i] = "nl"}
             IsFirst(j) == s[j] = "nl" /\ Count(SubSeq(s, 1, j), "nl") = 1
  <1>0. {"nl"} \in SUBSET Symbols
    BY SymbolsDiffer
  <1>1. /\ n \in Nat /\ 1 <= n /\ n <= Len(s) + 1
        /\ \A i \in 1 .. Len(s) : i < n => s[i] \notin {"nl"}
        /\ n <= Len(s) => s[n] \in {"nl"}
    BY <1>0, FirstOfIs
  <1> HIDE DEF n
  <1>2. n \in DOMAIN s /\ s[n] = "nl"
    <2>1. PICK k \in DOMAIN s : s[k] = "nl"
      BY DEF Has
    <2>2. ~(k < n)
      BY <1>1, <2>1
    <2>3. QED
      BY <1>1, <2>1, <2>2
  <1>3. ASSUME NEW j \in DOMAIN s PROVE Ends(j) = {i \in 1 .. j : s[i] = "nl"}
    <2>1. j \in Nat /\ j <= Len(s)
      OBVIOUS
    <2>2. Len(SubSeq(s, 1, j)) = j /\ \A i \in 1 .. j : SubSeq(s, 1, j)[i] = s[i]
          /\ SubSeq(s, 1, j) \in Seq(Symbols)
      BY <2>1, SplitAt
    <2>3. DOMAIN SubSeq(s, 1, j) = 1 .. j
      BY <2>2
    <2>4. QED
      BY <2>2, <2>3
  <1>4. IsFirst(n)
    <2>1. {i \in 1 .. n : s[i] = "nl"} = {n}
      BY <1>1, <1>2
    <2>2. Cardinality({n}) = 1
      BY FS_Singleton
    <2>3. QED
      BY <1>2, <1>3, <2>1, <2>2 DEF Count
  <1>5. ASSUME NEW j \in DOMAIN s, IsFirst(j) PROVE j = n
    <2> DEFINE E == {i \in 1 .. j : s[i] = "nl"}
    <2>1. ~(j < n)
      BY <1>1, <1>5
    <2>2. Cardinality(E) = 1
      BY <1>3, <1>5 DEF Count
    <2>3. IsFiniteSet(E)
      <3>1. IsFiniteSet(1 .. j) /\ E \subseteq 1 .. j
        BY FS_Interval
      <3> HIDE DEF E
      <3>2. QED
        BY <3>1, FS_Subset
    <2>4. j \in E /\ n \in E
      BY <1>1, <1>2, <1>5, <2>1
    <2> HIDE DEF E
    <2>5. PICK x : E = {x}
      BY <2>2, <2>3, FS_Singleton
    <2>6. QED
      BY <2>4, <2>5
  <1>6. (CHOOSE j \in DOMAIN s : IsFirst(j)) = n
    <2> HIDE DEF IsFirst
    <2>1. QED
      BY <1>2, <1>4, <1>5
  <1>7. Line(s, 1) = SubSeq(s, 1, n)
    BY <1>6 DEF Line
  <1>8. QED
    BY <1>1, <1>2, <1>7 DEF n

\* The leading blanks and line ends.
LEMMA SkipIs ==
  ASSUME NEW s \in Seq(Symbols)
  PROVE  /\ SkipBlanks(s) \in Seq(Symbols)
         /\ NonBlank(SkipBlanks(s)) = NonBlank(s)
  <1> DEFINE k == FirstOf[Words][s]
             head == SubSeq(s, 1, k - 1)
  <1>1. /\ k \in Nat /\ 1 <= k /\ k <= Len(s) + 1
        /\ \A i \in 1 .. Len(s) : i < k => s[i] \notin Words
    BY SymbolsDiffer, FirstOfIs
  <1>2. SkipBlanks(s) = Drop(s, k - 1)
    BY DEF SkipBlanks
  <1> HIDE DEF k
  <1>3. k - 1 \in Nat /\ k - 1 <= Len(s)
    BY <1>1
  <1>4. /\ head \in Seq(Symbols) /\ Len(head) = k - 1
        /\ \A i \in 1 .. k - 1 : head[i] = s[i]
    BY <1>3, SplitAt
  <1>5. Drop(s, k - 1) \in Seq(Symbols) /\ s = head \o Drop(s, k - 1)
    BY <1>3, DropIs
  <1> HIDE DEF head
  <1>6. Select(head, Words) = <<>>
    <2>1. \A i \in 1 .. Len(head) : head[i] \notin Words
      BY <1>1, <1>4
    <2>2. QED
      BY <1>4, <2>1, SelectNone
  <1>7. Select(s, Words) = <<>> \o Select(Drop(s, k - 1), Words)
    <2> DEFINE d == Drop(s, k - 1)
    <2>1. d \in Seq(Symbols) /\ s = head \o d
      BY <1>5
    <2> HIDE DEF d
    <2>2. Select(head \o d, Words) = Select(head, Words) \o Select(d, Words)
      BY <1>4, <2>1, SelectConcat
    <2>3. QED
      BY <1>6, <2>1, <2>2 DEF d
  <1>8. Select(Drop(s, k - 1), Words) \in Seq(Symbols)
    BY <1>5, SelectType
  <1>9. <<>> \o Select(Drop(s, k - 1), Words) = Select(Drop(s, k - 1), Words)
    BY <1>8, EmptyConcat
  <1>10. QED
    BY <1>2, <1>5, <1>7, <1>9 DEF NonBlank

\* getline: what is left out is the line end.
LEMMA GetLineIs ==
  ASSUME NEW s \in Seq(Symbols)
  PROVE  LET args == SubSeq(s, 1, FirstOf[{"nl"}][s] - 1)
             rest == Drop(s, Len(args) + 1)
         IN /\ args \in Seq(Symbols) /\ rest \in Seq(Symbols)
            /\ NonBlank(s) = NonBlank(args) \o NonBlank(rest)
  <1> DEFINE m == FirstOf[{"nl"}][s]
             args == SubSeq(s, 1, m - 1)
             rest == Drop(s, Len(args) + 1)
  <1>0. {"nl"} \in SUBSET Symbols
    BY SymbolsDiffer
  <1>1. /\ m \in Nat /\ 1 <= m /\ m <= Len(s) + 1
        /\ m <= Len(s) => s[m] \in {"nl"}
    BY <1>0, FirstOfIs
  <1> HIDE DEF m
  <1>2. m - 1 \in Nat /\ m - 1 <= Len(s)
    BY <1>1
  <1>3. args \in Seq(Symbols) /\ Len(args) = m - 1 /\ s = args \o Drop(s, m - 1)
        /\ Drop(s, m - 1) \in Seq(Symbols)
    <2>1. args \in Seq(Symbols) /\ Len(args) = m - 1
      BY <1>2, SplitAt
    <2>2. Drop(s, m - 1) \in Seq(Symbols) /\ s = SubSeq(s, 1, m - 1) \o Drop(s, m - 1)
      BY <1>2, DropIs
    <2>3. QED
      BY <2>1, <2>2
  <1> HIDE DEF args
  <1>4. rest = Drop(s, m)
    BY <1>1, <1>3
  <1>5. Select(s, Words) = Select(args, Words) \o Select(Drop(s, m - 1), Words)
    BY <1>3, SelectConcat
  <1> HIDE DEF rest
  <1>6. CASE m <= Len(s)
    <2>1. Drop(s, m) \in Seq(Symbols)
      BY <1>1, <1>6, DropIs
    <2>2. Drop(s, m - 1) = <<"nl">> \o Drop(s, m)
      <3> DEFINE a == Drop(s, m - 1)
                 b == Drop(s, m)
      <3>1. /\ a \in Seq(Symbols) /\ Len(a) = Len(s) - (m - 1)
            /\ \A i \in 1 .. Len(s) - (m - 1) : a[i] = s[(m - 1) + i]
        BY <1>2, DropIs
      <3>2. /\ b \in Seq(Symbols) /\ Len(b) = Len(s) - m
            /\ \A i \in 1 .. Len(s) - m : b[i] = s[m + i]
        BY <1>1, <1>6, DropIs
      <3>3. "nl" \in Symbols /\ s[m] = "nl"
        BY <1>1, <1>6, SymbolsDiffer
      <3> HIDE DEF a, b
      <3> DEFINE c == <<"nl">> \o b
      <3>4. /\ c \in Seq(Symbols) /\ Len(c) = 1 + Len(b) /\ c[1] = "nl"
            /\ \A i \in 1 .. Len(b) : c[1 + i] = b[i]
        BY <3>2, <3>3
      <3> HIDE DEF c
      <3>5. Len(a) = Len(c)
        BY <1>1, <3>1, <3>2, <3>4
      <3>6. ASSUME NEW i \in 1 .. Len(a) PROVE a[i] = c[i]
        <4>1. CASE i = 1
          <5>1. (m - 1) + i = m /\ i \in 1 .. Len(s) - (m - 1)
            BY <1>1, <1>6, <4>1
          <5>2. QED
            BY <3>1, <3>3, <3>4, <4>1, <5>1
        <4>2. CASE i # 1
          <5>1. /\ i - 1 \in 1 .. Len(b) /\ 1 + (i - 1) = i /\ (m - 1) + i = m + (i - 1)
                /\ i \in 1 .. Len(s) - (m - 1) /\ i - 1 \in 1 .. Len(s) - m
            BY <1>1, <3>1, <3>2, <4>2
          <5>2. QED
            BY <3>1, <3>2, <3>4, <5>1
        <4>3. QED
          BY <4>1, <4>2
      <3>7. a = c
        BY <3>1, <3>4, <3>5, <3>6
      <3>8. QED
        BY <3>7 DEF a, b, c
    <2>3. Select(<<"nl">>, Words) = <<>> /\ <<"nl">> \in Seq(Symbols)
      BY SymbolsDiffer, SelectOne
    <2>4. Select(Drop(s, m - 1), Words) = <<>> \o Select(Drop(s, m), Words)
      <3> DEFINE d == Drop(s, m)
                 a == <<"nl">>
      <3>1. d \in Seq(Symbols) /\ a \in Seq(Symbols) /\ Drop(s, m - 1) = a \o d
        BY <2>1, <2>2, <2>3
      <3>2. Select(a, Words) = <<>>
        BY <2>3
      <3> HIDE DEF d, a
      <3>3. Select(a \o d, Words) = Select(a, Words) \o Select(d, Words)
        BY <3>1, SelectConcat
      <3>4. QED
        BY <3>1, <3>2, <3>3 DEF d
    <2>5. Select(Drop(s, m), Words) \in Seq(Symbols)
      BY <2>1, SelectType
    <2>6. <<>> \o Select(Drop(s, m), Words) = Select(Drop(s, m), Words)
      BY <2>5, EmptyConcat
    <2>7. NonBlank(s) = NonBlank(args) \o NonBlank(rest)
      BY <1>4, <1>5, <2>4, <2>6 DEF NonBlank
    <2>8. QED
      BY <1>3, <1>4, <2>1, <2>7 DEF args, rest, m
  <1>7. CASE ~(m <= Len(s))
    <2>1. m = Len(s) + 1
      BY <1>1, <1>7
    <2>2. Drop(s, m - 1) = <<>> /\ Drop(s, m) = <<>> /\ <<>> \in Seq(Symbols)
      BY <2>1 DEF Drop
    <2>3. NonBlank(s) = NonBlank(args) \o NonBlank(rest)
      BY <1>4, <1>5, <2>2 DEF NonBlank
    <2>4. QED
      BY <1>3, <1>4, <2>2, <2>3 DEF args, rest, m
  <1>8. QED
    BY <1>6, <1>7

LEMMA CommandIs ==
  ASSUME NEW t \in Seq(Symbols)
  PROVE  LET cmd == SubSeq(t, 1, FirstOf[{"sp", "nl"}][t] - 1)
         IN /\ cmd \in Seq(Symbols) /\ Len(cmd) = FirstOf[{"sp", "nl"}][t] - 1
            /\ Len(cmd) \in Nat /\ Len(cmd) <= Len(t)
            /\ Drop(t, Len(cmd)) \in Seq(Symbols)
            /\ t = cmd \o Drop(t, Len(cmd))
  <1> DEFINE e == FirstOf[{"sp", "nl"}][t]
  <1>0. {"sp", "nl"} \in SUBSET Symbols
    BY SymbolsDiffer
  <1>1. e \in Nat /\ 1 <= e /\ e <= Len(t) + 1
    BY <1>0, FirstOfIs
  <1> HIDE DEF e
  <1>2. e - 1 \in Nat /\ e - 1 <= Len(t)
    BY <1>1
  <1>3. /\ SubSeq(t, 1, e - 1) \in Seq(Symbols) /\ Len(SubSeq(t, 1, e - 1)) = e - 1
        /\ Drop(t, e - 1) \in Seq(Symbols) /\ t = SubSeq(t, 1, e - 1) \o Drop(t, e - 1)
    BY <1>2, SplitAt, DropIs
  <1>4. QED
    BY <1>2, <1>3 DEF e

\* A command takes its words from the buffer and leaves the others there.
LEMMA ParseKeepsWords ==
  ASSUME NEW s \in Seq(Symbols)
  PROVE  /\ Parse(s).cmd \in Seq(Symbols) /\ Parse(s).args \in Seq(Symbols)
         /\ Parse(s).rest \in Seq(Symbols)
         /\ NonBlank(s) = NonBlank(Parse(s).cmd) \o (NonBlank(Parse(s).args) \o NonBlank(Parse(s).rest))
  <1> DEFINE t    == SkipBlanks(s)
             cmd  == SubSeq(t, 1, FirstOf[{"sp", "nl"}][t] - 1)
             tail == SkipBlanks(Drop(t, Len(cmd)))
             args == SubSeq(tail, 1, FirstOf[{"nl"}][tail] - 1)
             rest == Drop(tail, Len(args) + 1)
  <1>1. Parse(s) = [cmd |-> cmd, args |-> args, rest |-> rest]
    BY DEF Parse
  <1>2. t \in Seq(Symbols) /\ NonBlank(s) = NonBlank(t)
    BY SkipIs
  <1>3. /\ cmd \in Seq(Symbols) /\ Drop(t, Len(cmd)) \in Seq(Symbols)
        /\ t = cmd \o Drop(t, Len(cmd))
    <2> HIDE DEF t
    <2>1. QED
      BY <1>2, CommandIs
  <1> HIDE DEF t, cmd
  <1>4. tail \in Seq(Symbols) /\ NonBlank(tail) = NonBlank(Drop(t, Len(cmd)))
    BY <1>3, SkipIs
  <1>5. /\ args \in Seq(Symbols) /\ rest \in Seq(Symbols)
        /\ NonBlank(tail) = NonBlank(args) \o NonBlank(rest)
    <2> HIDE DEF tail
    <2>1. QED
      BY <1>4, GetLineIs
  <1>6. NonBlank(t) = NonBlank(cmd) \o NonBlank(Drop(t, Len(cmd)))
    BY <1>3, SelectConcat DEF NonBlank
  <1> HIDE DEF tail, args, rest
  <1>7. NonBlank(s) = NonBlank(cmd) \o (NonBlank(args) \o NonBlank(rest))
    BY <1>2, <1>4, <1>5, <1>6
  <1>8. Parse(s).cmd = cmd /\ Parse(s).args = args /\ Parse(s).rest = rest
    BY <1>1
  <1>9. QED
    BY <1>3, <1>5, <1>7, <1>8

\* Words typed ahead become arguments only if the line of the command has none.
LEMMA ParseKeepsToLine ==
  ASSUME NEW s \in Seq(Symbols), Has(SkipBlanks(s), "nl")
  PROVE  LET after == SkipBlanks(Drop(Line(SkipBlanks(s), 1), Len(Parse(s).cmd)))
         IN after = <<>> \/ after = Append(Parse(s).args, "nl")
  <1> DEFINE t    == SkipBlanks(s)
             n    == FirstOf[{"nl"}][t]
             own  == SubSeq(t, 1, n)
             e    == FirstOf[{"sp", "nl"}][t]
             cmd  == SubSeq(t, 1, e - 1)
             c    == e - 1
             A    == Drop(own, c)
             B    == Drop(t, c)
             k    == FirstOf[Words][A]
             tail == SkipBlanks(B)
             args == SubSeq(tail, 1, FirstOf[{"nl"}][tail] - 1)
             after == SkipBlanks(A)
  <1>0. {"sp", "nl"} \in SUBSET Symbols /\ {"nl"} \in SUBSET Symbols /\ Words \in SUBSET Symbols
        /\ "nl" \notin Words
    BY SymbolsDiffer
  <1>1. t \in Seq(Symbols) /\ Has(t, "nl")
    BY SkipIs
  <1>2. Line(t, 1) = own /\ n <= Len(t)
    <2> HIDE DEF t
    <2>1. QED
      BY <1>1, LineOneIs
  <1>3. Len(cmd) = c
    <2> HIDE DEF t
    <2>1. QED
      BY <1>1, CommandIs
  <1>4. Parse(s).args = args /\ Parse(s).cmd = cmd
    BY <1>3 DEF Parse
  <1> HIDE DEF t
  <1>5. /\ n \in Nat /\ 1 <= n /\ t[n] = "nl"
        /\ \A i \in 1 .. Len(t) : i < n => t[i] # "nl"
    BY <1>0, <1>1, <1>2, FirstOfIs
  <1>6. e \in Nat /\ 1 <= e /\ e <= n
    <2>1. /\ e \in Nat /\ 1 <= e
          /\ \A i \in 1 .. Len(t) : i < e => t[i] \notin {"sp", "nl"}
      BY <1>0, <1>1, FirstOfIs
    <2> HIDE DEF e
    <2>2. ~(n < e)
      BY <1>2, <1>5, <2>1
    <2>3. QED
      BY <1>5, <2>1, <2>2
  <1> HIDE DEF n, e
  <1>7. c \in Nat /\ c < n
    BY <1>5, <1>6
  <1> HIDE DEF c
  <1>8. /\ own \in Seq(Symbols) /\ Len(own) = n
        /\ \A i \in 1 .. n : own[i] = t[i]
    BY <1>1, <1>2, <1>5, SplitAt
  <1> HIDE DEF own
  <1>9. /\ A \in Seq(Symbols) /\ Len(A) = n - c
        /\ \A i \in 1 .. n - c : A[i] = t[c + i]
    <2>1. /\ A \in Seq(Symbols) /\ Len(A) = n - c
          /\ \A i \in 1 .. n - c : A[i] = own[c + i]
      <3>1. c <= Len(own)
        BY <1>5, <1>7, <1>8
      <3>2. QED
        BY <1>7, <1>8, <3>1, DropIs
    <2>2. \A i \in 1 .. n - c : c + i \in 1 .. n
      BY <1>5, <1>7
    <2>3. QED
      BY <1>8, <2>1, <2>2
  <1>10. /\ B \in Seq(Symbols) /\ Len(B) = Len(t) - c
         /\ \A i \in 1 .. Len(t) - c : B[i] = t[c + i]
    BY <1>1, <1>2, <1>5, <1>7, DropIs
  <1>11. after = Drop(A, k - 1)
    BY DEF SkipBlanks
  <1> HIDE DEF A, B
  <1>12. /\ k \in Nat /\ 1 <= k /\ k <= Len(A) + 1
         /\ \A i \in 1 .. Len(A) : i < k => A[i] \notin Words
         /\ k <= Len(A) => A[k] \in Words
    BY <1>0, <1>9, FirstOfIs
  <1> HIDE DEF k
  <1>13. CASE k = Len(A) + 1
    <2>1. Drop(A, k - 1) = <<>>
      BY <1>9, <1>13 DEF Drop
    <2>2. after = <<>>
      BY <1>11, <2>1
    <2>3. QED
      BY <1>2, <1>3, <1>4, <2>2 DEF A, t
  <1>14. CASE k # Len(A) + 1
    <2> DEFINE q == c + (k - 1)
               m == n - q
    <2>1. k <= Len(A) /\ A[k] \in Words /\ k \in 1 .. n - c /\ A[k] = t[c + k]
      BY <1>9, <1>12, <1>14
    <2>2. c + k # n
      BY <1>0, <1>5, <2>1
    <2>3. /\ q \in Nat /\ q < n - 1 /\ q <= Len(t) /\ m \in Nat /\ m > 1 /\ q + m = n
          /\ m = Len(A) - (k - 1) /\ m <= Len(t) - q /\ k - 1 \in Nat /\ k - 1 <= Len(A)
          /\ k - 1 <= Len(B) /\ Len(B) - (k - 1) = Len(t) - q
      BY <1>2, <1>5, <1>7, <1>9, <1>10, <1>12, <2>1, <2>2
    <2>4. FirstOf[Words][B] = k
      <3>1. k \in Nat /\ 1 <= k /\ k <= Len(B) /\ B[k] \in Words
        BY <1>2, <1>5, <1>7, <1>9, <1>10, <1>12, <2>1
      <3>2. ASSUME NEW i \in 1 .. Len(B), i < k PROVE B[i] \notin Words
        <4>1. i \in 1 .. Len(A) /\ i \in 1 .. n - c /\ i \in 1 .. Len(t) - c
          BY <1>9, <1>10, <1>12, <3>2, <2>1
        <4>2. QED
          BY <1>9, <1>10, <1>12, <3>2, <4>1
      <3>3. QED
        BY <1>0, <1>10, <3>1, <3>2, FirstOfThere
    <2>5. tail = Drop(B, k - 1)
      BY <2>4 DEF SkipBlanks
    <2> HIDE DEF q, m
    <2>6. /\ tail \in Seq(Symbols) /\ Len(tail) = Len(t) - q
          /\ \A i \in 1 .. Len(t) - q : tail[i] = t[q + i]
      <3>1. /\ Drop(B, k - 1) \in Seq(Symbols) /\ Len(Drop(B, k - 1)) = Len(B) - (k - 1)
            /\ \A i \in 1 .. Len(B) - (k - 1) : Drop(B, k - 1)[i] = B[(k - 1) + i]
        <4>1. k - 1 \in Nat /\ k - 1 <= Len(B) /\ B \in Seq(Symbols)
          BY <1>10, <2>3
        <4>2. QED
          BY <4>1, DropIs
      <3>2. ASSUME NEW i \in 1 .. Len(t) - q PROVE tail[i] = t[q + i]
        <4>1. (k - 1) + i \in 1 .. Len(t) - c /\ c + ((k - 1) + i) = q + i
          BY <1>2, <1>5, <1>7, <1>10, <1>12, <2>3 DEF q
        <4>2. QED
          BY <1>10, <2>3, <2>5, <3>1, <4>1
      <3>3. QED
        BY <2>3, <2>5, <3>1, <3>2
    <2> HIDE DEF tail
    <2>7. FirstOf[{"nl"}][tail] = m
      <3>1. m \in Nat /\ 1 <= m /\ m <= Len(tail) /\ tail[m] \in {"nl"}
        <4>1. m \in Nat /\ 1 <= m /\ m <= Len(tail) /\ m \in 1 .. Len(t) - q
          BY <2>3, <2>6
        <4>2. QED
          BY <1>5, <2>3, <2>6, <4>1
      <3>2. ASSUME NEW i \in 1 .. Len(tail), i < m PROVE tail[i] \notin {"nl"}
        <4>1. q + i \in 1 .. Len(t) /\ q + i < n /\ i \in 1 .. Len(t) - q
          BY <1>1, <2>3, <2>6, <3>2
        <4>2. QED
          BY <1>5, <2>6, <4>1
      <3>3. QED
        BY <1>0, <2>6, <3>1, <3>2, FirstOfThere
    <2>8. /\ args \in Seq(Symbols) /\ Len(args) = m - 1
          /\ \A i \in 1 .. m - 1 : args[i] = tail[i]
      <3>1. m - 1 \in Nat /\ m - 1 <= Len(tail)
        BY <2>3, <2>6, SMTT(30)
      <3>2. QED
        BY <2>6, <2>7, <3>1, SplitAt
    <2>9. /\ after \in Seq(Symbols) /\ Len(after) = m
          /\ \A i \in 1 .. m : after[i] = t[q + i]
      <3>1. /\ after \in Seq(Symbols) /\ Len(after) = Len(A) - (k - 1)
            /\ \A i \in 1 .. Len(A) - (k - 1) : after[i] = A[(k - 1) + i]
        <4>1. k - 1 \in Nat /\ k - 1 <= Len(A) /\ A \in Seq(Symbols)
          BY <1>9, <2>3
        <4>2. QED
          BY <1>11, <4>1, DropIs
      <3>2. ASSUME NEW i \in 1 .. m PROVE (k - 1) + i \in 1 .. n - c /\ c + ((k - 1) + i) = q + i
        BY <1>5, <1>7, <1>9, <1>12, <2>3 DEF q
      <3>3. QED
        BY <1>9, <2>3, <3>1, <3>2
    <2> HIDE DEF args, after
    <2>10. after = Append(args, "nl")
      <3> DEFINE w == Append(args, "nl")
      <3>1. /\ w \in Seq(Symbols) /\ Len(w) = m /\ w[m] = "nl"
            /\ \A i \in 1 .. m - 1 : w[i] = args[i]
        BY <1>0, <2>3, <2>8, SMTT(30)
      <3> HIDE DEF w
      <3>2. ASSUME NEW i \in 1 .. m PROVE after[i] = w[i]
        <4>1. CASE i = m
          BY <1>5, <2>3, <2>9, <3>1, <4>1
        <4>2. CASE i # m
          <5>1. i \in 1 .. m - 1 /\ i \in 1 .. Len(t) - q
            BY <2>3, <4>2, SMTT(30)
          <5>2. QED
            BY <2>6, <2>8, <2>9, <3>1, <5>1
        <4>3. QED
          BY <4>1, <4>2
      <3>3. QED
        BY <2>9, <3>1, <3>2 DEF w
    <2>11. QED
      BY <1>2, <1>3, <1>4, <2>10 DEF after, A, t
  <1>15. QED
    BY <1>13, <1>14

-----------------------------------------------------------------------------
(* The commands' words, one after another. *)

Records == [buf : Seq(Symbols), cmd : Seq(Symbols), args : Seq(Symbols)]

Flat(cs) == FlattenSeq([i \in DOMAIN cs |-> cs[i].cmd \o cs[i].args])

LEMMA FlatIs ==
  ASSUME NEW cs \in Seq(Records), NEW c \in Records
  PROVE  /\ Flat(cs) \in Seq(Symbols)
         /\ Flat(Append(cs, c)) = Flat(cs) \o (c.cmd \o c.args)
  <1> DEFINE Q == Seq(Symbols)
             e == <<>>
             ss == [i \in DOMAIN cs |-> cs[i].cmd \o cs[i].args]
             x == c.cmd \o c.args
             ts == [i \in DOMAIN Append(cs, c) |-> Append(cs, c)[i].cmd \o Append(cs, c)[i].args]
  <1>1. ASSUME NEW d \in Records PROVE d.cmd \o d.args \in Q
    <2>1. d.cmd \in Seq(Symbols) /\ d.args \in Seq(Symbols)
      BY DEF Records
    <2>2. QED
      BY <2>1, ConcatLength
  <1>2. x \in Q
    BY <1>1
  <1>3. /\ ss \in Seq(Q) /\ Len(ss) = Len(cs)
        /\ \A i \in 1 .. Len(cs) : ss[i] = cs[i].cmd \o cs[i].args
    <2>1. DOMAIN cs = 1 .. Len(cs) /\ Len(cs) \in Nat
      OBVIOUS
    <2>2. \A i \in 1 .. Len(cs) : cs[i].cmd \o cs[i].args \in Q
      BY <1>1
    <2>3. ss \in [1 .. Len(cs) -> Q] /\ \A i \in 1 .. Len(cs) : ss[i] = cs[i].cmd \o cs[i].args
      <3> HIDE DEF Q
      <3>1. QED
        BY <2>1, <2>2, Zenon
    <2> HIDE DEF Q, ss
    <2>4. QED
      BY <2>1, <2>3, FunctionIsSeq
  <1>4. ts = Append(ss, x)
    <2> DEFINE us == Append(ss, x)
    <2>1. /\ us \in Seq(Q) /\ Len(us) = Len(cs) + 1 /\ us[Len(cs) + 1] = x
          /\ \A i \in 1 .. Len(cs) : us[i] = ss[i]
      <3> HIDE DEF Q, ss, x
      <3>1. QED
        BY <1>2, <1>3
    <2>2. DOMAIN Append(cs, c) = 1 .. Len(cs) + 1 /\ Append(cs, c)[Len(cs) + 1] = c
          /\ \A i \in 1 .. Len(cs) : Append(cs, c)[i] = cs[i]
      OBVIOUS
    <2>3. ASSUME NEW i \in 1 .. Len(cs) + 1
          PROVE  us[i] = Append(cs, c)[i].cmd \o Append(cs, c)[i].args
      <3> HIDE DEF us
      <3>1. CASE i = Len(cs) + 1
        BY <2>1, <2>2, <3>1
      <3>2. CASE i # Len(cs) + 1
        <4>1. i \in 1 .. Len(cs)
          BY <3>2
        <4>2. us[i] = cs[i].cmd \o cs[i].args
          BY <1>3, <2>1, <4>1
        <4>3. QED
          BY <2>2, <4>1, <4>2
      <3>3. QED
        BY <3>1, <3>2
    <2>4. us = [i \in 1 .. Len(cs) + 1 |-> us[i]]
      <3> HIDE DEF us, Q
      <3>1. QED
        BY <2>1
    <2> HIDE DEF us
    <2>5. us = ts
      BY <2>2, <2>3, <2>4
    <2>6. QED
      BY <2>5, Zenon DEF us
  <1>5. /\ Flat(cs) = FlattenSeq(ss)
        /\ Flat(Append(cs, c)) = FlattenSeq(ts)
    BY DEF Flat
  <1> HIDE DEF ss, x, ts
  <1>6. FlattenSeq(ss) \in Q /\ FlattenSeq(ts) = FlattenSeq(ss) \o x
    <2>1. FlattenSeq(Append(ss, x)) = FlattenSeq(ss) \o x /\ FlattenSeq(ss) \in Seq(Symbols)
      BY <1>2, <1>3, FlattenAppend, Zenon
    <2>2. QED
      BY <1>4, <2>1
  <1>7. QED
    BY <1>5, <1>6 DEF x

-----------------------------------------------------------------------------
(* The inductive invariant. *)

TypesOK == /\ {keys, lastline, written, inPipe, sb} \subseteq Seq(Symbols)
           /\ {read, pressed, burst} \subseteq Nat /\ exact \in BOOLEAN
           /\ read <= pressed /\ pressed <= Len(keys)
           /\ commands \in Seq(Records)

\* What in_handler keeps has been through the loop over backspaces.
NoBackspace == life # "lost" => ~Has(lastline, "bs")

\* What has been sent and what is kept are the keys so far, edited.
EditedSoFar ==
  exact /\ life # "lost" => written \o lastline = Edit(<<>>, SubSeq(keys, 1, read))

\* A command was cut out of the buffer as readline_handler cuts it.
Parsed == \A i \in DOMAIN commands :
            LET c == commands[i]
            IN c.cmd = Parse(c.buf).cmd /\ c.args = Parse(c.buf).args

\* NoWordLost, piece by piece.
WordsKept ==
  NonBlank(Flat(commands)) \o (NonBlank(sb) \o NonBlank(inPipe)) = NonBlank(written)

CInv == /\ TypesOK
        /\ NoBackspace /\ EditedSoFar /\ LineHeldOnlyAfterBurst
        /\ Parsed /\ WordsKept

LEMMA NothingThere ==
  /\ <<>> \in Seq(Symbols) /\ NonBlank(<<>>) = <<>> /\ Edit(<<>>, <<>>) = <<>>
  /\ Flat(<<>>) = <<>>
  /\ \A x : ~Has(<<>>, x)
  <1>1. <<>> \in Seq(Symbols) /\ Len(<<>>) = 0
    OBVIOUS
  <1>2. \A x : ~Has(<<>>, x)
    BY DEF Has
  <1>3. NonBlank(<<>>) = <<>>
    <2>1. \A n \in 1 .. Len(<<>>) : <<>>[n] \notin Words
      BY <1>1
    <2>2. QED
      BY <1>1, <2>1, SelectNone DEF NonBlank
  <1>4. Edit(<<>>, <<>>) = <<>>
    <2>1. Edit(<<>>, <<>>) = <<>> \o <<>>
      BY <1>1, <1>2, EditPlain
    <2>2. QED
      BY <2>1
  <1>5. Flat(<<>>) = <<>>
    <2>1. [i \in DOMAIN <<>> |-> <<>>[i].cmd \o <<>>[i].args] = <<>>
      OBVIOUS
    <2>2. FlattenSeq(<<>>) = <<>>
      BY DEF FlattenSeq
    <2>3. QED
      BY <2>1, <2>2, Zenon DEF Flat
  <1>6. QED
    BY <1>1, <1>2, <1>3, <1>4, <1>5

LEMMA InitCInv == Init => CInv
  <1> SUFFICES ASSUME Init PROVE CInv
    OBVIOUS
  <1>1. /\ keys \in Seq(Symbols) /\ read = 0 /\ pressed = 0 /\ burst = 0 /\ exact = TRUE
        /\ life = "running"
        /\ lastline = <<>> /\ written = <<>> /\ inPipe = <<>> /\ sb = <<>> /\ commands = <<>>
    BY ConsoleAssumption DEF Init
  <1>2. TypesOK
    BY <1>1 DEF TypesOK
  <1>3. NoBackspace /\ LineHeldOnlyAfterBurst
    BY <1>1, NothingThere DEF NoBackspace, LineHeldOnlyAfterBurst
  <1>4. EditedSoFar
    <2>1. SubSeq(keys, 1, read) = <<>> /\ <<>> \o <<>> = <<>>
      BY <1>1
    <2>2. QED
      BY <1>1, <2>1, NothingThere DEF EditedSoFar
  <1>5. Parsed
    BY <1>1 DEF Parsed
  <1>6. WordsKept
    <2>1. <<>> \o (<<>> \o <<>>) = <<>>
      OBVIOUS
    <2>2. QED
      BY <1>1, <2>1, NothingThere DEF WordsKept
  <1>7. QED
    BY <1>2, <1>3, <1>4, <1>5, <1>6 DEF CInv

LEMMA CountOne ==
  ASSUME NEW s \in Seq(Symbols), NEW x
  PROVE  Count(s, x) \in Nat /\ (Count(s, x) <= 1 => AtMostOne(s, x))
  <1> DEFINE E == {i \in DOMAIN s : s[i] = x}
  <1>1. IsFiniteSet(E)
    <2>1. IsFiniteSet(1 .. Len(s)) /\ E \subseteq 1 .. Len(s)
      BY FS_Interval
    <2> HIDE DEF E
    <2>2. QED
      BY <2>1, FS_Subset
  <1>2. Cardinality(E) \in Nat
    <2> HIDE DEF E
    <2>1. QED
      BY <1>1, FS_CardinalityType
  <1>3. ASSUME Cardinality(E) <= 1, NEW i \in 1 .. Len(s), NEW j \in 1 .. Len(s), s[i] = x, s[j] = x
        PROVE  i = j
    <2>1. i \in E /\ j \in E
      BY <1>3
    <2> HIDE DEF E
    <2>2. Cardinality(E) # 0
      BY <1>1, <2>1, FS_EmptySet
    <2>3. Cardinality(E) = 1
      BY <1>2, <1>3, <2>2
    <2>4. PICK y : E = {y}
      BY <1>1, <2>3, FS_Singleton
    <2>5. QED
      BY <2>1, <2>4
  <1>4. Count(s, x) = Cardinality(E)
    BY DEF Count
  <1> HIDE DEF E
  <1>5. QED
    BY <1>2, <1>3, <1>4 DEF AtMostOne

\* One more piece with one line end at most, after one with none.
LEMMA OneAfterNone ==
  ASSUME NEW a \in Seq(Symbols), NEW b \in Seq(Symbols), NEW x,
         ~Has(a, x), AtMostOne(b, x)
  PROVE  AtMostOne(a \o b, x)
  <1> DEFINE s == a \o b
  <1>1. /\ Len(a) \in Nat /\ Len(b) \in Nat /\ Len(s) = Len(a) + Len(b)
        /\ \A i \in 1 .. Len(a) : s[i] = a[i]
        /\ \A i \in 1 .. Len(s) : i > Len(a) => s[i] = b[i - Len(a)]
    OBVIOUS
  <1> HIDE DEF s
  <1>2. \A i \in 1 .. Len(a) : s[i] # x
    BY <1>1 DEF Has
  <1>3. ASSUME NEW i \in 1 .. Len(s), NEW j \in 1 .. Len(s), s[i] = x, s[j] = x
        PROVE  i = j
    <2>1. i > Len(a) /\ j > Len(a)
      BY <1>1, <1>2, <1>3
    <2>2. i - Len(a) \in 1 .. Len(b) /\ j - Len(a) \in 1 .. Len(b)
      BY <1>1, <2>1
    <2>3. i - Len(a) = j - Len(a)
      BY <1>1, <1>3, <2>1, <2>2 DEF AtMostOne
    <2>4. QED
      BY <1>1, <2>3
  <1>4. QED
    BY <1>3 DEF AtMostOne, s

\* The line that is sent and what stays behind.
LEMMA SendLineIs ==
  ASSUME NEW line \in Seq(Symbols), {lastline, written, inPipe} \subseteq Seq(Symbols),
         life = "running", ~Has(line, "bs"), SendLine(line)
  PROVE  /\ {lastline', written', inPipe'} \subseteq Seq(Symbols)
         /\ SentExactly(line) => written' \o lastline' = written \o line
         /\ ~Has(lastline', "bs")
         /\ Has(lastline', "nl") => life' = "blocked" \/ ~AtMostOne(line, "nl")
         /\ \E d \in Seq(Symbols) : inPipe' = inPipe \o d /\ written' = written \o d
  <1> DEFINE n == FirstOf[{"nl"}][line]
             d == SubSeq(line, 1, n)
             u == ToUtf8(d)
  <1>0. {"nl"} \in SUBSET Symbols
    BY SymbolsDiffer
  <1>1. /\ n \in Nat /\ 1 <= n /\ n <= Len(line) + 1
        /\ \A i \in 1 .. Len(line) : i < n => line[i] \notin {"nl"}
        /\ n <= Len(line) => line[n] \in {"nl"}
    BY <1>0, FirstOfIs
  <1>2. \/ n > Len(line) /\ lastline' = line /\ UNCHANGED <<inPipe, written, life>>
        \/ /\ n <= Len(line)
           /\ inPipe' = inPipe \o u /\ written' = written \o u /\ lastline' = Drop(line, n)
        \/ lastline' = line /\ life' = "blocked" /\ UNCHANGED <<inPipe, written>>
    BY DEF SendLine
  <1> HIDE DEF n
  <1>3. /\ written \in Seq(Symbols) /\ inPipe \in Seq(Symbols) /\ <<>> \in Seq(Symbols)
        /\ inPipe = inPipe \o <<>> /\ written = written \o <<>>
    BY EmptyConcat
  <1>4. CASE n > Len(line) /\ lastline' = line /\ UNCHANGED <<inPipe, written, life>>
    <2>1. ~Has(line, "nl")
      BY <1>1, <1>4 DEF Has
    <2>2. QED
      BY <1>3, <1>4, <2>1
  <1>5. CASE /\ n <= Len(line)
             /\ inPipe' = inPipe \o u /\ written' = written \o u /\ lastline' = Drop(line, n)
    <2>1. d \in Seq(Symbols) /\ u \in Seq(Symbols)
      <3>1. d \in Seq(Symbols)
        BY <1>1, <1>5, SplitAt
      <3>2. QED
        BY <3>1, ToUtf8Is
    <2>2. SentExactly(line) => u = d
      <3>1. Has(line, "nl")
        BY <1>1, <1>5 DEF Has
      <3>2. SentExactly(line) => d \notin DOMAIN Recoded
        BY <3>1 DEF SentExactly, n
      <3> HIDE DEF d
      <3>3. QED
        BY <2>1, <3>2, ToUtf8Is
    <2> DEFINE r == Drop(line, n)
    <2>3. /\ r \in Seq(Symbols) /\ Len(r) = Len(line) - n /\ line = d \o r
          /\ \A i \in 1 .. Len(line) - n : r[i] = line[n + i]
      BY <1>1, <1>5, DropIs
    <2> HIDE DEF d, r, u
    <2>4. inPipe \o u \in Seq(Symbols) /\ written \o u \in Seq(Symbols)
      BY <1>3, <2>1, ConcatLength
    <2>5. (written \o d) \o r = written \o line
      <3>1. (written \o d) \o r = written \o (d \o r)
        BY <1>3, <2>1, <2>3, SMTT(30)
      <3>2. QED
        BY <2>3, <3>1
    <2>6. \A i \in 1 .. Len(r) : n + i \in 1 .. Len(line) /\ r[i] = line[n + i]
      BY <1>1, <1>5, <2>3, SMTT(30)
    <2>7. ~Has(r, "bs")
      <3> SUFFICES ASSUME NEW i \in 1 .. Len(r), r[i] = "bs" PROVE FALSE
        BY <2>3 DEF Has
      <3>1. n + i \in DOMAIN line /\ line[n + i] = "bs"
        BY <2>6
      <3>2. QED
        BY <3>1 DEF Has
    <2>8. Has(r, "nl") => ~AtMostOne(line, "nl")
      <3> SUFFICES ASSUME NEW i \in 1 .. Len(r), r[i] = "nl" PROVE ~AtMostOne(line, "nl")
        BY <2>3 DEF Has
      <3>1. n \in 1 .. Len(line) /\ line[n] = "nl" /\ n # n + i
        BY <1>1, <1>5, <2>3
      <3>2. n + i \in 1 .. Len(line) /\ line[n + i] = "nl"
        BY <2>6
      <3>3. QED
        BY <3>1, <3>2 DEF AtMostOne
    <2>9. QED
      BY <1>5, <2>1, <2>3, <2>4, <2>5, <2>7, <2>8, <2>2 DEF r
  <1>6. CASE lastline' = line /\ life' = "blocked" /\ UNCHANGED <<inPipe, written>>
    BY <1>3, <1>6
  <1>7. QED
    BY <1>2, <1>4, <1>5, <1>6

\* Words that are sent are words in the pipe.
LEMMA SentWords ==
  ASSUME TypesOK, WordsKept, UNCHANGED <<commands, sb>>,
         NEW d \in Seq(Symbols), inPipe' = inPipe \o d, written' = written \o d
  PROVE  WordsKept'
  <1> DEFINE a == NonBlank(Flat(commands))
             b == NonBlank(sb)
             c == NonBlank(inPipe)
             e == NonBlank(d)
  <1>1. /\ inPipe \in Seq(Symbols) /\ written \in Seq(Symbols) /\ sb \in Seq(Symbols)
        /\ Flat(commands) \in Seq(Symbols)
    <2>1. commands \in Seq(Records) /\ [buf |-> <<>>, cmd |-> <<>>, args |-> <<>>] \in Records
      BY NothingThere DEF TypesOK, Records
    <2>2. QED
      BY <2>1, FlatIs DEF TypesOK
  <1>2. a \in Seq(Symbols) /\ b \in Seq(Symbols) /\ c \in Seq(Symbols) /\ e \in Seq(Symbols)
    BY <1>1, SelectType DEF NonBlank
  <1>3. NonBlank(inPipe \o d) = c \o e /\ NonBlank(written \o d) = NonBlank(written) \o e
    BY <1>1, SelectConcat DEF NonBlank
  <1>4. a \o (b \o c) = NonBlank(written)
    BY DEF WordsKept
  <1> HIDE DEF a, b, c, e
  <1>5. a \o (b \o (c \o e)) = (a \o (b \o c)) \o e
    <2>1. b \o (c \o e) = (b \o c) \o e
      BY <1>2, SMTT(30)
    <2>2. b \o c \in Seq(Symbols)
      BY <1>2, ConcatLength
    <2>3. a \o ((b \o c) \o e) = (a \o (b \o c)) \o e
      BY <1>2, <2>2, SMTT(30)
    <2>4. QED
      BY <2>1, <2>3
  <1>6. QED
    BY <1>3, <1>4, <1>5 DEF WordsKept, a, b

LEMMA InHandlerKeeps ==
  ASSUME CInv, InHandler
  PROVE  CInv'
  <1>1. /\ keys \in Seq(Symbols) /\ lastline \in Seq(Symbols) /\ written \in Seq(Symbols)
        /\ inPipe \in Seq(Symbols) /\ sb \in Seq(Symbols)
        /\ read \in Nat /\ pressed \in Nat /\ burst \in Nat
        /\ read <= pressed /\ pressed <= Len(keys) /\ commands \in Seq(Records)
        /\ life = "running" /\ ~Has(lastline, "bs")
        /\ exact => written \o lastline = Edit(<<>>, SubSeq(keys, 1, read))
        /\ exact \in BOOLEAN
        /\ UNCHANGED <<keys, pressed, sb, commands>>
    BY DEF InHandler, CInv, TypesOK, NoBackspace, EditedSoFar
  <1>2. PICK n \in read .. pressed :
          LET chunk == SubSeq(keys, read + 1, n)
              line  == RubOut[lastline \o chunk]
          IN /\ read' = n
             /\ burst' = IF Count(chunk, "nl") > burst THEN Count(chunk, "nl") ELSE burst
             /\ exact' = (exact /\ Convertible(lastline \o chunk) /\ SentExactly(line))
             /\ \/ ~Has(line, "bs") /\ SendLine(line)
                \/ /\ Has(line, "bs")
                   /\ lastline' = line /\ life' = "lost"
                   /\ UNCHANGED <<inPipe, written>>
    BY DEF InHandler
  <1> DEFINE chunk == SubSeq(keys, read + 1, n)
             whole == lastline \o chunk
             line  == RubOut[whole]
             k0    == SubSeq(keys, 1, read)
             k1    == SubSeq(keys, 1, n)
  <1>3. /\ chunk \in Seq(Symbols) /\ k0 \in Seq(Symbols) /\ k1 \in Seq(Symbols)
        /\ k1 = k0 \o chunk
    <2>1. n \in Nat /\ read <= n /\ n <= Len(keys) /\ read <= Len(keys)
      BY <1>1
    <2>2. k1 \in Seq(Symbols) /\ Len(k1) = n /\ \A i \in 1 .. n : k1[i] = keys[i]
      BY <1>1, <2>1, SplitAt
    <2>3. k0 \in Seq(Symbols)
      BY <1>1, <2>1, SplitAt
    <2>4. k0 = SubSeq(k1, 1, read) /\ chunk = SubSeq(k1, read + 1, n)
      BY <1>1, <2>1, SMTT(30)
    <2> HIDE DEF k0, k1, chunk
    <2>5. /\ SubSeq(k1, read + 1, Len(k1)) \in Seq(Symbols)
          /\ k1 = SubSeq(k1, 1, read) \o SubSeq(k1, read + 1, Len(k1))
      BY <1>1, <2>1, <2>2, SplitAt
    <2>6. QED
      BY <2>2, <2>3, <2>4, <2>5
  <1>4. /\ read' = n
        /\ burst' = IF Count(chunk, "nl") > burst THEN Count(chunk, "nl") ELSE burst
        /\ exact' = (exact /\ Convertible(whole) /\ SentExactly(line))
        /\ \/ ~Has(line, "bs") /\ SendLine(line)
           \/ Has(line, "bs") /\ lastline' = line /\ life' = "lost" /\ UNCHANGED <<inPipe, written>>
    BY <1>2
  <1> HIDE DEF chunk, k0, k1
  <1>5. whole \in Seq(Symbols)
    BY <1>1, <1>3, ConcatLength
  <1>6. line \in Seq(Symbols)
    BY <1>5, RubOutType
  <1>7. exact' /\ ~Has(line, "bs") => written \o line = Edit(<<>>, k1)
    <2> SUFFICES ASSUME exact', ~Has(line, "bs") PROVE written \o line = Edit(<<>>, k1)
      OBVIOUS
    <2>1. exact /\ Convertible(whole)
      BY <1>4
    <2>2. Edit(written, line) = Edit(written, whole)
      <3> HIDE DEF whole
      <3>1. QED
        BY <1>1, <1>5, <2>1, RubOutEdits
    <2>3. Edit(written, whole) = Edit(Edit(written, lastline), chunk)
      BY <1>1, <1>3, EditConcat
    <2>4. Edit(written, lastline) = Edit(<<>>, k0)
      BY <1>1, <2>1, EditPlain DEF k0
    <2>5. Edit(<<>>, k0 \o chunk) = Edit(Edit(<<>>, k0), chunk)
      BY <1>3, NothingThere, EditConcat
    <2>6. Edit(written, line) = written \o line
      <3> HIDE DEF line
      <3>1. QED
        BY <1>1, <1>6, EditPlain
    <2>7. QED
      BY <1>3, <2>2, <2>3, <2>4, <2>5, <2>6
  <1>8. burst' \in Nat /\ burst' >= burst /\ burst' >= Count(chunk, "nl") /\ Count(chunk, "nl") \in Nat
    <2>1. Count(chunk, "nl") \in Nat
      BY <1>3, CountOne
    <2>2. QED
      BY <1>1, <1>4, <2>1, SMTT(30)
  <1>9. exact' /\ ~(burst' > 1) => AtMostOne(line, "nl")
    <2> SUFFICES ASSUME exact', ~(burst' > 1) PROVE AtMostOne(line, "nl")
      OBVIOUS
    <2>0. exact /\ Convertible(whole)
      BY <1>4
    <2>1. Count(chunk, "nl") <= 1 /\ ~(burst > 1)
      BY <1>1, <1>8
    <2>2. ~Has(lastline, "nl")
      BY <1>1, <2>0, <2>1 DEF CInv, LineHeldOnlyAfterBurst
    <2>3. AtMostOne(chunk, "nl")
      BY <1>3, <2>1, CountOne
    <2>4. AtMostOne(whole, "nl")
      BY <1>1, <1>3, <2>2, <2>3, OneAfterNone
    <2> HIDE DEF whole
    <2>5. QED
      BY <1>5, <2>0, <2>4, RubOutKeepsOne
  <1> HIDE DEF line, whole
  <1>10. Parsed'
    BY <1>1 DEF CInv, Parsed
  <1>11. /\ read' \in Nat /\ pressed' \in Nat /\ read' <= pressed' /\ pressed' <= Len(keys')
         /\ keys' \in Seq(Symbols) /\ sb' \in Seq(Symbols) /\ commands' \in Seq(Records)
        /\ exact' \in BOOLEAN /\ (exact' => SentExactly(line))
    <2>1. exact' \in BOOLEAN
      <3>1. exact' = TRUE \/ exact' = FALSE
        BY <1>4, Zenon
      <3>2. QED
        BY <3>1
    <2>2. exact' => SentExactly(line)
      BY <1>4, Zenon
    <2>3. /\ read' \in Nat /\ pressed' \in Nat /\ read' <= pressed' /\ pressed' <= Len(keys')
          /\ keys' \in Seq(Symbols) /\ sb' \in Seq(Symbols) /\ commands' \in Seq(Records)
      <3>1. read' = n
        BY <1>4
      <3>2. QED
        BY <1>1, <3>1
    <2>4. QED
      BY <2>1, <2>2, <2>3
  <1>12. CASE ~Has(line, "bs") /\ SendLine(line)
    <2>1. /\ {lastline', written', inPipe'} \subseteq Seq(Symbols)
          /\ SentExactly(line) => written' \o lastline' = written \o line
          /\ ~Has(lastline', "bs")
          /\ Has(lastline', "nl") => life' = "blocked" \/ ~AtMostOne(line, "nl")
          /\ \E d \in Seq(Symbols) : inPipe' = inPipe \o d /\ written' = written \o d
      BY <1>1, <1>6, <1>12, SendLineIs
    <2>2. TypesOK' /\ NoBackspace'
      BY <1>8, <1>11, <2>1 DEF TypesOK, NoBackspace
    <2>3. EditedSoFar'
      BY <1>1, <1>4, <1>7, <1>11, <1>12, <2>1 DEF EditedSoFar, k1
    <2>4. LineHeldOnlyAfterBurst'
      BY <1>9, <2>1 DEF LineHeldOnlyAfterBurst
    <2>5. WordsKept'
      BY <1>1, <2>1, SentWords DEF CInv
    <2>6. QED
      BY <1>10, <2>2, <2>3, <2>4, <2>5 DEF CInv
  <1>13. CASE Has(line, "bs") /\ lastline' = line /\ life' = "lost" /\ UNCHANGED <<inPipe, written>>
    <2>1. TypesOK'
      BY <1>1, <1>6, <1>8, <1>11, <1>13 DEF TypesOK
    <2>2. NoBackspace' /\ EditedSoFar' /\ LineHeldOnlyAfterBurst'
      BY <1>13 DEF NoBackspace, EditedSoFar, LineHeldOnlyAfterBurst
    <2>3. WordsKept'
      BY <1>1, <1>13 DEF CInv, WordsKept
    <2>4. QED
      BY <1>10, <2>1, <2>2, <2>3 DEF CInv
  <1>14. QED
    BY <1>4, <1>12, <1>13

\* Words move from the pipe to the buffer.
LEMMA ReadlineReadKeeps ==
  ASSUME CInv, ReadlineRead
  PROVE  CInv'
  <1>1. /\ UNCHANGED <<keys, lastline, written, read, pressed, burst, exact, commands, life>>
        /\ inPipe \in Seq(Symbols) /\ sb \in Seq(Symbols)
    BY DEF ReadlineRead, input, CInv, TypesOK
  <1>2. PICK n \in 1 .. Len(inPipe) : sb' = sb \o SubSeq(inPipe, 1, n) /\ inPipe' = Drop(inPipe, n)
    BY DEF ReadlineRead
  <1> DEFINE a == SubSeq(inPipe, 1, n)
             b == Drop(inPipe, n)
  <1>3. a \in Seq(Symbols) /\ b \in Seq(Symbols) /\ inPipe = a \o b
    <2>1. n \in Nat /\ n <= Len(inPipe)
      BY <1>1
    <2>2. QED
      BY <1>1, <2>1, SplitAt, DropIs
  <1>4. sb' = sb \o a /\ inPipe' = b
    BY <1>2
  <1> HIDE DEF a, b
  <1>5. TypesOK'
    <2>1. sb \o a \in Seq(Symbols)
      BY <1>1, <1>3, ConcatLength
    <2>2. QED
      BY <1>1, <1>3, <1>4, <2>1 DEF CInv, TypesOK
  <1>6. NoBackspace' /\ EditedSoFar' /\ LineHeldOnlyAfterBurst' /\ Parsed'
    BY <1>1 DEF CInv, NoBackspace, EditedSoFar, LineHeldOnlyAfterBurst, Parsed
  <1>7. WordsKept'
    <2>1. /\ NonBlank(inPipe) = NonBlank(a) \o NonBlank(b)
          /\ NonBlank(sb \o a) = NonBlank(sb) \o NonBlank(a)
      <3>1. NonBlank(a \o b) = NonBlank(a) \o NonBlank(b)
        BY <1>3, SelectConcat DEF NonBlank
      <3>2. NonBlank(sb \o a) = NonBlank(sb) \o NonBlank(a)
        BY <1>1, <1>3, SelectConcat DEF NonBlank
      <3>3. QED
        BY <1>3, <3>1, <3>2
    <2>2. NonBlank(sb) \in Seq(Symbols) /\ NonBlank(a) \in Seq(Symbols) /\ NonBlank(b) \in Seq(Symbols)
      BY <1>1, <1>3, SelectType DEF NonBlank
    <2>3. (NonBlank(sb) \o NonBlank(a)) \o NonBlank(b) = NonBlank(sb) \o (NonBlank(a) \o NonBlank(b))
      BY <2>2, SMTT(30)
    <2>4. NonBlank(Flat(commands)) \o (NonBlank(sb) \o NonBlank(inPipe)) = NonBlank(written)
      BY DEF CInv, WordsKept
    <2>5. QED
      BY <1>1, <1>4, <2>1, <2>3, <2>4 DEF WordsKept
  <1>8. QED
    BY <1>5, <1>6, <1>7 DEF CInv

\* Words move from the buffer to a command.
LEMMA ReadlineHandlerKeeps ==
  ASSUME CInv, ReadlineHandler
  PROVE  CInv'
  <1> DEFINE p == Parse(sb)
             c == [buf |-> sb, cmd |-> p.cmd, args |-> p.args]
  <1>1. /\ UNCHANGED <<keys, lastline, written, read, pressed, burst, exact, inPipe>>
        /\ life = "running"
        /\ sb \in Seq(Symbols) /\ inPipe \in Seq(Symbols) /\ commands \in Seq(Records)
        /\ sb' = p.rest /\ commands' = Append(commands, c)
    BY DEF ReadlineHandler, input, CInv, TypesOK
  <1>2. /\ p.cmd \in Seq(Symbols) /\ p.args \in Seq(Symbols) /\ p.rest \in Seq(Symbols)
        /\ NonBlank(sb) = NonBlank(p.cmd) \o (NonBlank(p.args) \o NonBlank(p.rest))
    BY <1>1, ParseKeepsWords
  <1>3. c \in Records /\ c.buf = sb /\ c.cmd = p.cmd /\ c.args = p.args
    BY <1>1, <1>2 DEF Records
  <1> HIDE DEF c
  <1>4. TypesOK'
    <2>1. commands' \in Seq(Records)
      BY <1>1, <1>3
    <2>2. QED
      BY <1>1, <1>2, <2>1 DEF CInv, TypesOK
  <1>5. NoBackspace' /\ EditedSoFar' /\ LineHeldOnlyAfterBurst'
    BY <1>1 DEF CInv, NoBackspace, EditedSoFar, LineHeldOnlyAfterBurst
  <1>6. Parsed'
    <2>1. /\ DOMAIN commands' = 1 .. Len(commands) + 1 /\ commands'[Len(commands) + 1] = c
          /\ \A i \in 1 .. Len(commands) : commands'[i] = commands[i]
          /\ DOMAIN commands = 1 .. Len(commands) /\ Len(commands) \in Nat
      BY <1>1
    <2>2. ASSUME NEW i \in 1 .. Len(commands) + 1
          PROVE  /\ commands'[i].cmd = Parse(commands'[i].buf).cmd
                 /\ commands'[i].args = Parse(commands'[i].buf).args
      <3>1. CASE i = Len(commands) + 1
        BY <1>3, <2>1, <3>1
      <3>2. CASE i # Len(commands) + 1
        <4>1. i \in 1 .. Len(commands)
          BY <2>1, <3>2
        <4>2. QED
          BY <2>1, <4>1 DEF CInv, Parsed
      <3>3. QED
        BY <3>1, <3>2
    <2>3. QED
      BY <2>1, <2>2 DEF Parsed
  <1>7. WordsKept'
    <2> DEFINE f == NonBlank(Flat(commands))
               w == NonBlank(p.cmd)
               a == NonBlank(p.args)
               r == NonBlank(p.rest)
               q == NonBlank(inPipe)
    <2>1. Flat(commands) \in Seq(Symbols) /\ Flat(commands') = Flat(commands) \o (p.cmd \o p.args)
      BY <1>1, <1>3, FlatIs
    <2>2. NonBlank(Flat(commands')) = f \o (w \o a)
      <3> DEFINE x == p.cmd \o p.args
      <3>1. x \in Seq(Symbols)
        BY <1>2, ConcatLength
      <3>2. NonBlank(x) = w \o a
        BY <1>2, SelectConcat DEF NonBlank
      <3> HIDE DEF x
      <3>3. NonBlank(Flat(commands) \o x) = f \o NonBlank(x)
        BY <2>1, <3>1, SelectConcat DEF NonBlank
      <3>4. QED
        BY <2>1, <3>2, <3>3 DEF x
    <2>3. /\ f \in Seq(Symbols) /\ w \in Seq(Symbols) /\ a \in Seq(Symbols)
          /\ r \in Seq(Symbols) /\ q \in Seq(Symbols)
      BY <1>1, <1>2, <2>1, SelectType DEF NonBlank
    <2>4. f \o ((w \o (a \o r)) \o q) = NonBlank(written)
      BY <1>2 DEF CInv, WordsKept
    <2> HIDE DEF f, w, a, r, q
    <2>5. (f \o (w \o a)) \o (r \o q) = f \o ((w \o (a \o r)) \o q)
      <3>1. w \o a \in Seq(Symbols) /\ a \o r \in Seq(Symbols) /\ r \o q \in Seq(Symbols)
        BY <2>3, ConcatLength
      <3>2. (f \o (w \o a)) \o (r \o q) = f \o ((w \o a) \o (r \o q))
        BY <2>3, <3>1, SMTT(30)
      <3>3. (w \o a) \o (r \o q) = w \o (a \o (r \o q))
        BY <2>3, <3>1, SMTT(30)
      <3>4. a \o (r \o q) = (a \o r) \o q
        BY <2>3, SMTT(30)
      <3>5. w \o ((a \o r) \o q) = (w \o (a \o r)) \o q
        BY <2>3, <3>1, SMTT(30)
      <3>6. QED
        BY <3>2, <3>3, <3>4, <3>5
    <2>6. NonBlank(Flat(commands')) \o (NonBlank(sb') \o NonBlank(inPipe')) = NonBlank(written')
      BY <1>1, <2>2, <2>4, <2>5 DEF r, q
    <2>7. QED
      BY <2>6 DEF WordsKept
  <1>8. QED
    BY <1>4, <1>5, <1>6, <1>7 DEF CInv

\* Whatever leaves the input alone, and comes after nothing is lost.
LEMMA OthersKeep ==
  ASSUME CInv, UNCHANGED <<keys, lastline, written, read, burst, exact, inPipe, sb, commands>>,
         life = "running" \/ life' = life,
         pressed' = pressed \/ (pressed < Len(keys) /\ pressed' = pressed + 1)
  PROVE  CInv'
  <1>1. TypesOK'
    BY SMTT(30) DEF CInv, TypesOK
  <1>2. NoBackspace' /\ EditedSoFar' /\ LineHeldOnlyAfterBurst' /\ Parsed' /\ WordsKept'
    BY DEF CInv, NoBackspace, EditedSoFar, LineHeldOnlyAfterBurst, Parsed, WordsKept
  <1>3. QED
    BY <1>1, <1>2 DEF CInv

LEMMA NextKeepsCInv == CInv /\ [Next]_vars => CInv'
  <1> SUFFICES ASSUME CInv, [Next]_vars PROVE CInv'
    OBVIOUS
  <1>1. CASE InHandler
    BY <1>1, InHandlerKeeps
  <1>2. CASE ReadlineRead
    BY <1>2, ReadlineReadKeeps
  <1>3. CASE ReadlineHandler
    BY <1>3, ReadlineHandlerKeeps
  <1>4. CASE Press
    BY <1>4, OthersKeep DEF Press
  <1>5. CASE CloseTerminal \/ Stop \/ HttpReply \/ OutRead \/ OutHandler
    BY <1>5, OthersKeep DEF CloseTerminal, Stop, HttpReply, OutRead, OutHandler, input
  <1>6. CASE UNCHANGED vars
    BY <1>6, OthersKeep DEF vars, input
  <1>7. QED
    BY <1>1, <1>2, <1>3, <1>4, <1>5, <1>6 DEF Next

LEMMA Invariance == Spec => []CInv
  BY InitCInv, NextKeepsCInv, PTL DEF Spec

-----------------------------------------------------------------------------
(* The theorems. *)

\* However the keys fall into reads, what in_handler has sent and kept (console.cc:177-226) is what
\* a line editor makes of them, until the loop over backspaces takes from an empty vector, or a
\* conversion meets a byte that is no character, more characters than a pass has room for, or a
\* line that is not UTF-8: whatever it then makes of that.
THEOREM LinesAsEdited == Spec => []EditedInOrder
  <1>1. CInv => EditedInOrder
    <2> SUFFICES ASSUME CInv, exact, life # "lost"
                 PROVE  written \o lastline = Edited(SubSeq(keys, 1, read))
      BY DEF EditedInOrder
    <2>1. SubSeq(keys, 1, read) \in Seq(Symbols)
      <3>1. keys \in Seq(Symbols) /\ read \in Nat /\ read <= Len(keys)
        BY DEF CInv, TypesOK
      <3>2. QED
        BY <3>1, SplitAt
    <2>2. QED
      BY <2>1, EditedIs DEF CInv, EditedSoFar
  <1>2. QED
    BY <1>1, Invariance, PTL

\* in_handler keeps a finished line back only after a read with two line ends, or a conversion
\* that was not exact.
THEOREM HeldOnlyAfterBurst == Spec => []LineHeldOnlyAfterBurst
  <1>1. CInv => LineHeldOnlyAfterBurst
    BY DEF CInv
  <1>2. QED
    BY <1>1, Invariance, PTL

\* The words after a command that end up as its arguments are those of its line, unless the line
\* has none (readline_handler's sentry skips line ends).
THEOREM BareCommandsOnly == Spec => []TypeAheadOnlyFeedsBare
  <1>1. CInv => TypeAheadOnlyFeedsBare
    <2> SUFFICES ASSUME CInv, NEW i \in DOMAIN commands,
                        Has(SkipBlanks(commands[i].buf), "nl")
                 PROVE  LET c     == commands[i]
                            own   == Line(SkipBlanks(c.buf), 1)
                            after == SkipBlanks(Drop(own, Len(c.cmd)))
                        IN after = <<>> \/ after = Append(c.args, "nl")
      BY DEF TypeAheadOnlyFeedsBare
    <2>1. commands[i] \in Records
      BY DEF CInv, TypesOK
    <2>2. commands[i].buf \in Seq(Symbols)
      BY <2>1 DEF Records
    <2>3. /\ commands[i].cmd = Parse(commands[i].buf).cmd
          /\ commands[i].args = Parse(commands[i].buf).args
      BY DEF CInv, Parsed
    <2>4. QED
      BY <2>2, <2>3, ParseKeepsToLine
  <1>2. QED
    BY <1>1, Invariance, PTL

\* Every word that in_handler has sent is still in the pipe or the buffer, or in one command, in
\* the order it was typed in.
THEOREM EveryWordOnce == Spec => []NoWordLost
  <1>1. CInv => NoWordLost
    <2> SUFFICES ASSUME CInv
                 PROVE  NonBlank(Flat(commands) \o sb \o inPipe) = NonBlank(written)
      BY DEF NoWordLost, Flat
    <2>1. /\ inPipe \in Seq(Symbols) /\ sb \in Seq(Symbols) /\ Flat(commands) \in Seq(Symbols)
      <3>1. commands \in Seq(Records) /\ [buf |-> <<>>, cmd |-> <<>>, args |-> <<>>] \in Records
        BY NothingThere DEF CInv, TypesOK, Records
      <3>2. QED
        BY <3>1, FlatIs DEF CInv, TypesOK
    <2> DEFINE f == Flat(commands)
               x == f \o sb
    <2>2. x \in Seq(Symbols)
      BY <2>1, ConcatLength
    <2>3. NonBlank(x \o inPipe) = NonBlank(x) \o NonBlank(inPipe)
      <3> HIDE DEF x
      <3>1. QED
        BY <2>1, <2>2, SelectConcat DEF NonBlank
    <2>4. NonBlank(x) = NonBlank(f) \o NonBlank(sb)
      BY <2>1, SelectConcat DEF NonBlank
    <2>5. NonBlank(f) \in Seq(Symbols) /\ NonBlank(sb) \in Seq(Symbols)
          /\ NonBlank(inPipe) \in Seq(Symbols)
      BY <2>1, SelectType DEF NonBlank
    <2>6. (NonBlank(f) \o NonBlank(sb)) \o NonBlank(inPipe)
            = NonBlank(f) \o (NonBlank(sb) \o NonBlank(inPipe))
      BY <2>5, SMTT(30)
    <2>7. QED
      BY <2>3, <2>4, <2>6 DEF CInv, WordsKept
  <1>2. QED
    BY <1>1, Invariance, PTL

=============================================================================
