----------------------------- MODULE Induction -----------------------------
(***************************************************************************)
(* Induction, stated about sets and functions rather than about operators, *)
(* so that the proofs of this project can cite it: a set of natural        *)
(* numbers has a least element, and one that has 0 and is closed under + 1 *)
(* has them all.  On it rest, in the order of the file: sequences cut and  *)
(* joined; the run of a step function along a sequence (After), which      *)
(* exists, is unique, and goes over a concatenation piece by piece;        *)
(* Select, which is such a run; and loops that repeat a step while it      *)
(* makes their argument smaller.                                           *)
(***************************************************************************)
EXTENDS Integers, Sequences, SequencesExt, Selection, WellFoundedInduction, TLAPS

LEMMA LeastNumber ==
  ASSUME NEW T \in SUBSET Nat, T # {}
  PROVE  \E m \in T : \A k \in T : m <= k
  <1> DEFINE R == OpToRel(<, Nat)
  <1>1. \E m \in T : \A k \in T : ~(<<k, m>> \in R)
    BY WFMin, NatLessThanWellFounded
  <1>2. R = {ss \in Nat \X Nat : ss[1] < ss[2]}
    BY DEF OpToRel
  <1>3. \A k, m \in Nat : k < m => <<k, m>> \in R
    <2> HIDE DEF R
    <2> SUFFICES ASSUME NEW k \in Nat, NEW m \in Nat, k < m
                 PROVE  <<k, m>> \in {ss \in Nat \X Nat : ss[1] < ss[2]}
      BY <1>2, Zenon
    <2> QED
      OBVIOUS
  <1> HIDE DEF R
  <1>4. PICK m \in T : \A k \in T : ~(<<k, m>> \in R)
    BY <1>1
  <1>5. \A k \in T : ~(k < m)
    BY <1>3, <1>4, Zenon
  <1>6. QED
    BY <1>5

LEMMA NatSetInduction ==
  ASSUME NEW S \in SUBSET Nat, 0 \in S, \A n \in S : n + 1 \in S
  PROVE  S = Nat
  <1>1. ASSUME NEW n \in Nat \ S PROVE FALSE
    <2>1. PICK m \in Nat \ S : \A k \in Nat \ S : m <= k
      BY LeastNumber, <1>1
    <2>2. m - 1 \in Nat /\ m - 1 \in S
      BY <2>1
    <2>3. QED
      BY <2>1, <2>2
  <1>2. QED
    BY <1>1

-----------------------------------------------------------------------------
(* Sequences put together and taken apart. *)

LEMMA EmptyConcat ==
  ASSUME NEW T, NEW a \in Seq(T)
  PROVE  <<>> \o a = a /\ a \o <<>> = a
  OBVIOUS

LEMMA ConcatLength ==
  ASSUME NEW T, NEW a \in Seq(T), NEW b \in Seq(T)
  PROVE  a \o b \in Seq(T) /\ Len(a \o b) = Len(a) + Len(b)
  OBVIOUS

LEMMA FunctionIsSeq ==
  ASSUME NEW T, NEW n \in Nat, NEW f \in [1 .. n -> T]
  PROVE  f \in Seq(T) /\ Len(f) = n
  OBVIOUS

LEMMA SplitAt ==
  ASSUME NEW T, NEW s \in Seq(T), NEW n \in Nat, n <= Len(s)
  PROVE  /\ SubSeq(s, 1, n) \in Seq(T) /\ SubSeq(s, n + 1, Len(s)) \in Seq(T)
         /\ Len(SubSeq(s, 1, n)) = n /\ Len(SubSeq(s, n + 1, Len(s))) = Len(s) - n
         /\ \A i \in 1 .. n : SubSeq(s, 1, n)[i] = s[i]
         /\ \A i \in 1 .. Len(s) - n : SubSeq(s, n + 1, Len(s))[i] = s[n + i]
         /\ s = SubSeq(s, 1, n) \o SubSeq(s, n + 1, Len(s))
  <1> DEFINE a == SubSeq(s, 1, n)
             b == SubSeq(s, n + 1, Len(s))
  <1>1. a \in Seq(T) /\ Len(a) = n /\ \A i \in 1 .. n : a[i] = s[i]
    OBVIOUS
  <1>2. b \in Seq(T) /\ Len(b) = Len(s) - n /\ \A i \in 1 .. Len(s) - n : b[i] = s[n + i]
    OBVIOUS
  <1> HIDE DEF a, b
  <1>3. s = a \o b
    <2> DEFINE c == a \o b
    <2>1. c \in Seq(T) /\ Len(c) = Len(s)
      <3>1. a \in Seq(T) /\ b \in Seq(T) /\ Len(a) = n /\ Len(b) = Len(s) - n
        BY <1>1, <1>2
      <3>2. c \in Seq(T) /\ Len(c) = Len(a) + Len(b)
        BY <3>1
      <3> HIDE DEF c
      <3>3. Len(s) \in Nat
        OBVIOUS
      <3>4. QED
        BY <3>1, <3>2, <3>3
    <2>2. \A i \in 1 .. Len(s) : c[i] = s[i]
      <3> SUFFICES ASSUME NEW i \in 1 .. Len(s) PROVE c[i] = s[i]
        OBVIOUS
      <3>1. CASE i <= n
        BY <1>1, <1>2, <3>1
      <3>2. CASE i > n
        <4>1. c[i] = b[i - n]
          BY <1>1, <1>2, <3>2
        <4>2. i - n \in 1 .. Len(s) - n /\ n + (i - n) = i
          BY <3>2
        <4> HIDE DEF c
        <4>3. QED
          BY <1>2, <4>1, <4>2
      <3>3. i <= n \/ i > n
        OBVIOUS
      <3>4. QED
        BY <3>1, <3>2, <3>3, Zenon
    <2> HIDE DEF c
    <2>3. c = s
      BY <2>1, <2>2
    <2>4. QED
      BY <2>3 DEF c
  <1>4. QED
    BY <1>1, <1>2, <1>3 DEF a, b

-----------------------------------------------------------------------------
(* A state that each element of a sequence changes, in turn. *)

Runs(f, step, a, s) ==
  f = [n \in 0 .. Len(s) |-> IF n = 0 THEN a ELSE step[s[n]][f[n - 1]]]

\* The state after the whole of s, from a on.
After(step, a, s) == (CHOOSE f : Runs(f, step, a, s))[Len(s)]

LEMMA RunExists ==
  ASSUME NEW S, NEW T, NEW step \in [T -> [S -> S]], NEW a \in S, NEW s \in Seq(T)
  PROVE  \E f \in [0 .. Len(s) -> S] : Runs(f, step, a, s)
  <1> DEFINE Upto(n, f) == /\ f[0] = a
                           /\ \A i \in 1 .. n : f[i] = step[s[i]][f[i - 1]]
             G == {n \in Nat : n <= Len(s) => \E f \in [0 .. n -> S] : Upto(n, f)}
  <1>1. 0 \in G
    <2>1. [i \in 0 .. 0 |-> a] \in [0 .. 0 -> S] /\ Upto(0, [i \in 0 .. 0 |-> a])
      OBVIOUS
    <2>2. QED
      BY <2>1, Zenon
  <1>2. ASSUME NEW n \in G PROVE n + 1 \in G
    <2> SUFFICES ASSUME n + 1 <= Len(s) PROVE \E f \in [0 .. n + 1 -> S] : Upto(n + 1, f)
      OBVIOUS
    <2>1. PICK f \in [0 .. n -> S] : Upto(n, f)
      OBVIOUS
    <2>2. s[n + 1] \in T
      OBVIOUS
    <2> DEFINE x == step[s[n + 1]][f[n]]
               g == [i \in 0 .. n + 1 |-> IF i = n + 1 THEN x ELSE f[i]]
    <2>3. x \in S
      BY <2>2
    <2>4. g \in [0 .. n + 1 -> S]
      BY <2>3
    <2>5. g[0] = a
      BY <2>1
    <2>6. ASSUME NEW i \in 1 .. n + 1 PROVE g[i] = step[s[i]][g[i - 1]]
      <3>1. i - 1 \in 0 .. n /\ g[i - 1] = f[i - 1] /\ i \in 0 .. n + 1
        OBVIOUS
      <3>2. CASE i = n + 1
        BY <3>1, <3>2
      <3>3. CASE i # n + 1
        <4>1. i \in 1 .. n
          BY <3>3
        <4>2. g[i] = f[i]
          BY <3>1, <3>3
        <4> HIDE DEF g, x
        <4>3. QED
          BY <2>1, <3>1, <4>1, <4>2
      <3>4. QED
        BY <3>2, <3>3
    <2>7. QED
      BY <2>4, <2>5, <2>6
  <1>3. Len(s) \in G
    <2>1. G \in SUBSET Nat
      OBVIOUS
    <2> HIDE DEF G
    <2>2. G = Nat
      BY <1>1, <1>2, <2>1, NatSetInduction
    <2>3. QED
      BY <2>2
  <1>4. PICK f \in [0 .. Len(s) -> S] : Upto(Len(s), f)
    BY <1>3
  <1>5. f = [n \in 0 .. Len(s) |-> f[n]]
    OBVIOUS
  <1>6. \A n \in 0 .. Len(s) : f[n] = IF n = 0 THEN a ELSE step[s[n]][f[n - 1]]
    BY <1>4
  <1>7. QED
    BY <1>5, <1>6 DEF Runs

\* Whatever goes through s with these steps ends where After says.
LEMMA RunUnique ==
  ASSUME NEW step, NEW a, NEW T, NEW s \in Seq(T), NEW f, NEW g,
         Runs(f, step, a, s), Runs(g, step, a, s)
  PROVE  \A n \in 0 .. Len(s) : f[n] = g[n]
  <1> DEFINE G == {n \in Nat : n <= Len(s) => f[n] = g[n]}
  <1>1. \A n \in 0 .. Len(s) : /\ f[n] = IF n = 0 THEN a ELSE step[s[n]][f[n - 1]]
                               /\ g[n] = IF n = 0 THEN a ELSE step[s[n]][g[n - 1]]
    BY Zenon DEF Runs
  <1>2. 0 \in G
    <2>1. 0 \in 0 .. Len(s)
      OBVIOUS
    <2>2. f[0] = a /\ g[0] = a
      BY <1>1, <2>1, Zenon
    <2>3. QED
      BY <2>2
  <1>3. ASSUME NEW n \in G PROVE n + 1 \in G
    <2> SUFFICES ASSUME n + 1 <= Len(s) PROVE f[n + 1] = g[n + 1]
      OBVIOUS
    <2> DEFINE k == n + 1
    <2>1. k \in 0 .. Len(s) /\ k # 0 /\ k - 1 = n /\ f[n] = g[n]
      OBVIOUS
    <2> HIDE DEF k
    <2>2. f[k] = step[s[k]][f[k - 1]] /\ g[k] = step[s[k]][g[k - 1]]
      BY <1>1, <2>1, Zenon
    <2>3. f[k] = g[k]
      BY <2>1, <2>2, Zenon
    <2>4. QED
      BY <2>3 DEF k
  <1>4. G = Nat
    <2>1. G \in SUBSET Nat
      OBVIOUS
    <2> HIDE DEF G
    <2>2. QED
      BY <1>2, <1>3, <2>1, NatSetInduction
  <1>5. QED
    BY <1>4

LEMMA RunEndsAfter ==
  ASSUME NEW step, NEW a, NEW T, NEW s \in Seq(T), NEW f, Runs(f, step, a, s)
  PROVE  f[Len(s)] = After(step, a, s)
  <1> DEFINE h == CHOOSE g : Runs(g, step, a, s)
  <1>1. Runs(h, step, a, s)
    BY Zenon
  <1>2. Len(s) \in 0 .. Len(s)
    OBVIOUS
  <1>3. After(step, a, s) = h[Len(s)]
    BY Zenon DEF After
  <1> HIDE DEF h
  <1>4. \A n \in 0 .. Len(s) : f[n] = h[n]
    BY <1>1, RunUnique
  <1>5. QED
    BY <1>2, <1>3, <1>4, Zenon

LEMMA AfterType ==
  ASSUME NEW S, NEW T, NEW step \in [T -> [S -> S]], NEW a \in S, NEW s \in Seq(T)
  PROVE  After(step, a, s) \in S
  <1>1. PICK f \in [0 .. Len(s) -> S] : Runs(f, step, a, s)
    BY RunExists
  <1>2. f[Len(s)] = After(step, a, s)
    BY <1>1, RunEndsAfter, Zenon
  <1>3. Len(s) \in 0 .. Len(s)
    OBVIOUS
  <1>4. QED
    BY <1>2, <1>3

LEMMA AfterNone ==
  ASSUME NEW S, NEW T, NEW step \in [T -> [S -> S]], NEW a \in S
  PROVE  After(step, a, <<>>) = a
  <1>1. <<>> \in Seq(T) /\ Len(<<>>) = 0
    OBVIOUS
  <1>2. PICK f \in [0 .. 0 -> S] : Runs(f, step, a, <<>>)
    BY <1>1, RunExists
  <1>3. f[0] = After(step, a, <<>>)
    BY <1>1, <1>2, RunEndsAfter
  <1>4. f[0] = a
    BY <1>2 DEF Runs
  <1>5. QED
    BY <1>3, <1>4

\* One sequence after another.
LEMMA AfterConcat ==
  ASSUME NEW S, NEW T, NEW step \in [T -> [S -> S]], NEW a \in S,
         NEW s \in Seq(T), NEW t \in Seq(T)
  PROVE  After(step, a, s \o t) = After(step, After(step, a, s), t)
  <1> DEFINE u == s \o t
             b == After(step, a, s)
  <1>1. /\ u \in Seq(T) /\ Len(u) = Len(s) + Len(t)
        /\ \A i \in 1 .. Len(s) : u[i] = s[i]
        /\ \A i \in 1 .. Len(t) : u[Len(s) + i] = t[i]
    OBVIOUS
  <1>2. PICK f \in [0 .. Len(u) -> S] : Runs(f, step, a, u)
    BY <1>1, RunExists
  <1>3. /\ f[0] = a
        /\ \A n \in 1 .. Len(u) : f[n] = step[u[n]][f[n - 1]]
    <2>1. \A n \in 0 .. Len(u) : f[n] = IF n = 0 THEN a ELSE step[u[n]][f[n - 1]]
      BY <1>2, Zenon DEF Runs
    <2>2. 0 \in 0 .. Len(u) /\ \A n \in 1 .. Len(u) : n \in 0 .. Len(u) /\ n # 0
      BY <1>1
    <2>3. QED
      BY <2>1, <2>2, Zenon
  <1> HIDE DEF u
  <1>4. f[Len(s)] = b
    <2> DEFINE g == [n \in 0 .. Len(s) |-> f[n]]
    <2>1. ASSUME NEW n \in 0 .. Len(s)
          PROVE  f[n] = IF n = 0 THEN a ELSE step[s[n]][g[n - 1]]
      <3>1. CASE n = 0
        BY <1>3, <3>1
      <3>2. CASE n # 0
        <4>1. n \in 1 .. Len(s) /\ n \in 1 .. Len(u) /\ n - 1 \in 0 .. Len(s)
          BY <1>1, <3>2
        <4>2. g[n - 1] = f[n - 1] /\ u[n] = s[n]
          BY <1>1, <4>1
        <4> HIDE DEF g
        <4>3. QED
          BY <1>3, <3>2, <4>1, <4>2
      <3>3. QED
        BY <3>1, <3>2
    <2>4. Runs(g, step, a, s)
      BY <2>1, Zenon DEF Runs
    <2>2. g[Len(s)] = b
      BY <2>4, RunEndsAfter, Zenon
    <2>3. QED
      BY <2>2
  <1>5. f[Len(u)] = After(step, b, t)
    <2> DEFINE h == [n \in 0 .. Len(t) |-> f[Len(s) + n]]
    <2> HIDE DEF b
    <2>1. ASSUME NEW n \in 0 .. Len(t)
          PROVE  f[Len(s) + n] = IF n = 0 THEN b ELSE step[t[n]][h[n - 1]]
      <3>1. CASE n = 0
        BY <1>4, <3>1
      <3>2. CASE n # 0
        <4> DEFINE k == Len(s) + n
        <4>1. n \in 1 .. Len(t) /\ n - 1 \in 0 .. Len(t) /\ k \in 1 .. Len(u)
              /\ k - 1 = Len(s) + (n - 1)
          BY <1>1, <3>2
        <4>2. h[n - 1] = f[k - 1] /\ u[k] = t[n]
          BY <1>1, <4>1
        <4> HIDE DEF h, k
        <4>3. f[k] = step[t[n]][h[n - 1]]
          BY <1>3, <4>1, <4>2
        <4>4. QED
          BY <3>2, <4>3 DEF k
      <3>3. QED
        BY <3>1, <3>2
    <2>2. Runs(h, step, b, t)
      BY <2>1, Zenon DEF Runs
    <2>3. h[Len(t)] = After(step, b, t)
      BY <2>2, RunEndsAfter, Zenon
    <2>4. h[Len(t)] = f[Len(u)]
      BY <1>1
    <2>5. QED
      BY <2>3, <2>4
  <1>6. f[Len(u)] = After(step, a, u)
    BY <1>1, <1>2, RunEndsAfter, Zenon
  <1>7. QED
    BY <1>5, <1>6 DEF u, b

LEMMA AfterOne ==
  ASSUME NEW S, NEW T, NEW step \in [T -> [S -> S]], NEW a \in S, NEW x \in T
  PROVE  After(step, a, <<x>>) = step[x][a]
  <1>1. <<x>> \in Seq(T) /\ Len(<<x>>) = 1 /\ <<x>>[1] = x
    OBVIOUS
  <1>2. PICK f \in [0 .. 1 -> S] : Runs(f, step, a, <<x>>)
    BY <1>1, RunExists
  <1>3. f[1] = After(step, a, <<x>>)
    BY <1>1, <1>2, RunEndsAfter
  <1>4. f[0] = a /\ f[1] = step[x][f[0]]
    BY <1>1, <1>2 DEF Runs
  <1>5. QED
    BY <1>3, <1>4

\* A function that makes these steps wherever the one before has led to a state.
Follows(f, S, step, a, s) ==
  /\ f[0] = a
  /\ \A n \in 1 .. Len(s) : f[n - 1] \in S => f[n] = step[s[n]][f[n - 1]]

LEMMA StepsEndAfter ==
  ASSUME NEW S, NEW T, NEW step \in [T -> [S -> S]], NEW a \in S, NEW s \in Seq(T),
         NEW f, Follows(f, S, step, a, s)
  PROVE  f[Len(s)] = After(step, a, s)
  <1>0. /\ f[0] = a
        /\ \A n \in 1 .. Len(s) : f[n - 1] \in S => f[n] = step[s[n]][f[n - 1]]
    BY DEF Follows
  <1>1. PICK g \in [0 .. Len(s) -> S] : Runs(g, step, a, s)
    BY RunExists
  <1>2. g[Len(s)] = After(step, a, s)
    BY <1>1, RunEndsAfter
  <1> DEFINE G == {n \in Nat : n <= Len(s) => f[n] = g[n]}
  <1>3. \A n \in 0 .. Len(s) : g[n] = IF n = 0 THEN a ELSE step[s[n]][g[n - 1]]
    BY <1>1, Zenon DEF Runs
  <1>4. 0 \in G
    <2>1. 0 \in 0 .. Len(s)
      OBVIOUS
    <2>2. g[0] = a
      BY <1>3, <2>1, Zenon
    <2>3. QED
      BY <1>0, <2>2
  <1>5. ASSUME NEW n \in G PROVE n + 1 \in G
    <2> SUFFICES ASSUME n + 1 <= Len(s) PROVE f[n + 1] = g[n + 1]
      OBVIOUS
    <2> DEFINE k == n + 1
    <2>1. k \in 1 .. Len(s) /\ k \in 0 .. Len(s) /\ k # 0 /\ k - 1 = n /\ f[n] = g[n] /\ g[n] \in S
      OBVIOUS
    <2> HIDE DEF k
    <2>2. f[k] = g[k]
      BY <1>0, <1>3, <2>1, Zenon
    <2>3. QED
      BY <2>2 DEF k
  <1>6. G = Nat
    <2>1. G \in SUBSET Nat
      OBVIOUS
    <2> HIDE DEF G
    <2>2. QED
      BY <1>4, <1>5, <2>1, NatSetInduction
  <1>7. f[Len(s)] = g[Len(s)]
    <2>1. Len(s) \in G
      BY <1>6
    <2>2. QED
      BY <2>1
  <1>8. QED
    BY <1>2, <1>7

\* Steps that leave what the state began with.
Spares(step, a, T, U) == \A x \in T : \A b \in Seq(U) : step[x][a \o b] = a \o step[x][b]

LEMMA AfterPrefix ==
  ASSUME NEW U, NEW T, NEW step \in [T -> [Seq(U) -> Seq(U)]], NEW s \in Seq(T), NEW a \in Seq(U),
         Spares(step, a, T, U)
  PROVE  After(step, a, s) = a \o After(step, <<>>, s)
  <1> DEFINE Q == Seq(U)
             e == <<>>
             b == After(step, e, s)
  <1>1. step \in [T -> [Q -> Q]] /\ e \in Q /\ a \in Q
    OBVIOUS
  <1>2. PICK g \in [0 .. Len(s) -> Q] : Runs(g, step, e, s)
    <2> HIDE DEF Q, e
    <2>1. QED
      BY <1>1, RunExists
  <1>3. g[Len(s)] = b
    <2> HIDE DEF Q, e
    <2>1. QED
      BY <1>2, RunEndsAfter
  <1>4. \A n \in 0 .. Len(s) : g[n] = IF n = 0 THEN e ELSE step[s[n]][g[n - 1]]
    BY <1>2, Zenon DEF Runs
  <1> DEFINE f == [n \in 0 .. Len(s) |-> a \o g[n]]
  <1>5. f[0] = a
    <2>1. 0 \in 0 .. Len(s)
      OBVIOUS
    <2>2. g[0] = <<>>
      BY <1>4, <2>1, Zenon
    <2>3. QED
      BY <2>1, <2>2
  <1>6. ASSUME NEW n \in 1 .. Len(s) PROVE f[n] = step[s[n]][f[n - 1]]
    <2>1. n \in 0 .. Len(s) /\ n - 1 \in 0 .. Len(s) /\ n # 0 /\ s[n] \in T
      OBVIOUS
    <2>2. f[n] = a \o g[n] /\ f[n - 1] = a \o g[n - 1] /\ g[n - 1] \in Seq(U)
      BY <2>1
    <2>3. g[n] = step[s[n]][g[n - 1]]
      BY <1>4, <2>1, Zenon
    <2>4. step[s[n]][a \o g[n - 1]] = a \o step[s[n]][g[n - 1]]
      BY <2>1, <2>2, Zenon DEF Spares
    <2> HIDE DEF f
    <2>5. QED
      BY <2>2, <2>3, <2>4, Zenon
  <1>7. Follows(f, Q, step, a, s)
    <2> HIDE DEF f, Q
    <2>1. QED
      BY <1>5, <1>6, Zenon DEF Follows
  <1>8. f[Len(s)] = After(step, a, s)
    <2> HIDE DEF f, Q, e
    <2>1. QED
      BY <1>1, <1>7, StepsEndAfter
  <1>9. f[Len(s)] = a \o g[Len(s)]
    <2>1. Len(s) \in 0 .. Len(s)
      OBVIOUS
    <2>2. QED
      BY <2>1
  <1> HIDE DEF f, b
  <1>10. QED
    BY <1>3, <1>8, <1>9 DEF b

\* Steps none of which moves the state it began with.
LEMMA AfterStays ==
  ASSUME NEW S, NEW T, NEW step \in [T -> [S -> S]], NEW a \in S, NEW s \in Seq(T),
         \A n \in 1 .. Len(s) : step[s[n]][a] = a
  PROVE  After(step, a, s) = a
  <1> DEFINE f == [n \in 0 .. Len(s) |-> a]
  <1>1. f[0] = a /\ f[Len(s)] = a /\ \A n \in 1 .. Len(s) : f[n] = a /\ f[n - 1] = a
    OBVIOUS
  <1> HIDE DEF f
  <1>2. Follows(f, S, step, a, s)
    BY <1>1 DEF Follows
  <1>3. QED
    BY <1>1, <1>2, StepsEndAfter

-----------------------------------------------------------------------------
(* Sequences joined, one after another. *)

Glue(T) == [x \in Seq(T) |-> [a \in Seq(T) |-> a \o x]]

LEMMA GlueIs ==
  ASSUME NEW T
  PROVE  /\ Glue(T) \in [Seq(T) -> [Seq(T) -> Seq(T)]]
         /\ \A x, a \in Seq(T) : Glue(T)[x][a] = a \o x
  <1>1. \A x, a \in Seq(T) : a \o x \in Seq(T)
    BY ConcatLength
  <1>2. QED
    BY <1>1 DEF Glue

LEMMA FlattenIs ==
  ASSUME NEW T, NEW ss \in Seq(Seq(T))
  PROVE  FlattenSeq(ss) = After(Glue(T), <<>>, ss)
  <1> DEFINE Q == Seq(T)
             e == <<>>
             N == Len(ss)
             Steps(f) == f = [i \in 1 .. Len(ss) |-> IF i = 1 THEN ss[i] ELSE f[i - 1] \o ss[i]]
  <1>1. /\ Glue(T) \in [Q -> [Q -> Q]] /\ e \in Q /\ ss \in Seq(Q) /\ N \in Nat
        /\ \A n \in 1 .. N : ss[n] \in Q
    <2>1. e \in Q /\ ss \in Seq(Q) /\ N \in Nat /\ \A n \in 1 .. N : ss[n] \in Q
      OBVIOUS
    <2>2. Glue(T) \in [Q -> [Q -> Q]]
      BY GlueIs, Zenon
    <2>3. QED
      BY <2>1, <2>2
  <1>2. CASE N = 0
    <2>1. FlattenSeq(ss) = ss /\ ss = <<>>
      BY <1>2 DEF FlattenSeq
    <2> HIDE DEF Q, e
    <2>2. After(Glue(T), e, <<>>) = e
      BY <1>1, AfterNone
    <2>3. QED
      BY <2>1, <2>2 DEF e
  <1>3. CASE N # 0
    <2>0. N \in 1 .. N
      BY <1>1, <1>3
    <2>1. PICK f \in [0 .. N -> Q] : Runs(f, Glue(T), e, ss)
      <3> HIDE DEF Q, e
      <3>1. QED
        BY <1>1, RunExists
    <2>2. \A n \in 0 .. N : f[n] = IF n = 0 THEN e ELSE Glue(T)[ss[n]][f[n - 1]]
      BY <2>1, Zenon DEF Runs
    <2> DEFINE g == [i \in 1 .. N |-> f[i]]
    <2>3. f[0] = <<>>
      <3>1. 0 \in 0 .. N
        BY <1>1
      <3>2. QED
        BY <2>2, <3>1, Zenon
    <2>4. ASSUME NEW i \in 1 .. N PROVE g[i] = IF i = 1 THEN ss[i] ELSE g[i - 1] \o ss[i]
      <3>1. i \in 0 .. N /\ i # 0 /\ i - 1 \in 0 .. N /\ ss[i] \in Q
        BY <1>1
      <3>2. f[i] = Glue(T)[ss[i]][f[i - 1]]
        BY <2>2, <3>1, Zenon
      <3>3. f[i] = f[i - 1] \o ss[i]
        BY <3>1, <3>2, GlueIs
      <3>4. g[i] = f[i]
        OBVIOUS
      <3>5. CASE i = 1
        <4>1. f[i - 1] = <<>>
          BY <2>3, <3>5
        <4>2. <<>> \o ss[i] = ss[i]
          BY <3>1, EmptyConcat
        <4> HIDE DEF g
        <4>3. QED
          BY <3>3, <3>4, <3>5, <4>1, <4>2
      <3>6. CASE i # 1
        <4>1. i - 1 \in 1 .. N
          BY <1>1, <3>6
        <4>2. g[i - 1] = f[i - 1]
          BY <4>1
        <4> HIDE DEF g
        <4>3. QED
          BY <3>3, <3>4, <3>6, <4>2
      <3>7. QED
        BY <3>5, <3>6
    <2>5. Steps(g)
      <3>1. g = [i \in 1 .. N |-> g[i]]
        OBVIOUS
      <3> HIDE DEF g
      <3>2. QED
        BY <2>4, <3>1
    <2>6. \E h : Steps(h) /\ FlattenSeq(ss) = h[N]
      <3> DEFINE h == CHOOSE r : Steps(r)
      <3>1. Steps(h)
        <4> HIDE DEF g
        <4>1. QED
          BY <2>5, Zenon
      <3>2. FlattenSeq(ss) = h[N]
        BY <1>3, Zenon DEF FlattenSeq
      <3> HIDE DEF h, Steps
      <3>3. QED
        BY <3>1, <3>2, Zenon
    <2>7. PICK h : Steps(h) /\ FlattenSeq(ss) = h[N]
      BY <2>6
    <2>8. \A i \in 1 .. N : h[i] = IF i = 1 THEN ss[i] ELSE h[i - 1] \o ss[i]
      BY <2>7, Zenon
    <2> DEFINE k == [i \in 0 .. N |-> IF i = 0 THEN e ELSE h[i]]
    <2>9. k[0] = e /\ k[N] = h[N]
      BY <1>1, <1>3
    <2>10. ASSUME NEW n \in 1 .. N, k[n - 1] \in Q PROVE k[n] = Glue(T)[ss[n]][k[n - 1]]
      <3>1. n \in 0 .. N /\ n # 0 /\ n - 1 \in 0 .. N /\ ss[n] \in Q
        BY <1>1
      <3>2. k[n] = h[n]
        BY <3>1
      <3>3. k[n] = k[n - 1] \o ss[n]
        <4>1. CASE n = 1
          <5>1. k[n - 1] = <<>> /\ h[n] = ss[n]
            BY <2>8, <2>9, <4>1
          <5>2. <<>> \o ss[n] = ss[n]
            BY <3>1, EmptyConcat
          <5> HIDE DEF k
          <5>3. QED
            BY <3>2, <5>1, <5>2
        <4>2. CASE n # 1
          <5>1. n - 1 # 0
            BY <4>2
          <5>2. k[n - 1] = h[n - 1]
            BY <3>1, <5>1
          <5> HIDE DEF k
          <5>3. QED
            BY <2>8, <3>2, <4>2, <5>2
        <4>3. QED
          BY <4>1, <4>2
      <3> HIDE DEF k
      <3>4. QED
        BY <2>10, <3>1, <3>3, GlueIs
    <2> HIDE DEF k, e
    <2>11. Follows(k, Q, Glue(T), e, ss)
      BY <2>9, <2>10, Zenon DEF Follows
    <2> HIDE DEF Q
    <2>12. k[Len(ss)] = After(Glue(T), e, ss)
      BY <1>1, <2>11, StepsEndAfter
    <2>13. QED
      BY <2>7, <2>9, <2>12 DEF e
  <1>4. QED
    BY <1>2, <1>3

LEMMA FlattenAppend ==
  ASSUME NEW T, NEW ss \in Seq(Seq(T)), NEW x \in Seq(T)
  PROVE  FlattenSeq(ss) \in Seq(T) /\ FlattenSeq(Append(ss, x)) = FlattenSeq(ss) \o x
  <1> DEFINE Q == Seq(T)
             e == <<>>
             g == Glue(T)
             y == <<x>>
  <1>1. /\ ss \in Seq(Q) /\ x \in Q /\ e \in Q
        /\ Append(ss, x) = ss \o y /\ Append(ss, x) \in Seq(Q) /\ y \in Seq(Q)
    <2>1. e \in Q
      OBVIOUS
    <2> HIDE DEF Q, e
    <2>2. ss \in Seq(Q) /\ x \in Q
      BY DEF Q
    <2>3. QED
      BY <2>1, <2>2
  <1>2. g \in [Q -> [Q -> Q]]
    BY GlueIs, Zenon
  <1>3. FlattenSeq(ss) = After(g, e, ss) /\ FlattenSeq(Append(ss, x)) = After(g, e, Append(ss, x))
    BY <1>1, FlattenIs, Zenon
  <1>4. /\ After(g, e, ss) \in Q
        /\ After(g, e, ss \o y) = After(g, After(g, e, ss), y)
    <2> HIDE DEF Q, e, g, y
    <2>1. QED
      BY <1>1, <1>2, AfterType, AfterConcat
  <1>5. After(g, After(g, e, ss), y) = g[x][After(g, e, ss)]
    <2> HIDE DEF Q, e, g
    <2>1. QED
      BY <1>1, <1>2, <1>4, AfterOne
  <1>6. g[x][After(g, e, ss)] = After(g, e, ss) \o x
    <2> HIDE DEF e
    <2>1. QED
      BY <1>1, <1>4, GlueIs, Zenon
  <1>7. QED
    <2> HIDE DEF e, g, y
    <2>1. QED
      BY <1>1, <1>3, <1>4, <1>5, <1>6

-----------------------------------------------------------------------------
(* Select, and what it makes of the parts of a sequence. *)

Keep(T, S) == [x \in T |-> [a \in Seq(T) |-> IF x \in S THEN Append(a, x) ELSE a]]

LEMMA SelectAfter ==
  ASSUME NEW T, NEW S, NEW s \in Seq(T)
  PROVE  Keep(T, S) \in [T -> [Seq(T) -> Seq(T)]] /\ Select(s, S) = After(Keep(T, S), <<>>, s)
  <1> DEFINE step == Keep(T, S)
             Steps(f) == f = [n \in 0 .. Len(s) |->
                                IF n = 0 THEN <<>>
                                ELSE IF s[n] \in S THEN Append(f[n - 1], s[n])
                                ELSE f[n - 1]]
  <1>1. step \in [T -> [Seq(T) -> Seq(T)]]
    BY DEF Keep
  <1>2. <<>> \in Seq(T)
    OBVIOUS
  <1>3. ASSUME NEW x \in T, NEW b \in Seq(T)
        PROVE  step[x][b] = IF x \in S THEN Append(b, x) ELSE b
    BY DEF Keep
  <1> HIDE DEF step
  <1>4. PICK f \in [0 .. Len(s) -> Seq(T)] : Runs(f, step, <<>>, s)
    BY <1>1, <1>2, RunExists
  <1>5. Steps(f)
    <2>1. \A n \in 0 .. Len(s) : f[n] = IF n = 0 THEN <<>> ELSE step[s[n]][f[n - 1]]
      BY <1>4, Zenon DEF Runs
    <2>2. ASSUME NEW n \in 0 .. Len(s), n # 0
          PROVE  step[s[n]][f[n - 1]] = IF s[n] \in S THEN Append(f[n - 1], s[n]) ELSE f[n - 1]
      <3>1. n - 1 \in 0 .. Len(s) /\ n \in 1 .. Len(s)
        BY <2>2
      <3>2. s[n] \in T /\ f[n - 1] \in Seq(T)
        BY <3>1
      <3>3. QED
        BY <1>3, <3>2
    <2>3. \A n \in 0 .. Len(s) : f[n] = IF n = 0 THEN <<>>
                                        ELSE IF s[n] \in S THEN Append(f[n - 1], s[n])
                                        ELSE f[n - 1]
      BY <2>1, <2>2
    <2>4. QED
      BY <2>3
  <1>6. \E g : Steps(g) /\ Select(s, S) = g[Len(s)]
    <2> DEFINE g == CHOOSE h : Steps(h)
    <2>1. Steps(g)
      BY <1>5, Zenon
    <2>2. Select(s, S) = g[Len(s)]
      BY Zenon DEF Select
    <2> HIDE DEF g, Steps
    <2>3. QED
      BY <2>1, <2>2, Zenon
  <1>7. PICK g : Steps(g) /\ Select(s, S) = g[Len(s)]
    BY <1>6
  <1>8. \A n \in 0 .. Len(s) : g[n] = IF n = 0 THEN <<>>
                                      ELSE IF s[n] \in S THEN Append(g[n - 1], s[n])
                                      ELSE g[n - 1]
    BY <1>7, Zenon
  <1>9. g[0] = <<>>
    <2>1. 0 \in 0 .. Len(s)
      OBVIOUS
    <2>2. QED
      BY <1>8, <2>1, Zenon
  <1>10. ASSUME NEW n \in 1 .. Len(s), g[n - 1] \in Seq(T) PROVE g[n] = step[s[n]][g[n - 1]]
    <2>1. n \in 0 .. Len(s) /\ n # 0 /\ s[n] \in T
      OBVIOUS
    <2>2. QED
      BY <1>3, <1>8, <1>10, <2>1
  <1>11. g[Len(s)] = After(step, <<>>, s)
    <2> DEFINE Q == Seq(T)
               e == <<>>
    <2>1. step \in [T -> [Q -> Q]] /\ e \in Q /\ g[0] = e
      BY <1>1, <1>2, <1>9
    <2>2. \A n \in 1 .. Len(s) : g[n - 1] \in Q => g[n] = step[s[n]][g[n - 1]]
      BY <1>10
    <2>4. s \in Seq(T)
      OBVIOUS
    <2> HIDE DEF Q, e
    <2>5. Follows(g, Q, step, e, s)
      BY <2>1, <2>2, Zenon DEF Follows
    <2>6. g[Len(s)] = After(step, e, s)
      BY <2>1, <2>4, <2>5, StepsEndAfter
    <2>7. QED
      BY <2>6 DEF e
  <1>12. QED
    BY <1>1, <1>7, <1>11 DEF step

LEMMA SelectType ==
  ASSUME NEW T, NEW S, NEW s \in Seq(T)
  PROVE  Select(s, S) \in Seq(T)
  <1> DEFINE Q == Seq(T)
             e == <<>>
             step == Keep(T, S)
  <1>1. step \in [T -> [Q -> Q]] /\ Select(s, S) = After(step, e, s) /\ e \in Q
    <2>1. e \in Q
      OBVIOUS
    <2>2. QED
      BY <2>1, SelectAfter, Zenon
  <1> HIDE DEF Q, e, step
  <1>2. Select(s, S) \in Q
    BY <1>1, AfterType
  <1>3. QED
    BY <1>2 DEF Q

LEMMA KeepSpares ==
  ASSUME NEW T, NEW S, NEW a \in Seq(T)
  PROVE  Spares(Keep(T, S), a, T, T)
  <1> SUFFICES ASSUME NEW x \in T, NEW b \in Seq(T)
               PROVE  Keep(T, S)[x][a \o b] = a \o Keep(T, S)[x][b]
    BY DEF Spares
  <1>1. a \o b \in Seq(T)
    OBVIOUS
  <1>2. \A c \in Seq(T) : Keep(T, S)[x][c] = IF x \in S THEN Append(c, x) ELSE c
    BY DEF Keep
  <1>3. Append(a \o b, x) = a \o Append(b, x)
    OBVIOUS
  <1>4. QED
    BY <1>1, <1>2, <1>3

LEMMA SelectConcat ==
  ASSUME NEW T, NEW S, NEW s \in Seq(T), NEW t \in Seq(T)
  PROVE  Select(s \o t, S) = Select(s, S) \o Select(t, S)
  <1> DEFINE Q == Seq(T)
             e == <<>>
             step == Keep(T, S)
             u == s \o t
             a == Select(s, S)
  <1>1. /\ u \in Seq(T) /\ e \in Q /\ a \in Q
        /\ step \in [T -> [Q -> Q]]
        /\ a = After(step, e, s)
        /\ Select(t, S) = After(step, e, t)
        /\ Select(u, S) = After(step, e, u)
    <2>1. u \in Seq(T) /\ e \in Q
      OBVIOUS
    <2> HIDE DEF u
    <2>2. QED
      BY <2>1, SelectAfter, SelectType
  <1>3. After(step, e, u) = After(step, a, t)
    <2> HIDE DEF Q, e, step, a
    <2>1. QED
      BY <1>1, AfterConcat DEF u
  <1>4. After(step, a, t) = a \o After(step, e, t)
    <2> HIDE DEF step, a
    <2>1. a \in Seq(T) /\ step \in [T -> [Seq(T) -> Seq(T)]] /\ t \in Seq(T)
      BY <1>1
    <2>2. Spares(step, a, T, T)
      BY <2>1, KeepSpares DEF step
    <2>3. QED
      BY <2>1, <2>2, AfterPrefix
  <1> HIDE DEF u, e, step
  <1>5. QED
    BY <1>1, <1>3, <1>4 DEF u

LEMMA SelectNone ==
  ASSUME NEW T, NEW S, NEW s \in Seq(T), \A n \in 1 .. Len(s) : s[n] \notin S
  PROVE  Select(s, S) = <<>>
  <1> DEFINE Q == Seq(T)
             e == <<>>
             step == Keep(T, S)
  <1>1. step \in [T -> [Q -> Q]] /\ Select(s, S) = After(step, e, s) /\ e \in Q
    <2>1. e \in Q
      OBVIOUS
    <2>2. QED
      BY <2>1, SelectAfter, Zenon
  <1>2. \A n \in 1 .. Len(s) : step[s[n]][e] = e
    <2>1. ASSUME NEW n \in 1 .. Len(s) PROVE step[s[n]][e] = e
      <3>1. s[n] \in T /\ s[n] \notin S
        OBVIOUS
      <3>2. QED
        BY <3>1 DEF Keep
    <2>2. QED
      BY <2>1
  <1> HIDE DEF Q, e, step
  <1>3. Select(s, S) = e
    BY <1>1, <1>2, AfterStays
  <1>4. QED
    BY <1>3 DEF e

LEMMA SelectOne ==
  ASSUME NEW T, NEW S, NEW x \in T
  PROVE  Select(<<x>>, S) = IF x \in S THEN <<x>> ELSE <<>>
  <1> DEFINE Q == Seq(T)
             e == <<>>
             step == Keep(T, S)
             s == <<x>>
  <1>0. s \in Seq(T)
    OBVIOUS
  <1>1. step \in [T -> [Q -> Q]] /\ Select(s, S) = After(step, e, s) /\ e \in Q
    <2>1. e \in Q
      OBVIOUS
    <2> HIDE DEF s
    <2>2. QED
      BY <1>0, <2>1, SelectAfter, Zenon
  <1>2. step[x][e] = IF x \in S THEN <<x>> ELSE <<>>
    BY DEF Keep
  <1>3. After(step, e, <<x>>) = step[x][e]
    <2> HIDE DEF Q, e, step
    <2>1. QED
      BY <1>1, AfterOne
  <1> HIDE DEF step, e
  <1>4. QED
    BY <1>1, <1>2, <1>3

-----------------------------------------------------------------------------
(* A loop: a step is repeated as long as the argument is not in stop. *)

\* The size of the argument goes down with each step.
Shrinks(D, stop, next, size) == \A x \in D \ stop : size[next[x]] < size[x]

\* A set that no step leads out of.
Closed(P, stop, next) == \A x \in P \ stop : next[x] \in P

\* A function whose value outside stop follows from that at a smaller argument.
Recurs(f, D, stop, base, step, next) ==
  f = [x \in D |-> IF x \in stop THEN base[x] ELSE step[x][f[next[x]]]]

LEMMA RecursionExists ==
  ASSUME NEW D, NEW V, NEW stop, NEW base \in [D -> V], NEW step \in [D -> [V -> V]],
         NEW next \in [D -> D], NEW size \in [D -> Nat], Shrinks(D, stop, next, size)
  PROVE  \E f \in [D -> V] : Recurs(f, D, stop, base, step, next)
  <1> DEFINE Small(n) == {x \in D : size[x] <= n}
             On(f, n) == \A x \in Small(n) :
                           f[x] = IF x \in stop THEN base[x] ELSE step[x][f[next[x]]]
             E == {n \in Nat : \E f \in [D -> V] : On(f, n)}
             U == {n \in Nat : \A f, g \in [D -> V] : On(f, n) /\ On(g, n) =>
                                 \A x \in Small(n) : f[x] = g[x]}
  <1>0. \A x \in D \ stop : size[next[x]] < size[x]
    BY DEF Shrinks
  <1>1. 0 \in E
    <2>1. base \in [D -> V] /\ On(base, 0)
      BY <1>0
    <2>2. QED
      BY <2>1
  <1>2. ASSUME NEW n \in E PROVE n + 1 \in E
    <2>1. PICK f \in [D -> V] : On(f, n)
      OBVIOUS
    <2> DEFINE g == [x \in D |-> IF x \in stop THEN base[x] ELSE step[x][f[next[x]]]]
    <2>2. g \in [D -> V]
      <3>1. ASSUME NEW x \in D PROVE (IF x \in stop THEN base[x] ELSE step[x][f[next[x]]]) \in V
        <4>1. base[x] \in V /\ next[x] \in D /\ step[x] \in [V -> V] /\ f[next[x]] \in V
          OBVIOUS
        <4>2. step[x][f[next[x]]] \in V
          BY <4>1
        <4>3. QED
          BY <4>1, <4>2
      <3>2. QED
        BY <3>1
    <2>3. \A x \in Small(n) : g[x] = f[x]
      BY <2>1
    <2>4. ASSUME NEW x \in Small(n + 1)
          PROVE  g[x] = IF x \in stop THEN base[x] ELSE step[x][g[next[x]]]
      <3>1. CASE x \in stop
        BY <3>1
      <3>2. CASE x \notin stop
        <4>1. next[x] \in Small(n)
          BY <1>0, <3>2
        <4>2. g[next[x]] = f[next[x]]
          BY <2>3, <4>1
        <4>3. QED
          BY <3>2, <4>2
      <3>3. QED
        BY <3>1, <3>2
    <2> HIDE DEF g
    <2>5. QED
      BY <2>2, <2>4
  <1>3. 0 \in U
    BY <1>0
  <1>4. ASSUME NEW n \in U PROVE n + 1 \in U
    <2> SUFFICES ASSUME NEW f \in [D -> V], NEW g \in [D -> V], On(f, n + 1), On(g, n + 1),
                        NEW x \in Small(n + 1)
                 PROVE  f[x] = g[x]
      <3> HIDE DEF On, Small
      <3>1. QED
        OBVIOUS
    <2>1. \A y \in Small(n) : y \in Small(n + 1)
      OBVIOUS
    <2>2. On(f, n) /\ On(g, n)
      BY <2>1
    <2>3. \A y \in Small(n) : f[y] = g[y]
      BY <2>2
    <2>4. x \notin stop => next[x] \in Small(n)
      BY <1>0
    <2>5. QED
      BY <2>3, <2>4
  <1>5. E = Nat /\ U = Nat
    <2>1. E \in SUBSET Nat /\ U \in SUBSET Nat
      OBVIOUS
    <2> HIDE DEF E, U
    <2>2. QED
      BY <1>1, <1>2, <1>3, <1>4, <2>1, NatSetInduction
  <1> DEFINE part(n) == CHOOSE f \in [D -> V] : On(f, n)
             h == [x \in D |-> part(size[x])[x]]
  <1>6. ASSUME NEW n \in Nat PROVE part(n) \in [D -> V] /\ On(part(n), n)
    <2>1. \E f \in [D -> V] : On(f, n)
      BY <1>5
    <2> HIDE DEF On
    <2>2. QED
      BY <2>1
  <1>7. h \in [D -> V]
    <2>1. ASSUME NEW x \in D PROVE part(size[x])[x] \in V
      <3>1. size[x] \in Nat
        OBVIOUS
      <3> HIDE DEF part
      <3>2. part(size[x]) \in [D -> V]
        BY <1>6, <3>1
      <3>3. QED
        BY <3>2
    <2> HIDE DEF part
    <2>2. QED
      BY <2>1
  <1>8. ASSUME NEW x \in D PROVE h[x] = IF x \in stop THEN base[x] ELSE step[x][h[next[x]]]
    <2> DEFINE n == size[x]
               m == size[next[x]]
    <2>1. n \in Nat /\ m \in Nat /\ x \in Small(n) /\ next[x] \in Small(m) /\ next[x] \in D
      OBVIOUS
    <2>2. h[x] = part(n)[x] /\ h[next[x]] = part(m)[next[x]]
      BY <2>1
    <2> HIDE DEF h, part
    <2>3. h[x] = IF x \in stop THEN base[x] ELSE step[x][part(n)[next[x]]]
      BY <1>6, <2>1, <2>2
    <2>4. ASSUME x \notin stop PROVE part(n)[next[x]] = part(m)[next[x]]
      <3>1. m < n
        BY <1>0, <2>4
      <3>2. \A y \in Small(m) : y \in Small(n)
        BY <2>1, <3>1
      <3>3. On(part(n), m)
        BY <1>6, <2>1, <3>2
      <3>4. On(part(m), m) /\ part(n) \in [D -> V] /\ part(m) \in [D -> V]
        BY <1>6, <2>1
      <3>5. m \in U
        BY <1>5, <2>1
      <3> HIDE DEF On, n, m
      <3>6. QED
        BY <2>1, <3>3, <3>4, <3>5
    <2>5. QED
      BY <2>2, <2>3, <2>4
  <1>9. h = [x \in D |-> h[x]]
    OBVIOUS
  <1> HIDE DEF h
  <1>10. Recurs(h, D, stop, base, step, next)
    BY <1>8, <1>9 DEF Recurs
  <1>11. QED
    BY <1>7, <1>10

Loops(f, D, stop, next) == f = [x \in D |-> IF x \in stop THEN x ELSE f[next[x]]]

LEMMA LoopExists ==
  ASSUME NEW D, NEW stop, NEW next \in [D -> D], NEW size \in [D -> Nat],
         Shrinks(D, stop, next, size)
  PROVE  \E f \in [D -> D] : Loops(f, D, stop, next)
  <1> DEFINE base == [x \in D |-> x]
             step == [x \in D |-> base]
  <1>1. base \in [D -> D] /\ step \in [D -> [D -> D]]
    OBVIOUS
  <1>2. \A x \in D : base[x] = x /\ step[x] = base
    OBVIOUS
  <1> HIDE DEF base, step
  <1>3. PICK f \in [D -> D] : Recurs(f, D, stop, base, step, next)
    BY <1>1, RecursionExists
  <1>4. \A x \in D : (IF x \in stop THEN base[x] ELSE step[x][f[next[x]]])
                    = IF x \in stop THEN x ELSE f[next[x]]
    BY <1>2
  <1>5. f = [x \in D |-> IF x \in stop THEN base[x] ELSE step[x][f[next[x]]]]
    BY <1>3, Zenon DEF Recurs
  <1>6. Loops(f, D, stop, next)
    BY <1>4, <1>5 DEF Loops
  <1>7. QED
    BY <1>6

\* What the step preserves the loop preserves, and it ends in stop.
LEMMA LoopKeeps ==
  ASSUME NEW D, NEW stop, NEW next \in [D -> D], NEW size \in [D -> Nat],
         Shrinks(D, stop, next, size),
         NEW f, Loops(f, D, stop, next),
         NEW P \in SUBSET D, Closed(P, stop, next)
  PROVE  \A x \in P : f[x] \in P /\ f[x] \in stop
  <1> DEFINE G == {n \in Nat : \A x \in P : size[x] <= n => f[x] \in P /\ f[x] \in stop}
  <1>0. /\ \A x \in D \ stop : size[next[x]] < size[x]
        /\ \A x \in P \ stop : next[x] \in P
    BY DEF Shrinks, Closed
  <1>1. \A x \in D : f[x] = IF x \in stop THEN x ELSE f[next[x]]
    BY Zenon DEF Loops
  <1>2. 0 \in G
    <2>1. ASSUME NEW x \in P, size[x] <= 0 PROVE x \in stop
      BY <1>0, <2>1
    <2>2. QED
      BY <1>1, <2>1
  <1>3. ASSUME NEW n \in G PROVE n + 1 \in G
    <2> SUFFICES ASSUME NEW x \in P, size[x] <= n + 1 PROVE f[x] \in P /\ f[x] \in stop
      OBVIOUS
    <2>1. CASE x \in stop
      BY <1>1, <2>1
    <2>2. CASE x \notin stop
      <3>1. next[x] \in P /\ size[next[x]] <= n
        BY <1>0, <2>2
      <3>2. QED
        BY <1>1, <2>2, <3>1
    <2>3. QED
      BY <2>1, <2>2
  <1>4. G = Nat
    <2>1. G \in SUBSET Nat
      OBVIOUS
    <2> HIDE DEF G
    <2>2. QED
      BY <1>2, <1>3, <2>1, NatSetInduction
  <1>5. QED
    BY <1>4

=============================================================================
