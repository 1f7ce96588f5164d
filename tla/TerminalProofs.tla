--------------------------- MODULE TerminalProofs ---------------------------
(***************************************************************************)
(* What TLAPS proves of Terminal, for any number of sockets and of         *)
(* inherited descriptors: which number each constructor gets, and that the *)
(* destructors, though they close some numbers twice, reach only their own *)
(* files and leave the terminal as it was.                                 *)
(***************************************************************************)
EXTENDS Terminal, Induction, FiniteSetTheorems, SequenceTheorems

Files == {None, "stdin", "stdout", "stderr", "inherited", "socket", "tty", "outR", "outW", "inR", "inW"}

-----------------------------------------------------------------------------
(* The lowest number that is free. *)

LEMMA LowestIs ==
  ASSUME NEW t, NEW n \in Numbers, t[n] = None, \A k \in 0 .. n - 1 : t[k] # None
  PROVE  Lowest(t) = n
  <1> DEFINE P(m) == t[m] = None /\ \A k \in 0 .. m - 1 : t[k] # None
  <1>1. P(n)
    OBVIOUS
  <1>2. ASSUME NEW m \in Numbers, P(m) PROVE m = n
    <2>1. m \in Nat /\ n \in Nat
      BY DEF Numbers
    <2>2. QED
      BY <1>2, <2>1
  <1> HIDE DEF P
  <1>3. (CHOOSE m \in Numbers : P(m)) = n
    BY <1>1, <1>2
  <1>4. QED
    BY <1>3 DEF Lowest, P

LEMMA LowestIsFree ==
  ASSUME NEW t, \E n \in Numbers : t[n] = None
  PROVE  Lowest(t) \in Numbers /\ t[Lowest(t)] = None
  <1> DEFINE T == {n \in Numbers : t[n] = None}
  <1>1. T \in SUBSET Nat /\ T # {}
    BY DEF Numbers
  <1>2. PICK m \in T : \A k \in T : m <= k
    BY <1>1, LeastNumber
  <1>3. m \in Numbers /\ t[m] = None /\ \A k \in 0 .. m - 1 : t[k] # None
    <2>1. ASSUME NEW k \in 0 .. m - 1, t[k] = None PROVE FALSE
      <3>1. m \in Numbers
        BY <1>2
      <3>2. k \in Numbers /\ ~(m <= k)
        BY <2>1, <3>1, TerminalAssumption DEF Numbers
      <3>3. QED
        BY <1>2, <2>1, <3>2
    <2>2. QED
      BY <2>1
  <1>4. QED
    BY <1>3, LowestIs

\* There is one while fewer than MaxSockets of the numbers above the others are taken.
LEMMA RoomForSocket ==
  ASSUME \A n \in Numbers : fds[n] \notin {None, "socket"} => n <= 9 + MaxInherited,
         Count("socket") < MaxSockets
  PROVE  \E n \in Numbers : fds[n] = None
  <1> SUFFICES ASSUME \A n \in Numbers : fds[n] # None PROVE FALSE
    OBVIOUS
  <1> DEFINE S == {n \in Numbers : fds[n] = "socket"}
             a == 10 + MaxInherited
             b == 9 + MaxInherited + MaxSockets
  <1>1. a \in Int /\ b \in Int /\ Numbers = 0 .. b
    BY TerminalAssumption DEF Numbers
  <1>2. a .. b \subseteq S
    BY TerminalAssumption DEF Numbers
  <1>3. IsFiniteSet(a .. b) /\ Cardinality(a .. b) = MaxSockets
    BY <1>1, FS_Interval, TerminalAssumption
  <1>4. IsFiniteSet(S)
    <2>1. IsFiniteSet(0 .. b)
      BY <1>1, FS_Interval
    <2>2. QED
      BY <1>1, <2>1, FS_Subset
  <1>5. Cardinality(a .. b) <= Cardinality(S) /\ Cardinality(S) \in Nat
    BY <1>2, <1>4, FS_Subset, FS_CardinalityType
  <1>6. Cardinality(S) < MaxSockets
    BY DEF Count
  <1> HIDE DEF a, b, S
  <1>7. QED
    BY <1>3, <1>5, <1>6, TerminalAssumption

-----------------------------------------------------------------------------
(* Construction packs the numbers from 0 up. *)

\* The numbers in use are those below k.
Packed(t, k) ==
  /\ t \in [Numbers -> Files]
  /\ k \in Nat
  /\ \A n \in Numbers : t[n] = None <=> n >= k

LEMMA OpenedPacked ==
  ASSUME NEW t, NEW k, Packed(t, k), k <= 9 + MaxInherited, NEW file \in Files \ {None}
  PROVE  /\ k \in Numbers /\ Lowest(t) = k
         /\ Opened(t, file) = [t EXCEPT ![k] = file]
         /\ Packed(Opened(t, file), k + 1)
  <1>1. k \in Numbers
    BY TerminalAssumption DEF Packed, Numbers
  <1>2. Lowest(t) = k
    <2>1. \A m \in 0 .. k - 1 : m \in Numbers /\ t[m] # None
      BY <1>1, TerminalAssumption DEF Packed, Numbers
    <2>2. t[k] = None
      BY <1>1 DEF Packed
    <2>3. QED
      BY <1>1, <2>1, <2>2, LowestIs
  <1>3. Opened(t, file) = [t EXCEPT ![k] = file]
    BY <1>2 DEF Opened
  <1>4. ASSUME NEW n \in Numbers
        PROVE  [t EXCEPT ![k] = file][n] = None <=> n >= k + 1
    <2>1. n \in Nat
      BY DEF Numbers
    <2>2. QED
      BY <1>1, <2>1 DEF Packed
  <1>5. Packed([t EXCEPT ![k] = file], k + 1)
    BY <1>1, <1>4 DEF Packed
  <1>6. QED
    BY <1>1, <1>2, <1>3, <1>5

\* piped_stdio's seven system calls, one after another.
LEMMA PipesEffect ==
  ASSUME NEW t, NEW k, Packed(t, k), 3 <= k, k <= 5 + MaxInherited,
         t[0] = "stdin", t[1] = "stdout"
  PROVE  Pipes(t) =
           [table |-> [t EXCEPT ![0] = "inR", ![1] = "outW", ![k] = "outR", ![k + 2] = "stdout",
                                ![k + 3] = "inW", ![k + 4] = "stdin"],
            piped_stdout |-> k, true_stdout |-> k + 2,
            piped_stdin |-> k + 3, true_stdin |-> k + 4]
  <1> DEFINE t1 == [t EXCEPT ![k] = "outR"]
             t2 == [t1 EXCEPT ![k + 1] = "outW"]
             t3 == [t2 EXCEPT ![k + 2] = "stdout"]
             t4 == [t3 EXCEPT ![1] = "outW", ![k + 1] = None]
             t5 == [t4 EXCEPT ![k + 1] = "inR"]
             t6 == [t5 EXCEPT ![k + 3] = "inW"]
             t7 == [t6 EXCEPT ![k + 4] = "stdin"]
             t8 == [t7 EXCEPT ![0] = "inR", ![k + 1] = None]
  <1>d. /\ t1 = [t EXCEPT ![k] = "outR"] /\ t2 = [t1 EXCEPT ![k + 1] = "outW"]
        /\ t3 = [t2 EXCEPT ![k + 2] = "stdout"] /\ t6 = [t5 EXCEPT ![k + 3] = "inW"]
        /\ t7 = [t6 EXCEPT ![k + 4] = "stdin"]
    OBVIOUS
  <1>1. /\ t \in [Numbers -> Files] /\ k \in Nat
        /\ \A n \in Numbers : t[n] = None <=> n >= k
        /\ {0, 1, k, k + 1, k + 2, k + 3, k + 4} \subseteq Numbers
        /\ \A n \in Numbers : n \in Nat
    BY TerminalAssumption DEF Packed, Numbers
  <1> DEFINE F == Files \ {None}
  <1>f. {"outR", "outW", "stdout", "inR", "inW", "stdin"} \subseteq F
    BY DEF Files, None
  <1>k. /\ k + 1 \in Nat /\ k + 2 \in Nat /\ k + 3 \in Nat /\ k + 4 \in Nat
        /\ (k + 1) + 1 = k + 2 /\ (k + 2) + 1 = k + 3 /\ (k + 3) + 1 = k + 4
        /\ k <= 9 + MaxInherited /\ k + 1 <= 9 + MaxInherited /\ k + 2 <= 9 + MaxInherited
        /\ k + 3 <= 9 + MaxInherited /\ k + 4 <= 9 + MaxInherited
    BY <1>1, TerminalAssumption
  <1>p. ASSUME NEW u, NEW m, Packed(u, m), m <= 9 + MaxInherited, NEW f \in F
        PROVE  Lowest(u) = m /\ Opened(u, f) = [u EXCEPT ![m] = f] /\ Packed([u EXCEPT ![m] = f], m + 1)
    BY <1>p, OpenedPacked
  <1> HIDE DEF F
  <1>2. Lowest(t) = k /\ Opened(t, "outR") = t1 /\ Packed(t1, k + 1)
    BY <1>f, <1>k, <1>p
  <1>3. Lowest(t1) = k + 1 /\ Opened(t1, "outW") = t2 /\ Packed(t2, k + 2)
    <2> HIDE DEF t1, t2, t3, t5, t6, t7
    <2>1. Packed(t1, k + 1) /\ k + 1 <= 9 + MaxInherited /\ "outW" \in F
      BY <1>2, <1>f, <1>k
    <2>2. /\ Lowest(t1) = k + 1 /\ Opened(t1, "outW") = [t1 EXCEPT ![k + 1] = "outW"]
          /\ Packed([t1 EXCEPT ![k + 1] = "outW"], (k + 1) + 1)
      BY <2>1, <1>p, Zenon
    <2>3. QED
      BY <2>2, <1>d, <1>k, Zenon
  <1>4. NewPipe(t, "outR", "outW") = [read |-> k, write |-> k + 1, table |-> t2]
    BY <1>2, <1>3 DEF NewPipe
  <1>5. Lowest(t2) = k + 2 /\ Opened(t2, "stdout") = t3 /\ Packed(t3, k + 3)
    <2> HIDE DEF t1, t2, t3, t5, t6, t7
    <2>1. Packed(t2, k + 2) /\ k + 2 <= 9 + MaxInherited /\ "stdout" \in F
      BY <1>3, <1>f, <1>k
    <2>2. /\ Lowest(t2) = k + 2 /\ Opened(t2, "stdout") = [t2 EXCEPT ![k + 2] = "stdout"]
          /\ Packed([t2 EXCEPT ![k + 2] = "stdout"], (k + 2) + 1)
      BY <2>1, <1>p, Zenon
    <2>3. QED
      BY <2>2, <1>d, <1>k, Zenon
  <1>6. t2[1] = "stdout" /\ t2[k + 1] = "outW"
    BY <1>1
  <1>7. Redirect(t2, k + 1, 1) = [copy |-> k + 2, table |-> t4]
    BY <1>5, <1>6 DEF Redirect
  <1>8. /\ t4 \in [Numbers -> Files] /\ t4[k + 1] = None /\ t4[0] = "stdin"
        /\ \A n \in Numbers : n < k + 1 => t4[n] # None
        /\ \A n \in Numbers : n # k + 1 => (t4[n] = None <=> n >= k + 3)
    BY <1>1, <1>5 DEF Packed, Files, None
  <1> HIDE DEF t4
  <1>9. Lowest(t4) = k + 1 /\ Opened(t4, "inR") = t5 /\ Packed(t5, k + 3)
    <2>1. Lowest(t4) = k + 1
      <3>1. \A m \in 0 .. k : m \in Numbers
        BY <1>1, TerminalAssumption DEF Numbers
      <3>2. QED
        BY <1>1, <1>8, <3>1, LowestIs
    <2>2. \A n \in Numbers : t5[n] = None <=> n >= k + 3
      BY <1>1, <1>8 DEF None
    <2>3. t5 \in [Numbers -> Files]
      BY <1>1, <1>8 DEF Files
    <2>4. QED
      BY <1>1, <2>1, <2>2, <2>3 DEF Opened, Packed
  <1>10. Lowest(t5) = k + 3 /\ Opened(t5, "inW") = t6 /\ Packed(t6, k + 4)
    <2> HIDE DEF t1, t2, t3, t5, t6, t7
    <2>1. Packed(t5, k + 3) /\ k + 3 <= 9 + MaxInherited /\ "inW" \in F
      BY <1>9, <1>f, <1>k
    <2>2. /\ Lowest(t5) = k + 3 /\ Opened(t5, "inW") = [t5 EXCEPT ![k + 3] = "inW"]
          /\ Packed([t5 EXCEPT ![k + 3] = "inW"], (k + 3) + 1)
      BY <2>1, <1>p, Zenon
    <2>3. QED
      BY <2>2, <1>d, <1>k, Zenon
  <1>11. NewPipe(t4, "inR", "inW") = [read |-> k + 1, write |-> k + 3, table |-> t6]
    BY <1>9, <1>10 DEF NewPipe
  <1>12. Lowest(t6) = k + 4 /\ Opened(t6, "stdin") = t7
    <2> HIDE DEF t1, t2, t3, t5, t6, t7
    <2>1. Packed(t6, k + 4) /\ k + 4 <= 9 + MaxInherited /\ "stdin" \in F
      BY <1>10, <1>f, <1>k
    <2>2. /\ Lowest(t6) = k + 4 /\ Opened(t6, "stdin") = [t6 EXCEPT ![k + 4] = "stdin"]
          /\ Packed([t6 EXCEPT ![k + 4] = "stdin"], (k + 4) + 1)
      BY <2>1, <1>p, Zenon
    <2>3. QED
      BY <2>2, <1>d, <1>k, Zenon
  <1>13. t6[0] = "stdin" /\ t6[k + 1] = "inR"
    BY <1>1, <1>8
  <1>14. Redirect(t6, k + 1, 0) = [copy |-> k + 4, table |-> t8]
    BY <1>12, <1>13 DEF Redirect
  <1>15. t8 = [t EXCEPT ![0] = "inR", ![1] = "outW", ![k] = "outR", ![k + 2] = "stdout",
                        ![k + 3] = "inW", ![k + 4] = "stdin"]
    <2>1. t[k + 1] = None
      BY <1>1
    <2>2. QED
      BY <1>1, <2>1 DEF t4
  <1> HIDE DEF t2, t5, t6, t7, t8
  <1>16. QED
    BY <1>4, <1>7, <1>11, <1>14, <1>15 DEF Pipes

-----------------------------------------------------------------------------
(* The invariant. *)

Order == <<"cli", "ti", "ps", "ost", "ist", "st">>

\* The first n objects.
Built(n) == SubSeq(Order, 1, n)

Lists == {Built(n) : n \in 0 .. 6}

\* The ends of a sequence: what may be left of a destructor.
Ends(s) == {SubSeq(s, j, Len(s)) : j \in 1 .. Len(s) + 1}

\* The destructor that runs is the one of the object after those that are left.
Control ==
  /\ objects \in Lists /\ whole \in Lists
  /\ main \in {"constructing", "running", "unwinding", "ended", "killed"}
  /\ main = "constructing" => Len(objects) # 6 /\ calls = <<>>
  /\ main = "running" => Len(objects) = 6 /\ calls = <<>>
  /\ main = "unwinding" =>
       /\ Len(whole) \notin {1, 2} /\ Len(objects) <= Len(whole)
       /\ \/ calls = <<>>
          \/ Len(objects) < Len(whole) /\ calls \in Ends(Destructor(Order[Len(objects) + 1]))

\* A number that is not one of the standard ones, and the file behind it.
Holds(t, n, file) == n \in Numbers \ 0 .. 2 /\ t[n] = file

Owned(n, file) == n = -1 \/ Holds(fds, n, file) \/ Holds(fds, n, None)

\* The program's own files are behind the numbers that its objects keep.
Layout ==
  /\ fds \in [Numbers -> Files] /\ mode \in {"cooked", "raw"}
  /\ ps \in [{"piped_stdout", "true_stdout", "piped_stdin", "true_stdin"} -> Int]
  /\ Owned(ti, "tty")
  /\ Owned(ps.piped_stdout, "outR") /\ Owned(ps.true_stdout, "stdout")
  /\ Owned(ps.piped_stdin, "inW") /\ Owned(ps.true_stdin, "stdin")
  /\ \A n \in Numbers \ 0 .. 2 :
       \/ fds[n] \in {None, "inherited", "socket"}
       \/ fds[n] = "tty" /\ n = ti
       \/ fds[n] = "outR" /\ n = ps.piped_stdout
       \/ fds[n] = "stdout" /\ n = ps.true_stdout
       \/ fds[n] = "inW" /\ n = ps.piped_stdin
       \/ fds[n] = "stdin" /\ n = ps.true_stdin

TtyHeld == (ti = -1 /\ mode = "cooked") \/ (Holds(fds, ti, "tty") /\ mode = "raw")

NoPipes == /\ ps.piped_stdout = -1 /\ ps.true_stdout = -1
           /\ ps.piped_stdin = -1 /\ ps.true_stdin = -1

\* Before piped_stdio the numbers are packed.
Packing ==
  main = "constructing" /\ Len(objects) <= 2 =>
    /\ \E k \in 3 .. 3 + MaxInherited + Len(objects) : Packed(fds, k)
    /\ fds[0] = "stdin" /\ fds[1] = "stdout"
    /\ NoPipes
    /\ TtyHeld
    /\ Len(objects) # 2 => ti = -1

\* After it and before the destruction, only the sockets change.
Assembled ==
  /\ fds[0] = "inR" /\ fds[1] = "outW"
  /\ Holds(fds, ps.piped_stdout, "outR") /\ Holds(fds, ps.true_stdout, "stdout")
  /\ Holds(fds, ps.piped_stdin, "inW") /\ Holds(fds, ps.true_stdin, "stdin")
  /\ TtyHeld
  /\ \A n \in Numbers : fds[n] \notin {None, "socket"} => n <= 9 + MaxInherited

Serving == main = "running" \/ (main = "constructing" /\ Len(objects) >= 3) => Assembled

\* The destructor of the n-th object has run but for its last calls, left of them.
MadeAt(o, c, n, left) == o < n - 1 \/ (o = n - 1 /\ c <= left)
Made(n, left) == MadeAt(Len(objects), Len(calls), n, left)

HadSt == Len(whole) = 6
HadIst == Len(whole) >= 5

StdinLeft == IF HadSt THEN None ELSE IF HadIst THEN "inR" ELSE "stdin"

\* The files behind the standard numbers and piped_stdio's; another may have closed the second.
Behind(out, true_out, piped_out, in, true_in, piped_in) ==
  /\ fds[1] = out /\ Holds(fds, ps.true_stdout, true_out)
  /\ Holds(fds, ps.piped_stdout, piped_out) \/ Holds(fds, ps.piped_stdout, None)
  /\ fds[0] = in /\ Holds(fds, ps.true_stdin, true_in)
  /\ Holds(fds, ps.piped_stdin, piped_in)

TtyLeft == mode = "cooked" /\ (ti = -1 \/ Holds(fds, ti, None))

\* What each call of the destructors has made of the numbers it is about.
Undone ==
  /\ Behind(IF Made(3, 5) THEN "stdout" ELSE "outW",
            IF Made(3, 4) THEN None ELSE "stdout",
            IF Made(3, 3) THEN None ELSE "outR",
            IF Made(3, 2) THEN StdinLeft ELSE IF HadSt /\ Made(6, 0) THEN None ELSE "inR",
            IF Made(3, 1) \/ (HadIst /\ Made(5, 0)) THEN None ELSE "stdin",
            IF Made(3, 0) THEN None ELSE "inW")
  /\ \/ TtyLeft
     \/ ~Made(2, 1) /\ TtyHeld
     \/ Made(2, 1) /\ ~Made(2, 0) /\ mode = "cooked" /\ Holds(fds, ti, "tty")

\* main() got no further than twitter_client's constructor, or piped_stdio was there.
Unwinding ==
  main = "unwinding" =>
    IF whole = <<>>
    THEN fds[0] = "stdin" /\ fds[1] = "stdout" /\ mode = "cooked" /\ ti = -1 /\ NoPipes
    ELSE Undone

TInv == /\ Control
        /\ Layout
        /\ Packing
        /\ Serving
        /\ Unwinding
        /\ EndsAsItBegan
        /\ NoStrayCall

-----------------------------------------------------------------------------
(* Lists of objects and calls. *)

Names == {"cli", "ti", "ps", "ost", "ist", "st"}

LEMMA OrderType == Order \in Seq(Names) /\ Len(Order) = 6
  BY DEF Order, Names

LEMMA OrderItems ==
  /\ Order[1] = "cli" /\ Order[2] = "ti" /\ Order[3] = "ps"
  /\ Order[4] = "ost" /\ Order[5] = "ist" /\ Order[6] = "st"
  BY DEF Order

LEMMA Prefix ==
  ASSUME NEW S, NEW s \in Seq(S), NEW n \in 0 .. Len(s)
  PROVE  /\ SubSeq(s, 1, n) \in Seq(S) /\ Len(SubSeq(s, 1, n)) = n
         /\ \A i \in 1 .. n : SubSeq(s, 1, n)[i] = s[i]
  OBVIOUS

LEMMA BuiltItems ==
  ASSUME NEW n \in Nat, n <= 6
  PROVE  /\ Built(n) \in Seq(Names) /\ Len(Built(n)) = n
         /\ \A i \in 1 .. n : Built(n)[i] = Order[i]
  <1>1. n \in 0 .. Len(Order)
    BY OrderType
  <1>2. QED
    BY <1>1, OrderType, Prefix DEF Built

\* A list is known by its length and its items.
LEMMA BuiltIs ==
  ASSUME NEW s \in Seq(Names), Len(s) <= 6, \A i \in 1 .. Len(s) : s[i] = Order[i]
  PROVE  s = Built(Len(s))
  <1> DEFINE n == Len(s)
             b == Built(n)
  <1>1. n \in Nat /\ n <= 6
    OBVIOUS
  <1>2. /\ b \in Seq(Names) /\ Len(b) = n
        /\ \A i \in 1 .. n : b[i] = Order[i]
    <2> HIDE DEF n
    <2>1. QED
      BY <1>1, BuiltItems
  <1> HIDE DEF b
  <1>3. s = b
    BY <1>2, SeqEqual
  <1>4. QED
    BY <1>3 DEF b

LEMMA BuiltAppend ==
  ASSUME NEW n \in Nat, n <= 5
  PROVE  /\ Append(Built(n), Order[n + 1]) = Built(n + 1)
         /\ Front(Built(n + 1)) = Built(n) /\ Last(Built(n + 1)) = Order[n + 1]
  <1> DEFINE a == Built(n)
             b == Built(n + 1)
             x == Order[n + 1]
             u == Append(a, x)
             v == SubSeq(b, 1, n)
  <1>1. n + 1 \in Nat /\ n + 1 <= 6 /\ n <= 6 /\ n + 1 \in 1 .. 6
    OBVIOUS
  <1>2. b \in Seq(Names) /\ Len(b) = n + 1 /\ \A i \in 1 .. n + 1 : b[i] = Order[i]
    BY <1>1, BuiltItems, Zenon
  <1>3. a \in Seq(Names) /\ Len(a) = n /\ \A i \in 1 .. n : a[i] = Order[i]
    BY <1>1, BuiltItems, Zenon
  <1>4. x \in Names
    <2> HIDE DEF a, b
    <2>1. \A i \in 1 .. Len(Order) : Order[i] \in Names
      BY OrderType, ElementOfSeq
    <2>2. QED
      BY <1>1, <2>1, OrderType
  <1> HIDE DEF a, b
  <1>5. u \in Seq(Names) /\ Len(u) = n + 1 /\ \A i \in 1 .. n + 1 : u[i] = Order[i]
    BY <1>3, <1>4
  <1>6. v \in Seq(Names) /\ Len(v) = n /\ \A i \in 1 .. n : v[i] = Order[i]
    BY <1>2
  <1> HIDE DEF u, v
  <1>7. u = b
    BY <1>2, <1>5, SeqEqual
  <1>8. v = a
    BY <1>3, <1>6, SeqEqual
  <1>9. Front(b) = v /\ Last(b) = x
    BY <1>2 DEF Front, Last, v, x
  <1>10. QED
    BY <1>7, <1>8, <1>9 DEF u, v, a, b, x

\* The lists that the actions name.
LEMMA BuiltLists ==
  /\ Built(0) = <<>> /\ Built(1) = <<"cli">> /\ Built(2) = <<"cli", "ti">>
  /\ Built(3) = <<"cli", "ti", "ps">> /\ Built(4) = <<"cli", "ti", "ps", "ost">>
  /\ Built(5) = <<"cli", "ti", "ps", "ost", "ist">>
  <1>0. Built(0) = <<>>
    <2> DEFINE s == <<>>
    <2>1. s \in Seq(Names) /\ Len(s) = 0 /\ \A i \in 1 .. 0 : s[i] = Order[i]
      BY OrderItems DEF Names
    <2> HIDE DEF s
    <2>2. Len(s) <= 6 /\ \A i \in 1 .. Len(s) : s[i] = Order[i]
      BY <2>1
    <2>3. s = Built(Len(s))
      BY <2>1, <2>2, BuiltIs, Zenon
    <2>4. Built(Len(s)) = s
      BY <2>3, Zenon
    <2>5. QED
      BY <2>1, <2>4, Zenon DEF s
  <1>1. Built(1) = <<"cli">>
    <2> DEFINE s == <<"cli">>
    <2>1. s \in Seq(Names) /\ Len(s) = 1 /\ \A i \in 1 .. 1 : s[i] = Order[i]
      BY OrderItems DEF Names
    <2> HIDE DEF s
    <2>2. Len(s) <= 6 /\ \A i \in 1 .. Len(s) : s[i] = Order[i]
      BY <2>1
    <2>3. s = Built(Len(s))
      BY <2>1, <2>2, BuiltIs, Zenon
    <2>4. Built(Len(s)) = s
      BY <2>3, Zenon
    <2>5. QED
      BY <2>1, <2>4, Zenon DEF s
  <1>2. Built(2) = <<"cli", "ti">>
    <2> DEFINE s == <<"cli", "ti">>
    <2>1. s \in Seq(Names) /\ Len(s) = 2 /\ \A i \in 1 .. 2 : s[i] = Order[i]
      BY OrderItems DEF Names
    <2> HIDE DEF s
    <2>2. Len(s) <= 6 /\ \A i \in 1 .. Len(s) : s[i] = Order[i]
      BY <2>1
    <2>3. s = Built(Len(s))
      BY <2>1, <2>2, BuiltIs, Zenon
    <2>4. Built(Len(s)) = s
      BY <2>3, Zenon
    <2>5. QED
      BY <2>1, <2>4, Zenon DEF s
  <1>3. Built(3) = <<"cli", "ti", "ps">>
    <2> DEFINE s == <<"cli", "ti", "ps">>
    <2>1. s \in Seq(Names) /\ Len(s) = 3 /\ \A i \in 1 .. 3 : s[i] = Order[i]
      BY OrderItems DEF Names
    <2> HIDE DEF s
    <2>2. Len(s) <= 6 /\ \A i \in 1 .. Len(s) : s[i] = Order[i]
      BY <2>1
    <2>3. s = Built(Len(s))
      BY <2>1, <2>2, BuiltIs, Zenon
    <2>4. Built(Len(s)) = s
      BY <2>3, Zenon
    <2>5. QED
      BY <2>1, <2>4, Zenon DEF s
  <1>4. Built(4) = <<"cli", "ti", "ps", "ost">>
    <2> DEFINE s == <<"cli", "ti", "ps", "ost">>
    <2>1. s \in Seq(Names) /\ Len(s) = 4 /\ \A i \in 1 .. 4 : s[i] = Order[i]
      BY OrderItems DEF Names
    <2> HIDE DEF s
    <2>2. Len(s) <= 6 /\ \A i \in 1 .. Len(s) : s[i] = Order[i]
      BY <2>1
    <2>3. s = Built(Len(s))
      BY <2>1, <2>2, BuiltIs, Zenon
    <2>4. Built(Len(s)) = s
      BY <2>3, Zenon
    <2>5. QED
      BY <2>1, <2>4, Zenon DEF s
  <1>5. Built(5) = <<"cli", "ti", "ps", "ost", "ist">>
    <2> DEFINE s == <<"cli", "ti", "ps", "ost", "ist">>
    <2>1. s \in Seq(Names) /\ Len(s) = 5 /\ \A i \in 1 .. 5 : s[i] = Order[i]
      BY OrderItems DEF Names
    <2> HIDE DEF s
    <2>2. Len(s) <= 6 /\ \A i \in 1 .. Len(s) : s[i] = Order[i]
      BY <2>1
    <2>3. s = Built(Len(s))
      BY <2>1, <2>2, BuiltIs, Zenon
    <2>4. Built(Len(s)) = s
      BY <2>3, Zenon
    <2>5. QED
      BY <2>1, <2>4, Zenon DEF s
  <1>6. QED
    BY <1>0, <1>1, <1>2, <1>3, <1>4, <1>5

LEMMA ListLengths ==
  ASSUME NEW a \in Lists
  PROVE  /\ Len(a) \in 0 .. 6 /\ a = Built(Len(a))
         /\ \A i \in 1 .. Len(a) : a[i] = Order[i]
  <1>1. PICK n \in 0 .. 6 : a = Built(n)
    BY DEF Lists
  <1>2. n \in Nat /\ n <= 6 /\ n \in 0 .. 6
    OBVIOUS
  <1>3. Len(Built(n)) = n /\ \A i \in 1 .. n : Built(n)[i] = Order[i]
    BY <1>2, BuiltItems, Zenon
  <1>4. QED
    BY <1>1, <1>2, <1>3, Zenon

\* What is left of a destructor, and what is left of that after its next call.
LEMMA EndsStep ==
  ASSUME NEW S, NEW s \in Seq(S), NEW c \in Ends(s), c # <<>>
  PROVE  \E j \in 1 .. Len(s) :
           /\ c[1] = s[j] /\ Head(c) = s[j] /\ Len(c) = Len(s) - j + 1
           /\ Tail(c) \in Ends(s) /\ Len(Tail(c)) = Len(s) - j
  <1>1. PICK j \in 1 .. Len(s) + 1 : c = SubSeq(s, j, Len(s))
    BY DEF Ends
  <1>2. j \in 1 .. Len(s)
    BY <1>1
  <1>3. /\ c[1] = s[j] /\ Head(c) = s[j] /\ Len(c) = Len(s) - j + 1
        /\ Len(Tail(c)) = Len(s) - j
    BY <1>1, <1>2
  <1>4. Tail(c) = SubSeq(s, j + 1, Len(s))
    BY <1>1, <1>2, <1>3
  <1>5. j + 1 \in 1 .. Len(s) + 1
    BY <1>2
  <1>6. QED
    BY <1>2, <1>3, <1>4, <1>5 DEF Ends

LEMMA EndsWhole ==
  ASSUME NEW S, NEW s \in Seq(S)
  PROVE  s \in Ends(s)
  <1>1. s = SubSeq(s, 1, Len(s))
    OBVIOUS
  <1>2. 1 \in 1 .. Len(s) + 1
    OBVIOUS
  <1>3. QED
    BY <1>1, <1>2, Zenon DEF Ends

\* The destructors, call by call.
LEMMA Destructors ==
  ASSUME NEW n \in 1 .. 6
  PROVE  LET d == Destructor(Order[n])
         IN /\ d \in Seq({d[i] : i \in DOMAIN d})
            /\ (n = 1 => Len(d) = 0) /\ (n = 2 => Len(d) = 2)
            /\ (n = 3 => Len(d) = 6) /\ (n >= 4 => Len(d) = 1)
            /\ n = 2 => d[1] = SetAttr(ti) /\ d[2] = Close(ti, "tty")
            /\ n = 3 => /\ d[1] = Dup2(ps.true_stdout, "stdout", 1)
                        /\ d[2] = Close(ps.true_stdout, "stdout")
                        /\ d[3] = Close(ps.piped_stdout, "outR")
                        /\ d[4] = Dup2(ps.true_stdin, "stdin", 0)
                        /\ d[5] = Close(ps.true_stdin, "stdin")
                        /\ d[6] = Close(ps.piped_stdin, "inW")
            /\ n = 4 => d[1] = Close(ps.piped_stdout, "outR")
            /\ n = 5 => d[1] = Close(ps.true_stdin, "stdin")
            /\ n = 6 => d[1] = Close(0, "inR")
  <1>1. CASE n = 1
    BY <1>1 DEF Destructor, Order
  <1>2. CASE n = 2
    BY <1>2 DEF Destructor, Order, TermiosDestructor
  <1>3. CASE n = 3
    BY <1>3 DEF Destructor, Order, PipedStdioDestructor
  <1>4. CASE n = 4
    BY <1>4 DEF Destructor, Order
  <1>5. CASE n = 5
    BY <1>5 DEF Destructor, Order
  <1>6. CASE n = 6
    BY <1>6 DEF Destructor, Order
  <1>7. QED
    BY <1>1, <1>2, <1>3, <1>4, <1>5, <1>6

\* The lists by their lengths.
LEMMA ListIs ==
  ASSUME NEW a \in Lists
  PROVE  /\ (a = <<>>) <=> (Len(a) = 0)
         /\ (a = <<"cli">>) <=> (Len(a) = 1)
         /\ (a = <<"cli", "ti">>) <=> (Len(a) = 2)
         /\ (a = <<"cli", "ti", "ps">>) <=> (Len(a) = 3)
         /\ (a = <<"cli", "ti", "ps", "ost">>) <=> (Len(a) = 4)
         /\ (a = <<"cli", "ti", "ps", "ost", "ist">>) <=> (Len(a) = 5)
  <1>1. a = Built(Len(a))
    BY ListLengths, Zenon
  <1>2. /\ Len(Built(0)) = 0 /\ Len(Built(1)) = 1 /\ Len(Built(2)) = 2
        /\ Len(Built(3)) = 3 /\ Len(Built(4)) = 4 /\ Len(Built(5)) = 5
    <2>1. ASSUME NEW n \in Nat, n <= 6 PROVE Len(Built(n)) = n
      BY <2>1, BuiltItems, Zenon
    <2>2. 0 <= 6 /\ 1 <= 6 /\ 2 <= 6 /\ 3 <= 6 /\ 4 <= 6 /\ 5 <= 6
      OBVIOUS
    <2>3. QED
      BY <2>1, <2>2
  <1>3. QED
    BY <1>1, <1>2, BuiltLists, Zenon

LEMMA ListAppend ==
  ASSUME NEW a \in Lists, Len(a) <= 5
  PROVE  /\ Append(a, Order[Len(a) + 1]) \in Lists
         /\ Len(Append(a, Order[Len(a) + 1])) = Len(a) + 1
  <1> DEFINE n == Len(a)
  <1>1. n \in 0 .. 6 /\ a = Built(n)
    BY ListLengths, Zenon
  <1>2. n \in Nat /\ n <= 5 /\ n + 1 \in Nat /\ n + 1 <= 6 /\ n + 1 \in 0 .. 6
    BY <1>1
  <1> HIDE DEF n
  <1>3. Append(Built(n), Order[n + 1]) = Built(n + 1)
    BY <1>2, BuiltAppend, Zenon
  <1>4. Len(Built(n + 1)) = n + 1
    BY <1>2, BuiltItems, Zenon
  <1>5. Append(a, Order[n + 1]) \in Lists /\ Len(Append(a, Order[n + 1])) = n + 1
    BY <1>1, <1>2, <1>3, <1>4, Zenon DEF Lists
  <1>6. QED
    BY <1>5 DEF n

LEMMA ListFront ==
  ASSUME NEW a \in Lists, a # <<>>
  PROVE  /\ Len(a) \in 1 .. 6 /\ Last(a) = Order[Len(a)]
         /\ Front(a) \in Lists /\ Len(Front(a)) = Len(a) - 1
  <1> DEFINE n == Len(a) - 1
  <1>1. Len(a) \in 0 .. 6 /\ a = Built(Len(a)) /\ Len(a) # 0
    BY ListLengths, ListIs, Zenon
  <1>2. /\ n \in Nat /\ n <= 5 /\ n <= 6 /\ n \in 0 .. 6 /\ n + 1 = Len(a)
        /\ Len(a) \in 1 .. 6
    <2>1. ASSUME NEW k \in 0 .. 6, k # 0
          PROVE  /\ k - 1 \in Nat /\ k - 1 <= 5 /\ k - 1 <= 6 /\ k - 1 \in 0 .. 6
                 /\ (k - 1) + 1 = k /\ k \in 1 .. 6
      BY <2>1
    <2>2. QED
      BY <1>1, <2>1, Zenon
  <1> HIDE DEF n
  <1>3. Front(Built(n + 1)) = Built(n) /\ Last(Built(n + 1)) = Order[n + 1]
    BY <1>2, BuiltAppend, Zenon
  <1>4. Len(Built(n)) = n
    BY <1>2, BuiltItems, Zenon
  <1>5. Front(a) \in Lists /\ Len(Front(a)) = n /\ Last(a) = Order[Len(a)]
    BY <1>1, <1>2, <1>3, <1>4, Zenon DEF Lists
  <1>6. QED
    BY <1>2, <1>5 DEF n

LEMMA ListContains ==
  ASSUME NEW a \in Lists
  PROVE  /\ Contains(a, "ist") <=> Len(a) >= 5
         /\ Contains(a, "st") <=> Len(a) = 6
  <1>1. Len(a) \in 0 .. 6 /\ \A i \in 1 .. Len(a) : a[i] = Order[i]
    BY ListLengths, Zenon
  <1>2. \A i \in 1 .. 6 : (Order[i] = "ist" <=> i = 5) /\ (Order[i] = "st" <=> i = 6)
    BY OrderItems
  <1>3. QED
    BY <1>1, <1>2 DEF Contains

-----------------------------------------------------------------------------
(* Construction. *)

LEMMA InitTInv == Init => TInv
  <1> SUFFICES ASSUME Init PROVE TInv
    OBVIOUS
  <1>1. PICK i \in 0 .. MaxInherited :
          fds = [n \in Numbers |-> CASE n = 0 -> "stdin" [] n = 1 -> "stdout" [] n = 2 -> "stderr"
                                     [] n \in 3 .. 2 + i -> "inherited" [] OTHER -> None]
    BY DEF Init
  <1>2. \A n \in Numbers : n \in Nat
    BY DEF Numbers
  <1>3. /\ 0 \in Numbers /\ 1 \in Numbers /\ 2 \in Numbers
    BY TerminalAssumption DEF Numbers
  <1>4. /\ fds[0] = "stdin" /\ fds[1] = "stdout" /\ fds[2] = "stderr"
        /\ \A n \in Numbers \ 0 .. 2 : fds[n] = IF n <= 2 + i THEN "inherited" ELSE None
    <2>1. ASSUME NEW n \in Numbers \ 0 .. 2 PROVE n # 0 /\ n # 1 /\ n # 2 /\ n >= 3
      BY <1>2
    <2>2. QED
      BY <1>1, <1>2, <1>3, <2>1
  <1>5. fds \in [Numbers -> Files]
    BY <1>1 DEF Files
  <1>6. Packed(fds, 3 + i) /\ 3 + i \in 3 .. 3 + MaxInherited
    BY <1>2, <1>4, <1>5, TerminalAssumption DEF Packed, None
  <1>7. objects = <<>> /\ whole = <<>> /\ calls = <<>> /\ main = "constructing" /\ strays = {}
    BY DEF Init
  <1>8. <<>> \in Lists /\ Len(<<>>) = 0
    BY BuiltLists DEF Lists
  <1>9. Control
    BY <1>7, <1>8 DEF Control
  <1>10. mode = "cooked" /\ ti = -1 /\ NoPipes
         /\ ps \in [{"piped_stdout", "true_stdout", "piped_stdin", "true_stdin"} -> Int]
    BY DEF Init, NoPipes
  <1>11. Layout
    BY <1>4, <1>5, <1>10 DEF Layout, NoPipes, Owned
  <1>12. Packing
    <2>1. 3 + i \in 3 .. 3 + MaxInherited + Len(objects)
      BY <1>6, <1>7, <1>8, TerminalAssumption
    <2>2. QED
      BY <1>4, <1>6, <1>10, <2>1 DEF Packing, TtyHeld
  <1>13. QED
    BY <1>7, <1>8, <1>9, <1>11, <1>12
       DEF TInv, Serving, Unwinding, EndsAsItBegan, NoStrayCall

\* A constructor adds its object to the list.
LEMMA Added ==
  ASSUME Control, NEW x, Adds(x), Len(objects) <= 5, x = Order[Len(objects) + 1],
         UNCHANGED <<whole, calls>>,
         main' = IF Len(objects) = 5 THEN "running" ELSE "constructing"
  PROVE  Control' /\ Len(objects') = Len(objects) + 1
  <1>1. objects \in Lists /\ main = "constructing" /\ calls = <<>> /\ Len(objects) \in 0 .. 5
    <2>1. objects \in Lists /\ main = "constructing" /\ calls = <<>>
      BY DEF Control, Adds
    <2>2. Len(objects) \in 0 .. 6
      BY <2>1, ListLengths, Zenon
    <2>3. ASSUME NEW k \in 0 .. 6, k <= 5 PROVE k \in 0 .. 5
      BY <2>3
    <2>4. QED
      BY <2>1, <2>2, <2>3, Zenon
  <1>2. objects' \in Lists /\ Len(objects') = Len(objects) + 1
    BY <1>1, ListAppend, Zenon DEF Adds
  <1>3. whole' \in Lists /\ calls' = <<>>
    BY <1>1 DEF Control
  <1> DEFINE m == Len(objects)
             m1 == Len(objects')
  <1>4. m \in 0 .. 5 /\ m1 = m + 1 /\ main' = IF m = 5 THEN "running" ELSE "constructing"
    BY <1>1, <1>2, Zenon
  <1> HIDE DEF m, m1
  <1>5. /\ main' \in {"constructing", "running"}
        /\ main' = "constructing" => m1 # 6
        /\ main' = "running" => m1 = 6
    BY <1>4
  <1>6. QED
    BY <1>2, <1>3, <1>5 DEF Control, m, m1

LEMMA MakeClientTInv == TInv /\ MakeClient => TInv'
  <1> SUFFICES ASSUME TInv, MakeClient PROVE TInv'
    OBVIOUS
  <1>1. objects \in Lists /\ main = "constructing" /\ Len(objects) = 0
    BY ListIs DEF TInv, Control, MakeClient, Adds
  <1>2. Control' /\ Len(objects') = 1
    BY <1>1, Added, OrderItems DEF TInv, MakeClient
  <1>3. PICK k \in 3 .. 3 + MaxInherited : Packed(fds, k)
    BY <1>1, TerminalAssumption DEF TInv, Packing
  <1>4. /\ k \in Numbers /\ k \in Nat /\ 3 <= k /\ k <= 9 + MaxInherited
        /\ fds' = [fds EXCEPT ![k] = "socket"] /\ Packed(fds', k + 1)
    <2>1. k <= 9 + MaxInherited /\ k \in Nat /\ "socket" \in Files \ {None}
      BY <1>3, TerminalAssumption DEF Files, None
    <2>2. QED
      BY <1>3, <2>1, OpenedPacked DEF MakeClient
  <1>5. /\ fds[0] = "stdin" /\ fds[1] = "stdout" /\ NoPipes /\ TtyHeld /\ ti = -1
    BY <1>1 DEF TInv, Packing
  <1>6. fds \in [Numbers -> Files] /\ fds' \in [Numbers -> Files]
    BY <1>4 DEF TInv, Layout, Files
  <1>7. Layout'
    BY <1>4, <1>5, <1>6 DEF TInv, Layout, MakeClient, Owned, NoPipes
  <1>8. Packing'
    <2>1. k + 1 \in 3 .. 3 + MaxInherited + Len(objects')
      BY <1>2, <1>3, <1>4, TerminalAssumption
    <2>2. fds'[0] = "stdin" /\ fds'[1] = "stdout"
      BY <1>4, <1>5, <1>6 DEF Numbers
    <2>3. TtyHeld' /\ NoPipes' /\ ti' = -1
      BY <1>5 DEF TtyHeld, NoPipes, MakeClient, Holds, Numbers
    <2>4. QED
      BY <1>2, <1>4, <2>1, <2>2, <2>3 DEF Packing
  <1>9. QED
    BY <1>1, <1>2, <1>7, <1>8
       DEF TInv, MakeClient, Serving, Unwinding, EndsAsItBegan, NoStrayCall

LEMMA MakeTermiosTInv == TInv /\ MakeTermios => TInv'
  <1> SUFFICES ASSUME TInv, MakeTermios PROVE TInv'
    OBVIOUS
  <1>1. objects \in Lists /\ main = "constructing" /\ Len(objects) = 1
    BY ListIs DEF TInv, Control, MakeTermios, Adds
  <1>2. Control' /\ Len(objects') = 2
    BY <1>1, Added, OrderItems DEF TInv, MakeTermios
  <1>3. PICK k \in 3 .. 4 + MaxInherited : Packed(fds, k)
    BY <1>1, TerminalAssumption DEF TInv, Packing
  <1>4. /\ k \in Numbers /\ k \in Nat /\ 3 <= k /\ k <= 9 + MaxInherited
        /\ Lowest(fds) = k /\ Opened(fds, "tty") = [fds EXCEPT ![k] = "tty"]
        /\ Packed([fds EXCEPT ![k] = "tty"], k + 1)
    <2>1. k <= 9 + MaxInherited /\ k \in Nat /\ "tty" \in Files \ {None}
      BY <1>3, TerminalAssumption DEF Files, None
    <2>2. QED
      BY <1>3, <2>1, OpenedPacked
  <1>5. /\ fds[0] = "stdin" /\ fds[1] = "stdout" /\ NoPipes /\ TtyHeld /\ ti = -1
    BY <1>1 DEF TInv, Packing
  <1>6. fds \in [Numbers -> Files] /\ mode = "cooked"
    BY <1>5 DEF TInv, Layout, TtyHeld, Holds, Numbers
  <1>7. CASE ti' = Lowest(fds) /\ fds' = Opened(fds, "tty") /\ mode' = "raw"
    <2>1. fds' = [fds EXCEPT ![k] = "tty"] /\ ti' = k /\ fds' \in [Numbers -> Files]
      BY <1>4, <1>6, <1>7 DEF Files
    <2>2. Holds(fds', ti', "tty")
      BY <1>4, <1>6, <2>1 DEF Holds
    <2>3. Layout'
      <3>1. /\ NoPipes' /\ ps' = ps /\ mode' \in {"cooked", "raw"}
            /\ ps \in [{"piped_stdout", "true_stdout", "piped_stdin", "true_stdin"} -> Int]
        BY <1>5, <1>7 DEF TInv, Layout, NoPipes, MakeTermios
      <3>2. ASSUME NEW n \in Numbers \ 0 .. 2
            PROVE  fds'[n] \in {None, "inherited", "socket"} \/ (fds'[n] = "tty" /\ n = ti')
        <4>1. fds[n] \in {None, "inherited", "socket"}
          <5>1. n # -1
            BY DEF Numbers
          <5>2. QED
            BY <1>5, <5>1 DEF TInv, Layout, NoPipes
        <4>2. QED
          BY <1>4, <1>6, <2>1, <4>1
      <3>3. QED
        BY <2>1, <2>2, <3>1, <3>2 DEF Layout, Owned, NoPipes
    <2>4. Packing'
      <3>1. k + 1 \in 3 .. 3 + MaxInherited + Len(objects')
        BY <1>2, <1>3, <1>4, TerminalAssumption
      <3>2. fds'[0] = "stdin" /\ fds'[1] = "stdout"
        BY <1>4, <1>5, <1>6, <2>1 DEF Numbers
      <3>3. TtyHeld' /\ NoPipes'
        BY <1>5, <1>7, <2>2 DEF TtyHeld, NoPipes, MakeTermios
      <3>4. QED
        BY <1>2, <1>4, <2>1, <3>1, <3>2, <3>3 DEF Packing
    <2>5. QED
      BY <1>1, <1>2, <2>3, <2>4
         DEF TInv, MakeTermios, Serving, Unwinding, EndsAsItBegan, NoStrayCall
  <1>8. CASE ti' = -1 /\ UNCHANGED <<fds, mode>>
    <2>1. Layout'
      BY <1>5, <1>8 DEF TInv, Layout, MakeTermios, Owned, Holds
    <2>2. Packing'
      <3>1. k \in 3 .. 3 + MaxInherited + Len(objects')
        BY <1>2, <1>3, <1>4, TerminalAssumption
      <3>2. TtyHeld' /\ NoPipes'
        BY <1>5, <1>6, <1>8 DEF TtyHeld, NoPipes, MakeTermios
      <3>3. QED
        BY <1>2, <1>3, <1>5, <1>8, <3>1, <3>2 DEF Packing
    <2>3. QED
      BY <1>1, <1>2, <2>1, <2>2
         DEF TInv, MakeTermios, Serving, Unwinding, EndsAsItBegan, NoStrayCall
  <1>9. QED
    BY <1>7, <1>8 DEF MakeTermios

LEMMA MakePipesTInv == TInv /\ MakePipes => TInv'
  <1> SUFFICES ASSUME TInv, MakePipes PROVE TInv'
    OBVIOUS
  <1>1. objects \in Lists /\ main = "constructing" /\ Len(objects) = 2
    BY ListIs DEF TInv, Control, MakePipes, Adds
  <1>2. Control' /\ Len(objects') = 3
    BY <1>1, Added, OrderItems DEF TInv, MakePipes
  <1>3. PICK k \in 3 .. 5 + MaxInherited : Packed(fds, k)
    BY <1>1, TerminalAssumption DEF TInv, Packing
  <1>4. /\ k \in Nat /\ 3 <= k /\ k <= 5 + MaxInherited
        /\ {0, 1, k, k + 2, k + 3, k + 4} \subseteq Numbers
        /\ \A n \in Numbers : n \in Nat
    BY <1>3, TerminalAssumption DEF Numbers
  <1>5. fds[0] = "stdin" /\ fds[1] = "stdout" /\ NoPipes /\ TtyHeld
    BY <1>1 DEF TInv, Packing
  <1>6. /\ fds' = [fds EXCEPT ![0] = "inR", ![1] = "outW", ![k] = "outR", ![k + 2] = "stdout",
                              ![k + 3] = "inW", ![k + 4] = "stdin"]
        /\ ps' = [n \in DOMAIN ps |->
                    [piped_stdout |-> k, true_stdout |-> k + 2,
                     piped_stdin |-> k + 3, true_stdin |-> k + 4][n]]
    <2>1. Pipes(fds) =
            [table |-> [fds EXCEPT ![0] = "inR", ![1] = "outW", ![k] = "outR", ![k + 2] = "stdout",
                                   ![k + 3] = "inW", ![k + 4] = "stdin"],
             piped_stdout |-> k, true_stdout |-> k + 2,
             piped_stdin |-> k + 3, true_stdin |-> k + 4]
      BY <1>3, <1>4, <1>5, PipesEffect
    <2>2. DOMAIN ps = {"piped_stdout", "true_stdout", "piped_stdin", "true_stdin"}
      BY DEF TInv, Layout
    <2>3. fds' = Pipes(fds).table /\ ps' = [n \in DOMAIN ps |-> Pipes(fds)[n]]
      BY DEF MakePipes
    <2>4. fds' = [fds EXCEPT ![0] = "inR", ![1] = "outW", ![k] = "outR", ![k + 2] = "stdout",
                              ![k + 3] = "inW", ![k + 4] = "stdin"]
      BY <2>1, <2>3
    <2>5. QED
      BY <2>1, <2>2, <2>3, <2>4
  <1>7. /\ ps' \in [{"piped_stdout", "true_stdout", "piped_stdin", "true_stdin"} -> Int]
        /\ ps'.piped_stdout = k /\ ps'.true_stdout = k + 2
        /\ ps'.piped_stdin = k + 3 /\ ps'.true_stdin = k + 4
    <2>1. DOMAIN ps = {"piped_stdout", "true_stdout", "piped_stdin", "true_stdin"}
      BY DEF TInv, Layout
    <2>2. QED
      BY <1>4, <1>6, <2>1
  <1>8. fds \in [Numbers -> Files] /\ fds' \in [Numbers -> Files]
    BY <1>6 DEF TInv, Layout, Files
  <1>9. /\ fds'[0] = "inR" /\ fds'[1] = "outW"
        /\ fds'[k] = "outR" /\ fds'[k + 2] = "stdout"
        /\ fds'[k + 3] = "inW" /\ fds'[k + 4] = "stdin"
    BY <1>4, <1>6, <1>8
  <1>10. \A n \in Numbers : n \notin {0, 1, k, k + 2, k + 3, k + 4} => fds'[n] = fds[n]
    BY <1>4, <1>6, <1>8
  <1>11. UNCHANGED <<ti, mode, whole, calls, strays, main>>
    BY DEF MakePipes
  <1>12. TtyHeld'
    <2>1. Holds(fds, ti, "tty") => Holds(fds', ti, "tty")
      <3>1. \A n \in Numbers : fds[n] = "tty" => ~(n >= k)
        BY <1>3 DEF Packed, None
      <3>2. \A n \in Numbers \ 0 .. 2 : fds[n] = "tty" => n \notin {0, 1, k, k + 2, k + 3, k + 4}
        BY <1>4, <3>1
      <3>3. QED
        BY <1>10, <3>2 DEF Holds
    <2>2. QED
      BY <1>5, <1>11, <2>1 DEF TtyHeld
  <1>13. /\ Holds(fds', ps'.piped_stdout, "outR") /\ Holds(fds', ps'.true_stdout, "stdout")
         /\ Holds(fds', ps'.piped_stdin, "inW") /\ Holds(fds', ps'.true_stdin, "stdin")
    BY <1>4, <1>7, <1>9 DEF Holds
  <1>14. \A n \in Numbers : fds'[n] \notin {None, "socket"} => n <= 9 + MaxInherited
    <2>1. ASSUME NEW n \in Numbers, fds'[n] \notin {None, "socket"} PROVE n <= 9 + MaxInherited
      <3>1. CASE n \in {0, 1, k, k + 2, k + 3, k + 4}
        BY <1>4, <3>1, TerminalAssumption
      <3>2. CASE n \notin {0, 1, k, k + 2, k + 3, k + 4}
        <4>1. fds[n] # None
          BY <1>10, <2>1, <3>2
        <4>2. ~(n >= k)
          BY <1>3, <4>1 DEF Packed
        <4>3. QED
          BY <1>4, <4>2, TerminalAssumption
      <3>3. QED
        BY <3>1, <3>2
    <2>2. QED
      BY <2>1
  <1>15. Assembled'
    BY <1>9, <1>12, <1>13, <1>14 DEF Assembled
  <1>16. Layout'
    <2>1. ASSUME NEW n \in Numbers \ 0 .. 2
          PROVE  \/ fds'[n] \in {None, "inherited", "socket"}
                 \/ fds'[n] = "tty" /\ n = ti
                 \/ fds'[n] = "outR" /\ n = ps'.piped_stdout
                 \/ fds'[n] = "stdout" /\ n = ps'.true_stdout
                 \/ fds'[n] = "inW" /\ n = ps'.piped_stdin
                 \/ fds'[n] = "stdin" /\ n = ps'.true_stdin
      <3>1. CASE n \in {k, k + 2, k + 3, k + 4}
        BY <1>4, <1>7, <1>9, <3>1
      <3>2. CASE n \notin {k, k + 2, k + 3, k + 4}
        <4>1. fds[n] \in {None, "inherited", "socket"} \/ (fds[n] = "tty" /\ n = ti)
          <5>1. n # -1
            BY <1>4
          <5>2. QED
            BY <1>5, <5>1 DEF TInv, Layout, NoPipes
        <4>2. fds'[n] = fds[n]
          <5>1. n # 0 /\ n # 1
            OBVIOUS
          <5>2. QED
            BY <1>10, <3>2, <5>1
        <4>3. QED
          BY <4>1, <4>2
      <3>3. QED
        BY <3>1, <3>2
    <2>2. Owned(ti, "tty")'
      BY <1>11, <1>12 DEF TtyHeld, Owned
    <2>3. mode' \in {"cooked", "raw"}
      BY <1>11 DEF TInv, Layout
    <2>4. QED
      BY <1>7, <1>8, <1>11, <1>13, <2>1, <2>2, <2>3 DEF Layout, Owned
  <1>17. Packing' /\ Serving' /\ Unwinding' /\ EndsAsItBegan' /\ NoStrayCall'
    BY <1>1, <1>2, <1>11, <1>15
       DEF TInv, Packing, Serving, Unwinding, EndsAsItBegan, NoStrayCall
  <1>18. QED
    BY <1>2, <1>16, <1>17 DEF TInv

LEMMA MakeStreamTInv == TInv /\ MakeStream => TInv'
  <1> SUFFICES ASSUME TInv, MakeStream PROVE TInv'
    OBVIOUS
  <1>1. /\ objects \in Lists /\ main = "constructing" /\ Len(objects) \in {3, 4, 5}
        /\ main' = IF Len(objects) = 5 THEN "running" ELSE "constructing"
    <2>1. objects \in Lists /\ main = "constructing"
      BY DEF TInv, Control, MakeStream, Adds
    <2>2. \/ objects = <<"cli", "ti", "ps">> /\ main' = main
          \/ objects = <<"cli", "ti", "ps", "ost">> /\ main' = main
          \/ objects = <<"cli", "ti", "ps", "ost", "ist">> /\ main' = "running"
      BY DEF MakeStream
    <2>3. \/ Len(objects) = 3 /\ main' = main
          \/ Len(objects) = 4 /\ main' = main
          \/ Len(objects) = 5 /\ main' = "running"
      BY <2>1, <2>2, ListIs, Zenon
    <2>4. QED
      BY <2>1, <2>3
  <1>2. Adds(Order[Len(objects) + 1])
    <2>1. \/ objects = <<"cli", "ti", "ps">> /\ Adds("ost")
          \/ objects = <<"cli", "ti", "ps", "ost">> /\ Adds("ist")
          \/ objects = <<"cli", "ti", "ps", "ost", "ist">> /\ Adds("st")
      BY DEF MakeStream
    <2>2. \/ Len(objects) = 3 /\ Adds("ost")
          \/ Len(objects) = 4 /\ Adds("ist")
          \/ Len(objects) = 5 /\ Adds("st")
      BY <1>1, <2>1, ListIs, Zenon
    <2>3. /\ Len(objects) = 3 => Order[Len(objects) + 1] = "ost"
          /\ Len(objects) = 4 => Order[Len(objects) + 1] = "ist"
          /\ Len(objects) = 5 => Order[Len(objects) + 1] = "st"
      <3>1. ASSUME NEW m
            PROVE  /\ m = 3 => Order[m + 1] = "ost"
                   /\ m = 4 => Order[m + 1] = "ist"
                   /\ m = 5 => Order[m + 1] = "st"
        BY OrderItems
      <3>2. QED
        BY <3>1, Zenon
    <2>4. QED
      BY <2>2, <2>3, Zenon
  <1> DEFINE m == Len(objects)
             m1 == Len(objects')
  <1>m. m \in {3, 4, 5} /\ main' = IF m = 5 THEN "running" ELSE "constructing"
    BY <1>1, Zenon
  <1>3. Len(objects) <= 5 /\ UNCHANGED <<whole, calls>>
    <2> HIDE DEF m
    <2>1. m <= 5
      BY <1>m
    <2>2. UNCHANGED <<whole, calls>>
      BY DEF MakeStream
    <2>3. QED
      BY <2>1, <2>2, Zenon DEF m
  <1>4. Control' /\ Len(objects') = Len(objects) + 1
    BY <1>1, <1>2, <1>3, Added DEF TInv
  <1>5. UNCHANGED <<fds, mode, ti, ps, strays>> /\ Assembled
    BY <1>1 DEF TInv, MakeStream, Serving
  <1>6. Layout' /\ Assembled' /\ NoStrayCall'
    BY <1>5 DEF TInv, Layout, Assembled, TtyHeld, Owned, NoStrayCall
  <1>n. m1 = m + 1
    BY <1>4
  <1> HIDE DEF m, m1
  <1>7. ~(m1 <= 2) /\ main' # "unwinding" /\ main' # "ended"
    BY <1>m, <1>n
  <1>8. Packing' /\ Serving' /\ Unwinding' /\ EndsAsItBegan'
    BY <1>6, <1>7 DEF Packing, Serving, Unwinding, EndsAsItBegan, m1
  <1>9. QED
    BY <1>4, <1>6, <1>8 DEF TInv

-----------------------------------------------------------------------------
(* From the construction, or from the loop, to the destruction. *)

\* Nothing of piped_stdio's has been undone.
LEMMA AssembledUnwinding ==
  ASSUME TInv, Assembled, Len(objects) \in 3 .. 6, calls = <<>>,
         main' = "unwinding", whole' = objects,
         UNCHANGED <<fds, mode, ti, ps, objects, calls, strays>>
  PROVE  TInv'
  <1> DEFINE m == Len(objects)
  <1>m. m \in 3 .. 6
    BY Zenon
  <1>1. objects \in Lists /\ objects # <<>> /\ Len(objects) \notin {1, 2}
    <2>1. objects \in Lists
      BY DEF TInv, Control
    <2>2. m \notin {1, 2} /\ m # 0
      <3> HIDE DEF m
      <3>1. QED
        BY <1>m
    <2>3. QED
      BY <2>1, <2>2, ListIs, Zenon
  <1>2. Control'
    BY <1>1 DEF Control
  <1>3. Layout' /\ NoStrayCall'
    BY DEF TInv, Layout, Owned, NoStrayCall
  <1>4. /\ ~Made(3, 5)' /\ ~Made(3, 4)' /\ ~Made(3, 3)' /\ ~Made(3, 2)' /\ ~Made(3, 1)'
        /\ ~Made(3, 0)' /\ ~Made(2, 1)'
        /\ Len(objects) = 6 => ~Made(6, 0)'
        /\ Len(objects) >= 5 => ~Made(5, 0)'
    <2>1. ASSUME NEW c
          PROVE  /\ \A left \in 0 .. 5 : ~MadeAt(m, c, 3, left)
                 /\ \A left \in 0 .. 1 : ~MadeAt(m, c, 2, left)
                 /\ m = 6 => ~MadeAt(m, c, 6, 0)
                 /\ m >= 5 => ~MadeAt(m, c, 5, 0)
      <3> HIDE DEF m
      <3>1. QED
        BY <1>m DEF MadeAt
    <2>2. {0, 1, 2, 3, 4, 5} \subseteq 0 .. 5 /\ {0, 1} \subseteq 0 .. 1
      OBVIOUS
    <2>3. objects' = objects
      OBVIOUS
    <2>4. QED
      BY <2>1, <2>2, <2>3, Zenon DEF Made
  <1>5. Unwinding'
    <2>1. ~(HadSt' /\ Made(6, 0)') /\ ~(HadIst' /\ Made(5, 0)')
      BY <1>4, Zenon DEF HadSt, HadIst
    <2>2. whole' # <<>> /\ TtyHeld'
      BY <1>1 DEF Assembled, TtyHeld
    <2>3. QED
      BY <1>4, <2>1, <2>2 DEF Unwinding, Undone, Behind, Assembled
  <1>6. Packing' /\ Serving' /\ EndsAsItBegan'
    BY DEF Packing, Serving, EndsAsItBegan
  <1>7. QED
    BY <1>2, <1>3, <1>5, <1>6 DEF TInv

LEMMA ConstructorThrowsTInv == TInv /\ ConstructorThrows => TInv'
  <1> SUFFICES ASSUME TInv, ConstructorThrows PROVE TInv'
    OBVIOUS
  <1>1. /\ objects \in Lists /\ main = "constructing" /\ calls = <<>>
        /\ Len(objects) \in 0 .. 6 /\ Len(objects) # 6 /\ Len(objects) # 1 /\ Len(objects) # 2
    BY ListIs, ListLengths DEF TInv, Control, ConstructorThrows
  <1>2. CASE Len(objects) = 0
    <2>1. /\ fds[0] = "stdin" /\ fds[1] = "stdout" /\ NoPipes /\ TtyHeld /\ ti = -1
      BY <1>1, <1>2 DEF TInv, Packing
    <2>2. mode = "cooked"
      BY <2>1 DEF TtyHeld, Holds, Numbers
    <2>3. objects = <<>>
      BY <1>1, <1>2, ListIs
    <2>4. Control' /\ Layout' /\ NoStrayCall'
      BY <1>1, <1>2 DEF TInv, Control, ConstructorThrows, Layout, Owned, NoStrayCall
    <2>5. Packing' /\ Serving' /\ Unwinding' /\ EndsAsItBegan'
      BY <2>1, <2>2, <2>3
         DEF ConstructorThrows, Packing, Serving, Unwinding, EndsAsItBegan, NoPipes
    <2>6. QED
      BY <2>4, <2>5 DEF TInv
  <1>3. CASE Len(objects) # 0
    <2>0. ASSUME NEW m \in 0 .. 6, m # 6, m # 0, m # 1, m # 2
          PROVE  m \in 3 .. 6 /\ m >= 3
      BY <2>0
    <2>1. Len(objects) \in 3 .. 6 /\ Len(objects) >= 3
      BY <1>1, <1>3, <2>0, Zenon
    <2>2. Assembled
      BY <1>1, <2>1, Zenon DEF TInv, Serving
    <2>3. QED
      BY <1>1, <2>1, <2>2, AssembledUnwinding DEF ConstructorThrows
  <1>4. QED
    BY <1>2, <1>3

LEMMA LoopBreaksTInv == TInv /\ LoopBreaks => TInv'
  <1> SUFFICES ASSUME TInv, LoopBreaks PROVE TInv'
    OBVIOUS
  <1>1. Assembled /\ Len(objects) \in 3 .. 6 /\ calls = <<>>
    BY DEF TInv, Control, Serving, LoopBreaks
  <1>2. QED
    BY <1>1, AssembledUnwinding DEF LoopBreaks

-----------------------------------------------------------------------------
(* The sockets of the loop. *)

LEMMA SocketTInv ==
  ASSUME TInv, main = "running", NEW n \in Numbers, NEW f \in {None, "socket"},
         fds[n] \in {None, "socket"}, fds' = [fds EXCEPT ![n] = f],
         UNCHANGED <<mode, ti, ps, objects, whole, calls, strays, main>>
  PROVE  TInv'
  <1>1. Assembled /\ Len(objects) = 6
    BY DEF TInv, Control, Serving
  <1>2. fds \in [Numbers -> Files] /\ fds' \in [Numbers -> Files]
    BY DEF TInv, Layout, Files
  <1>3. /\ fds'[n] = f
        /\ \A m \in Numbers : m # n => fds'[m] = fds[m]
    BY <1>2
  <1>4. \A m, file : file \notin {None, "socket"} /\ Holds(fds, m, file) => Holds(fds', m, file)
    BY <1>3 DEF Holds
  <1>5. /\ Holds(fds', ps.piped_stdout, "outR") /\ Holds(fds', ps.true_stdout, "stdout")
        /\ Holds(fds', ps.piped_stdin, "inW") /\ Holds(fds', ps.true_stdin, "stdin")
        /\ (Holds(fds, ti, "tty") => Holds(fds', ti, "tty"))
    BY <1>1, <1>4 DEF Assembled, None
  <1>6. TtyHeld'
    BY <1>1, <1>5 DEF Assembled, TtyHeld
  <1>7. fds'[0] = "inR" /\ fds'[1] = "outW"
    <2>1. 0 \in Numbers /\ 1 \in Numbers
      BY TerminalAssumption DEF Numbers
    <2>2. QED
      BY <1>1, <1>3, <2>1 DEF Assembled, None
  <1>8. Assembled'
    BY <1>1, <1>3, <1>5, <1>6, <1>7 DEF Assembled
  <1>9. Layout'
    <2>1. \A m \in Numbers \ 0 .. 2 :
            \/ fds'[m] \in {None, "inherited", "socket"}
            \/ fds'[m] = "tty" /\ m = ti
            \/ fds'[m] = "outR" /\ m = ps.piped_stdout
            \/ fds'[m] = "stdout" /\ m = ps.true_stdout
            \/ fds'[m] = "inW" /\ m = ps.piped_stdin
            \/ fds'[m] = "stdin" /\ m = ps.true_stdin
      BY <1>3 DEF TInv, Layout
    <2>2. Owned(ti, "tty")'
      BY <1>6 DEF TtyHeld, Owned
    <2>3. QED
      BY <1>2, <1>5, <2>1, <2>2 DEF TInv, Layout, Owned
  <1>10. Control' /\ NoStrayCall' /\ Packing' /\ Serving' /\ Unwinding' /\ EndsAsItBegan'
    <2>1. Control'
      BY DEF TInv, Control
    <2>2. QED
      BY <1>8, <2>1 DEF TInv, NoStrayCall, Packing, Serving, Unwinding, EndsAsItBegan
  <1>11. QED
    BY <1>8, <1>9, <1>10 DEF TInv

LEMMA OpenSocketTInv == TInv /\ OpenSocket => TInv'
  <1> SUFFICES ASSUME TInv, OpenSocket PROVE TInv'
    OBVIOUS
  <1>1. \A n \in Numbers : fds[n] \notin {None, "socket"} => n <= 9 + MaxInherited
    BY DEF TInv, Serving, Assembled, OpenSocket
  <1>2. \E n \in Numbers : fds[n] = None
    BY <1>1, RoomForSocket DEF OpenSocket
  <1>3. Lowest(fds) \in Numbers /\ fds[Lowest(fds)] = None
    BY <1>2, LowestIsFree
  <1>4. QED
    BY <1>3, SocketTInv DEF OpenSocket, Opened

LEMMA CloseSocketTInv == TInv /\ CloseSocket => TInv'
  <1> SUFFICES ASSUME TInv, CloseSocket PROVE TInv'
    OBVIOUS
  <1>1. PICK n \in Numbers : fds[n] = "socket" /\ fds' = [fds EXCEPT ![n] = None]
    BY DEF CloseSocket
  <1>2. QED
    BY <1>1, SocketTInv DEF CloseSocket

-----------------------------------------------------------------------------
(* Destruction. *)

\* The next object's destructor has made nothing before its first call.
LEMMA UnwindTInv == TInv /\ Unwind => TInv'
  <1> SUFFICES ASSUME TInv, Unwind PROVE TInv'
    OBVIOUS
  <1> DEFINE m == Len(objects)
             w == Len(whole)
             d == Destructor(Order[m])
  <1>1. /\ objects \in Lists /\ whole \in Lists /\ objects # <<>>
        /\ main = "unwinding" /\ calls = <<>> /\ m <= w
    BY DEF TInv, Control, Unwind
  <1>2. /\ m \in 1 .. 6 /\ Last(objects) = Order[m]
        /\ objects' \in Lists /\ Len(objects') = m - 1
    BY <1>1, ListFront, Zenon DEF Unwind
  <1>3. w \in 0 .. 6
    BY <1>1, ListLengths, Zenon
  <1>4. /\ UNCHANGED <<fds, mode, ti, ps, whole, strays, main>> /\ calls' = d
    BY <1>2 DEF Unwind
  <1>5. /\ d \in Seq({d[i] : i \in DOMAIN d})
        /\ (m = 1 => Len(d) = 0) /\ (m = 2 => Len(d) = 2)
        /\ (m = 3 => Len(d) = 6) /\ (m >= 4 => Len(d) = 1)
    BY <1>2, Destructors, Zenon
  <1>6. d \in Ends(d)
    BY <1>5, EndsWhole, Zenon
  <1>7. Control'
    <2>1. (m - 1) + 1 = m /\ m - 1 < w /\ m - 1 <= w
      <3> HIDE DEF m, w
      <3>1. QED
        BY <1>1, <1>2, <1>3
    <2>2. Len(whole) \notin {1, 2}
      BY <1>1 DEF TInv, Control
    <2>3. (calls \in Ends(Destructor(Order[Len(objects) + 1])))'
      <3>1. ASSUME NEW o PROVE Destructor(o)' = Destructor(o)
        BY <1>4 DEF Destructor, TermiosDestructor, PipedStdioDestructor
      <3>2. calls' \in Ends(Destructor(Order[Len(objects') + 1]))
        BY <1>2, <1>4, <1>6, <2>1, Zenon
      <3>3. QED
        BY <3>1, <3>2, Zenon
    <2>4. Len(objects') <= Len(whole') /\ Len(objects') < Len(whole')
      BY <1>2, <1>4, <2>1, Zenon
    <2>5. main' = "unwinding" /\ whole' \in Lists /\ Len(whole') \notin {1, 2}
      BY <1>1, <1>4, <2>2
    <2> HIDE DEF m, w, d
    <2>6. QED
      BY <1>2, <2>3, <2>4, <2>5 DEF Control
  <1>8. /\ Made(3, 5)' = Made(3, 5) /\ Made(3, 4)' = Made(3, 4) /\ Made(3, 3)' = Made(3, 3)
        /\ Made(3, 2)' = Made(3, 2) /\ Made(3, 1)' = Made(3, 1) /\ Made(3, 0)' = Made(3, 0)
        /\ Made(2, 1)' = Made(2, 1) /\ Made(2, 0)' = Made(2, 0)
        /\ Made(5, 0)' = Made(5, 0) /\ Made(6, 0)' = Made(6, 0)
    <2>1. Len(calls) = 0
      BY <1>1
    <2>2. ASSUME NEW c, m = 1 => c = 0, m = 2 => c = 2, m = 3 => c = 6, m >= 4 => c = 1
          PROVE  /\ \A left \in 0 .. 5 : MadeAt(m - 1, c, 3, left) = MadeAt(m, 0, 3, left)
                 /\ \A left \in 0 .. 1 : MadeAt(m - 1, c, 2, left) = MadeAt(m, 0, 2, left)
                 /\ MadeAt(m - 1, c, 5, 0) = MadeAt(m, 0, 5, 0)
                 /\ MadeAt(m - 1, c, 6, 0) = MadeAt(m, 0, 6, 0)
      <3> HIDE DEF m
      <3>1. QED
        BY <1>2, <2>2 DEF MadeAt
    <2>3. {0, 1, 2, 3, 4, 5} \subseteq 0 .. 5 /\ {0, 1} \subseteq 0 .. 1
      OBVIOUS
    <2>4. /\ (m = 1 => Len(calls') = 0) /\ (m = 2 => Len(calls') = 2)
          /\ (m = 3 => Len(calls') = 6) /\ (m >= 4 => Len(calls') = 1)
      BY <1>4, <1>5, Zenon
    <2> DEFINE c1 == Len(calls')
    <2>5. /\ \A left \in 0 .. 5 : MadeAt(m - 1, c1, 3, left) = MadeAt(m, 0, 3, left)
          /\ \A left \in 0 .. 1 : MadeAt(m - 1, c1, 2, left) = MadeAt(m, 0, 2, left)
          /\ MadeAt(m - 1, c1, 5, 0) = MadeAt(m, 0, 5, 0)
          /\ MadeAt(m - 1, c1, 6, 0) = MadeAt(m, 0, 6, 0)
      BY <2>2, <2>4, Zenon
    <2>6. ASSUME NEW n, NEW left
          PROVE  /\ Made(n, left) = MadeAt(m, 0, n, left)
                 /\ Made(n, left)' = MadeAt(m - 1, c1, n, left)
      BY <1>2, <2>1, Zenon DEF Made
    <2> HIDE DEF d, c1, m
    <2>7. QED
      BY <2>3, <2>5, <2>6
  <1>9. Layout' /\ NoStrayCall'
    BY <1>4 DEF TInv, Layout, Owned, NoStrayCall
  <1>10. Unwinding'
    <2>1. CASE whole = <<>>
      BY <1>1, <1>4, <2>1 DEF TInv, Unwinding, NoPipes
    <2>2. CASE whole # <<>>
      <3>1. /\ HadSt' = HadSt /\ HadIst' = HadIst /\ StdinLeft' = StdinLeft
            /\ TtyHeld' = TtyHeld /\ TtyLeft' = TtyLeft
        BY <1>4 DEF HadSt, HadIst, StdinLeft, TtyHeld, TtyLeft
      <3>2. Undone
        BY <1>1, <2>2 DEF TInv, Unwinding
      <3>3. Undone'
        BY <1>4, <1>8, <3>1, <3>2 DEF Undone, Behind
      <3>4. QED
        BY <1>4, <2>2, <3>3 DEF Unwinding
    <2>3. QED
      BY <2>1, <2>2
  <1>11. QED
    BY <1>1, <1>4, <1>7, <1>9, <1>10 DEF TInv, Packing, Serving, EndsAsItBegan

\* A close by an owner, of a number that holds its file or that another has closed.
LEMMA CloseEffect ==
  ASSUME TInv, Call, NEW x, NEW f \in Files \ {None}, Head(calls) = Close(x, f),
         x = -1 \/ (x \in Numbers /\ fds[x] \in {f, None})
  PROVE  /\ Layout' /\ mode' = mode /\ strays' = strays
         /\ \A n : Holds(fds, n, None) => Holds(fds', n, None)
         /\ \A n, g : g \notin {f, None} /\ Holds(fds, n, g) => Holds(fds', n, g)
         /\ x \in Numbers \ 0 .. 2 => Holds(fds', x, None)
         /\ fds'[0] = IF x = 0 THEN None ELSE fds[0]
         /\ fds'[1] = IF x = 1 THEN None ELSE fds[1]
  <1>1. fds \in [Numbers -> Files] /\ {0, 1} \subseteq Numbers /\ -1 \notin Numbers
    BY TerminalAssumption DEF TInv, Layout, Numbers
  <1>2. /\ fds' = IF x \in Numbers /\ fds[x] # None THEN [fds EXCEPT ![x] = None] ELSE fds
        /\ mode' = mode /\ strays' = strays
    BY <1>1 DEF Call, Close
  <1>3. /\ fds' \in [Numbers -> Files]
        /\ \A n \in Numbers : fds'[n] = IF n = x THEN None ELSE fds[n]
    BY <1>1, <1>2 DEF Files
  <1>4. UNCHANGED <<ti, ps>>
    BY DEF Call
  <1>5. \A n, g : Owned(n, g) => Owned(n, g)'
    BY <1>3 DEF Owned, Holds
  <1>6. /\ mode \in {"cooked", "raw"}
        /\ ps \in [{"piped_stdout", "true_stdout", "piped_stdin", "true_stdin"} -> Int]
        /\ Owned(ti, "tty")
        /\ Owned(ps.piped_stdout, "outR") /\ Owned(ps.true_stdout, "stdout")
        /\ Owned(ps.piped_stdin, "inW") /\ Owned(ps.true_stdin, "stdin")
    BY DEF TInv, Layout
  <1>7. \A n \in Numbers \ 0 .. 2 :
          \/ fds'[n] \in {None, "inherited", "socket"}
          \/ fds'[n] = "tty" /\ n = ti'
          \/ fds'[n] = "outR" /\ n = ps'.piped_stdout
          \/ fds'[n] = "stdout" /\ n = ps'.true_stdout
          \/ fds'[n] = "inW" /\ n = ps'.piped_stdin
          \/ fds'[n] = "stdin" /\ n = ps'.true_stdin
    BY <1>3, <1>4 DEF TInv, Layout
  <1>8. Layout'
    <2>1. Owned(ti, "tty")'
      BY <1>4, <1>5, <1>6
    <2>2. Owned(ps.piped_stdout, "outR")' /\ Owned(ps.true_stdout, "stdout")'
      BY <1>4, <1>5, <1>6
    <2>3. Owned(ps.piped_stdin, "inW")' /\ Owned(ps.true_stdin, "stdin")'
      BY <1>4, <1>5, <1>6
    <2>4. QED
      BY <1>2, <1>3, <1>4, <1>6, <1>7, <2>1, <2>2, <2>3 DEF Layout
  <1>9. \A n : Holds(fds, n, None) => Holds(fds', n, None)
    BY <1>3 DEF Holds
  <1>10. ASSUME NEW n, NEW g, g \notin {f, None}, Holds(fds, n, g) PROVE Holds(fds', n, g)
    BY <1>1, <1>3, <1>10 DEF Holds
  <1>11. x \in Numbers \ 0 .. 2 => Holds(fds', x, None)
    BY <1>3 DEF Holds
  <1>12. /\ fds'[0] = IF x = 0 THEN None ELSE fds[0]
         /\ fds'[1] = IF x = 1 THEN None ELSE fds[1]
    BY <1>1, <1>3
  <1>13. QED
    BY <1>2, <1>8, <1>9, <1>10, <1>11, <1>12

\* A copy of a number that holds its file onto a standard one, and of one that is closed.
LEMMA CopyEffect ==
  ASSUME TInv, Call, NEW x \in Numbers \ 0 .. 2, NEW f \in Files \ {None}, NEW to \in {0, 1},
         Head(calls) = Dup2(x, f, to), fds[x] \in {f, None}
  PROVE  /\ Layout' /\ mode' = mode /\ strays' = strays
         /\ \A n, g : Holds(fds', n, g) <=> Holds(fds, n, g)
         /\ fds'[to] = IF fds[x] = None THEN fds[to] ELSE f
         /\ \A n \in {0, 1} : n # to => fds'[n] = fds[n]
  <1>1. fds \in [Numbers -> Files] /\ {0, 1} \subseteq Numbers
    BY TerminalAssumption DEF TInv, Layout, Numbers
  <1>2. /\ fds' = IF fds[x] # None THEN [fds EXCEPT ![to] = fds[x]] ELSE fds
        /\ mode' = mode /\ strays' = strays
    <2>1. /\ Head(calls).call = "dup2" /\ Head(calls).on = x
          /\ Head(calls).file = f /\ Head(calls).to = to
      BY DEF Dup2
    <2>2. QED
      BY <1>1, <2>1 DEF Call
  <1>3. /\ fds' \in [Numbers -> Files]
        /\ fds'[to] = IF fds[x] = None THEN fds[to] ELSE f
        /\ \A n \in Numbers : n # to => fds'[n] = fds[n]
    BY <1>1, <1>2
  <1>4. UNCHANGED <<ti, ps>>
    BY DEF Call
  <1>5. \A n \in Numbers \ 0 .. 2 : fds'[n] = fds[n]
    BY <1>3
  <1>6. \A n, g : Holds(fds', n, g) <=> Holds(fds, n, g)
    BY <1>5 DEF Holds
  <1>7. Layout'
    BY <1>2, <1>3, <1>4, <1>5, <1>6, Zenon DEF TInv, Layout, Owned
  <1>8. QED
    BY <1>1, <1>2, <1>3, <1>6, <1>7



\* What a call leaves alone.
LEMMA CallFrame ==
  ASSUME Call
  PROVE  /\ UNCHANGED <<ti, ps, objects, whole, main>>
         /\ HadSt' = HadSt /\ HadIst' = HadIst /\ StdinLeft' = StdinLeft
  BY DEF Call, HadSt, HadIst, StdinLeft

LEMMA RawTermiosCall1 ==
  ASSUME TInv, Call, Undone, Len(objects) = 1, Len(calls) = 2, Len(calls') = 1,
         Head(calls) = SetAttr(ti)
  PROVE  Layout' /\ Undone' /\ strays' = strays
  <1>1. /\ UNCHANGED <<ti, ps, objects, whole, main>>
        /\ HadSt' = HadSt /\ HadIst' = HadIst /\ StdinLeft' = StdinLeft
    BY CallFrame, Zenon
  <1>a. /\ Made(3, 5) /\ Made(3, 4) /\ Made(3, 3) /\ Made(3, 2) /\ Made(3, 1) /\ Made(3, 0)
        /\ Made(6, 0) /\ Made(5, 0) /\ ~Made(2, 1) /\ ~Made(2, 0)
    <2>1. /\ MadeAt(1, 2, 3, 5) /\ MadeAt(1, 2, 3, 4) /\ MadeAt(1, 2, 3, 3)
          /\ MadeAt(1, 2, 3, 2) /\ MadeAt(1, 2, 3, 1) /\ MadeAt(1, 2, 3, 0)
          /\ MadeAt(1, 2, 6, 0) /\ MadeAt(1, 2, 5, 0)
          /\ ~MadeAt(1, 2, 2, 1) /\ ~MadeAt(1, 2, 2, 0)
      BY DEF MadeAt
    <2>2. ASSUME NEW n, NEW left PROVE Made(n, left) = MadeAt(1, 2, n, left)
      BY Zenon DEF Made
    <2>3. QED
      BY <2>1, <2>2
  <1>b. /\ Made(3, 5)' /\ Made(3, 4)' /\ Made(3, 3)' /\ Made(3, 2)' /\ Made(3, 1)' /\ Made(3, 0)'
        /\ Made(6, 0)' /\ Made(5, 0)' /\ Made(2, 1)' /\ ~Made(2, 0)'
    <2>1. /\ MadeAt(1, 1, 3, 5) /\ MadeAt(1, 1, 3, 4) /\ MadeAt(1, 1, 3, 3)
          /\ MadeAt(1, 1, 3, 2) /\ MadeAt(1, 1, 3, 1) /\ MadeAt(1, 1, 3, 0)
          /\ MadeAt(1, 1, 6, 0) /\ MadeAt(1, 1, 5, 0)
          /\ MadeAt(1, 1, 2, 1) /\ ~MadeAt(1, 1, 2, 0)
      BY DEF MadeAt
    <2>2. ASSUME NEW n, NEW left PROVE Made(n, left)' = MadeAt(1, 1, n, left)
      BY <1>1, Zenon DEF Made
    <2>3. QED
      BY <2>1, <2>2
  <1>2. /\ Behind("stdout", None, None,
                  StdinLeft, None, None)
        /\ TtyHeld \/ TtyLeft
    BY <1>a DEF Undone
  <1>3. /\ fds' = fds /\ strays' = strays
        /\ mode' = IF ti \in Numbers /\ fds[ti] # None THEN "cooked" ELSE mode
    <2>1. /\ Head(calls).call = "tcsetattr" /\ Head(calls).on = ti
          /\ Head(calls).file = "tty"
      BY DEF SetAttr
    <2>2. ti \in Numbers /\ fds[ti] # None => fds[ti] = "tty"
      BY <1>2 DEF TtyHeld, TtyLeft, Holds, Numbers
    <2>3. QED
      BY <2>1, <2>2 DEF Call
  <1>4. Layout'
    BY <1>1, <1>3 DEF TInv, Layout, Owned
  <1>5. (Behind("stdout", None, None,
                StdinLeft, None, None))'
    BY <1>1, <1>2, <1>3, <1>4 DEF Behind, Holds, None, TtyLeft
  <1>6. (TtyLeft \/ (mode = "cooked" /\ Holds(fds, ti, "tty")))'
    BY <1>1, <1>2, <1>3, <1>4 DEF TtyHeld, TtyLeft, Holds, None
  <1>7. QED
    BY <1>1, <1>3, <1>b, <1>4, <1>5, <1>6 DEF Undone

LEMMA RawTermiosCall2 ==
  ASSUME TInv, Call, Undone, Len(objects) = 1, Len(calls) = 1, Len(calls') = 0,
         Head(calls) = Close(ti, "tty")
  PROVE  Layout' /\ Undone' /\ strays' = strays
  <1>1. /\ UNCHANGED <<ti, ps, objects, whole, main>>
        /\ HadSt' = HadSt /\ HadIst' = HadIst /\ StdinLeft' = StdinLeft
    BY CallFrame, Zenon
  <1>a. /\ Made(3, 5) /\ Made(3, 4) /\ Made(3, 3) /\ Made(3, 2) /\ Made(3, 1) /\ Made(3, 0)
        /\ Made(6, 0) /\ Made(5, 0) /\ Made(2, 1) /\ ~Made(2, 0)
    <2>1. /\ MadeAt(1, 1, 3, 5) /\ MadeAt(1, 1, 3, 4) /\ MadeAt(1, 1, 3, 3)
          /\ MadeAt(1, 1, 3, 2) /\ MadeAt(1, 1, 3, 1) /\ MadeAt(1, 1, 3, 0)
          /\ MadeAt(1, 1, 6, 0) /\ MadeAt(1, 1, 5, 0)
          /\ MadeAt(1, 1, 2, 1) /\ ~MadeAt(1, 1, 2, 0)
      BY DEF MadeAt
    <2>2. ASSUME NEW n, NEW left PROVE Made(n, left) = MadeAt(1, 1, n, left)
      BY Zenon DEF Made
    <2>3. QED
      BY <2>1, <2>2
  <1>b. /\ Made(3, 5)' /\ Made(3, 4)' /\ Made(3, 3)' /\ Made(3, 2)' /\ Made(3, 1)' /\ Made(3, 0)'
        /\ Made(6, 0)' /\ Made(5, 0)' /\ Made(2, 1)' /\ Made(2, 0)'
    <2>1. /\ MadeAt(1, 0, 3, 5) /\ MadeAt(1, 0, 3, 4) /\ MadeAt(1, 0, 3, 3)
          /\ MadeAt(1, 0, 3, 2) /\ MadeAt(1, 0, 3, 1) /\ MadeAt(1, 0, 3, 0)
          /\ MadeAt(1, 0, 6, 0) /\ MadeAt(1, 0, 5, 0)
          /\ MadeAt(1, 0, 2, 1) /\ MadeAt(1, 0, 2, 0)
      BY DEF MadeAt
    <2>2. ASSUME NEW n, NEW left PROVE Made(n, left)' = MadeAt(1, 0, n, left)
      BY <1>1, Zenon DEF Made
    <2>3. QED
      BY <2>1, <2>2
  <1>2. /\ Behind("stdout", None, None,
                  StdinLeft, None, None)
        /\ TtyLeft \/ (mode = "cooked" /\ Holds(fds, ti, "tty"))
    BY <1>a DEF Undone
  <1>3. ti = -1 \/ (ti \in Numbers /\ fds[ti] \in {"tty", None})
    BY <1>2, TerminalAssumption DEF Behind, Holds, TtyLeft
  <1>4. /\ Layout' /\ mode' = mode /\ strays' = strays
        /\ \A n : Holds(fds, n, None) => Holds(fds', n, None)
        /\ \A n, g : g \notin {"tty", None} /\ Holds(fds, n, g) => Holds(fds', n, g)
        /\ ti \in Numbers \ 0 .. 2 => Holds(fds', ti, None)
        /\ fds'[0] = IF ti = 0 THEN None ELSE fds[0]
        /\ fds'[1] = IF ti = 1 THEN None ELSE fds[1]
    <2>1. "tty" \in Files \ {None}
      BY DEF Files, None
    <2>2. QED
      BY <1>3, <2>1, CloseEffect
  <1>5. (Behind("stdout", None, None,
                StdinLeft, None, None))'
    BY <1>1, <1>2, <1>3, <1>4 DEF Behind, Holds, None, TtyLeft
  <1>6. (TtyLeft)'
    BY <1>1, <1>2, <1>3, <1>4 DEF TtyHeld, TtyLeft, Holds, None
  <1>7. QED
    BY <1>1, <1>b, <1>4, <1>5, <1>6 DEF Undone

LEMMA PipedStdioCall1 ==
  ASSUME TInv, Call, Undone, Len(objects) = 2, Len(calls) = 6, Len(calls') = 5,
         Head(calls) = Dup2(ps.true_stdout, "stdout", 1)
  PROVE  Layout' /\ Undone' /\ strays' = strays
  <1>1. /\ UNCHANGED <<ti, ps, objects, whole, main>>
        /\ HadSt' = HadSt /\ HadIst' = HadIst /\ StdinLeft' = StdinLeft
    BY CallFrame, Zenon
  <1>a. /\ ~Made(3, 5) /\ ~Made(3, 4) /\ ~Made(3, 3) /\ ~Made(3, 2) /\ ~Made(3, 1) /\ ~Made(3, 0)
        /\ Made(6, 0) /\ Made(5, 0) /\ ~Made(2, 1) /\ ~Made(2, 0)
    <2>1. /\ ~MadeAt(2, 6, 3, 5) /\ ~MadeAt(2, 6, 3, 4) /\ ~MadeAt(2, 6, 3, 3)
          /\ ~MadeAt(2, 6, 3, 2) /\ ~MadeAt(2, 6, 3, 1) /\ ~MadeAt(2, 6, 3, 0)
          /\ MadeAt(2, 6, 6, 0) /\ MadeAt(2, 6, 5, 0)
          /\ ~MadeAt(2, 6, 2, 1) /\ ~MadeAt(2, 6, 2, 0)
      BY DEF MadeAt
    <2>2. ASSUME NEW n, NEW left PROVE Made(n, left) = MadeAt(2, 6, n, left)
      BY Zenon DEF Made
    <2>3. QED
      BY <2>1, <2>2
  <1>b. /\ Made(3, 5)' /\ ~Made(3, 4)' /\ ~Made(3, 3)' /\ ~Made(3, 2)' /\ ~Made(3, 1)' /\ ~Made(3, 0)'
        /\ Made(6, 0)' /\ Made(5, 0)' /\ ~Made(2, 1)' /\ ~Made(2, 0)'
    <2>1. /\ MadeAt(2, 5, 3, 5) /\ ~MadeAt(2, 5, 3, 4) /\ ~MadeAt(2, 5, 3, 3)
          /\ ~MadeAt(2, 5, 3, 2) /\ ~MadeAt(2, 5, 3, 1) /\ ~MadeAt(2, 5, 3, 0)
          /\ MadeAt(2, 5, 6, 0) /\ MadeAt(2, 5, 5, 0)
          /\ ~MadeAt(2, 5, 2, 1) /\ ~MadeAt(2, 5, 2, 0)
      BY DEF MadeAt
    <2>2. ASSUME NEW n, NEW left PROVE Made(n, left)' = MadeAt(2, 5, n, left)
      BY <1>1, Zenon DEF Made
    <2>3. QED
      BY <2>1, <2>2
  <1>2. /\ Behind("outW", "stdout", "outR",
                  IF HadSt THEN None ELSE "inR", IF HadIst THEN None ELSE "stdin", "inW")
        /\ TtyHeld \/ TtyLeft
    BY <1>a DEF Undone
  <1>3. ps.true_stdout \in Numbers \ 0 .. 2 /\ fds[ps.true_stdout] \in {"stdout", None}
    BY <1>2 DEF Behind, Holds
  <1>4. /\ Layout' /\ mode' = mode /\ strays' = strays
        /\ \A n, g : Holds(fds', n, g) <=> Holds(fds, n, g)
        /\ fds'[1] = IF fds[ps.true_stdout] = None THEN fds[1] ELSE "stdout"
        /\ fds'[0] = fds[0]
    <2>1. "stdout" \in Files \ {None} /\ 1 \in {0, 1}
      BY DEF Files, None
    <2>2. QED
      BY <1>3, <2>1, CopyEffect
  <1>5. (Behind("stdout", "stdout", "outR",
                IF HadSt THEN None ELSE "inR", IF HadIst THEN None ELSE "stdin", "inW"))'
    BY <1>1, <1>2, <1>3, <1>4 DEF Behind, Holds, None
  <1>6. (TtyHeld \/ TtyLeft)'
    BY <1>1, <1>2, <1>3, <1>4 DEF TtyHeld, TtyLeft, None
  <1>7. QED
    BY <1>1, <1>b, <1>4, <1>5, <1>6 DEF Undone

LEMMA PipedStdioCall2 ==
  ASSUME TInv, Call, Undone, Len(objects) = 2, Len(calls) = 5, Len(calls') = 4,
         Head(calls) = Close(ps.true_stdout, "stdout")
  PROVE  Layout' /\ Undone' /\ strays' = strays
  <1>1. /\ UNCHANGED <<ti, ps, objects, whole, main>>
        /\ HadSt' = HadSt /\ HadIst' = HadIst /\ StdinLeft' = StdinLeft
    BY CallFrame, Zenon
  <1>a. /\ Made(3, 5) /\ ~Made(3, 4) /\ ~Made(3, 3) /\ ~Made(3, 2) /\ ~Made(3, 1) /\ ~Made(3, 0)
        /\ Made(6, 0) /\ Made(5, 0) /\ ~Made(2, 1) /\ ~Made(2, 0)
    <2>1. /\ MadeAt(2, 5, 3, 5) /\ ~MadeAt(2, 5, 3, 4) /\ ~MadeAt(2, 5, 3, 3)
          /\ ~MadeAt(2, 5, 3, 2) /\ ~MadeAt(2, 5, 3, 1) /\ ~MadeAt(2, 5, 3, 0)
          /\ MadeAt(2, 5, 6, 0) /\ MadeAt(2, 5, 5, 0)
          /\ ~MadeAt(2, 5, 2, 1) /\ ~MadeAt(2, 5, 2, 0)
      BY DEF MadeAt
    <2>2. ASSUME NEW n, NEW left PROVE Made(n, left) = MadeAt(2, 5, n, left)
      BY Zenon DEF Made
    <2>3. QED
      BY <2>1, <2>2
  <1>b. /\ Made(3, 5)' /\ Made(3, 4)' /\ ~Made(3, 3)' /\ ~Made(3, 2)' /\ ~Made(3, 1)' /\ ~Made(3, 0)'
        /\ Made(6, 0)' /\ Made(5, 0)' /\ ~Made(2, 1)' /\ ~Made(2, 0)'
    <2>1. /\ MadeAt(2, 4, 3, 5) /\ MadeAt(2, 4, 3, 4) /\ ~MadeAt(2, 4, 3, 3)
          /\ ~MadeAt(2, 4, 3, 2) /\ ~MadeAt(2, 4, 3, 1) /\ ~MadeAt(2, 4, 3, 0)
          /\ MadeAt(2, 4, 6, 0) /\ MadeAt(2, 4, 5, 0)
          /\ ~MadeAt(2, 4, 2, 1) /\ ~MadeAt(2, 4, 2, 0)
      BY DEF MadeAt
    <2>2. ASSUME NEW n, NEW left PROVE Made(n, left)' = MadeAt(2, 4, n, left)
      BY <1>1, Zenon DEF Made
    <2>3. QED
      BY <2>1, <2>2
  <1>2. /\ Behind("stdout", "stdout", "outR",
                  IF HadSt THEN None ELSE "inR", IF HadIst THEN None ELSE "stdin", "inW")
        /\ TtyHeld \/ TtyLeft
    BY <1>a DEF Undone
  <1>3. ps.true_stdout = -1 \/ (ps.true_stdout \in Numbers /\ fds[ps.true_stdout] \in {"stdout", None})
    BY <1>2, TerminalAssumption DEF Behind, Holds, TtyLeft
  <1>4. /\ Layout' /\ mode' = mode /\ strays' = strays
        /\ \A n : Holds(fds, n, None) => Holds(fds', n, None)
        /\ \A n, g : g \notin {"stdout", None} /\ Holds(fds, n, g) => Holds(fds', n, g)
        /\ ps.true_stdout \in Numbers \ 0 .. 2 => Holds(fds', ps.true_stdout, None)
        /\ fds'[0] = IF ps.true_stdout = 0 THEN None ELSE fds[0]
        /\ fds'[1] = IF ps.true_stdout = 1 THEN None ELSE fds[1]
    <2>1. "stdout" \in Files \ {None}
      BY DEF Files, None
    <2>2. QED
      BY <1>3, <2>1, CloseEffect
  <1>5. (Behind("stdout", None, "outR",
                IF HadSt THEN None ELSE "inR", IF HadIst THEN None ELSE "stdin", "inW"))'
    BY <1>1, <1>2, <1>3, <1>4 DEF Behind, Holds, None
  <1>6. (TtyHeld \/ TtyLeft)'
    BY <1>1, <1>2, <1>3, <1>4 DEF TtyHeld, TtyLeft, None
  <1>7. QED
    BY <1>1, <1>b, <1>4, <1>5, <1>6 DEF Undone

LEMMA PipedStdioCall3 ==
  ASSUME TInv, Call, Undone, Len(objects) = 2, Len(calls) = 4, Len(calls') = 3,
         Head(calls) = Close(ps.piped_stdout, "outR")
  PROVE  Layout' /\ Undone' /\ strays' = strays
  <1>1. /\ UNCHANGED <<ti, ps, objects, whole, main>>
        /\ HadSt' = HadSt /\ HadIst' = HadIst /\ StdinLeft' = StdinLeft
    BY CallFrame, Zenon
  <1>a. /\ Made(3, 5) /\ Made(3, 4) /\ ~Made(3, 3) /\ ~Made(3, 2) /\ ~Made(3, 1) /\ ~Made(3, 0)
        /\ Made(6, 0) /\ Made(5, 0) /\ ~Made(2, 1) /\ ~Made(2, 0)
    <2>1. /\ MadeAt(2, 4, 3, 5) /\ MadeAt(2, 4, 3, 4) /\ ~MadeAt(2, 4, 3, 3)
          /\ ~MadeAt(2, 4, 3, 2) /\ ~MadeAt(2, 4, 3, 1) /\ ~MadeAt(2, 4, 3, 0)
          /\ MadeAt(2, 4, 6, 0) /\ MadeAt(2, 4, 5, 0)
          /\ ~MadeAt(2, 4, 2, 1) /\ ~MadeAt(2, 4, 2, 0)
      BY DEF MadeAt
    <2>2. ASSUME NEW n, NEW left PROVE Made(n, left) = MadeAt(2, 4, n, left)
      BY Zenon DEF Made
    <2>3. QED
      BY <2>1, <2>2
  <1>b. /\ Made(3, 5)' /\ Made(3, 4)' /\ Made(3, 3)' /\ ~Made(3, 2)' /\ ~Made(3, 1)' /\ ~Made(3, 0)'
        /\ Made(6, 0)' /\ Made(5, 0)' /\ ~Made(2, 1)' /\ ~Made(2, 0)'
    <2>1. /\ MadeAt(2, 3, 3, 5) /\ MadeAt(2, 3, 3, 4) /\ MadeAt(2, 3, 3, 3)
          /\ ~MadeAt(2, 3, 3, 2) /\ ~MadeAt(2, 3, 3, 1) /\ ~MadeAt(2, 3, 3, 0)
          /\ MadeAt(2, 3, 6, 0) /\ MadeAt(2, 3, 5, 0)
          /\ ~MadeAt(2, 3, 2, 1) /\ ~MadeAt(2, 3, 2, 0)
      BY DEF MadeAt
    <2>2. ASSUME NEW n, NEW left PROVE Made(n, left)' = MadeAt(2, 3, n, left)
      BY <1>1, Zenon DEF Made
    <2>3. QED
      BY <2>1, <2>2
  <1>2. /\ Behind("stdout", None, "outR",
                  IF HadSt THEN None ELSE "inR", IF HadIst THEN None ELSE "stdin", "inW")
        /\ TtyHeld \/ TtyLeft
    BY <1>a DEF Undone
  <1>3. ps.piped_stdout = -1 \/ (ps.piped_stdout \in Numbers /\ fds[ps.piped_stdout] \in {"outR", None})
    BY <1>2, TerminalAssumption DEF Behind, Holds, TtyLeft
  <1>4. /\ Layout' /\ mode' = mode /\ strays' = strays
        /\ \A n : Holds(fds, n, None) => Holds(fds', n, None)
        /\ \A n, g : g \notin {"outR", None} /\ Holds(fds, n, g) => Holds(fds', n, g)
        /\ ps.piped_stdout \in Numbers \ 0 .. 2 => Holds(fds', ps.piped_stdout, None)
        /\ fds'[0] = IF ps.piped_stdout = 0 THEN None ELSE fds[0]
        /\ fds'[1] = IF ps.piped_stdout = 1 THEN None ELSE fds[1]
    <2>1. "outR" \in Files \ {None}
      BY DEF Files, None
    <2>2. QED
      BY <1>3, <2>1, CloseEffect
  <1>5. (Behind("stdout", None, None,
                IF HadSt THEN None ELSE "inR", IF HadIst THEN None ELSE "stdin", "inW"))'
    BY <1>1, <1>2, <1>3, <1>4 DEF Behind, Holds, None
  <1>6. (TtyHeld \/ TtyLeft)'
    BY <1>1, <1>2, <1>3, <1>4 DEF TtyHeld, TtyLeft, None
  <1>7. QED
    BY <1>1, <1>b, <1>4, <1>5, <1>6 DEF Undone

LEMMA PipedStdioCall4 ==
  ASSUME TInv, Call, Undone, Len(objects) = 2, Len(calls) = 3, Len(calls') = 2,
         Head(calls) = Dup2(ps.true_stdin, "stdin", 0)
  PROVE  Layout' /\ Undone' /\ strays' = strays
  <1>1. /\ UNCHANGED <<ti, ps, objects, whole, main>>
        /\ HadSt' = HadSt /\ HadIst' = HadIst /\ StdinLeft' = StdinLeft
    BY CallFrame, Zenon
  <1>a. /\ Made(3, 5) /\ Made(3, 4) /\ Made(3, 3) /\ ~Made(3, 2) /\ ~Made(3, 1) /\ ~Made(3, 0)
        /\ Made(6, 0) /\ Made(5, 0) /\ ~Made(2, 1) /\ ~Made(2, 0)
    <2>1. /\ MadeAt(2, 3, 3, 5) /\ MadeAt(2, 3, 3, 4) /\ MadeAt(2, 3, 3, 3)
          /\ ~MadeAt(2, 3, 3, 2) /\ ~MadeAt(2, 3, 3, 1) /\ ~MadeAt(2, 3, 3, 0)
          /\ MadeAt(2, 3, 6, 0) /\ MadeAt(2, 3, 5, 0)
          /\ ~MadeAt(2, 3, 2, 1) /\ ~MadeAt(2, 3, 2, 0)
      BY DEF MadeAt
    <2>2. ASSUME NEW n, NEW left PROVE Made(n, left) = MadeAt(2, 3, n, left)
      BY Zenon DEF Made
    <2>3. QED
      BY <2>1, <2>2
  <1>b. /\ Made(3, 5)' /\ Made(3, 4)' /\ Made(3, 3)' /\ Made(3, 2)' /\ ~Made(3, 1)' /\ ~Made(3, 0)'
        /\ Made(6, 0)' /\ Made(5, 0)' /\ ~Made(2, 1)' /\ ~Made(2, 0)'
    <2>1. /\ MadeAt(2, 2, 3, 5) /\ MadeAt(2, 2, 3, 4) /\ MadeAt(2, 2, 3, 3)
          /\ MadeAt(2, 2, 3, 2) /\ ~MadeAt(2, 2, 3, 1) /\ ~MadeAt(2, 2, 3, 0)
          /\ MadeAt(2, 2, 6, 0) /\ MadeAt(2, 2, 5, 0)
          /\ ~MadeAt(2, 2, 2, 1) /\ ~MadeAt(2, 2, 2, 0)
      BY DEF MadeAt
    <2>2. ASSUME NEW n, NEW left PROVE Made(n, left)' = MadeAt(2, 2, n, left)
      BY <1>1, Zenon DEF Made
    <2>3. QED
      BY <2>1, <2>2
  <1>2. /\ Behind("stdout", None, None,
                  IF HadSt THEN None ELSE "inR", IF HadIst THEN None ELSE "stdin", "inW")
        /\ TtyHeld \/ TtyLeft
    BY <1>a DEF Undone
  <1>3. ps.true_stdin \in Numbers \ 0 .. 2 /\ fds[ps.true_stdin] \in {"stdin", None}
    BY <1>2 DEF Behind, Holds
  <1>4. /\ Layout' /\ mode' = mode /\ strays' = strays
        /\ \A n, g : Holds(fds', n, g) <=> Holds(fds, n, g)
        /\ fds'[0] = IF fds[ps.true_stdin] = None THEN fds[0] ELSE "stdin"
        /\ fds'[1] = fds[1]
    <2>1. "stdin" \in Files \ {None} /\ 0 \in {0, 1}
      BY DEF Files, None
    <2>2. QED
      BY <1>3, <2>1, CopyEffect
  <1>h. HadSt => HadIst
    <2>1. \A m : m = 6 => m >= 5
      OBVIOUS
    <2>2. QED
      BY <2>1, Zenon DEF HadSt, HadIst
  <1>5. (Behind("stdout", None, None,
                StdinLeft, IF HadIst THEN None ELSE "stdin", "inW"))'
    BY <1>1, <1>2, <1>3, <1>4, <1>h DEF Behind, Holds, StdinLeft, None
  <1>6. (TtyHeld \/ TtyLeft)'
    BY <1>1, <1>2, <1>3, <1>4 DEF TtyHeld, TtyLeft, None
  <1>7. QED
    BY <1>1, <1>b, <1>4, <1>5, <1>6 DEF Undone

LEMMA PipedStdioCall5 ==
  ASSUME TInv, Call, Undone, Len(objects) = 2, Len(calls) = 2, Len(calls') = 1,
         Head(calls) = Close(ps.true_stdin, "stdin")
  PROVE  Layout' /\ Undone' /\ strays' = strays
  <1>1. /\ UNCHANGED <<ti, ps, objects, whole, main>>
        /\ HadSt' = HadSt /\ HadIst' = HadIst /\ StdinLeft' = StdinLeft
    BY CallFrame, Zenon
  <1>a. /\ Made(3, 5) /\ Made(3, 4) /\ Made(3, 3) /\ Made(3, 2) /\ ~Made(3, 1) /\ ~Made(3, 0)
        /\ Made(6, 0) /\ Made(5, 0) /\ ~Made(2, 1) /\ ~Made(2, 0)
    <2>1. /\ MadeAt(2, 2, 3, 5) /\ MadeAt(2, 2, 3, 4) /\ MadeAt(2, 2, 3, 3)
          /\ MadeAt(2, 2, 3, 2) /\ ~MadeAt(2, 2, 3, 1) /\ ~MadeAt(2, 2, 3, 0)
          /\ MadeAt(2, 2, 6, 0) /\ MadeAt(2, 2, 5, 0)
          /\ ~MadeAt(2, 2, 2, 1) /\ ~MadeAt(2, 2, 2, 0)
      BY DEF MadeAt
    <2>2. ASSUME NEW n, NEW left PROVE Made(n, left) = MadeAt(2, 2, n, left)
      BY Zenon DEF Made
    <2>3. QED
      BY <2>1, <2>2
  <1>b. /\ Made(3, 5)' /\ Made(3, 4)' /\ Made(3, 3)' /\ Made(3, 2)' /\ Made(3, 1)' /\ ~Made(3, 0)'
        /\ Made(6, 0)' /\ Made(5, 0)' /\ ~Made(2, 1)' /\ ~Made(2, 0)'
    <2>1. /\ MadeAt(2, 1, 3, 5) /\ MadeAt(2, 1, 3, 4) /\ MadeAt(2, 1, 3, 3)
          /\ MadeAt(2, 1, 3, 2) /\ MadeAt(2, 1, 3, 1) /\ ~MadeAt(2, 1, 3, 0)
          /\ MadeAt(2, 1, 6, 0) /\ MadeAt(2, 1, 5, 0)
          /\ ~MadeAt(2, 1, 2, 1) /\ ~MadeAt(2, 1, 2, 0)
      BY DEF MadeAt
    <2>2. ASSUME NEW n, NEW left PROVE Made(n, left)' = MadeAt(2, 1, n, left)
      BY <1>1, Zenon DEF Made
    <2>3. QED
      BY <2>1, <2>2
  <1>2. /\ Behind("stdout", None, None,
                  StdinLeft, IF HadIst THEN None ELSE "stdin", "inW")
        /\ TtyHeld \/ TtyLeft
    BY <1>a DEF Undone
  <1>3. ps.true_stdin = -1 \/ (ps.true_stdin \in Numbers /\ fds[ps.true_stdin] \in {"stdin", None})
    BY <1>2, TerminalAssumption DEF Behind, Holds, TtyLeft
  <1>4. /\ Layout' /\ mode' = mode /\ strays' = strays
        /\ \A n : Holds(fds, n, None) => Holds(fds', n, None)
        /\ \A n, g : g \notin {"stdin", None} /\ Holds(fds, n, g) => Holds(fds', n, g)
        /\ ps.true_stdin \in Numbers \ 0 .. 2 => Holds(fds', ps.true_stdin, None)
        /\ fds'[0] = IF ps.true_stdin = 0 THEN None ELSE fds[0]
        /\ fds'[1] = IF ps.true_stdin = 1 THEN None ELSE fds[1]
    <2>1. "stdin" \in Files \ {None}
      BY DEF Files, None
    <2>2. QED
      BY <1>3, <2>1, CloseEffect
  <1>5. (Behind("stdout", None, None,
                StdinLeft, None, "inW"))'
    BY <1>1, <1>2, <1>3, <1>4 DEF Behind, Holds, None
  <1>6. (TtyHeld \/ TtyLeft)'
    BY <1>1, <1>2, <1>3, <1>4 DEF TtyHeld, TtyLeft, None
  <1>7. QED
    BY <1>1, <1>b, <1>4, <1>5, <1>6 DEF Undone

LEMMA PipedStdioCall6 ==
  ASSUME TInv, Call, Undone, Len(objects) = 2, Len(calls) = 1, Len(calls') = 0,
         Head(calls) = Close(ps.piped_stdin, "inW")
  PROVE  Layout' /\ Undone' /\ strays' = strays
  <1>1. /\ UNCHANGED <<ti, ps, objects, whole, main>>
        /\ HadSt' = HadSt /\ HadIst' = HadIst /\ StdinLeft' = StdinLeft
    BY CallFrame, Zenon
  <1>a. /\ Made(3, 5) /\ Made(3, 4) /\ Made(3, 3) /\ Made(3, 2) /\ Made(3, 1) /\ ~Made(3, 0)
        /\ Made(6, 0) /\ Made(5, 0) /\ ~Made(2, 1) /\ ~Made(2, 0)
    <2>1. /\ MadeAt(2, 1, 3, 5) /\ MadeAt(2, 1, 3, 4) /\ MadeAt(2, 1, 3, 3)
          /\ MadeAt(2, 1, 3, 2) /\ MadeAt(2, 1, 3, 1) /\ ~MadeAt(2, 1, 3, 0)
          /\ MadeAt(2, 1, 6, 0) /\ MadeAt(2, 1, 5, 0)
          /\ ~MadeAt(2, 1, 2, 1) /\ ~MadeAt(2, 1, 2, 0)
      BY DEF MadeAt
    <2>2. ASSUME NEW n, NEW left PROVE Made(n, left) = MadeAt(2, 1, n, left)
      BY Zenon DEF Made
    <2>3. QED
      BY <2>1, <2>2
  <1>b. /\ Made(3, 5)' /\ Made(3, 4)' /\ Made(3, 3)' /\ Made(3, 2)' /\ Made(3, 1)' /\ Made(3, 0)'
        /\ Made(6, 0)' /\ Made(5, 0)' /\ ~Made(2, 1)' /\ ~Made(2, 0)'
    <2>1. /\ MadeAt(2, 0, 3, 5) /\ MadeAt(2, 0, 3, 4) /\ MadeAt(2, 0, 3, 3)
          /\ MadeAt(2, 0, 3, 2) /\ MadeAt(2, 0, 3, 1) /\ MadeAt(2, 0, 3, 0)
          /\ MadeAt(2, 0, 6, 0) /\ MadeAt(2, 0, 5, 0)
          /\ ~MadeAt(2, 0, 2, 1) /\ ~MadeAt(2, 0, 2, 0)
      BY DEF MadeAt
    <2>2. ASSUME NEW n, NEW left PROVE Made(n, left)' = MadeAt(2, 0, n, left)
      BY <1>1, Zenon DEF Made
    <2>3. QED
      BY <2>1, <2>2
  <1>2. /\ Behind("stdout", None, None,
                  StdinLeft, None, "inW")
        /\ TtyHeld \/ TtyLeft
    BY <1>a DEF Undone
  <1>3. ps.piped_stdin = -1 \/ (ps.piped_stdin \in Numbers /\ fds[ps.piped_stdin] \in {"inW", None})
    BY <1>2, TerminalAssumption DEF Behind, Holds, TtyLeft
  <1>4. /\ Layout' /\ mode' = mode /\ strays' = strays
        /\ \A n : Holds(fds, n, None) => Holds(fds', n, None)
        /\ \A n, g : g \notin {"inW", None} /\ Holds(fds, n, g) => Holds(fds', n, g)
        /\ ps.piped_stdin \in Numbers \ 0 .. 2 => Holds(fds', ps.piped_stdin, None)
        /\ fds'[0] = IF ps.piped_stdin = 0 THEN None ELSE fds[0]
        /\ fds'[1] = IF ps.piped_stdin = 1 THEN None ELSE fds[1]
    <2>1. "inW" \in Files \ {None}
      BY DEF Files, None
    <2>2. QED
      BY <1>3, <2>1, CloseEffect
  <1>5. (Behind("stdout", None, None,
                StdinLeft, None, None))'
    BY <1>1, <1>2, <1>3, <1>4 DEF Behind, Holds, None
  <1>6. (TtyHeld \/ TtyLeft)'
    BY <1>1, <1>2, <1>3, <1>4 DEF TtyHeld, TtyLeft, None
  <1>7. QED
    BY <1>1, <1>b, <1>4, <1>5, <1>6 DEF Undone

LEMMA OstCall ==
  ASSUME TInv, Call, Undone, Len(objects) = 3, Len(calls) = 1, Len(calls') = 0,
         Head(calls) = Close(ps.piped_stdout, "outR")
  PROVE  Layout' /\ Undone' /\ strays' = strays
  <1>1. /\ UNCHANGED <<ti, ps, objects, whole, main>>
        /\ HadSt' = HadSt /\ HadIst' = HadIst /\ StdinLeft' = StdinLeft
    BY CallFrame, Zenon
  <1>a. /\ ~Made(3, 5) /\ ~Made(3, 4) /\ ~Made(3, 3) /\ ~Made(3, 2) /\ ~Made(3, 1) /\ ~Made(3, 0)
        /\ Made(6, 0) /\ Made(5, 0) /\ ~Made(2, 1) /\ ~Made(2, 0)
    <2>1. /\ ~MadeAt(3, 1, 3, 5) /\ ~MadeAt(3, 1, 3, 4) /\ ~MadeAt(3, 1, 3, 3)
          /\ ~MadeAt(3, 1, 3, 2) /\ ~MadeAt(3, 1, 3, 1) /\ ~MadeAt(3, 1, 3, 0)
          /\ MadeAt(3, 1, 6, 0) /\ MadeAt(3, 1, 5, 0)
          /\ ~MadeAt(3, 1, 2, 1) /\ ~MadeAt(3, 1, 2, 0)
      BY DEF MadeAt
    <2>2. ASSUME NEW n, NEW left PROVE Made(n, left) = MadeAt(3, 1, n, left)
      BY Zenon DEF Made
    <2>3. QED
      BY <2>1, <2>2
  <1>b. /\ ~Made(3, 5)' /\ ~Made(3, 4)' /\ ~Made(3, 3)' /\ ~Made(3, 2)' /\ ~Made(3, 1)' /\ ~Made(3, 0)'
        /\ Made(6, 0)' /\ Made(5, 0)' /\ ~Made(2, 1)' /\ ~Made(2, 0)'
    <2>1. /\ ~MadeAt(3, 0, 3, 5) /\ ~MadeAt(3, 0, 3, 4) /\ ~MadeAt(3, 0, 3, 3)
          /\ ~MadeAt(3, 0, 3, 2) /\ ~MadeAt(3, 0, 3, 1) /\ ~MadeAt(3, 0, 3, 0)
          /\ MadeAt(3, 0, 6, 0) /\ MadeAt(3, 0, 5, 0)
          /\ ~MadeAt(3, 0, 2, 1) /\ ~MadeAt(3, 0, 2, 0)
      BY DEF MadeAt
    <2>2. ASSUME NEW n, NEW left PROVE Made(n, left)' = MadeAt(3, 0, n, left)
      BY <1>1, Zenon DEF Made
    <2>3. QED
      BY <2>1, <2>2
  <1>2. /\ Behind("outW", "stdout", "outR",
                  IF HadSt THEN None ELSE "inR", IF HadIst THEN None ELSE "stdin", "inW")
        /\ TtyHeld \/ TtyLeft
    BY <1>a DEF Undone
  <1>3. ps.piped_stdout = -1 \/ (ps.piped_stdout \in Numbers /\ fds[ps.piped_stdout] \in {"outR", None})
    BY <1>2, TerminalAssumption DEF Behind, Holds, TtyLeft
  <1>4. /\ Layout' /\ mode' = mode /\ strays' = strays
        /\ \A n : Holds(fds, n, None) => Holds(fds', n, None)
        /\ \A n, g : g \notin {"outR", None} /\ Holds(fds, n, g) => Holds(fds', n, g)
        /\ ps.piped_stdout \in Numbers \ 0 .. 2 => Holds(fds', ps.piped_stdout, None)
        /\ fds'[0] = IF ps.piped_stdout = 0 THEN None ELSE fds[0]
        /\ fds'[1] = IF ps.piped_stdout = 1 THEN None ELSE fds[1]
    <2>1. "outR" \in Files \ {None}
      BY DEF Files, None
    <2>2. QED
      BY <1>3, <2>1, CloseEffect
  <1>5. (Behind("outW", "stdout", "outR",
                IF HadSt THEN None ELSE "inR", IF HadIst THEN None ELSE "stdin", "inW"))'
    BY <1>1, <1>2, <1>3, <1>4 DEF Behind, Holds, None
  <1>6. (TtyHeld \/ TtyLeft)'
    BY <1>1, <1>2, <1>3, <1>4 DEF TtyHeld, TtyLeft, None
  <1>7. QED
    BY <1>1, <1>b, <1>4, <1>5, <1>6 DEF Undone

LEMMA IstCall ==
  ASSUME TInv, Call, Undone, Len(objects) = 4, Len(calls) = 1, Len(calls') = 0,
         Head(calls) = Close(ps.true_stdin, "stdin"), HadIst
  PROVE  Layout' /\ Undone' /\ strays' = strays
  <1>1. /\ UNCHANGED <<ti, ps, objects, whole, main>>
        /\ HadSt' = HadSt /\ HadIst' = HadIst /\ StdinLeft' = StdinLeft
    BY CallFrame, Zenon
  <1>a. /\ ~Made(3, 5) /\ ~Made(3, 4) /\ ~Made(3, 3) /\ ~Made(3, 2) /\ ~Made(3, 1) /\ ~Made(3, 0)
        /\ Made(6, 0) /\ ~Made(5, 0) /\ ~Made(2, 1) /\ ~Made(2, 0)
    <2>1. /\ ~MadeAt(4, 1, 3, 5) /\ ~MadeAt(4, 1, 3, 4) /\ ~MadeAt(4, 1, 3, 3)
          /\ ~MadeAt(4, 1, 3, 2) /\ ~MadeAt(4, 1, 3, 1) /\ ~MadeAt(4, 1, 3, 0)
          /\ MadeAt(4, 1, 6, 0) /\ ~MadeAt(4, 1, 5, 0)
          /\ ~MadeAt(4, 1, 2, 1) /\ ~MadeAt(4, 1, 2, 0)
      BY DEF MadeAt
    <2>2. ASSUME NEW n, NEW left PROVE Made(n, left) = MadeAt(4, 1, n, left)
      BY Zenon DEF Made
    <2>3. QED
      BY <2>1, <2>2
  <1>b. /\ ~Made(3, 5)' /\ ~Made(3, 4)' /\ ~Made(3, 3)' /\ ~Made(3, 2)' /\ ~Made(3, 1)' /\ ~Made(3, 0)'
        /\ Made(6, 0)' /\ Made(5, 0)' /\ ~Made(2, 1)' /\ ~Made(2, 0)'
    <2>1. /\ ~MadeAt(4, 0, 3, 5) /\ ~MadeAt(4, 0, 3, 4) /\ ~MadeAt(4, 0, 3, 3)
          /\ ~MadeAt(4, 0, 3, 2) /\ ~MadeAt(4, 0, 3, 1) /\ ~MadeAt(4, 0, 3, 0)
          /\ MadeAt(4, 0, 6, 0) /\ MadeAt(4, 0, 5, 0)
          /\ ~MadeAt(4, 0, 2, 1) /\ ~MadeAt(4, 0, 2, 0)
      BY DEF MadeAt
    <2>2. ASSUME NEW n, NEW left PROVE Made(n, left)' = MadeAt(4, 0, n, left)
      BY <1>1, Zenon DEF Made
    <2>3. QED
      BY <2>1, <2>2
  <1>2. /\ Behind("outW", "stdout", "outR",
                  IF HadSt THEN None ELSE "inR", "stdin", "inW")
        /\ TtyHeld \/ TtyLeft
    BY <1>a DEF Undone
  <1>3. ps.true_stdin = -1 \/ (ps.true_stdin \in Numbers /\ fds[ps.true_stdin] \in {"stdin", None})
    BY <1>2, TerminalAssumption DEF Behind, Holds, TtyLeft
  <1>4. /\ Layout' /\ mode' = mode /\ strays' = strays
        /\ \A n : Holds(fds, n, None) => Holds(fds', n, None)
        /\ \A n, g : g \notin {"stdin", None} /\ Holds(fds, n, g) => Holds(fds', n, g)
        /\ ps.true_stdin \in Numbers \ 0 .. 2 => Holds(fds', ps.true_stdin, None)
        /\ fds'[0] = IF ps.true_stdin = 0 THEN None ELSE fds[0]
        /\ fds'[1] = IF ps.true_stdin = 1 THEN None ELSE fds[1]
    <2>1. "stdin" \in Files \ {None}
      BY DEF Files, None
    <2>2. QED
      BY <1>3, <2>1, CloseEffect
  <1>5. (Behind("outW", "stdout", "outR",
                IF HadSt THEN None ELSE "inR", IF HadIst THEN None ELSE "stdin", "inW"))'
    BY <1>1, <1>2, <1>3, <1>4 DEF Behind, Holds, None
  <1>6. (TtyHeld \/ TtyLeft)'
    BY <1>1, <1>2, <1>3, <1>4 DEF TtyHeld, TtyLeft, None
  <1>7. QED
    BY <1>1, <1>b, <1>4, <1>5, <1>6 DEF Undone

LEMMA StCall ==
  ASSUME TInv, Call, Undone, Len(objects) = 5, Len(calls) = 1, Len(calls') = 0,
         Head(calls) = Close(0, "inR"), HadSt
  PROVE  Layout' /\ Undone' /\ strays' = strays
  <1>1. /\ UNCHANGED <<ti, ps, objects, whole, main>>
        /\ HadSt' = HadSt /\ HadIst' = HadIst /\ StdinLeft' = StdinLeft
    BY CallFrame, Zenon
  <1>a. /\ ~Made(3, 5) /\ ~Made(3, 4) /\ ~Made(3, 3) /\ ~Made(3, 2) /\ ~Made(3, 1) /\ ~Made(3, 0)
        /\ ~Made(6, 0) /\ ~Made(5, 0) /\ ~Made(2, 1) /\ ~Made(2, 0)
    <2>1. /\ ~MadeAt(5, 1, 3, 5) /\ ~MadeAt(5, 1, 3, 4) /\ ~MadeAt(5, 1, 3, 3)
          /\ ~MadeAt(5, 1, 3, 2) /\ ~MadeAt(5, 1, 3, 1) /\ ~MadeAt(5, 1, 3, 0)
          /\ ~MadeAt(5, 1, 6, 0) /\ ~MadeAt(5, 1, 5, 0)
          /\ ~MadeAt(5, 1, 2, 1) /\ ~MadeAt(5, 1, 2, 0)
      BY DEF MadeAt
    <2>2. ASSUME NEW n, NEW left PROVE Made(n, left) = MadeAt(5, 1, n, left)
      BY Zenon DEF Made
    <2>3. QED
      BY <2>1, <2>2
  <1>b. /\ ~Made(3, 5)' /\ ~Made(3, 4)' /\ ~Made(3, 3)' /\ ~Made(3, 2)' /\ ~Made(3, 1)' /\ ~Made(3, 0)'
        /\ Made(6, 0)' /\ ~Made(5, 0)' /\ ~Made(2, 1)' /\ ~Made(2, 0)'
    <2>1. /\ ~MadeAt(5, 0, 3, 5) /\ ~MadeAt(5, 0, 3, 4) /\ ~MadeAt(5, 0, 3, 3)
          /\ ~MadeAt(5, 0, 3, 2) /\ ~MadeAt(5, 0, 3, 1) /\ ~MadeAt(5, 0, 3, 0)
          /\ MadeAt(5, 0, 6, 0) /\ ~MadeAt(5, 0, 5, 0)
          /\ ~MadeAt(5, 0, 2, 1) /\ ~MadeAt(5, 0, 2, 0)
      BY DEF MadeAt
    <2>2. ASSUME NEW n, NEW left PROVE Made(n, left)' = MadeAt(5, 0, n, left)
      BY <1>1, Zenon DEF Made
    <2>3. QED
      BY <2>1, <2>2
  <1>2. /\ Behind("outW", "stdout", "outR",
                  "inR", "stdin", "inW")
        /\ TtyHeld \/ TtyLeft
    BY <1>a DEF Undone
  <1>3. 0 = -1 \/ (0 \in Numbers /\ fds[0] \in {"inR", None})
    BY <1>2, TerminalAssumption DEF Behind, Holds, TtyLeft, Numbers
  <1>4. /\ Layout' /\ mode' = mode /\ strays' = strays
        /\ \A n : Holds(fds, n, None) => Holds(fds', n, None)
        /\ \A n, g : g \notin {"inR", None} /\ Holds(fds, n, g) => Holds(fds', n, g)
        /\ 0 \in Numbers \ 0 .. 2 => Holds(fds', 0, None)
        /\ fds'[0] = IF 0 = 0 THEN None ELSE fds[0]
        /\ fds'[1] = IF 0 = 1 THEN None ELSE fds[1]
    <2>1. "inR" \in Files \ {None}
      BY DEF Files, None
    <2>2. QED
      BY <1>3, <2>1, CloseEffect
  <1>5. (Behind("outW", "stdout", "outR",
                IF HadSt THEN None ELSE "inR", "stdin", "inW"))'
    BY <1>1, <1>2, <1>3, <1>4 DEF Behind, Holds, None
  <1>6. (TtyHeld \/ TtyLeft)'
    BY <1>1, <1>2, <1>3, <1>4 DEF TtyHeld, TtyLeft, None
  <1>7. QED
    BY <1>1, <1>b, <1>4, <1>5, <1>6 DEF Undone


LEMMA CallTInv == TInv /\ Call => TInv'
  <1> SUFFICES ASSUME TInv, Call PROVE TInv'
    OBVIOUS
  <1> DEFINE o == Len(objects)
             w == Len(whole)
             n == o + 1
             d == Destructor(Order[n])
  <1>1. /\ objects \in Lists /\ whole \in Lists /\ main = "unwinding" /\ calls # <<>>
        /\ Len(objects) < Len(whole) /\ calls \in Ends(d) /\ Len(whole) \notin {1, 2}
    BY DEF TInv, Control, Call
  <1>2. /\ UNCHANGED <<ti, ps, objects, whole, main>> /\ calls' = Tail(calls)
    BY DEF Call
  <1>3. o \in 0 .. 6 /\ w \in 0 .. 6 /\ o < w
    BY <1>1, ListLengths, Zenon
  <1>4. n \in 1 .. 6 /\ w # 0 /\ o = n - 1 /\ n <= w
    <2> HIDE DEF o, w
    <2>1. QED
      BY <1>3
  <1>5. Undone
    <2>1. whole # <<>>
      BY <1>1, <1>4, ListIs, Zenon
    <2>2. QED
      BY <1>1, <2>1 DEF TInv, Unwinding
  <1>6. /\ d \in Seq({d[i] : i \in DOMAIN d})
        /\ (n = 1 => Len(d) = 0) /\ (n = 2 => Len(d) = 2)
        /\ (n = 3 => Len(d) = 6) /\ (n >= 4 => Len(d) = 1)
        /\ n = 2 => d[1] = SetAttr(ti) /\ d[2] = Close(ti, "tty")
        /\ n = 3 => /\ d[1] = Dup2(ps.true_stdout, "stdout", 1)
                    /\ d[2] = Close(ps.true_stdout, "stdout")
                    /\ d[3] = Close(ps.piped_stdout, "outR")
                    /\ d[4] = Dup2(ps.true_stdin, "stdin", 0)
                    /\ d[5] = Close(ps.true_stdin, "stdin")
                    /\ d[6] = Close(ps.piped_stdin, "inW")
        /\ n = 4 => d[1] = Close(ps.piped_stdout, "outR")
        /\ n = 5 => d[1] = Close(ps.true_stdin, "stdin")
        /\ n = 6 => d[1] = Close(0, "inR")
    BY <1>4, Destructors, Zenon
  <1>7. PICK j \in 1 .. Len(d) :
          /\ Head(calls) = d[j] /\ Len(calls) = Len(d) - j + 1
          /\ Tail(calls) \in Ends(d) /\ Len(Tail(calls)) = Len(d) - j
    <2> HIDE DEF d
    <2>1. QED
      BY <1>1, <1>6, EndsStep, Zenon
  <1> DEFINE l == Len(d)
             c == Len(calls)
             c1 == Len(calls')
             h == Head(calls)
  <1>8. /\ j \in 1 .. l /\ c = l - j + 1 /\ c1 = l - j /\ h = d[j]
    BY <1>2, <1>7
  <1>9. /\ (n = 1 => l = 0) /\ (n = 2 => l = 2) /\ (n = 3 => l = 6) /\ (n >= 4 => l = 1)
    BY <1>6, Zenon
  <1> HIDE DEF d, l, c, c1, h, w, n, o
  <1>10. \/ n = 2 /\ j \in {1, 2}
         \/ n = 3 /\ j \in 1 .. 6
         \/ n \in 4 .. 6 /\ j = 1
    BY <1>4, <1>8, <1>9
  <1>11. Layout' /\ Undone' /\ strays' = strays
    <2>1. CASE n = 2 /\ j = 1
      <3>1. o = 1 /\ c = 2 /\ c1 = 1
        BY <1>3, <1>4, <1>8, <1>9, <2>1
      <3>2. h = d[1]
        BY <1>8, <2>1
      <3>3. QED
        BY <1>5, <1>6, <2>1, <3>1, <3>2, RawTermiosCall1, Zenon DEF o, c, c1, h
    <2>2. CASE n = 2 /\ j = 2
      <3>1. o = 1 /\ c = 1 /\ c1 = 0
        BY <1>3, <1>4, <1>8, <1>9, <2>2
      <3>2. h = d[2]
        BY <1>8, <2>2
      <3>3. QED
        BY <1>5, <1>6, <2>2, <3>1, <3>2, RawTermiosCall2, Zenon DEF o, c, c1, h
    <2>3. CASE n = 3 /\ j = 1
      <3>1. o = 2 /\ c = 6 /\ c1 = 5
        BY <1>3, <1>4, <1>8, <1>9, <2>3
      <3>2. h = d[1]
        BY <1>8, <2>3
      <3>3. QED
        BY <1>5, <1>6, <2>3, <3>1, <3>2, PipedStdioCall1, Zenon DEF o, c, c1, h
    <2>4. CASE n = 3 /\ j = 2
      <3>1. o = 2 /\ c = 5 /\ c1 = 4
        BY <1>3, <1>4, <1>8, <1>9, <2>4
      <3>2. h = d[2]
        BY <1>8, <2>4
      <3>3. QED
        BY <1>5, <1>6, <2>4, <3>1, <3>2, PipedStdioCall2, Zenon DEF o, c, c1, h
    <2>5. CASE n = 3 /\ j = 3
      <3>1. o = 2 /\ c = 4 /\ c1 = 3
        BY <1>3, <1>4, <1>8, <1>9, <2>5
      <3>2. h = d[3]
        BY <1>8, <2>5
      <3>3. QED
        BY <1>5, <1>6, <2>5, <3>1, <3>2, PipedStdioCall3, Zenon DEF o, c, c1, h
    <2>6. CASE n = 3 /\ j = 4
      <3>1. o = 2 /\ c = 3 /\ c1 = 2
        BY <1>3, <1>4, <1>8, <1>9, <2>6
      <3>2. h = d[4]
        BY <1>8, <2>6
      <3>3. QED
        BY <1>5, <1>6, <2>6, <3>1, <3>2, PipedStdioCall4, Zenon DEF o, c, c1, h
    <2>7. CASE n = 3 /\ j = 5
      <3>1. o = 2 /\ c = 2 /\ c1 = 1
        BY <1>3, <1>4, <1>8, <1>9, <2>7
      <3>2. h = d[5]
        BY <1>8, <2>7
      <3>3. QED
        BY <1>5, <1>6, <2>7, <3>1, <3>2, PipedStdioCall5, Zenon DEF o, c, c1, h
    <2>8. CASE n = 3 /\ j = 6
      <3>1. o = 2 /\ c = 1 /\ c1 = 0
        BY <1>3, <1>4, <1>8, <1>9, <2>8
      <3>2. h = d[6]
        BY <1>8, <2>8
      <3>3. QED
        BY <1>5, <1>6, <2>8, <3>1, <3>2, PipedStdioCall6, Zenon DEF o, c, c1, h
    <2>9. CASE n = 4 /\ j = 1
      <3>1. o = 3 /\ c = 1 /\ c1 = 0
        BY <1>3, <1>4, <1>8, <1>9, <2>9
      <3>2. h = d[1]
        BY <1>8, <2>9
      <3>3. QED
        BY <1>5, <1>6, <2>9, <3>1, <3>2, OstCall, Zenon DEF o, c, c1, h
    <2>10. CASE n = 5 /\ j = 1
      <3>1. o = 4 /\ c = 1 /\ c1 = 0 /\ w >= 5
        BY <1>3, <1>4, <1>8, <1>9, <2>10
      <3>2. h = d[1]
        BY <1>8, <2>10
      <3>3. QED
        BY <1>5, <1>6, <2>10, <3>1, <3>2, IstCall, Zenon DEF o, c, c1, h, w, HadIst
    <2>11. CASE n = 6 /\ j = 1
      <3>1. o = 5 /\ c = 1 /\ c1 = 0 /\ w = 6
        BY <1>3, <1>4, <1>8, <1>9, <2>11
      <3>2. h = d[1]
        BY <1>8, <2>11
      <3>3. QED
        BY <1>5, <1>6, <2>11, <3>1, <3>2, StCall, Zenon DEF o, c, c1, h, w, HadSt
    <2>12. QED
      BY <1>10, <2>1, <2>2, <2>3, <2>4, <2>5, <2>6, <2>7, <2>8, <2>9, <2>10, <2>11
  <1>12. Control'
    <2>1. ASSUME NEW x PROVE Destructor(x)' = Destructor(x)
      BY <1>2 DEF Destructor, TermiosDestructor, PipedStdioDestructor
    <2>2. calls' \in Ends(Destructor(Order[Len(objects') + 1]))
      BY <1>2, <1>7, Zenon DEF d, n, o
    <2>3. (calls \in Ends(Destructor(Order[Len(objects) + 1])))'
      BY <2>1, <2>2, Zenon
    <2>4. Len(objects) <= Len(whole)
      <3>1. o <= w
        BY <1>3
      <3>2. QED
        BY <3>1 DEF o, w
    <2>5. /\ Len(objects') < Len(whole') /\ Len(objects') <= Len(whole')
          /\ Len(whole') \notin {1, 2}
      BY <1>1, <1>2, <2>4
    <2>6. objects' \in Lists /\ whole' \in Lists /\ main' = "unwinding"
      BY <1>1, <1>2
    <2>7. QED
      BY <2>3, <2>5, <2>6 DEF Control
  <1>13. Unwinding'
    <2>1. whole' # <<>>
      BY <1>1, <1>2, <1>4, ListIs, Zenon DEF w
    <2>2. QED
      BY <1>11, <2>1 DEF Unwinding
  <1>14. QED
    BY <1>1, <1>2, <1>11, <1>12, <1>13
       DEF TInv, Packing, Serving, EndsAsItBegan, NoStrayCall

\* When every destructor has run, everything of piped_stdio's is undone.
LEMMA EndTInv == TInv /\ End => TInv'
  <1> SUFFICES ASSUME TInv, End PROVE TInv'
    OBVIOUS
  <1>1. /\ objects \in Lists /\ whole \in Lists /\ main = "unwinding"
        /\ Len(objects) = 0 /\ Len(calls) = 0
        /\ UNCHANGED <<fds, mode, ti, ps, objects, whole, calls, strays>> /\ main' = "ended"
    BY ListIs DEF TInv, Control, End
  <1>2. /\ mode = "cooked" /\ fds[1] = "stdout"
        /\ fds[0] = StdinLeft
        /\ \A n \in Numbers \ 0 .. 2 : fds[n] \in {None, "inherited", "socket"}
    <2>1. CASE whole = <<>>
      <3>1. fds[0] = "stdin" /\ fds[1] = "stdout" /\ mode = "cooked" /\ ti = -1 /\ NoPipes
        BY <1>1, <2>1 DEF TInv, Unwinding
      <3>2. \A n \in Numbers : n # -1
        BY DEF Numbers
      <3>3. StdinLeft = "stdin"
        <4>1. Len(whole) = 0
          BY <2>1
        <4>2. ASSUME NEW m, m = 0 PROVE m # 6 /\ ~(m >= 5)
          BY <4>2
        <4>3. ~HadSt /\ ~HadIst
          BY <4>1, <4>2, Zenon DEF HadSt, HadIst
        <4>4. QED
          BY <4>3 DEF StdinLeft
      <3>4. QED
        BY <3>1, <3>2, <3>3 DEF TInv, Layout, NoPipes
    <2>2. CASE whole # <<>>
      <3>1. Undone
        BY <1>1, <2>2 DEF TInv, Unwinding
      <3>2. /\ Made(3, 5) /\ Made(3, 4) /\ Made(3, 3) /\ Made(3, 2) /\ Made(3, 1) /\ Made(3, 0)
            /\ Made(2, 1) /\ Made(2, 0)
        <4>1. ASSUME NEW left PROVE MadeAt(0, 0, 3, left)
          BY DEF MadeAt
        <4>2. MadeAt(0, 0, 2, 1) /\ MadeAt(0, 0, 2, 0)
          BY DEF MadeAt
        <4>3. QED
          BY <1>1, <4>1, <4>2, Zenon DEF Made
      <3>3. Behind("stdout", None, None, StdinLeft, None, None) /\ TtyLeft
        BY <3>1, <3>2 DEF Undone
      <3>4. ASSUME NEW n \in Numbers \ 0 .. 2 PROVE fds[n] \in {None, "inherited", "socket"}
        <4>1. n # -1
          BY DEF Numbers
        <4>2. QED
          BY <3>3, <4>1 DEF TInv, Layout, Behind, TtyLeft, Holds, None
      <3>5. QED
        BY <3>3, <3>4 DEF Behind, TtyLeft
    <2>3. QED
      BY <2>1, <2>2
  <1>3. StdinLeft = CASE ~Contains(whole, "ist") -> "stdin"
                      [] Contains(whole, "ist") /\ ~Contains(whole, "st") -> "inR"
                      [] Contains(whole, "st") -> None
    <2>1. (Contains(whole, "ist") <=> HadIst) /\ (Contains(whole, "st") <=> HadSt)
      BY <1>1, ListContains, Zenon DEF HadIst, HadSt
    <2>2. HadSt => HadIst
      <3>1. \A m : m = 6 => m >= 5
        OBVIOUS
      <3>2. QED
        BY <3>1, Zenon DEF HadSt, HadIst
    <2>3. QED
      BY <2>1, <2>2 DEF StdinLeft
  <1>4. EndsAsItBegan'
    <2> DEFINE cs == CASE ~Contains(whole, "ist") -> "stdin"
                       [] Contains(whole, "ist") /\ ~Contains(whole, "st") -> "inR"
                       [] Contains(whole, "st") -> None
    <2>1. cs' = cs
      BY <1>1
    <2>2. fds'[0] = cs
      BY <1>1, <1>2, <1>3
    <2> HIDE DEF cs
    <2>3. fds'[0] = cs'
      BY <2>1, <2>2
    <2>4. QED
      BY <1>1, <1>2, <2>3 DEF EndsAsItBegan, cs
  <1>5. Control' /\ Layout' /\ NoStrayCall'
    BY <1>1 DEF TInv, Control, Layout, Owned, NoStrayCall
  <1>6. QED
    BY <1>1, <1>4, <1>5 DEF TInv, Packing, Serving, Unwinding

LEMMA InterruptTInv == TInv /\ Interrupt => TInv'
  <1> SUFFICES ASSUME TInv, Interrupt PROVE TInv'
    OBVIOUS
  <1>1. /\ UNCHANGED <<fds, mode, ti, ps, objects, whole, calls, strays>>
        /\ main' = "killed"
    BY DEF Interrupt
  <1>2. Control' /\ Layout' /\ NoStrayCall'
    BY <1>1 DEF TInv, Control, Layout, Owned, NoStrayCall
  <1>3. QED
    BY <1>1, <1>2 DEF TInv, Packing, Serving, Unwinding, EndsAsItBegan

LEMMA StutterTInv == TInv /\ UNCHANGED vars => TInv'
  <1> SUFFICES ASSUME TInv, UNCHANGED vars PROVE TInv'
    OBVIOUS
  <1>1. UNCHANGED <<fds, mode, ti, ps, objects, whole, calls, strays, main>>
    BY DEF vars
  <1>2. Control'
    <2>1. ASSUME NEW x PROVE Destructor(x)' = Destructor(x)
      BY <1>1 DEF Destructor, TermiosDestructor, PipedStdioDestructor
    <2>2. QED
      BY <1>1, <2>1 DEF TInv, Control
  <1>3. Layout' /\ NoStrayCall' /\ Assembled' = Assembled /\ TtyHeld' = TtyHeld /\ NoPipes' = NoPipes
    BY <1>1 DEF TInv, Layout, Owned, NoStrayCall, Assembled, TtyHeld, NoPipes
  <1>4. Packing' /\ Serving' /\ EndsAsItBegan'
    BY <1>1, <1>3 DEF TInv, Packing, Serving, EndsAsItBegan
  <1>5. Undone' = Undone
    BY <1>1 DEF Undone, Behind, Made, HadSt, HadIst, StdinLeft, TtyHeld, TtyLeft
  <1>6. Unwinding'
    BY <1>1, <1>3, <1>5 DEF TInv, Unwinding
  <1>7. QED
    BY <1>2, <1>3, <1>4, <1>6 DEF TInv

-----------------------------------------------------------------------------
(* The theorems. *)

LEMMA NextTInv == TInv /\ [Next]_vars => TInv'
  BY MakeClientTInv, MakeTermiosTInv, MakePipesTInv, MakeStreamTInv, ConstructorThrowsTInv,
     OpenSocketTInv, CloseSocketTInv, LoopBreaksTInv, UnwindTInv, CallTInv, EndTInv,
     InterruptTInv, StutterTInv
     DEF Next

LEMMA TInvHolds == Spec => []TInv
  BY InitTInv, NextTInv, PTL DEF Spec

\* However many descriptors the process is started with and the loop opens, no call of a
\* destructor closes or copies a file that is not its own, though three of piped_stdio's
\* numbers are closed twice.
THEOREM CallsReachTheirOwn == Spec => []NoStrayCall
  <1>1. TInv => NoStrayCall
    BY DEF TInv
  <1>2. QED
    BY <1>1, TInvHolds, PTL

\* Wherever the block is left, the terminal has its mode back, standard output is what it
\* was, standard input is what the objects that were constructed make of it, and no other
\* number holds a file of the program's.
THEOREM TerminalRestored == Spec => []EndsAsItBegan
  <1>1. TInv => EndsAsItBegan
    BY DEF TInv
  <1>2. QED
    BY <1>1, TInvHolds, PTL


=============================================================================
