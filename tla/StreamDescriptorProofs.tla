----------------------- MODULE StreamDescriptorProofs -----------------------
(***************************************************************************)
(* Theorems about StreamDescriptor, for any number of reads and any input. *)
(* OneReadAtATime rests on the queue never holding more than one handler,  *)
(* NoPostOnceDestroyed on who holds the mutex where, and on dead.          *)
(* KeysArriveInOrder adds what each thread has in its hands: nothing until *)
(* it has read, and from then on what the others can no longer read.       *)
(***************************************************************************)
EXTENDS StreamDescriptor, Induction, TLAPS

Labels == {"none", "wait", "peek", "read", "lock", "post", "unlock", "done"}
Stages == {"running", "bufferFreed", "locked", "signalled", "dead", "freed"}

\* The part of the state that the steps are told apart by.
ControlOK == /\ pc \in [Threads -> Labels]
             /\ main \in Stages
             /\ mtx \in {Nobody, Main} \cup Threads
             /\ dead \in BOOLEAN

\* A handler is posted only when the one before it has run.
OneInQueue == queue = <<>> \/ \E data : queue = <<data>>

\* Who holds the mutex follows from where the threads and the destructor are.
Holders == /\ \A t \in Threads : pc[t] \in {"post", "unlock"} => mtx = t
           /\ main \in {"locked", "signalled", "dead"} => mtx = Main

DeadWhenDestroyed == main \in {"dead", "freed"} => dead

SInv == ControlOK /\ OneInQueue /\ OneReadAtATime /\ Holders /\ DeadWhenDestroyed

\* No thread's number is Main or Nobody.
LEMMA ThreadNumbers ==
  /\ MaxReads \in Nat \ {0}
  /\ \A t \in Threads : t # Main /\ t # Nobody
  /\ Main # Nobody
  <1>1. MaxReads \in Nat \ {0}
    BY StreamAssumption
  <1>2. QED
    BY <1>1 DEF Threads, Main, Nobody

LEMMA InitSInv == Init => SInv
  <1>1. SUFFICES ASSUME Init PROVE SInv
    OBVIOUS
  <1>2. ControlOK
    BY <1>1 DEF Init, ControlOK, Labels, Stages
  <1>3. OneInQueue /\ Holders /\ DeadWhenDestroyed
    BY <1>1 DEF Init, OneInQueue, Holders, DeadWhenDestroyed
  <1>4. OneReadAtATime
    BY <1>1 DEF Init, OneReadAtATime, Busy
  <1>5. QED
    BY <1>2, <1>3, <1>4 DEF SInv

\* A step of a thread that neither takes the mutex nor posts.
LEMMA OwnStepKeeps ==
  ASSUME SInv, NEW t \in Threads, Wait(t) \/ Peek(t) \/ Read(t)
  PROVE  SInv'
  <1>1. /\ Busy(t) /\ pc[t] \notin {"post", "unlock"}
        /\ UNCHANGED <<queue, main, mtx, dead>>
        /\ \E l \in {"wait", "peek", "read", "lock", "done"} : pc' = [pc EXCEPT ![t] = l]
    BY DEF Wait, Peek, Read, Goto, Busy, status
  <1>2. PICK l \in {"wait", "peek", "read", "lock", "done"} : pc' = [pc EXCEPT ![t] = l]
    BY <1>1
  <1>3. ControlOK'
    BY <1>1, <1>2 DEF SInv, ControlOK, Labels
  <1>4. OneInQueue' /\ Holders' /\ DeadWhenDestroyed'
    BY <1>1, <1>2 DEF SInv, ControlOK, OneInQueue, Holders, DeadWhenDestroyed
  <1>5. \A u \in Threads : Busy(u)' => Busy(u)
    BY <1>1, <1>2 DEF SInv, ControlOK, Busy
  <1>6. OneReadAtATime'
    BY <1>1, <1>5 DEF SInv, OneReadAtATime
  <1>7. QED
    BY <1>3, <1>4, <1>6 DEF SInv

LEMMA LockKeeps ==
  ASSUME SInv, NEW t \in Threads, Lock(t)
  PROVE  SInv'
  <1>1. /\ pc[t] = "lock" /\ mtx = Nobody /\ mtx' = t
        /\ pc' = [pc EXCEPT ![t] = "post"]
        /\ UNCHANGED <<queue, main, dead>>
    BY DEF Lock, Goto
  <1>2. ControlOK' /\ OneInQueue' /\ DeadWhenDestroyed'
    BY <1>1 DEF SInv, ControlOK, Labels, OneInQueue, DeadWhenDestroyed
  <1>3. Holders'
    BY <1>1, ThreadNumbers DEF SInv, ControlOK, Holders
  <1>4. \A u \in Threads : Busy(u)' => Busy(u)
    BY <1>1 DEF SInv, ControlOK, Busy
  <1>5. OneReadAtATime'
    BY <1>1, <1>4 DEF SInv, OneReadAtATime
  <1>6. QED
    BY <1>2, <1>3, <1>5 DEF SInv

\* The thread that posts was the only one busy, and the queue was empty.
LEMMA PostKeeps ==
  ASSUME SInv, NEW t \in Threads, Post(t)
  PROVE  SInv'
  <1>1. /\ pc[t] = "post" /\ Busy(t)
        /\ pc' = [pc EXCEPT ![t] = "unlock"]
        /\ UNCHANGED <<main, mtx, dead>>
        /\ queue' = queue \/ queue' = Append(queue, got[t])
    BY DEF Post, Goto, Busy, status
  <1>2. queue = <<>>
    BY <1>1 DEF SInv, OneReadAtATime
  <1>3. OneInQueue'
    BY <1>1, <1>2 DEF OneInQueue
  <1>4. ControlOK' /\ Holders' /\ DeadWhenDestroyed'
    BY <1>1 DEF SInv, ControlOK, Labels, Holders, DeadWhenDestroyed
  <1>5. \A u \in Threads : ~Busy(u)'
    <2>1. TAKE u \in Threads
    <2>2. CASE u = t
      BY <1>1, <2>2 DEF SInv, ControlOK, Busy
    <2>3. CASE u # t
      BY <1>1, <2>3 DEF SInv, ControlOK, OneReadAtATime, Busy
    <2>4. QED
      BY <2>2, <2>3
  <1>6. OneReadAtATime'
    BY <1>5 DEF OneReadAtATime
  <1>7. QED
    BY <1>3, <1>4, <1>6 DEF SInv

LEMMA UnlockKeeps ==
  ASSUME SInv, NEW t \in Threads, Unlock(t)
  PROVE  SInv'
  <1>1. /\ pc[t] = "unlock" /\ mtx = t /\ mtx' = Nobody
        /\ pc' = [pc EXCEPT ![t] = "done"]
        /\ UNCHANGED <<queue, main, dead>>
    BY DEF Unlock, Goto, SInv, Holders
  <1>2. ControlOK' /\ OneInQueue' /\ DeadWhenDestroyed'
    BY <1>1 DEF SInv, ControlOK, Labels, OneInQueue, DeadWhenDestroyed
  <1>3. Holders'
    BY <1>1, ThreadNumbers DEF SInv, ControlOK, Holders
  <1>4. \A u \in Threads : Busy(u)' => Busy(u)
    BY <1>1 DEF SInv, ControlOK, Busy
  <1>5. OneReadAtATime'
    BY <1>1, <1>4 DEF SInv, OneReadAtATime
  <1>6. QED
    BY <1>2, <1>3, <1>5 DEF SInv

\* The handler that runs was the only one, so no thread was busy, and one starts at most.
LEMMA RunHandlerKeeps ==
  ASSUME SInv, RunHandler
  PROVE  SInv'
  <1>1. /\ queue # <<>> /\ queue' = Tail(queue)
        /\ UNCHANGED <<main, mtx, dead>>
        /\ pc' = pc \/ \E t \in Threads \ Started : pc' = [pc EXCEPT ![t] = "wait"]
    BY DEF RunHandler, Goto, status
  <1>2. queue' = <<>> /\ \A t \in Threads : ~Busy(t)
    BY <1>1 DEF SInv, OneInQueue, OneReadAtATime
  <1>3. CASE pc' = pc
    <2>1. \A t \in Threads : ~Busy(t)'
      BY <1>2, <1>3 DEF Busy
    <2>2. QED
      BY <1>1, <1>2, <1>3, <2>1
         DEF SInv, ControlOK, OneInQueue, OneReadAtATime, Holders, DeadWhenDestroyed
  <1>4. ASSUME NEW t \in Threads \ Started, pc' = [pc EXCEPT ![t] = "wait"] PROVE SInv'
    <2>1. ControlOK' /\ OneInQueue' /\ Holders' /\ DeadWhenDestroyed'
      BY <1>1, <1>2, <1>4
         DEF SInv, ControlOK, Labels, OneInQueue, Holders, DeadWhenDestroyed
    <2>2. \A u \in Threads : Busy(u)' => u = t
      BY <1>2, <1>4 DEF SInv, ControlOK, Busy
    <2>3. OneReadAtATime'
      BY <1>2, <2>2 DEF OneReadAtATime
    <2>4. QED
      BY <2>1, <2>3 DEF SInv
  <1>5. QED
    BY <1>1, <1>3, <1>4

\* The end of run(), and the destructor, which holds the mutex from its first step to its last.
LEMMA DestructionKeeps ==
  ASSUME SInv, Leave \/ Destruct
  PROVE  SInv'
  <1>1. UNCHANGED <<pc, queue>>
    BY DEF Leave, Destruct, Untouched
  <1>2. OneInQueue' /\ OneReadAtATime'
    BY <1>1 DEF SInv, OneInQueue, OneReadAtATime, Busy
  <1>3. ControlOK' /\ Holders' /\ DeadWhenDestroyed'
    <2>1. CASE Leave
      BY <1>1, <2>1 DEF Leave, FreeBuffer, Step, status, SInv, ControlOK, Stages, Holders, DeadWhenDestroyed
    <2>2. CASE DestructorLock
      BY <1>1, <2>2, ThreadNumbers
         DEF DestructorLock, Step, SInv, ControlOK, Stages, Holders, DeadWhenDestroyed
    <2>3. CASE SetEvent
      BY <1>1, <2>3 DEF SetEvent, Step, SInv, ControlOK, Stages, Holders, DeadWhenDestroyed
    <2>4. CASE SetDead
      BY <1>1, <2>4 DEF SetDead, Step, SInv, ControlOK, Stages, Holders, DeadWhenDestroyed
    <2>5. CASE Destroyed
      BY <1>1, <2>5, ThreadNumbers
         DEF Destroyed, Step, SInv, ControlOK, Stages, Holders, DeadWhenDestroyed
    <2>6. QED
      BY <2>1, <2>2, <2>3, <2>4, <2>5 DEF Destruct
  <1>4. QED
    BY <1>2, <1>3 DEF SInv

\* Input, and steps that leave everything alone.
LEMMA InputKeeps ==
  ASSUME SInv, UNCHANGED <<pc, queue, main, mtx, dead>>
  PROVE  SInv'
  BY DEF SInv, ControlOK, OneInQueue, OneReadAtATime, Busy, Holders, DeadWhenDestroyed

LEMMA NextKeeps == SInv /\ [Next]_vars => SInv'
  <1>1. SUFFICES ASSUME SInv, [Next]_vars PROVE SInv'
    OBVIOUS
  <1>2. ASSUME NEW t \in Threads, Thread(t) PROVE SInv'
    BY <1>1, <1>2, OwnStepKeeps, LockKeeps, PostKeeps, UnlockKeeps DEF Thread
  <1>3. CASE RunHandler
    BY <1>1, <1>3, RunHandlerKeeps
  <1>4. CASE Leave \/ Destruct
    BY <1>1, <1>4, DestructionKeeps
  <1>5. CASE Input
    BY <1>1, <1>5, InputKeeps DEF Input, status
  <1>6. CASE UNCHANGED vars
    BY <1>1, <1>6, InputKeeps DEF vars, status
  <1>7. QED
    BY <1>1, <1>2, <1>3, <1>4, <1>5, <1>6 DEF Next

\* The inductive invariant, which includes the states the threads and the mutex can be in.
THEOREM Invariance == Spec => []SInv
  BY InitSInv, NextKeeps, PTL DEF Spec

\* Two threads are never both between the start of a read and their post (console.cc:45-69),
\* whatever the input and whenever the descriptor is destroyed.
THEOREM ReadsExclude == Spec => []OneReadAtATime
  <1>1. SInv => OneReadAtATime
    BY DEF SInv
  <1>2. QED
    BY <1>1, Invariance, PTL

\* A thread posts only with the mutex, which the destructor holds until dead is set.
LEMMA NoPostStep == SInv /\ [Next]_vars => [main \notin {"running", "bufferFreed"} => UNCHANGED queue]_vars
  <1>1. SUFFICES ASSUME SInv, Next, main \notin {"running", "bufferFreed"} PROVE UNCHANGED queue
    OBVIOUS
  <1>2. ASSUME NEW t \in Threads, Thread(t) PROVE UNCHANGED queue
    <2>1. CASE Post(t)
      <3>1. pc[t] = "post" /\ queue' = IF dead THEN queue ELSE Append(queue, got[t])
        BY <2>1 DEF Post
      <3>2. mtx = t /\ t # Main
        BY <1>1, <3>1, ThreadNumbers DEF SInv, Holders
      <3>3. main = "freed"
        BY <1>1, <3>2 DEF SInv, ControlOK, Stages, Holders
      <3>4. dead
        BY <1>1, <3>3 DEF SInv, DeadWhenDestroyed
      <3>5. QED
        BY <3>1, <3>4
    <2>2. CASE Wait(t) \/ Peek(t) \/ Read(t) \/ Lock(t) \/ Unlock(t)
      BY <2>2 DEF Wait, Peek, Read, Lock, Unlock
    <2>3. QED
      BY <1>2, <2>1, <2>2 DEF Thread
  <1>3. CASE RunHandler
    BY <1>1, <1>3 DEF RunHandler
  <1>4. CASE Leave \/ Destruct \/ Input
    BY <1>4 DEF Leave, Destruct, Untouched, Input
  <1>5. QED
    BY <1>1, <1>2, <1>3, <1>4 DEF Next

\* From the destructor's lock on (console.cc:41) nothing is posted through the descriptor.
THEOREM NothingPosted == Spec => NoPostOnceDestroyed
  BY Invariance, NoPostStep, PTL DEF Spec, NoPostOnceDestroyed

-----------------------------------------------------------------------------
(* The key presses. *)

DataOK == /\ keys \in Nat
          /\ records \in Seq(Nat)
          /\ got \in [Threads -> Seq(Nat)]
          /\ queue \in Seq(Seq(Nat))
          /\ given \in Seq(Nat)

\* What a thread has read, it has read in its one read().
NothingYet == \A t \in Threads : pc[t] \in {"none", "wait", "peek", "read"} => got[t] = <<>>

\* The destructor has not begun: no thread is sent away, and no handler dropped.
Alive == main = "running" => ~dead /\ ~ev

BusyAt == {"wait", "peek", "read", "lock", "post"}

\* What the thread that is reading has read, and what the handler that is posted carries.
InHand(p, g) == IF \E t \in Threads : p[t] \in BusyAt
                THEN g[CHOOSE t \in Threads : p[t] \in BusyAt] ELSE <<>>
Posted(q) == IF q = <<>> THEN <<>> ELSE Head(q)

Numbered(n) == [i \in 1 .. n |-> i]

Accounted == main = "running" =>
               given \o Posted(queue) \o InHand(pc, got) \o KeysOf(records) = Numbered(keys)

KInv == SInv /\ DataOK /\ NothingYet /\ Alive /\ Accounted

LEMMA InHandIs ==
  ASSUME NEW p, NEW g, NEW t \in Threads, p[t] \in BusyAt,
         \A u \in Threads : p[u] \in BusyAt => u = t
  PROVE  InHand(p, g) = g[t]
  <1>1. (CHOOSE u \in Threads : p[u] \in BusyAt) = t
    OBVIOUS
  <1>2. QED
    BY <1>1 DEF InHand

LEMMA NothingInHand ==
  ASSUME NEW p, NEW g, \A u \in Threads : p[u] \notin BusyAt
  PROVE  InHand(p, g) = <<>>
  BY DEF InHand

LEMMA KeysOfType ==
  ASSUME NEW rs \in Seq(Nat)
  PROVE  KeysOf(rs) \in Seq(Nat)
  BY SelectType DEF KeysOf

LEMMA KeysOfConcat ==
  ASSUME NEW rs \in Seq(Nat), NEW us \in Seq(Nat)
  PROVE  KeysOf(rs \o us) = KeysOf(rs) \o KeysOf(us)
  BY SelectConcat DEF KeysOf

LEMMA KeysOfNone == KeysOf(<<>>) = <<>>
  <1>1. <<>> \in Seq(Nat) /\ Len(<<>>) = 0
    OBVIOUS
  <1>2. \A n \in 1 .. Len(<<>>) : <<>>[n] \notin Nat \ {Other}
    BY <1>1
  <1>3. QED
    BY <1>1, <1>2, SelectNone DEF KeysOf

LEMMA KeysOfOne ==
  ASSUME NEW r \in Nat
  PROVE  KeysOf(<<r>>) = IF r = Other THEN <<>> ELSE <<r>>
  BY SelectOne DEF KeysOf

LEMMA FromHandToHand ==
  ASSUME NEW T, NEW a \in Seq(T), NEW b \in Seq(T), NEW c \in Seq(T), NEW d \in Seq(T)
  PROVE  /\ a \o b \o <<>> \o (c \o d) = a \o b \o c \o d
         /\ a \o <<>> \o c \o d = a \o c \o <<>> \o d
         /\ a \o c \o <<>> \o d = (a \o c) \o <<>> \o <<>> \o d
  <1>1. a \o b \in Seq(T) /\ a \o c \in Seq(T)
    OBVIOUS
  <1>2. a \o b \o <<>> = a \o b /\ a \o <<>> = a /\ a \o c \o <<>> = a \o c
    BY <1>1, EmptyConcat
  <1>3. (a \o b) \o (c \o d) = a \o b \o c \o d
    BY <1>1, SMTT(30)
  <1>4. QED
    BY <1>2, <1>3

LEMMA InitKInv == Init => KInv
  <1> SUFFICES ASSUME Init PROVE KInv
    OBVIOUS
  <1>1. SInv
    BY InitSInv
  <1>2. DataOK /\ NothingYet /\ Alive
    BY DEF Init, DataOK, NothingYet, Alive
  <1>3. Accounted
    <2>1. InHand(pc, got) = <<>>
      <3>1. \A t \in Threads : got[t] = <<>>
        BY DEF Init
      <3>2. QED
        BY <3>1 DEF InHand
    <2>2. given = <<>> /\ Posted(queue) = <<>> /\ KeysOf(records) = <<>> /\ keys = 0
      BY KeysOfNone DEF Init, Posted
    <2>3. Numbered(0) = <<>>
      BY DEF Numbered
    <2>4. QED
      BY <2>1, <2>2, <2>3 DEF Accounted
  <1>4. QED
    BY <1>1, <1>2, <1>3 DEF KInv

\* A thread's own steps: only read() moves keys, from the records into its hands.
LEMMA OwnStepKeepsKeys ==
  ASSUME KInv, NEW t \in Threads, Wait(t) \/ Peek(t) \/ Read(t)
  PROVE  DataOK' /\ NothingYet' /\ Alive' /\ Accounted'
  <1>0. /\ UNCHANGED <<keys, queue, given, main, dead>>
        /\ pc \in [Threads -> Labels] /\ got \in [Threads -> Seq(Nat)]
        /\ records \in Seq(Nat)
        /\ pc[t] \in BusyAt /\ pc[t] \in {"wait", "peek", "read"}
        /\ got[t] = <<>>
        /\ \A u \in Threads : pc[u] \in BusyAt => u = t
        /\ main = "running" => ~dead /\ ~ev
    BY DEF Wait, Peek, Read, Goto, status, KInv, SInv, ControlOK, DataOK, Alive, NothingYet,
           OneReadAtATime, Busy, BusyAt
  <1>1. \E l \in {"wait", "peek", "read", "lock", "done"} :
           /\ pc' = [pc EXCEPT ![t] = l]
           /\ main = "running" => l # "done"
           /\ l \in {"wait", "peek", "read", "done"} => got' = got
    BY <1>0 DEF Wait, Peek, Read, Goto
  <1>2. PICK l \in {"wait", "peek", "read", "lock", "done"} :
           /\ pc' = [pc EXCEPT ![t] = l]
           /\ main = "running" => l # "done"
           /\ l \in {"wait", "peek", "read", "done"} => got' = got
    BY <1>1
  <1>3. ev' => ev
    BY DEF Wait, Peek, Read, status
  <1>4. \E d \in Seq(Nat) : /\ got' = [got EXCEPT ![t] = d]
                            /\ records' \in Seq(Nat)
                            /\ KeysOf(records) = d \o KeysOf(records')
    <2>1. CASE UNCHANGED <<got, records>>
      <3>1. got' = [got EXCEPT ![t] = <<>>] /\ <<>> \in Seq(Nat)
        BY <1>0, <2>1
      <3>2. KeysOf(records) = <<>> \o KeysOf(records)
        BY <1>0, KeysOfType
      <3>3. records' = records
        BY <2>1
      <3>4. QED
        BY <1>0, <3>1, <3>2, <3>3
    <2>2. CASE got' = got /\ records # <<>> /\ Head(records) = Other /\ records' = Tail(records)
      <3>1. got' = [got EXCEPT ![t] = <<>>] /\ <<>> \in Seq(Nat)
        BY <1>0, <2>2
      <3>2. records' \in Seq(Nat) /\ Other \in Nat /\ <<Other>> \in Seq(Nat)
        BY <1>0, <2>2 DEF Other
      <3>3. records = <<Other>> \o records'
        BY <1>0, <2>2
      <3>4. KeysOf(records) = KeysOf(<<Other>>) \o KeysOf(records')
        BY <3>2, <3>3, KeysOfConcat
      <3>5. KeysOf(<<Other>>) = <<>>
        BY <3>2, KeysOfOne
      <3>6. QED
        BY <3>1, <3>2, <3>4, <3>5
    <2>3. ASSUME NEW n \in DOMAIN records,
                 got' = [got EXCEPT ![t] = KeysOf(SubSeq(records, 1, n))],
                 records' = SubSeq(records, n + 1, Len(records))
          PROVE  \E d \in Seq(Nat) : /\ got' = [got EXCEPT ![t] = d]
                                     /\ records' \in Seq(Nat)
                                     /\ KeysOf(records) = d \o KeysOf(records')
      <3> DEFINE head == SubSeq(records, 1, n)
                 rest == SubSeq(records, n + 1, Len(records))
      <3>1. head \in Seq(Nat) /\ rest \in Seq(Nat) /\ records = head \o rest
        <4>1. n \in Nat /\ n <= Len(records)
          BY <1>0
        <4>2. QED
          BY <1>0, <4>1, SplitAt, Zenon
      <3> HIDE DEF head, rest
      <3>2. KeysOf(records) = KeysOf(head) \o KeysOf(rest) /\ KeysOf(head) \in Seq(Nat)
        BY <3>1, KeysOfConcat, KeysOfType
      <3>3. QED
        BY <2>3, <3>1, <3>2 DEF head, rest
    <2>4. QED
      BY <2>1, <2>2, <2>3 DEF Wait, Peek, Read
  <1>5. PICK d \in Seq(Nat) : /\ got' = [got EXCEPT ![t] = d]
                              /\ records' \in Seq(Nat)
                              /\ KeysOf(records) = d \o KeysOf(records')
    BY <1>4
  <1>6. DataOK'
    BY <1>0, <1>5 DEF KInv, DataOK
  <1>7. NothingYet'
    <2>1. \A u \in Threads : u # t => pc'[u] = pc[u] /\ got'[u] = got[u]
      BY <1>0, <1>2, <1>5
    <2>2. pc'[t] = l
      BY <1>0, <1>2
    <2>3. QED
      BY <1>0, <1>2, <2>1, <2>2 DEF KInv, NothingYet
  <1>8. Alive'
    BY <1>0, <1>3 DEF Alive
  <1>9. Accounted'
    <2> SUFFICES ASSUME main = "running"
                 PROVE  given' \o Posted(queue') \o InHand(pc', got') \o KeysOf(records')
                          = Numbered(keys')
      BY <1>0 DEF Accounted
    <2>1. InHand(pc, got) = <<>>
      BY <1>0, InHandIs
    <2>2. InHand(pc', got') = d
      <3>1. pc'[t] \in BusyAt /\ \A u \in Threads : pc'[u] \in BusyAt => u = t
        BY <1>0, <1>2 DEF BusyAt
      <3>2. InHand(pc', got') = got'[t]
        BY <3>1, InHandIs
      <3>3. QED
        BY <1>0, <1>5, <3>2
    <2>3. Posted(queue) \in Seq(Nat) /\ given \in Seq(Nat)
      BY DEF KInv, DataOK, Posted
    <2>4. given \o Posted(queue) \o <<>> \o KeysOf(records) = Numbered(keys)
      BY <2>1 DEF KInv, Accounted
    <2>6. KeysOf(records') \in Seq(Nat)
      BY <1>5, KeysOfType
    <2>7. given \o Posted(queue) \o <<>> \o (d \o KeysOf(records'))
            = given \o Posted(queue) \o d \o KeysOf(records')
      <3> DEFINE N == Nat
      <3>1. /\ given \in Seq(N) /\ Posted(queue) \in Seq(N)
            /\ d \in Seq(N) /\ KeysOf(records') \in Seq(N)
        BY <2>3, <2>6
      <3> HIDE DEF N
      <3>2. QED
        BY <3>1, FromHandToHand
    <2>8. QED
      BY <1>0, <1>5, <2>2, <2>4, <2>7
  <1>10. QED
    BY <1>6, <1>7, <1>8, <1>9

\* A post: what was in the thread's hands is in the queue.
LEMMA PostKeepsKeys ==
  ASSUME KInv, NEW t \in Threads, Post(t)
  PROVE  DataOK' /\ NothingYet' /\ Alive' /\ Accounted'
  <1>1. /\ UNCHANGED <<keys, records, got, given, main, dead, ev>>
        /\ pc' = [pc EXCEPT ![t] = "unlock"] /\ pc[t] = "post"
        /\ queue' = IF dead THEN queue ELSE Append(queue, got[t])
        /\ pc \in [Threads -> Labels]
        /\ got[t] \in Seq(Nat) /\ given \in Seq(Nat) /\ KeysOf(records) \in Seq(Nat)
    BY KeysOfType DEF Post, Goto, status, KInv, SInv, ControlOK, DataOK
  <1>2. queue = <<>> /\ pc[t] \in BusyAt /\ \A u \in Threads : pc[u] \in BusyAt => u = t
    BY <1>1 DEF KInv, SInv, OneReadAtATime, Busy, BusyAt
  <1>3. DataOK' /\ NothingYet' /\ Alive'
    BY <1>1 DEF KInv, DataOK, NothingYet, Alive
  <1>4. Accounted'
    <2> SUFFICES ASSUME main = "running"
                 PROVE  given \o Posted(queue') \o InHand(pc', got) \o KeysOf(records)
                          = Numbered(keys)
      BY <1>1 DEF Accounted
    <2>1. InHand(pc, got) = got[t]
      BY <1>2, InHandIs
    <2>2. InHand(pc', got) = <<>>
      <3>1. \A u \in Threads : pc'[u] \notin BusyAt
        BY <1>1, <1>2 DEF BusyAt
      <3>2. QED
        BY <3>1, NothingInHand
    <2>3. Posted(queue) = <<>>
      BY <1>2 DEF Posted
    <2>4. queue' = <<got[t]>>
      BY <1>1, <1>2 DEF KInv, Alive
    <2>5. Posted(queue') = got[t]
      BY <2>4 DEF Posted
    <2>6. given \o <<>> \o got[t] \o KeysOf(records) = Numbered(keys)
      BY <2>1, <2>3 DEF KInv, Accounted
    <2>7. QED
      <3> DEFINE N == Nat
      <3>1. given \in Seq(N) /\ got[t] \in Seq(N) /\ KeysOf(records) \in Seq(N)
        BY <1>1
      <3> HIDE DEF N
      <3>2. given \o <<>> \o got[t] \o KeysOf(records)
              = given \o got[t] \o <<>> \o KeysOf(records)
        BY <3>1, FromHandToHand
      <3>3. QED
        BY <2>2, <2>5, <2>6, <3>2, Zenon
  <1>5. QED
    BY <1>3, <1>4

\* The mutex: nothing moves, and the thread is as busy as it was.
LEMMA MutexKeepsKeys ==
  ASSUME KInv, NEW t \in Threads, Lock(t) \/ Unlock(t)
  PROVE  DataOK' /\ NothingYet' /\ Alive' /\ Accounted'
  <1>1. /\ UNCHANGED <<keys, records, got, queue, given, main, dead, ev>>
        /\ pc \in [Threads -> Labels]
        /\ \/ pc[t] = "lock" /\ pc' = [pc EXCEPT ![t] = "post"]
           \/ pc[t] = "unlock" /\ pc' = [pc EXCEPT ![t] = "done"]
    BY DEF Lock, Unlock, Goto, KInv, SInv, ControlOK
  <1>2. DataOK' /\ NothingYet' /\ Alive'
    BY <1>1 DEF KInv, DataOK, NothingYet, Alive
  <1>3. \A u \in Threads : pc'[u] \in BusyAt <=> pc[u] \in BusyAt
    BY <1>1 DEF BusyAt
  <1>4. InHand(pc', got) = InHand(pc, got)
    BY <1>3 DEF InHand
  <1>5. Accounted'
    BY <1>1, <1>4 DEF KInv, Accounted
  <1>6. QED
    BY <1>2, <1>5

\* The handler receives what it carries, and the next thread starts with nothing.
LEMMA RunHandlerKeepsKeys ==
  ASSUME KInv, RunHandler
  PROVE  DataOK' /\ NothingYet' /\ Alive' /\ Accounted'
  <1>1. /\ UNCHANGED <<keys, records, got, main, dead, ev>>
        /\ queue # <<>> /\ given' = given \o Head(queue) /\ queue' = Tail(queue)
        /\ pc' = pc \/ \E t \in Threads \ Started : pc' = [pc EXCEPT ![t] = "wait"]
        /\ pc \in [Threads -> Labels]
        /\ given \in Seq(Nat) /\ KeysOf(records) \in Seq(Nat) /\ queue \in Seq(Seq(Nat))
    BY KeysOfType DEF RunHandler, Goto, status, KInv, SInv, ControlOK, DataOK
  <1>2. PICK d \in Seq(Nat) : queue = <<d>>
    <2>1. PICK d : queue = <<d>>
      BY <1>1 DEF KInv, SInv, OneInQueue
    <2>2. d \in Seq(Nat)
      <3> DEFINE Q == Seq(Nat)
      <3>1. <<d>> \in Seq(Q) /\ Len(<<d>>) = 1 /\ <<d>>[1] = d
        BY <1>1, <2>1
      <3> HIDE DEF Q
      <3>2. d \in Q
        BY <3>1
      <3>3. QED
        BY <3>2 DEF Q
    <2>3. QED
      BY <2>1, <2>2
  <1>3. given' = given \o d /\ queue' = <<>> /\ Posted(queue) = d /\ Posted(queue') = <<>>
    BY <1>1, <1>2 DEF Posted
  <1>4. \A u \in Threads : pc[u] \notin BusyAt
    BY <1>1 DEF KInv, SInv, OneReadAtATime, Busy, BusyAt
  <1>5. DataOK' /\ Alive'
    <2>1. given \o d \in Seq(Nat) /\ <<>> \in Seq(Seq(Nat))
      BY <1>1, <1>2
    <2>2. QED
      BY <1>1, <1>3, <2>1 DEF KInv, DataOK, Alive
  <1>6. NothingYet'
    BY <1>1 DEF KInv, NothingYet, Started
  <1>7. InHand(pc, got) = <<>>
    BY <1>4, NothingInHand
  <1>8. InHand(pc', got) = <<>>
    <2>1. CASE pc' = pc
      BY <1>7, <2>1
    <2>2. ASSUME NEW t \in Threads \ Started, pc' = [pc EXCEPT ![t] = "wait"]
          PROVE  InHand(pc', got) = <<>>
      <3>1. pc'[t] \in BusyAt /\ \A u \in Threads : pc'[u] \in BusyAt => u = t
        BY <1>1, <1>4, <2>2 DEF BusyAt
      <3>2. got[t] = <<>>
        BY <2>2 DEF KInv, NothingYet, Started
      <3>3. QED
        BY <2>2, <3>1, <3>2, InHandIs
    <2>3. QED
      BY <1>1, <2>1, <2>2
  <1>9. Accounted'
    <2> SUFFICES ASSUME main = "running"
                 PROVE  (given \o d) \o <<>> \o <<>> \o KeysOf(records) = Numbered(keys)
      BY <1>1, <1>3, <1>8 DEF Accounted
    <2>1. given \o d \o <<>> \o KeysOf(records) = Numbered(keys)
      BY <1>3, <1>7 DEF KInv, Accounted
    <2>2. QED
      BY <1>1, <1>2, <2>1, FromHandToHand
  <1>10. QED
    BY <1>5, <1>6, <1>9

\* The end of run() and the destructor: no promise is kept up, and none was.
LEMMA DestructionKeepsKeys ==
  ASSUME KInv, Leave \/ Destruct
  PROVE  DataOK' /\ NothingYet' /\ Alive' /\ Accounted'
  <1>1. /\ UNCHANGED <<keys, records, got, queue, given, pc>>
        /\ main' # "running"
    BY DEF Leave, Destruct, Untouched, FreeBuffer, DestructorLock, SetEvent, SetDead, Destroyed, Step
  <1>2. QED
    BY <1>1 DEF KInv, DataOK, NothingYet, Alive, Accounted

\* What comes in comes last.
LEMMA InputKeepsKeys ==
  ASSUME KInv, Input
  PROVE  DataOK' /\ NothingYet' /\ Alive' /\ Accounted'
  <1>1. /\ UNCHANGED <<got, queue, given, pc, main, dead, ev>>
        /\ records \in Seq(Nat) /\ keys \in Nat
        /\ given \in Seq(Nat) /\ got \in [Threads -> Seq(Nat)] /\ queue \in Seq(Seq(Nat))
    BY DEF Input, status, KInv, DataOK
  <1>2. PICK r \in Nat : /\ records' = Append(records, r)
                         /\ \/ r = keys + 1 /\ keys' = keys + 1
                            \/ r = Other /\ keys' = keys
    <2>1. keys + 1 \in Nat /\ Other \in Nat
      BY <1>1 DEF Other
    <2>2. QED
      BY <2>1 DEF Input
  <1>3. DataOK' /\ NothingYet' /\ Alive'
    <2>1. records' \in Seq(Nat) /\ keys' \in Nat
      BY <1>1, <1>2
    <2>2. QED
      BY <1>1, <2>1 DEF KInv, DataOK, NothingYet, Alive
  <1>4. KeysOf(records') = KeysOf(records) \o KeysOf(<<r>>)
    <2>1. <<r>> \in Seq(Nat) /\ records' = records \o <<r>>
      BY <1>1, <1>2
    <2>2. QED
      BY <1>1, <2>1, KeysOfConcat
  <1>5. Accounted'
    <2> SUFFICES ASSUME main = "running"
                 PROVE  given \o Posted(queue) \o InHand(pc, got) \o KeysOf(records')
                          = Numbered(keys')
      BY <1>1 DEF Accounted
    <2> DEFINE a == given \o Posted(queue) \o InHand(pc, got)
               b == KeysOf(records)
    <2>1. a \in Seq(Nat) /\ b \in Seq(Nat)
      <3>1. Posted(queue) \in Seq(Nat)
        BY <1>1 DEF Posted
      <3>2. InHand(pc, got) \in Seq(Nat)
        BY <1>1 DEF InHand
      <3>3. QED
        BY <1>1, <3>1, <3>2, KeysOfType
    <2>2. a \o b = Numbered(keys)
      BY DEF KInv, Accounted
    <2> HIDE DEF a, b
    <2>3. CASE r = Other /\ keys' = keys
      <3>1. KeysOf(<<r>>) = <<>>
        BY <2>3, KeysOfOne
      <3>2. b \o <<>> = b
        BY <2>1, EmptyConcat
      <3>3. QED
        BY <1>4, <2>2, <2>3, <3>1, <3>2 DEF a, b
    <2>4. CASE r = keys + 1 /\ keys' = keys + 1
      <3>1. KeysOf(<<r>>) = <<keys + 1>>
        BY <1>1, <2>4, KeysOfOne, SMTT(30) DEF Other
      <3>2. <<keys + 1>> \in Seq(Nat)
        BY <1>1
      <3>3. a \o (b \o <<keys + 1>>) = (a \o b) \o <<keys + 1>>
        BY <2>1, <3>2, SMTT(30)
      <3>4. Numbered(keys) \o <<keys + 1>> = Numbered(keys + 1)
        BY <1>1 DEF Numbered
      <3>5. QED
        BY <1>4, <2>2, <2>4, <3>1, <3>3, <3>4 DEF a, b
    <2>5. QED
      BY <1>2, <2>3, <2>4
  <1>6. QED
    BY <1>3, <1>5

LEMMA NextKeepsKeys == KInv /\ [Next]_vars => KInv'
  <1>1. SUFFICES ASSUME KInv, [Next]_vars PROVE DataOK' /\ NothingYet' /\ Alive' /\ Accounted'
    BY NextKeeps DEF KInv
  <1>2. ASSUME NEW t \in Threads, Thread(t)
        PROVE  DataOK' /\ NothingYet' /\ Alive' /\ Accounted'
    BY <1>1, <1>2, OwnStepKeepsKeys, PostKeepsKeys, MutexKeepsKeys DEF Thread
  <1>3. CASE RunHandler
    BY <1>1, <1>3, RunHandlerKeepsKeys
  <1>4. CASE Leave \/ Destruct
    BY <1>1, <1>4, DestructionKeepsKeys
  <1>5. CASE Input
    BY <1>1, <1>5, InputKeepsKeys
  <1>6. CASE UNCHANGED vars
    BY <1>1, <1>6 DEF vars, status, KInv, DataOK, NothingYet, Alive, Accounted
  <1>7. QED
    BY <1>1, <1>2, <1>3, <1>4, <1>5, <1>6 DEF Next

\* The handlers receive every key press in order (console.cc:45-69, 81-90), however many reads
\* it takes and whatever else the console reports in between, as long as run() goes on.
THEOREM NoKeyLost == Spec => []KeysArriveInOrder
  <1>1. KInv => KeysArriveInOrder
    <2>1. (CHOOSE t \in Threads : pc[t] \in BusyAt) = (CHOOSE t \in Threads : Busy(t))
      BY DEF Busy, BusyAt
    <2>2. (\E t \in Threads : pc[t] \in BusyAt) <=> (\E t \in Threads : Busy(t))
      BY DEF Busy, BusyAt
    <2>3. QED
      BY <2>1, <2>2 DEF KInv, Accounted, KeysArriveInOrder, InHand, Posted, Numbered
  <1>2. QED
    BY <1>1, InitKInv, NextKeepsKeys, PTL DEF Spec

=============================================================================
