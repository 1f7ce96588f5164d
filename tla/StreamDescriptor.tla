-------------------------- MODULE StreamDescriptor --------------------------
(***************************************************************************)
(* stream_descriptor where asio has none (console.cc, Windows): every      *)
(* async_read_some starts a thread that waits, reads and posts the handler *)
(* to the io_service, while the main thread may leave run() and destroy    *)
(* the buffer and then the descriptor.  The threads share object_status    *)
(* (mtx, dead, ev) with the destructor and outlive it.                     *)
(*                                                                         *)
(* The owner is console_handler or output_handler: its composed read calls *)
(* async_read_some again from the handler of the previous one.             *)
(***************************************************************************)
EXTENDS Naturals, Sequences, FiniteSets, Selection

CONSTANTS
  MaxReads,    \* bounds the calls of async_read_some
  MaxRecords   \* bounds the input

ASSUME StreamAssumption == MaxReads \in Nat \ {0} /\ MaxRecords \in Nat

Threads == 1 .. MaxReads
Main    == 0     \* as a holder of the mutex
Nobody  == MaxReads + 1
Other   == 0     \* a console record that is no key press; a key press is its number

VARIABLES
  isChar,   \* GetFileType(fd) == FILE_TYPE_CHAR: the console, otherwise a pipe or file
  records,  \* the input that nothing has read
  keys,     \* how many key presses (or bytes) have come in
  pc,       \* where each thread is
  got,      \* what each thread has read
  queue,    \* handlers posted to the io_service and not run, each with its data
  given,    \* history: what the handlers that ran have received
  main,     \* "running"; "bufferFreed"; the destructor: "locked", "signalled", "dead"; "freed"
  mtx,      \* who holds it
  dead,
  ev        \* the auto-reset event

status == <<mtx, dead, ev>>
vars   == <<isChar, records, keys, pc, got, queue, given, main, status>>

Goto(t, label) == pc' = [pc EXCEPT ![t] = label]

-----------------------------------------------------------------------------
(* thread_handler. *)

\* WaitForMultipleObjects reports the event rather than the console when both are signalled.
Wait(t) ==
  /\ pc[t] = "wait"
  /\ \/ ~isChar /\ Goto(t, "read") /\ UNCHANGED ev
     \/ isChar /\ ev /\ Goto(t, "done") /\ ev' = FALSE
     \/ isChar /\ ~ev /\ records # <<>> /\ Goto(t, "peek") /\ UNCHANGED ev
  /\ UNCHANGED <<isChar, records, keys, got, queue, given, main, mtx, dead>>

\* Mutant of Peek: takes out whatever record is there.
PeekDropping(t) ==
  /\ pc[t] = "peek"
  /\ records' = Tail(records) /\ Goto(t, "wait")
  /\ UNCHANGED <<isChar, keys, got, queue, given, main, status>>

\* A record that is no key press is taken out, and the wait begins again.
Peek(t) ==
  /\ pc[t] = "peek"
  /\ IF records # <<>> /\ Head(records) = Other
     THEN records' = Tail(records) /\ Goto(t, "wait")
     ELSE Goto(t, "read") /\ UNCHANGED records
  /\ UNCHANGED <<isChar, keys, got, queue, given, main, status>>

KeysOf(rs) == Select(rs, Nat \ {Other})

\* read() waits for a key press and puts what there is into the caller's buffer, or fails.
Read(t) ==
  /\ pc[t] = "read"
  /\ \/ \E n \in DOMAIN records :
          /\ KeysOf(SubSeq(records, 1, n)) # <<>>
          /\ got' = [got EXCEPT ![t] = KeysOf(SubSeq(records, 1, n))]
          /\ records' = SubSeq(records, n + 1, Len(records))
     \/ UNCHANGED <<got, records>>
  /\ Goto(t, "lock")
  /\ UNCHANGED <<isChar, keys, queue, given, main, status>>

Lock(t) ==
  /\ pc[t] = "lock" /\ mtx = Nobody
  /\ mtx' = t
  /\ Goto(t, "post")
  /\ UNCHANGED <<isChar, records, keys, got, queue, given, main, dead, ev>>

\* io is a member of the descriptor: the post goes through `this'.
Post(t) ==
  /\ pc[t] = "post"
  /\ queue' = IF dead THEN queue ELSE Append(queue, got[t])
  /\ Goto(t, "unlock")
  /\ UNCHANGED <<isChar, records, keys, got, given, main, status>>

\* Mutant of Unlock: the mutex stays locked.
UnlockMissing(t) ==
  /\ pc[t] = "unlock"
  /\ Goto(t, "done")
  /\ UNCHANGED <<isChar, records, keys, got, queue, given, main, status>>

Unlock(t) ==
  /\ pc[t] = "unlock"
  /\ mtx' = Nobody
  /\ Goto(t, "done")
  /\ UNCHANGED <<isChar, records, keys, got, queue, given, main, dead, ev>>

Thread(t) == Wait(t) \/ Peek(t) \/ Read(t) \/ Lock(t) \/ Post(t) \/ Unlock(t)

-----------------------------------------------------------------------------
(* The main thread. *)

Started == {t \in Threads : pc[t] # "none"}

\* Mutant of RunHandler: the composed read goes on and the owner starts another.
RunHandlerTwice ==
  /\ main = "running" /\ queue # <<>>
  /\ given' = given \o Head(queue)
  /\ queue' = Tail(queue)
  /\ pc' = [t \in Threads |->
              IF t \in Cardinality(Started) + 1 .. Cardinality(Started) + 2 THEN "wait" ELSE pc[t]]
  /\ UNCHANGED <<isChar, records, keys, got, main, status>>

\* The handler: the composed read goes on, or the owner starts the next one, or neither.
RunHandler ==
  /\ main = "running" /\ queue # <<>>
  /\ given' = given \o Head(queue)
  /\ queue' = Tail(queue)
  /\ \/ UNCHANGED pc
     \/ \E t \in Threads \ Started : t = Cardinality(Started) + 1 /\ Goto(t, "wait")
  /\ UNCHANGED <<isChar, records, keys, got, main, status>>

Step(from, to) == main = from /\ main' = to

\* The owner's members go in reverse order: the buffer before the descriptor.
FreeBuffer == Step("running", "bufferFreed") /\ UNCHANGED status

DestructorLock == /\ Step("bufferFreed", "locked")
                  /\ mtx = Nobody /\ mtx' = Main
                  /\ UNCHANGED <<dead, ev>>

\* Mutants of SetEvent and SetDead: left out.
SetEventMissing == Step("locked", "signalled") /\ UNCHANGED status
SetDeadMissing  == Step("signalled", "dead") /\ UNCHANGED status

SetEvent == Step("locked", "signalled") /\ ev' = TRUE /\ UNCHANGED <<mtx, dead>>

SetDead == Step("signalled", "dead") /\ dead' = TRUE /\ UNCHANGED <<mtx, ev>>

Destroyed == Step("dead", "freed") /\ mtx' = Nobody /\ UNCHANGED <<dead, ev>>

Untouched == UNCHANGED <<isChar, records, keys, pc, got, queue, given>>

Leave    == FreeBuffer /\ Untouched
Destruct == (DestructorLock \/ SetEvent \/ SetDead \/ Destroyed) /\ Untouched

-----------------------------------------------------------------------------

\* Something happens at the console, or comes through the pipe.
Input ==
  /\ Len(records) + Len(given) < MaxRecords /\ keys < MaxRecords
  /\ \/ keys' = keys + 1 /\ records' = Append(records, keys + 1)
     \/ isChar /\ records' = Append(records, Other) /\ UNCHANGED keys
  /\ UNCHANGED <<isChar, pc, got, queue, given, main, status>>

\* The owner's constructor has started the first read.
Init == /\ isChar \in BOOLEAN
        /\ records = <<>> /\ keys = 0
        /\ pc = [t \in Threads |-> IF t = 1 THEN "wait" ELSE "none"]
        /\ got = [t \in Threads |-> <<>>]
        /\ queue = <<>> /\ given = <<>>
        /\ main = "running" /\ mtx = Nobody /\ dead = FALSE /\ ev = FALSE

Next == (\E t \in Threads : Thread(t)) \/ RunHandler \/ Leave \/ Destruct \/ Input

Spec == Init /\ [][Next]_vars

\* Threads and the destructor are scheduled; nobody has to leave, and nothing has to come in.
\* A thread that is let in whenever the mutex is free again gets it (strong fairness).
FairSpec == /\ Spec
            /\ \A t \in Threads : WF_vars(Thread(t)) /\ SF_vars(Lock(t))
            /\ WF_vars(RunHandler) /\ SF_vars(DestructorLock /\ Untouched) /\ WF_vars(Destruct)

-----------------------------------------------------------------------------
(* Properties. *)

\* A thread that has yet to post.
Busy(t) == pc[t] \in {"wait", "peek", "read", "lock", "post"}

\* One read at a time: threads overlap only in the unlock that follows a post, so no two of
\* them ever write into the buffer, or read the same console.  That holds on during and after
\* the destructor, which cannot stop a thread past its wait: one at most may still write into
\* the buffer that is gone.
OneReadAtATime ==
  /\ \A t, u \in Threads : Busy(t) /\ Busy(u) => t = u
  /\ \A t \in Threads : Busy(t) => queue = <<>>

\* A thread reaches for the io_service through the descriptor, so from the destructor's lock on
\* nothing is posted any more: what comes in later is dropped.
NoPostOnceDestroyed == [][main \notin {"running", "bufferFreed"} => UNCHANGED queue]_vars

\* The thread that blocks in its wait on the console goes when the descriptor does: the event
\* stays set until it gets there.
WaitersReleased == \A t \in Threads : dead /\ pc[t] = "wait" ~> pc[t] # "wait"

\* The handlers receive every key press, in order; only a key read across the end is lost.
KeysArriveInOrder ==
  main = "running" =>
    LET posted  == IF queue = <<>> THEN <<>> ELSE Head(queue)
        reading == IF \E t \in Threads : Busy(t) THEN got[CHOOSE t \in Threads : Busy(t)] ELSE <<>>
    IN given \o posted \o reading \o KeysOf(records) = [i \in 1 .. keys |-> i]

\* Taking down a descriptor never waits for a thread that is blocked reading.
DestructionEnds == main = "bufferFreed" ~> main = "freed"

=============================================================================
