------------------------------ MODULE Terminal ------------------------------
(***************************************************************************)
(* Who owns which file descriptor, from the construction of the objects of *)
(* main()'s last block (black_circle.cc) to their destruction: raw_termios *)
(* and piped_stdio (console.cc), and three stream_descriptors that close   *)
(* numbers they were only given.  A constructor is a step, as nothing can  *)
(* come between its calls that matters here; a destructor runs call by     *)
(* call.  The build is the one for Unix.                                   *)
(***************************************************************************)
EXTENDS Integers, SequencesExt

CONSTANTS
  MaxSockets,   \* sockets open at once
  MaxInherited  \* descriptors the process is started with, or that the io_service opens

ASSUME TerminalAssumption == MaxSockets \in Nat /\ MaxInherited \in Nat

None == "none"

\* 0, 1, 2, what is open from the start, the sockets, /dev/tty, and four of pipes and copies
\* (two more while a pipe is made).
Numbers == 0 .. 3 + MaxInherited + MaxSockets + 6

VARIABLES
  fds,      \* the descriptor table: the file behind each number
  mode,     \* of the terminal: "cooked" as the shell left it, or "raw"
  ti,       \* raw_termios::no, -1 if /dev/tty cannot be opened
  ps,       \* piped_stdio's four numbers
  objects,  \* those constructed, in order: they are destroyed in reverse
  whole,    \* history: those there were when the destruction began
  calls,    \* the system calls left of the destructor that runs
  strays,   \* history: calls that closed or copied a file other than they were meant for
  main      \* "constructing", "running", "unwinding", "ended", or "killed" by a signal

vars == <<fds, mode, ti, ps, objects, whole, calls, strays, main>>

Count(file) == Cardinality({n \in Numbers : fds[n] = file})

-----------------------------------------------------------------------------
(* System calls. *)

Lowest(t) == CHOOSE n \in Numbers : t[n] = None /\ \A k \in 0 .. n - 1 : t[k] # None

\* open, dup and the like take the lowest number that is free.
Opened(t, file) == [t EXCEPT ![Lowest(t)] = file]

Close(n, file)       == [call |-> "close", on |-> n, file |-> file]
Dup2(from, file, to) == [call |-> "dup2", on |-> from, file |-> file, to |-> to]
SetAttr(n)           == [call |-> "tcsetattr", on |-> n, file |-> "tty"]

-----------------------------------------------------------------------------
(* Construction. *)

Adds(object) == main = "constructing" /\ objects' = Append(objects, object)

\* raw_termios
MakeTermios ==
  /\ objects = <<"cli">> /\ Adds("ti")
  /\ \/ ti' = Lowest(fds) /\ fds' = Opened(fds, "tty") /\ mode' = "raw"
     \/ ti' = -1 /\ UNCHANGED <<fds, mode>>
  /\ UNCHANGED <<ps, whole, calls, strays, main>>

NewPipe(t, r, w) ==
  LET half == Opened(t, r)
  IN [read |-> Lowest(t), write |-> Lowest(half), table |-> Opened(half, w)]

\* dup of the standard descriptor, dup2 of the pipe's end onto it, close of the end's number.
Redirect(t, end, std) ==
  [copy |-> Lowest(t), table |-> [Opened(t, t[std]) EXCEPT ![std] = t[end], ![end] = None]]

\* Mutant of Pipes: of the second pipe the wrong end is kept.
PipesWithWrongEnd(t) ==
  LET p   == NewPipe(t, "outR", "outW")
      out == Redirect(p.table, p.write, 1)
      q   == NewPipe(out.table, "inR", "inW")
      in  == Redirect(q.table, q.read, 0)
  IN [table |-> in.table, piped_stdout |-> p.read, true_stdout |-> out.copy,
      piped_stdin |-> q.read, true_stdin |-> in.copy]

Pipes(t) ==
  LET p   == NewPipe(t, "outR", "outW")
      out == Redirect(p.table, p.write, 1)
      q   == NewPipe(out.table, "inR", "inW")
      in  == Redirect(q.table, q.read, 0)
  IN [table |-> in.table, piped_stdout |-> p.read, true_stdout |-> out.copy,
      piped_stdin |-> q.write, true_stdin |-> in.copy]

\* piped_stdio
MakePipes ==
  /\ objects = <<"cli", "ti">> /\ Adds("ps")
  /\ LET p == Pipes(fds)
     IN /\ fds' = p.table
        /\ ps' = [n \in DOMAIN ps |-> p[n]]
  /\ UNCHANGED <<mode, ti, whole, calls, strays, main>>

\* The stream_descriptors of output_handler_impl, and console_handler's on standard input.
MakeStream ==
  /\ \/ objects = <<"cli", "ti", "ps">> /\ Adds("ost") /\ UNCHANGED main
     \/ objects = <<"cli", "ti", "ps", "ost">> /\ Adds("ist") /\ UNCHANGED main
     \/ objects = <<"cli", "ti", "ps", "ost", "ist">> /\ Adds("st") /\ main' = "running"
  /\ UNCHANGED <<fds, mode, ti, ps, whole, calls, strays>>

MakeClient ==
  /\ objects = <<>> /\ Adds("cli")
  /\ fds' = Opened(fds, "socket")
  /\ UNCHANGED <<mode, ti, ps, whole, calls, strays, main>>

\* The constructor of the next object throws: a connect fails, or a descriptor cannot be
\* waited for.  raw_termios and piped_stdio do not look at errors.
ConstructorThrows ==
  /\ main = "constructing"
  /\ objects \notin {<<"cli">>, <<"cli", "ti">>}
  /\ main' = "unwinding" /\ whole' = objects
  /\ UNCHANGED <<fds, mode, ti, ps, objects, calls, strays>>

-----------------------------------------------------------------------------
(* The loop.  Every exception is caught in it, and it ends when run() returns. *)

OpenSocket ==
  /\ main = "running" /\ Count("socket") < MaxSockets
  /\ fds' = Opened(fds, "socket")
  /\ UNCHANGED <<mode, ti, ps, objects, whole, calls, strays, main>>

CloseSocket ==
  /\ main = "running"
  /\ \E n \in Numbers : fds[n] = "socket" /\ fds' = [fds EXCEPT ![n] = None]
  /\ UNCHANGED <<mode, ti, ps, objects, whole, calls, strays, main>>

LoopBreaks ==
  /\ main = "running" /\ main' = "unwinding" /\ whole' = objects
  /\ UNCHANGED <<fds, mode, ti, ps, objects, calls, strays>>

-----------------------------------------------------------------------------
(* Destruction. *)

\* Mutant of TermiosDestructor: the descriptor is closed first.
TermiosDestructorClosingFirst == <<Close(ti, "tty"), SetAttr(ti)>>

TermiosDestructor == <<SetAttr(ti), Close(ti, "tty")>>

PipedStdioDestructor ==
  <<Dup2(ps.true_stdout, "stdout", 1), Close(ps.true_stdout, "stdout"), Close(ps.piped_stdout, "outR"),
    Dup2(ps.true_stdin, "stdin", 0), Close(ps.true_stdin, "stdin"), Close(ps.piped_stdin, "inW")>>

\* A stream_descriptor closes its number.  The sockets go with the io_service.
Destructor(object) ==
  CASE object = "st"  -> <<Close(0, "inR")>>
    [] object = "ist" -> <<Close(ps.true_stdin, "stdin")>>
    [] object = "ost" -> <<Close(ps.piped_stdout, "outR")>>
    [] object = "ps"  -> PipedStdioDestructor
    [] object = "ti"  -> TermiosDestructor
    [] object = "cli" -> <<>>

Unwind ==
  /\ main = "unwinding" /\ calls = <<>> /\ objects # <<>>
  /\ calls' = Destructor(Last(objects))
  /\ objects' = Front(objects)
  /\ UNCHANGED <<fds, mode, ti, ps, whole, strays, main>>

\* The errors of the calls are not looked at: on a number that is not open nothing happens.
Call ==
  /\ main = "unwinding" /\ calls # <<>>
  /\ LET c    == Head(calls)
         open == c.on \in Numbers /\ fds[c.on] # None
     IN /\ fds' = IF ~open THEN fds
                  ELSE CASE c.call = "close"     -> [fds EXCEPT ![c.on] = None]
                         [] c.call = "dup2"      -> [fds EXCEPT ![c.to] = fds[c.on]]
                         [] c.call = "tcsetattr" -> fds
        /\ mode' = IF open /\ c.call = "tcsetattr" THEN "cooked" ELSE mode
        /\ strays' = IF open /\ fds[c.on] # c.file THEN strays \cup {c} ELSE strays
  /\ calls' = Tail(calls)
  /\ UNCHANGED <<ti, ps, objects, whole, main>>

End ==
  /\ main = "unwinding" /\ calls = <<>> /\ objects = <<>>
  /\ main' = "ended"
  /\ UNCHANGED <<fds, mode, ti, ps, objects, whole, calls, strays>>

\* raw_termios leaves ISIG set, and no handler is installed: ^C ends the process on the spot.
Interrupt ==
  /\ main \notin {"ended", "killed"} /\ main' = "killed"
  /\ UNCHANGED <<fds, mode, ti, ps, objects, whole, calls, strays>>

Init ==
  /\ \E inherited \in 0 .. MaxInherited :
       fds = [n \in Numbers |-> CASE n = 0 -> "stdin" [] n = 1 -> "stdout" [] n = 2 -> "stderr"
                                  [] n \in 3 .. 2 + inherited -> "inherited" [] OTHER -> None]
  /\ mode = "cooked"
  /\ ti = -1
  /\ ps = [piped_stdout |-> -1, true_stdout |-> -1, piped_stdin |-> -1, true_stdin |-> -1]
  /\ objects = <<>> /\ whole = <<>> /\ calls = <<>> /\ strays = {} /\ main = "constructing"

Next == \/ MakeClient \/ MakeTermios \/ MakePipes \/ MakeStream \/ ConstructorThrows
        \/ OpenSocket \/ CloseSocket \/ LoopBreaks
        \/ Unwind \/ Call \/ End
        \/ Interrupt

Spec == Init /\ [][Next]_vars

-----------------------------------------------------------------------------
(* Properties. *)

\* However main() leaves the block, and wherever a constructor threw, the terminal is back in
\* its mode and standard output is what it was, so that what main() prints then is seen.
\* Standard input is not, once output_handler had its descriptor: ist closes true_stdin before
\* piped_stdio copies it back.  Nothing else stays open, and only a signal leaves the terminal
\* raw.
EndsAsItBegan ==
  main = "ended" =>
    /\ mode = "cooked"
    /\ fds[1] = "stdout"
    /\ fds[0] = CASE ~Contains(whole, "ist") -> "stdin"
                  [] Contains(whole, "ist") /\ ~Contains(whole, "st") -> "inR"
                  [] Contains(whole, "st") -> None
    /\ \A n \in Numbers \ 0 .. 2 : fds[n] \in {None, "inherited", "socket"}

\* Though two descriptors have two owners each, which both close them, and three calls of
\* piped_stdio therefore fail, no call of a destructor reaches a file that is not its own:
\* nothing is opened between the first close of a number and the second.
NoStrayCall == strays = {}

=============================================================================
