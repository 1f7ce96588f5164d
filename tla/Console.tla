------------------------------- MODULE Console -------------------------------
(***************************************************************************)
(* The line discipline the program builds for itself out of two pipes      *)
(* (piped_stdio, output_handler in console.cc, console_handler in          *)
(* black_circle.cc).  The terminal is raw, so in_handler edits the line    *)
(* and writes it, once complete, into the pipe that stands for standard    *)
(* input, where readline_handler reads it.  What the handlers print goes   *)
(* into the pipe that stands for standard output, from where out_handler   *)
(* puts it on the terminal.                                                *)
(*                                                                         *)
(* For every backspace the line before it is converted to wide characters  *)
(* and back (console.cc:200-202).  A symbol is one character for that.     *)
(*                                                                         *)
(* All handlers run on one thread, and the writes into the pipes block: a  *)
(* handler that fills a pipe waits for a reader that is itself.            *)
(***************************************************************************)
EXTENDS Integers, SequencesExt, Selection

CONSTANTS
  Words,       \* what a key may put into a line, apart from the three below
  Invalid,     \* those of them that are no character in the encoding of the terminal
  WideFits,    \* characters a pass of narrow_to_wide has room for: 1024 bytes of wchar_t
  NarrowFits,  \* characters a pass of wide_to_narrow has room for, whichever they are
  Garbled,     \* what wide_to_narrow makes of the longer strings that it does not give back
  Recoded,     \* what extern_to_utf8 makes of the lines that it changes: none if it is UTF-8
  Typed,       \* the key sequences a user may type before the terminal closes
  InCapacity,  \* symbols the input pipe holds
  OutCapacity, \* lines the output pipe holds
  MaxPrint,    \* lines one handler prints at most
  MaxOutput    \* bounds the lines the HTTP callbacks print

Symbols == Words \cup {"sp", "nl", "bs"}

ASSUME ConsoleAssumption ==
         /\ {"get", "print", "post", "exit"} \subseteq Words
         /\ Words \cap {"sp", "nl", "bs"} = {}
         /\ Invalid \subseteq Words
         /\ Typed \subseteq Seq(Symbols)
         /\ {InCapacity, OutCapacity, MaxPrint, MaxOutput, WideFits, NarrowFits} \subseteq Nat
         /\ WideFits <= NarrowFits

\* Both conversions shorten or keep a string, and what comes first of a long one is kept
\* (Conversion, ShortTextExact).
ASSUME ConversionsAssumption ==
  /\ \A ws \in DOMAIN Garbled :
       /\ ws \in Seq(Symbols) /\ Garbled[ws] \in Seq(Symbols)
       /\ NarrowFits <= Len(Garbled[ws]) /\ Len(Garbled[ws]) <= Len(ws) /\ NarrowFits < Len(ws)
       /\ SubSeq(Garbled[ws], 1, NarrowFits) = SubSeq(ws, 1, NarrowFits)
  /\ \A d \in DOMAIN Recoded :
       d \in Seq(Symbols) /\ Recoded[d] \in Seq(Symbols) /\ Len(Recoded[d]) <= Len(d)

VARIABLES
  keys,      \* what this user types, CR being "nl" already (in_handler replaces it)
  pressed,   \* how many of the keys have been pressed
  closed,    \* the terminal is closed: a read returns at once, with nothing
  read,      \* how many of the keys in_handler has taken
  burst,     \* history: the most line ends one read has taken
  exact,     \* history: no conversion has been of what it may not give back
  lastline,  \* output_handler: what has been typed and not yet sent on
  inPipe,    \* the pipe behind standard input
  written,   \* history: all that in_handler has written into it
  sb,        \* console_handler: the stream buffer
  commands,  \* history: what readline_handler has run, [buf, cmd, args]
  console,   \* "armed", "dead" after an exception, "done" after exit
  outPipe,   \* how many lines are in the pipe behind standard output
  osb,       \* how many lines are in output_handler's buffer
  shown,     \* how many lines are on the terminal
  life       \* "running"; "blocked" in write() for ever; "lost": pop_back() on an empty
             \* vector; "returned" from run()

input  == <<keys, pressed, closed, read, burst, exact, lastline, written>>
output == <<outPipe, osb, shown>>
vars   == <<input, inPipe, sb, commands, console, output, life>>

Has(s, x) == \E i \in DOMAIN s : s[i] = x
Count(s, x) == Cardinality({i \in DOMAIN s : s[i] = x})
Drop(s, n) == SubSeq(s, n + 1, Len(s))

\* The index of the first element of S in s, one past the end if there is none.
FirstOf[S \in SUBSET Symbols] ==
  [s \in Seq(Symbols) |-> Min({i \in DOMAIN s : s[i] \in S} \cup {Len(s) + 1})]

-----------------------------------------------------------------------------
(* The terminal. *)

Press == /\ life = "running" /\ pressed < Len(keys)
         /\ pressed' = pressed + 1
         /\ UNCHANGED <<keys, closed, read, burst, exact, lastline, written,
                        inPipe, sb, commands, console, output, life>>

CloseTerminal ==
  /\ life = "running" /\ ~closed
  /\ pressed = Len(keys)
  /\ closed' = TRUE
  /\ UNCHANGED <<keys, pressed, read, burst, exact, lastline, written,
                 inPipe, sb, commands, console, output, life>>

-----------------------------------------------------------------------------
(* in_handler. *)

\* extern_to_wide (narrow_to_wide): what is no character is left out, and so is the character
\* for which a pass has no room; either way a new pass begins.
Pass[x \in Symbols] ==
  [done \in [ws : Seq(Symbols), room : 0 .. WideFits] |->
     IF x \in Invalid \/ done.room = 0 THEN [ws |-> done.ws, room |-> WideFits]
     ELSE [ws |-> Append(done.ws, x), room |-> done.room - 1]]

Widened(s) ==
  LET upTo[n \in 0 .. Len(s)] ==
        IF n = 0 THEN [ws |-> <<>>, room |-> WideFits] ELSE Pass[s[n]][upTo[n - 1]]
  IN upTo[Len(s)].ws

\* wide_to_extern (wide_to_narrow), which goes on in the middle of the character it had no
\* room for.
Narrowed(ws) == IF ws \in DOMAIN Garbled THEN Garbled[ws] ELSE ws

\* extern_to_utf8.
ToUtf8(d) == IF d \in DOMAIN Recoded THEN Recoded[d] ELSE d

\* The loop over backspaces: the first one goes, with the last character of what comes before
\* it.  When there is none pop_back() has nothing to take, and the loop gets no further.
RubOut[s \in Seq(Symbols)] ==
  LET p  == FirstOf[{"bs"}][s]
      ws == Widened(SubSeq(s, 1, p - 1))
  IN IF p = Len(s) + 1 \/ ws = <<>> THEN s
     ELSE RubOut[Narrowed(Front(ws)) \o Drop(s, p)]

\* What a line editor makes of the keys ks: each backspace takes back the key before it.
Edited(ks) ==
  LET upTo[n \in 0 .. Len(ks)] == IF n = 0 THEN <<>>
                                  ELSE IF ks[n] = "bs" THEN Front(upTo[n - 1])
                                  ELSE Append(upTo[n - 1], ks[n])
  IN upTo[Len(ks)]

\* Every pass of every conversion for the backspaces in s has room, and characters only.
Convertible(s) ==
  \A p \in DOMAIN s : s[p] = "bs" =>
    LET line == Edited(SubSeq(s, 1, p - 1))
    IN Len(line) <= WideFits /\ \A i \in DOMAIN line : line[i] \notin Invalid

\* Mutant of SendLine: the line end stays in lastline.
SendLineKeepingEol(line) ==
  LET eol == FirstOf[{"nl"}][line]
      d   == SubSeq(line, 1, eol)
  IN \/ eol > Len(line) /\ lastline' = line /\ UNCHANGED <<inPipe, written, life>>
     \/ /\ eol <= Len(line)
        /\ Len(inPipe) + Len(ToUtf8(d)) <= InCapacity
        /\ inPipe' = inPipe \o ToUtf8(d)
        /\ written' = written \o ToUtf8(d)
        /\ lastline' = Drop(line, eol - 1)
        /\ UNCHANGED life

\* The first complete line is sent on, and only that one.
SendLine(line) ==
  LET eol == FirstOf[{"nl"}][line]
      d   == SubSeq(line, 1, eol)
  IN \/ /\ eol > Len(line)
        /\ lastline' = line
        /\ UNCHANGED <<inPipe, written, life>>
     \/ /\ eol <= Len(line)
        /\ Len(inPipe) + Len(ToUtf8(d)) <= InCapacity
        /\ inPipe' = inPipe \o ToUtf8(d)
        /\ written' = written \o ToUtf8(d)
        /\ lastline' = Drop(line, eol)
        /\ UNCHANGED life
     \/ /\ eol <= Len(line)
        /\ Len(inPipe) + Len(ToUtf8(d)) > InCapacity
        /\ lastline' = line /\ life' = "blocked"
        /\ UNCHANGED <<inPipe, written>>

SentExactly(line) ==
  Has(line, "nl") => SubSeq(line, 1, FirstOf[{"nl"}][line]) \notin DOMAIN Recoded

\* Mutant of InHandler: an empty read changes nothing.
InHandlerIgnoringEof ==
  /\ life = "running"
  /\ \E n \in read + 1 .. pressed :
       LET chunk == SubSeq(keys, read + 1, n)
           line  == RubOut[lastline \o chunk]
       IN /\ read' = n
          /\ burst' = IF Count(chunk, "nl") > burst THEN Count(chunk, "nl") ELSE burst
          /\ exact' = (exact /\ Convertible(lastline \o chunk) /\ SentExactly(line))
          /\ \/ ~Has(line, "bs") /\ SendLine(line)
             \/ /\ Has(line, "bs")
                /\ lastline' = line /\ life' = "lost"
                /\ UNCHANGED <<inPipe, written>>
  /\ UNCHANGED <<keys, pressed, closed, sb, commands, console, output>>

\* The read takes any number of the keys pressed, or none when the terminal is closed.
InHandler ==
  /\ life = "running"
  /\ \E n \in read .. pressed :
       LET chunk == SubSeq(keys, read + 1, n)
           line  == RubOut[lastline \o chunk]
       IN /\ n > read \/ (closed /\ read = pressed)
          /\ read' = n
          /\ burst' = IF Count(chunk, "nl") > burst THEN Count(chunk, "nl") ELSE burst
          /\ exact' = (exact /\ Convertible(lastline \o chunk) /\ SentExactly(line))
          /\ \/ ~Has(line, "bs") /\ SendLine(line)
             \/ /\ Has(line, "bs")
                /\ lastline' = line /\ life' = "lost"
                /\ UNCHANGED <<inPipe, written>>
  /\ UNCHANGED <<keys, pressed, closed, sb, commands, console, output>>

-----------------------------------------------------------------------------
(* Standard output. *)

\* Print n lines and flush: the write blocks when they do not fit.
PrintLines(n) ==
  \/ /\ outPipe + n <= OutCapacity
     /\ outPipe' = outPipe + n
     /\ UNCHANGED <<osb, shown, life>>
  \/ /\ outPipe + n > OutCapacity
     /\ outPipe' = OutCapacity
     /\ life' = "blocked"
     /\ UNCHANGED <<osb, shown>>

\* A reply or an event is printed by http_handler (TweetStore).
HttpReply ==
  /\ life = "running"
  /\ \E n \in 1 .. MaxPrint : shown + osb + outPipe + n <= MaxOutput /\ PrintLines(n)
  /\ UNCHANGED <<input, inPipe, sb, commands, console>>

\* Mutant of OutRead: waits for the pipe to be full.
OutReadWhenFull ==
  /\ life = "running" /\ osb = 0
  /\ outPipe = OutCapacity /\ osb' = outPipe /\ outPipe' = 0
  /\ UNCHANGED <<input, inPipe, sb, commands, console, shown, life>>

\* async_read_until reads only when the buffer holds no line.
OutRead ==
  /\ life = "running" /\ osb = 0
  /\ \E n \in 1 .. outPipe : osb' = n /\ outPipe' = outPipe - n
  /\ UNCHANGED <<input, inPipe, sb, commands, console, shown, life>>

OutHandler ==
  /\ life = "running" /\ osb > 0
  /\ osb' = osb - 1
  /\ shown' = shown + 1
  /\ UNCHANGED <<input, inPipe, sb, commands, console, outPipe, life>>

-----------------------------------------------------------------------------
(* readline_handler. *)

\* Mutant of ReadlineRead: reads only into an empty buffer.
ReadlineReadWhenEmpty ==
  /\ life = "running" /\ console = "armed" /\ sb = <<>>
  /\ \E n \in 1 .. Len(inPipe) : sb' = SubSeq(inPipe, 1, n) /\ inPipe' = Drop(inPipe, n)
  /\ UNCHANGED <<input, commands, console, output, life>>

ReadlineRead ==
  /\ life = "running" /\ console = "armed" /\ ~Has(sb, "nl")
  /\ \E n \in 1 .. Len(inPipe) : sb' = sb \o SubSeq(inPipe, 1, n) /\ inPipe' = Drop(inPipe, n)
  /\ UNCHANGED <<input, commands, console, output, life>>

SkipBlanks(s) == Drop(s, FirstOf[Words][s] - 1)

\* Mutants of Parse: the arguments run to the end of the buffer; the rest of it is dropped.
ParseGreedy(s) ==
  LET t    == SkipBlanks(s)
      cmd  == SubSeq(t, 1, FirstOf[{"sp", "nl"}][t] - 1)
  IN [cmd |-> cmd, args |-> SkipBlanks(Drop(t, Len(cmd))), rest |-> <<>>]

ParseDropping(s) ==
  LET t    == SkipBlanks(s)
      cmd  == SubSeq(t, 1, FirstOf[{"sp", "nl"}][t] - 1)
      tail == SkipBlanks(Drop(t, Len(cmd)))
  IN [cmd |-> cmd, args |-> SubSeq(tail, 1, FirstOf[{"nl"}][tail] - 1), rest |-> <<>>]

\* is >> cmd, sentry(is), getline(is, args).  The sentry skips line ends as well as spaces.
Parse(s) ==
  LET t    == SkipBlanks(s)
      cmd  == SubSeq(t, 1, FirstOf[{"sp", "nl"}][t] - 1)
      tail == SkipBlanks(Drop(t, Len(cmd)))
      args == SubSeq(tail, 1, FirstOf[{"nl"}][tail] - 1)
  IN [cmd |-> cmd, args |-> args, rest |-> Drop(tail, Len(args) + 1)]

\* get and post may throw (TwitterSession); print copies the stores to standard output.
Execute(cmd) ==
  \/ cmd = <<"exit">> /\ console' = "done" /\ UNCHANGED <<output, life>>
  \/ cmd = <<"print">> /\ (\E n \in 0 .. MaxPrint : PrintLines(n)) /\ UNCHANGED console
  \/ cmd \in {<<"get">>, <<"post">>} /\ console' \in {"armed", "dead"} /\ UNCHANGED <<output, life>>
  \/ /\ cmd \notin {<<"exit">>, <<"print">>, <<"get">>, <<"post">>}
     /\ UNCHANGED <<console, output, life>>

ReadlineHandler ==
  /\ life = "running" /\ console = "armed" /\ Has(sb, "nl")
  /\ LET p == Parse(sb)
     IN /\ sb' = p.rest
        /\ commands' = Append(commands, [buf |-> sb, cmd |-> p.cmd, args |-> p.args])
        /\ Execute(p.cmd)
  /\ UNCHANGED <<input, inPipe>>

\* The stop that shutdown() posts.
Stop ==
  /\ life = "running" /\ console = "done"
  /\ life' = "returned"
  /\ UNCHANGED <<input, inPipe, sb, commands, console, output>>

-----------------------------------------------------------------------------

Init == /\ keys \in Typed
        /\ pressed = 0 /\ closed = FALSE /\ read = 0 /\ burst = 0 /\ exact = TRUE
        /\ lastline = <<>> /\ inPipe = <<>> /\ written = <<>>
        /\ sb = <<>> /\ commands = <<>> /\ console = "armed"
        /\ outPipe = 0 /\ osb = 0 /\ shown = 0
        /\ life = "running"

Next == \/ Press \/ CloseTerminal
        \/ InHandler
        \/ HttpReply
        \/ OutRead \/ OutHandler
        \/ ReadlineRead \/ ReadlineHandler
        \/ Stop

Spec == Init /\ [][Next]_vars

\* run() serves every descriptor that is ready and every handler that is queued.  Nobody has
\* to type, and nothing has to come in over HTTP.
FairSpec == /\ Spec
            /\ WF_vars(InHandler)
            /\ WF_vars(OutRead) /\ WF_vars(OutHandler)
            /\ WF_vars(ReadlineRead) /\ WF_vars(ReadlineHandler)

-----------------------------------------------------------------------------
(* Properties. *)

\* However the keys are split over reads, and whatever has been sent on by then, the lines
\* in_handler sends are those of a line editor: no key is lost, doubled or reordered.  Only a
\* backspace behind a byte that is no character, or behind more characters than a pass of the
\* conversion has room for, can change that, or a line that is not UTF-8.
EditedInOrder ==
  exact /\ life # "lost" => written \o lastline = Edited(SubSeq(keys, 1, read))

\* A finished line is kept back, until some later key, only if one read took two line ends, or
\* a conversion made one up.
LineHeldOnlyAfterBurst ==
  Has(lastline, "nl") => burst > 1 \/ life \in {"blocked", "lost"} \/ ~exact

NonBlank(s) == Select(s, Words)

\* The i-th line of s.
Line(s, i) ==
  LET end(k) == CHOOSE j \in DOMAIN s : s[j] = "nl" /\ Count(SubSeq(s, 1, j), "nl") = k
  IN SubSeq(s, IF i = 1 THEN 1 ELSE end(i - 1) + 1, end(i))

\* When more has been typed ahead, the words that follow can become the arguments of a command
\* that came without any, and of no other.
TypeAheadOnlyFeedsBare ==
  \A i \in DOMAIN commands :
    LET c     == commands[i]
        own   == Line(SkipBlanks(c.buf), 1)
        after == SkipBlanks(Drop(own, Len(c.cmd)))
    IN Has(SkipBlanks(c.buf), "nl") => after = <<>> \/ after = Append(c.args, "nl")

\* Words leave the input pipe in order and end up in one command each.
NoWordLost ==
  NonBlank(FlattenSeq([i \in DOMAIN commands |-> commands[i].cmd \o commands[i].args])
           \o sb \o inPipe) = NonBlank(written)

\* A line that in_handler has sent on is run, while the console and the loop go on.
LinesRead == []<>(Has(sb \o inPipe, "nl") => life # "running" \/ console # "armed")

\* What is printed reaches the terminal, while the loop goes on.
OutputShown == []<>(outPipe + osb > 0 => life # "running")

\* Lines kept back go on when the terminal closes: the empty reads bring them out.
HeldLinesDrain ==
  (closed /\ read = Len(keys)) ~> (Has(lastline, "nl") => life # "running")

=============================================================================
