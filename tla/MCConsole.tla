------------------------------ MODULE MCConsole ------------------------------
(* A few sessions at the keyboard for Console. *)
EXTENDS Console

MCWords == {"get", "print", "post", "exit", "hi", "raw"}

\* A byte from another encoding.
MCInvalid == {"raw"}

\* The line without its last word is five characters when the one over is taken out.
MCLong == <<"post", "sp", "hi", "sp", "hi", "get", "hi", "bs", "nl">>

MCTyped ==
  { <<"get", "nl", "post", "sp", "hi", "nl">>,               \* a bare command, then another line
    <<"post", "sp", "hi", "sp", "hi", "nl", "exit", "nl">>,
    <<"hi", "bs", "sp", "print", "nl", "nl", "print", "nl">>,  \* corrections and an empty line
    <<"print", "nl", "bs", "get", "nl">>,                    \* takes back a line end, or too much
    <<"post", "sp", "hi", "bs", "bs", "bs", "bs", "hi", "nl">>,
    MCLong,
    <<"hi", "raw", "bs", "hi", "raw", "nl", "raw", "bs">> }

\* What does not fit is read as a line end, from the middle of the character before.
MCGarbled == <<"post", "sp", "hi", "sp", "get">> :> <<"post", "sp", "hi", "sp", "nl">>

MCRecoded == <<"hi", "raw", "nl">> :> <<"hi", "nl">>

=============================================================================
