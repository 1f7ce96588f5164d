--------------------------- MODULE FrameDelivery ----------------------------
(***************************************************************************)
(* What an http_client promises the owner of its callback, whatever the    *)
(* transport does: the body frames of the response (the chunks of a        *)
(* chunked body, or the one body of a response with a Content-Length) are  *)
(* handed over one by one, in order, each at most once and only when all   *)
(* of it has arrived.  A callback whose data is not a frame can only come  *)
(* last, after the peer has closed and after every complete frame.         *)
(***************************************************************************)
EXTENDS Naturals, Sequences

VARIABLES
  arrived,  \* how many frames have arrived completely
  out,      \* per callback, the number of the frame it carried, 0 when it was none
  eof,      \* the peer has closed
  live      \* the reader may still make callbacks

fdVars == <<arrived, out, eof, live>>

FDInit == arrived = 0 /\ out = <<>> /\ eof = FALSE /\ live = TRUE

Arrive == /\ live
          /\ arrived' > arrived
          /\ UNCHANGED <<out, eof, live>>

Close == ~eof /\ eof' = TRUE /\ UNCHANGED <<arrived, out, live>>

\* The callback may throw, which ends the reader.
HandOver == /\ live
            /\ Len(out) < arrived
            /\ out' = Append(out, Len(out) + 1)
            /\ live' \in BOOLEAN
            /\ UNCHANGED <<arrived, eof>>

\* A truncated or unmeasured body.
HandOverRest == /\ live /\ eof
                /\ Len(out) = arrived
                /\ out' = Append(out, 0)
                /\ live' \in BOOLEAN
                /\ UNCHANGED <<arrived, eof>>

\* The reader stops by itself only with nothing left to hand over.
Finish == /\ live
          /\ Len(out) >= arrived
          /\ live' = FALSE
          /\ UNCHANGED <<arrived, out, eof>>

FDNext == Arrive \/ Close \/ HandOver \/ HandOverRest \/ Finish

FDSpec == FDInit /\ [][FDNext]_fdVars /\ WF_fdVars(HandOver)

=============================================================================
