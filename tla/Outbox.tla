-------------------------------- MODULE Outbox --------------------------------
(* What scheduled messages promise their senders: a message waits, is taken  *)
(* out, posted once and settled, and nothing leads back from there.  What is *)
(* taken out goes back to waiting only unposted.  The exception is named: a   *)
(* message in `again' may be posted, and put back, although it was posted.    *)
(* Several messages may move at once: a pass takes all that are due, and a    *)
(* process that dies lets go of all it had.                                   *)
EXTENDS Naturals

CONSTANT Messages

VARIABLES
    stage,      \* message -> "none", "waiting", "taken", "sent" or "dropped"
    copies,     \* message -> how often it stands in the conversation
    again       \* messages that may be posted again

vars == <<stage, copies, again>>

Init ==
    /\ stage = [m \in Messages |-> "none"]
    /\ copies = [m \in Messages |-> 0]
    /\ again = {}

Moves(m, from, to) == stage[m] = from /\ stage'[m] = to /\ copies'[m] = copies[m]

Enter(m) == Moves(m, "none", "waiting")
Take(m) == Moves(m, "waiting", "taken")

Post(m) ==
    /\ stage[m] = "taken" /\ stage'[m] = "taken"
    /\ copies'[m] = copies[m] + 1
    /\ copies[m] = 0 \/ m \in again

PutBack(m) ==
    /\ Moves(m, "taken", "waiting")
    /\ copies[m] = 0 \/ m \in again'

Send(m) == copies[m] > 0 /\ Moves(m, "taken", "sent")

\* Given up, cancelled or deleted; the record of a message that was sent may be
\* overwritten by a late cancellation, or deleted.
Drop(m) == \E from \in {"waiting", "taken", "sent"} : Moves(m, from, "dropped")

Stay(m) == stage'[m] = stage[m] /\ copies'[m] = copies[m]

Next ==
    /\ \A m \in Messages :
          Enter(m) \/ Take(m) \/ Post(m) \/ PutBack(m) \/ Send(m) \/ Drop(m) \/ Stay(m)
    /\ again \subseteq again'
    /\ \A m \in again' \ again : stage[m] = "taken"

Spec == Init /\ [][Next]_vars
=============================================================================
