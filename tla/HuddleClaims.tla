---------------------------- MODULE HuddleClaims ----------------------------
(* What comments and answers of src/src/modules/huddle say, stated over      *)
(* Huddle.  The code does not keep these: TLC shows how.                     *)
EXTENDS Huddle

\* removeParticipant, "mark as left": who has left is not in the huddle.
LeaverIsOut ==
    [][\A c \in Clients, r \in Rooms : LeaveHuddle(c, r) => ~InHuddle(r, UserOf(c))']_vars

\* createHuddle, "Please leave the current huddle first": the huddles that count
\* against a user, apart from those about to end, are those the user is in.
CountsOnlyPresent == \A r \in Rooms, u \in Users : Open(r) /\ Counts(r, u) => InHuddle(r, u)
=============================================================================
