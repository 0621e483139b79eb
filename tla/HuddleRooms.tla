----------------------------- MODULE HuddleRooms -----------------------------
(* What huddles promise their users: a huddle is open as long as somebody is *)
(* in it, the last one out empties it, and an emptied huddle is never entered *)
(* again; all that can still happen to it is to be ended.                     *)
CONSTANTS Users, Rooms

VARIABLES
    state,      \* room -> "none", "open", "emptied" or "ended"
    members     \* room -> who is in the huddle

vars == <<state, members>>

Init ==
    /\ state = [r \in Rooms |-> "none"]
    /\ members = [r \in Rooms |-> {}]

Become(r, st, us) ==
    /\ state' = [state EXCEPT ![r] = st]
    /\ members' = [members EXCEPT ![r] = us]

Create(r, u) == state[r] = "none" /\ Become(r, "open", {u})

Enter(r, u) == state[r] = "open" /\ Become(r, "open", members[r] \cup {u})

Quit(r, u) ==
    /\ state[r] = "open"
    /\ members[r] # {u}
    /\ Become(r, "open", members[r] \ {u})

QuitLast(r, u) ==
    /\ state[r] = "open"
    /\ members[r] = {u}
    /\ Become(r, "emptied", {})

\* Anybody may end a huddle, also one that is open.
End(r) == state[r] \in {"open", "emptied"} /\ Become(r, "ended", {})

Next ==
    \E r \in Rooms :
       \/ End(r)
       \/ \E u \in Users : Create(r, u) \/ Enter(r, u) \/ Quit(r, u) \/ QuitLast(r, u)

Spec == Init /\ [][Next]_vars
=============================================================================
