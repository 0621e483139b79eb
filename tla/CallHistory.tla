------------------------------ MODULE CallHistory ------------------------------
(* What users see of the call history.  A call that is started gets a record,  *)
(* with somebody in it, or none ever; its people only become more;             *)
(* it is settled, and comes back only if clients may write that it goes on.    *)
(* Who clears his history takes every call he was in away from everybody, and  *)
(* what is gone does not return.                                               *)
EXTENDS Naturals

CONSTANTS
    Users,
    Calls,
    MayReopen   \* clients may write that a settled call goes on

VARIABLES
    state,      \* call -> "new", "starting", "ongoing", "over" or "gone"
    parties     \* call -> the participants of its record, {} if it has none

vars == <<state, parties>>

Init ==
    /\ state = [c \in Calls |-> "new"]
    /\ parties = [c \in Calls |-> {}]

\* Call c alone goes from one state to the next.
Moves(c, from, to) ==
    /\ state[c] \in from /\ state'[c] = to
    /\ \A d \in Calls \ {c} : state'[d] = state[d] /\ parties'[d] = parties[d]

Begin(c) == Moves(c, {"new"}, "starting") /\ parties'[c] = {}

Log(c) == Moves(c, {"new", "starting"}, "ongoing") /\ parties'[c] # {}

Extend(c) ==
    /\ parties[c] \subseteq parties'[c]
    /\ Moves(c, {"ongoing"}, "ongoing") \/ Moves(c, {"over"}, "over")

Settle(c) == Moves(c, {"ongoing"}, "over") /\ parties'[c] = parties[c]
Reopen(c) == MayReopen /\ Moves(c, {"over"}, "ongoing") /\ parties'[c] = parties[c]

\* Nothing is recorded of the calls: the database or the process failed.
Abort(cs) ==
    /\ \A c \in cs : state[c] = "starting"
    /\ state' = [c \in Calls |-> IF c \in cs THEN "gone" ELSE state[c]]
    /\ UNCHANGED parties

Erase(u) ==
    /\ \E c \in Calls : u \in parties[c]
    /\ state' = [c \in Calls |-> IF u \in parties[c] THEN "gone" ELSE state[c]]
    /\ parties' = [c \in Calls |-> IF u \in parties[c] THEN {} ELSE parties[c]]

Next ==
    \/ \E c \in Calls : Extend(c) \/ Begin(c) \/ Log(c) \/ Settle(c) \/ Reopen(c)
    \/ \E cs \in SUBSET Calls : cs # {} /\ Abort(cs)
    \/ \E u \in Users : Erase(u)

Spec == Init /\ [][Next]_vars
=============================================================================
