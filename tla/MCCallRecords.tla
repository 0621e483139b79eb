---------------------------- MODULE MCCallRecords ----------------------------
(* Small instances of CallRecords for TLC. *)
EXTENDS CallRecords, TLC

\* Nobody, one callee, or two different ones, any of whom may be the caller.
MCInvitations ==
    {<<>>} \cup {<<u>> : u \in Users} \cup {<<p[1], p[2]>> : p \in {q \in Users \X Users : q[1] # q[2]}}

\* Users, documents and requests are interchangeable.
CallRecordsSymmetry == Permutations(Users) \cup Permutations(Calls) \cup Permutations(Workers)
=============================================================================
