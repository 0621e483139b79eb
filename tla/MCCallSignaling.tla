-------------------------- MODULE MCCallSignaling --------------------------
(* Small instances of CallSignaling for TLC. *)
EXTENDS CallSignalingClaims, TLC

\* The users of REST name nobody, or everybody and so themselves too; the others
\* name one other user.
SelfAmongAll ==
    {<<u, us>> \in Users \X SUBSET Users :
        IF u \in RestUsers THEN us \in {{}, Users} ELSE \E v \in Users \ {u} : us = {v}}

\* Clients that name nobody or any others.
AnyOthers == {<<u, us>> \in Users \X SUBSET Users : u \notin us}

\* Clients that call everybody else.
CallOthers == {<<u, Users \ {u}>> : u \in Users}

\* Sockets are interchangeable, and so are the users who do not use REST.
SignalingSymmetry == Permutations(Sockets) \cup Permutations(Users \ RestUsers)
=============================================================================
