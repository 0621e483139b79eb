---------------------------- MODULE MCChatDelivery ----------------------------
(* Small instances of ChatDelivery for TLC. *)
EXTENDS ChatDelivery, TLC

CONSTANTS alice, bob, p1, a1, b1, b2

\* Bob connects twice to the process Alice is connected to.
MCOwner == (a1 :> alice) @@ (b1 :> bob) @@ (b2 :> bob)
MCHome == [s \in {a1, b1, b2} |-> p1]

\* Bob's sockets are interchangeable.
ChatSymmetry == Permutations({b1, b2})
=============================================================================
