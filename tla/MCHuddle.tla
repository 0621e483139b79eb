------------------------------ MODULE MCHuddle ------------------------------
(* Small instances of Huddle for TLC. *)
EXTENDS Huddle, TLC

\* Users, their devices and the room ids are interchangeable.
HuddleSymmetry == Permutations(Users) \cup Permutations(Devices) \cup Permutations(Rooms)
=============================================================================
