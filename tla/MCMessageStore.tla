---------------------------- MODULE MCMessageStore ----------------------------
(* Small instances of MessageStore for TLC. *)
EXTENDS MessageStore, TLC

\* Users, messages and workers are interchangeable.
MessageSymmetry == Permutations(Users) \cup Permutations(Messages) \cup Permutations(Workers)
=============================================================================
