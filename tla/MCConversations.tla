---------------------------- MODULE MCConversations ----------------------------
(* Small instances of Conversations for TLC. *)
EXTENDS Conversations, TLC

CONSTANTS alice, bob, carol

MCGroup == <<alice, bob>>

\* Messages and workers are interchangeable.
ConversationSymmetry == Permutations(Messages) \cup Permutations(Workers)
=============================================================================
