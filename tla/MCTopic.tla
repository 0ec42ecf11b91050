------------------------------ MODULE MCTopic -------------------------------
(***************************************************************************)
(* Small instances of TopicHandshake for TLC.                              *)
(***************************************************************************)
EXTENDS TopicHandshake, TLC

CONSTANTS s1, s2   \* subscribers

\* Subscribers are interchangeable; used in safety runs only.
SubSymmetry == Permutations(Subs)
=============================================================================
