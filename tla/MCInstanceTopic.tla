-------------------------- MODULE MCInstanceTopic --------------------------
(* Small instances of the topic module. *)
EXTENDS InstanceTopic

AllPosts == PostedEvent

SubSymmetry == Permutations(Subs)
=============================================================================
