-------------------------- MODULE MCEventListCalls --------------------------
(* Instances of EventListCalls for TLC.                                    *)
EXTENDS EventListCalls, TLC

Symmetric == Permutations(Instance) \cup Permutations(EventId)
=============================================================================
