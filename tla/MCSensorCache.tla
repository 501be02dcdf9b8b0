---------------------------- MODULE MCSensorCache ----------------------------
(* Instances of SensorCache for TLC.  Processes of one role and suffixes are *)
(* interchangeable: sound for the runs that check invariants only.           *)
EXTENDS SensorCache, TLC

Interchangeable ==
    Permutations(Dumpers) \cup Permutations(Loaders) \cup Permutations(Suffixes)
=============================================================================
