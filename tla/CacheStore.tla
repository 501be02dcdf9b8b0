----------------------------- MODULE CacheStore -----------------------------
(* What the sensor cache promises for one sensor_list_crc: the list is      *)
(* published once, whole, for good; and whoever loads it gets the whole     *)
(* list or learns that there is none.  SensorCache implements it.           *)
CONSTANTS Loaders, Nothing, Whole, Waiting

VARIABLES
    published,   \* what the cache holds
    got          \* what each loader was given

Init ==
    /\ published = Nothing
    /\ got = [p \in Loaders |-> Waiting]

Publish ==
    /\ published' = Whole
    /\ UNCHANGED got

Load(p) ==
    /\ got[p] = Waiting
    /\ got' = [got EXCEPT ![p] = published]
    /\ UNCHANGED published

Next == Publish \/ \E p \in Loaders : Load(p)

Spec == Init /\ [][Next]_<<published, got>>
=============================================================================
