---------------------------- MODULE MCSensorsMap ----------------------------
(* Instances of SensorsMap for TLC.  Two lists share a name; a third CRC is  *)
(* the first in capitals; a fourth disagrees on the size of a sensor.        *)
EXTENDS SensorsMap

MCCrcOrder == <<"A1", "B2", "a1", "c3">>
MCLower == [c \in {"A1", "B2", "a1", "c3"} |->
              CASE c = "A1" -> "a1" [] c = "B2" -> "b2" [] OTHER -> c]

N(name, size) == [name |-> name, size |-> size]
MCList == [key \in {"a1", "b2", "c3"} |->
             CASE key = "a1" -> <<N("time", 8), N("depth", 4), N("mode", 1)>>
               [] key = "b2" -> <<N("heading", 4), N("time", 8)>>
               [] key = "c3" -> <<N("depth", 2)>>]

MCFiles == {[crc |-> c, factored |-> q] : c \in {"A1", "B2", "a1"}, q \in BOOLEAN}
           \cup {[crc |-> "c3", factored |-> FALSE]}
MCInputs == [1 .. 2 -> MCFiles] \cup
            {<<x, y, z>> : x \in {[crc |-> "A1", factored |-> TRUE]},
                           y \in {[crc |-> "B2", factored |-> FALSE]}, z \in MCFiles}

MCKeepLists == {{}, {"time", "mode"}, {"depth"}}
MCCriteriaLists == {{}, {"depth"}}

\* One plain file under -k, and a cache another process may be filling.
NoLists == {{}}
OnlyKeep == {{"time", "depth"}}
OneFile == {<<[crc |-> "a1", factored |-> FALSE]>>}
=============================================================================
