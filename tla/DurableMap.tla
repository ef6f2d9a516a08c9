------------------------------ MODULE DurableMap ------------------------------
(***************************************************************************)
(* What the standalone engine promises: a map whose writes are atomic and  *)
(* are never undone, whatever happens to the process, for as long as       *)
(* nobody has used the engine in a way that voids the promise.             *)
(***************************************************************************)
CONSTANTS Key, Value, Absent

VARIABLES
    map,
    intact          \* whether the promise is in force

Init ==
    /\ map = [k \in Key |-> Absent]
    /\ intact = TRUE

Write(k, v) == map' = [map EXCEPT ![k] = v]

Next ==
    \/ ~intact \/ ~intact'
    \/ \E k \in Key, v \in Value \cup {Absent} : Write(k, v)

Spec == Init /\ [][Next]_<<map, intact>>
=============================================================================
