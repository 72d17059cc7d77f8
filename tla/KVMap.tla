------------------------------- MODULE KVMap -------------------------------
(***************************************************************************)
(* What hash/ht.h promises to its callers, one atomic step per call that   *)
(* returns: a partial map from keys to non-NULL values, whose iterator     *)
(* yields every binding once.  A call that runs out of memory answers NULL *)
(* and leaves the map as it was.                                           *)
(***************************************************************************)
CONSTANTS Keys, Values, NULL

VARIABLES
    map,    \* map[k] is the value bound to k, NULL when k is unbound
    seen,   \* the keys the current iteration has already yielded
    answer  \* the last call that returned: its name, key and result

vars == <<map, seen, answer>>

Bound == {k \in Keys : map[k] # NULL}

Unbound == [k \in Keys |-> NULL]

Reply(call, key, result) == [call |-> call, key |-> key, result |-> result]

Init == /\ map = Unbound
        /\ seen = {}
        /\ answer = Reply("none", NULL, NULL)

(* ht_create and ht_destroy: the table starts, and starts again, empty.    *)
Reset == /\ map' = Unbound
         /\ seen' = {}
         /\ answer' = Reply("reset", NULL, NULL)

Get(k) == /\ answer' = Reply("get", k, map[k])
          /\ UNCHANGED <<map, seen>>

Set(k, v) == /\ map' = [map EXCEPT ![k] = v]
             /\ answer' = Reply("set", k, v)
             /\ UNCHANGED seen

SetFails(k) == /\ answer' = Reply("set", k, NULL)
               /\ UNCHANGED <<map, seen>>

StartIteration == /\ seen' = {}
                  /\ UNCHANGED <<map, answer>>

Yield(k) == /\ k \in Bound \ seen
            /\ seen' = seen \cup {k}
            /\ answer' = Reply("next", k, map[k])
            /\ UNCHANGED map

Exhausted == /\ Bound \subseteq seen
             /\ answer' = Reply("next", NULL, NULL)
             /\ UNCHANGED <<map, seen>>

Next == \/ Reset
        \/ \E k \in Keys : \/ Get(k)
                           \/ \E v \in Values : Set(k, v)
                           \/ SetFails(k)
                           \/ Yield(k)
        \/ StartIteration
        \/ Exhausted

Spec == Init /\ [][Next]_vars
=============================================================================
