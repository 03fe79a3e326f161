-------------------------------- MODULE KvMap --------------------------------
(***************************************************************************)
(* What the key-value store of a replica (raft/kv_store) promises to       *)
(* ApplyToStateMachine and ReadCommand, without its hash table and its     *)
(* file: a map that each request reads or changes as a whole, and that     *)
(* outlives a crash unless the crash strikes while a request is saved.     *)
(*                                                                         *)
(* Two values are not like others.  Invalid is what Get returns for a key  *)
(* that is not there, so a key with that value looks vacant.  Empty marks  *)
(* a deleted key in the file, so a key with that value is gone after a     *)
(* restart.                                                                *)
(***************************************************************************)
CONSTANTS Key, Value, Empty, Invalid, None, NoPair, Exists, Done

VARIABLES
    map,     \* the value of each key, or None
    status,  \* "serving", "saving" a request, "down", or "broken": down for good
    answer   \* the answer to the last request

vars == <<map, status, answer>>

Init ==
    /\ map = [k \in Key |-> None]
    /\ status = "serving"
    /\ answer = None

\* No key that a client could tell from a missing one.
Vacant(k) == map[k] \in {None, Invalid}

Get(k) ==
    /\ status = "serving"
    /\ answer' = IF Vacant(k) THEN NoPair ELSE map[k]
    /\ UNCHANGED <<map, status>>

Post(k, v) ==
    /\ status = "serving"
    /\ status' = "saving"
    /\ \/ Vacant(k) /\ map' = [map EXCEPT ![k] = v] /\ answer' = Done
       \/ ~ Vacant(k) /\ map' = map /\ answer' = Exists

Put(k, v) ==
    /\ status = "serving"
    /\ status' = "saving"
    /\ \/ map[k] # None /\ map' = [map EXCEPT ![k] = v] /\ answer' = Done
       \/ map[k] = None /\ map' = map /\ answer' = NoPair

\* A key that was created again while it looked vacant leaves an older Invalid behind.
Delete(k) ==
    /\ status = "serving"
    /\ status' = "saving"
    /\ \/ /\ map[k] # None
          /\ \E left \in {None} \cup (Value \cap {Invalid}) : map' = [map EXCEPT ![k] = left]
          /\ answer' = Done
       \/ map[k] = None /\ map' = map /\ answer' = NoPair

Save ==
    /\ status = "saving"
    /\ status' = "serving"
    /\ UNCHANGED <<map, answer>>

\* A crash between requests: every other value is still there.
Crash ==
    /\ status = "serving"
    /\ status' = "down"
    /\ map' \in [Key -> Value \cup {None}]
    /\ \A k \in Key : CASE map[k] = Empty   -> map'[k] = None
                        [] map[k] = Invalid -> map'[k] \in {None, Invalid}
                        [] OTHER            -> map'[k] = map[k]
    /\ answer' = None

\* A crash while a request is saved: nothing is left, perhaps not even a readable file.
CrashInSave ==
    /\ status = "saving"
    /\ status' \in {"down", "broken"}
    /\ map' = [k \in Key |-> None]
    /\ answer' = None

Restart ==
    /\ status = "down"
    /\ status' = "serving"
    /\ UNCHANGED <<map, answer>>

Next ==
    \/ \E k \in Key : Get(k) \/ Delete(k)
    \/ \E k \in Key, v \in Value : Post(k, v) \/ Put(k, v)
    \/ Save \/ Crash \/ CrashInSave \/ Restart

Spec == Init /\ [][Next]_vars
=============================================================================
