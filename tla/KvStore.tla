------------------------------- MODULE KvStore -------------------------------
(***************************************************************************)
(* The key-value store of a replica: a hash table of linked lists          *)
(* (hashmap.go, linkedlist.go), the HTTP handlers that change it under     *)
(* kv.mu (restaccess_key_value.go), and its file (saved.go), which every   *)
(* handler truncates and writes anew before it answers.  The process may   *)
(* crash at any point; the next one reads the file.                        *)
(*                                                                         *)
(* An HTTP answer leaves when its handler returns, so "answer" counts as   *)
(* given when the store is serving again.  A request that does not parse   *)
(* changes nothing and is left out.                                        *)
(***************************************************************************)
EXTENDS Integers, Sequences, FiniteSets

CONSTANTS
    Key,
    Value,     \* the values that clients write; Empty and Invalid may be among them
    Bucket,    \* the 101 indices of the table
    Hash,      \* the index of each key
    Empty,     \* the value ""
    Invalid,   \* the value "Invalid"
    None,      \* no value
    NoPair,    \* the answer "Invalid key value pair"
    Exists,    \* the answer "This key already exists"
    Done,      \* any answer to a write that was carried out
    MaxNodes   \* bound on the length of a list

ASSUME StoreAssumption ==
    /\ IsFiniteSet(Key)
    /\ Hash \in [Key -> Bucket]
    /\ None \notin Value \cup {Empty, Invalid}
    /\ Empty # Invalid
    /\ MaxNodes \in Nat

VARIABLES
    db,       \* kv.db: the list of each bucket, a nil list being an empty one
    db_temp,  \* kv.db_temp: what will be saved for each key, None if nothing
    file,     \* how much the file holds, and of what
    phase,    \* "serving", inside writeFile as "created" or "encoding", or "down"
    answer    \* the answer to the last request

vars == <<db, db_temp, file, phase, answer>>

-----------------------------------------------------------------------------
Node == [key : Key, data : Value]

Saved == [Key -> Value \cup {Empty, None}]

Nothing == [k \in Key |-> None]

\* What os.Stat and the decoder can find: no file or none of its bytes, the description
\* of the type that gob writes first, or all.
File == [state : {"empty", "types", "whole"}, data : Saved]

\* The position in a list of the node that a search for k stops at.
IsFirst(list, k, n) ==
    /\ n \in 1 .. Len(list)
    /\ list[n].key = k
    /\ \A m \in 1 .. n - 1 : list[m].key # k

Holds(list, k) == \E n \in 1 .. Len(list) : IsFirst(list, k, n)

First(list, k) == CHOOSE n \in 1 .. Len(list) : IsFirst(list, k, n)

\* What a search for k finds.
Find(list, k) == IF Holds(list, k) THEN list[First(list, k)].data ELSE None

ListOf(k) == db[Hash[k]]

Get(k) == IF Holds(ListOf(k), k) THEN Find(ListOf(k), k) ELSE Invalid

\* Mutant of Push: the node is added at the end.
PushLast(k, v) ==
    db' = [db EXCEPT ![Hash[k]] = Append(@, [key |-> k, data |-> v])]

Push(k, v) ==
    db' = [db EXCEPT ![Hash[k]] = <<[key |-> k, data |-> v]>> \o @]

Put(k, v) ==
    db' = [db EXCEPT ![Hash[k]] = [@ EXCEPT ![First(@, k)] = [key |-> k, data |-> v]]]

\* Mutant of remove: the list is cut off at the node.
removeRest(list, n) == SubSeq(list, 1, n - 1)

\* The list without its n-th node.
remove(list, n) == [m \in 1 .. Len(list) - 1 |-> IF m < n THEN list[m] ELSE list[m + 1]]

Delete(k) ==
    db' = [db EXCEPT ![Hash[k]] = remove(@, First(@, k))]

\* writeFile, up to the return of os.Create, which truncates the file.
Persist ==
    /\ file' = [state |-> "empty", data |-> Nothing]
    /\ phase' = "created"

Init ==
    /\ db = [b \in Bucket |-> << >>]
    /\ db_temp = Nothing
    /\ file = [state |-> "empty", data |-> Nothing]
    /\ phase = "serving"
    /\ answer = None

-----------------------------------------------------------------------------
\* The handlers.  Each holds kv.mu from its search to the end of writeFile.

GetHandler(k) ==
    /\ phase = "serving"
    /\ answer' = IF Get(k) = Invalid THEN NoPair ELSE Get(k)
    /\ UNCHANGED <<db, db_temp, file, phase>>

PostHandler(k, v) ==
    /\ phase = "serving"
    /\ Len(ListOf(k)) < MaxNodes
    /\ IF Get(k) = Invalid
          THEN Push(k, v) /\ db_temp' = [db_temp EXCEPT ![k] = v] /\ answer' = Done
          ELSE answer' = Exists /\ UNCHANGED <<db, db_temp>>
    /\ Persist

PutHandler(k, v) ==
    /\ phase = "serving"
    /\ IF Holds(ListOf(k), k)
          THEN Put(k, v) /\ db_temp' = [db_temp EXCEPT ![k] = v] /\ answer' = Done
          ELSE answer' = NoPair /\ UNCHANGED <<db, db_temp>>
    /\ Persist

DeleteHandler(k) ==
    /\ phase = "serving"
    /\ IF Holds(ListOf(k), k)
          THEN Delete(k) /\ db_temp' = [db_temp EXCEPT ![k] = Empty] /\ answer' = Done
          ELSE answer' = NoPair /\ UNCHANGED <<db, db_temp>>
    /\ Persist

\* Encode writes the description of the type, and then the map.
EncodeType ==
    /\ phase = "created"
    /\ phase' = "encoding"
    /\ file' = [file EXCEPT !.state = "types"]
    /\ UNCHANGED <<db, db_temp, answer>>

EncodeMap ==
    /\ phase = "encoding"
    /\ phase' = "serving"
    /\ file' = [state |-> "whole", data |-> db_temp]
    /\ UNCHANGED <<db, db_temp, answer>>

Crash ==
    /\ phase # "down"
    /\ phase' = "down"
    /\ db' = [b \in Bucket |-> << >>]
    /\ db_temp' = Nothing
    /\ answer' = None
    /\ UNCHANGED file

-----------------------------------------------------------------------------
\* Mutant of Kept: keys that the map does not have, too.
KeptUnset(b) == {k \in Key : Hash[k] = b /\ file.data[k] # Empty}

\* The keys of a bucket that readFile pushes.
Kept(b) == {k \in Key : Hash[k] = b /\ file.data[k] \notin {None, Empty}}

\* The orders in which it may come to the keys of a set: that of a Go map is open.
Orders(S) ==
    {s \in [1 .. Cardinality(S) -> S] :
        /\ \A x \in S : \E n \in DOMAIN s : s[n] = x
        /\ \A m, n \in DOMAIN s : s[m] = s[n] => m = n}

\* The list of nodes for the keys in s, with what the file says of them.
NodesOf(s) == [n \in DOMAIN s |-> [key |-> s[n], data |-> file.data[s[n]]]]

\* InitializeStore: a file with bytes must decode, or the process exits.
InitializeStore ==
    /\ phase = "down"
    /\ file.state # "types"
    /\ phase' = "serving"
    /\ db_temp' = file.data
    /\ \E order \in [Bucket -> UNION {Orders(Kept(b)) : b \in Bucket}] :
          /\ \A b \in Bucket : order[b] \in Orders(Kept(b))
          /\ db' = [b \in Bucket |-> NodesOf(order[b])]
    /\ UNCHANGED <<file, answer>>

Next ==
    \/ \E k \in Key : GetHandler(k) \/ DeleteHandler(k)
    \/ \E k \in Key, v \in Value : PostHandler(k, v) \/ PutHandler(k, v)
    \/ EncodeType \/ EncodeMap \/ Crash \/ InitializeStore

Spec == Init /\ [][Next]_vars

-----------------------------------------------------------------------------
\* Every variable holds what the code's types allow.
TypeOK ==
    /\ db \in [Bucket -> Seq(Node)]
    /\ db_temp \in Saved
    /\ file \in File
    /\ phase \in {"serving", "created", "encoding", "down"}
    /\ answer \in Value \cup {None, NoPair, Exists, Done}

\* The table, or the file of a store that is down, as a map.
InTable(k) == Find(ListOf(k), k)

InFile(k) == IF file.data[k] = Empty THEN None ELSE file.data[k]

View == [k \in Key |-> IF phase = "down" THEN InFile(k) ELSE InTable(k)]

Status ==
    CASE phase \in {"created", "encoding"} -> "saving"
      [] phase = "down" /\ file.state = "types" -> "broken"
      [] OTHER -> phase

\* The store is the map of KvMap.
Map == INSTANCE KvMap WITH map <- View, status <- Status

IsMap == Map!Spec

\* A node is in the bucket of its key, and is found or has the value Invalid.
WellKept(list, b) ==
    \A n \in 1 .. Len(list) :
        /\ Hash[list[n].key] = b
        /\ IsFirst(list, list[n].key, n) \/ list[n].data = Invalid

\* No list of the table hides a value of a key but Invalid behind its first node, however
\* often keys are created, deleted and recovered: no DELETE brings an older value back.
OnlyInvalidHidden == \A b \in Bucket : WellKept(db[b], b)

\* What was answered is saved: the table, but for Empty and Invalid, can be read back
\* from the file whenever no request is under way.
AnsweredIsSaved ==
    phase = "serving" =>
        /\ file.state # "types"
        /\ \A k \in Key : {InTable(k), InFile(k)} \subseteq {None, Empty, Invalid}
                          \/ InTable(k) = InFile(k)

\* db_temp follows the table: it is what the next save, whoever asks for it, writes.
TempFollows ==
    phase # "down" =>
        \A k \in Key : CASE InTable(k) = Invalid -> db_temp[k] \in {Empty, None, Invalid}
                         [] InTable(k) = None -> db_temp[k] \in {Empty, None}
                         [] OTHER -> db_temp[k] = InTable(k)

\* The file in each phase.
FileFollows ==
    /\ phase = "serving" => file.data = db_temp /\ file.state # "types"
    /\ phase = "created" => file = [state |-> "empty", data |-> Nothing]
    /\ phase = "encoding" => file = [state |-> "types", data |-> Nothing]
    /\ file.state # "whole" => file.data = Nothing

IInv ==
    /\ TypeOK
    /\ OnlyInvalidHidden
    /\ TempFollows
    /\ FileFollows
=============================================================================
