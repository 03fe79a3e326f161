---------------------------- MODULE KvStoreProofs ----------------------------
(***************************************************************************)
(* Proofs about KvStore: for any keys, values and hash function, the table *)
(* hides nothing but Invalid, what was answered can be read back, and the  *)
(* store implements the map of KvMap.                                      *)
(***************************************************************************)
EXTENDS KvStore, FiniteSetTheorems, TLAPS

\* A search finds one node.
LEMMA FindFirst ==
    ASSUME NEW list \in Seq(Node), NEW k, NEW n, IsFirst(list, k, n)
    PROVE  /\ First(list, k) = n
           /\ Holds(list, k)
           /\ Find(list, k) = list[n].data
<1>1. Len(list) \in Nat /\ n \in 1 .. Len(list)
  BY DEF IsFirst
<1>2. Holds(list, k)
  BY <1>1 DEF Holds
<1>3. ASSUME NEW m \in 1 .. Len(list), IsFirst(list, k, m) PROVE m = n
  BY <1>1, <1>3 DEF IsFirst
<1>4. First(list, k) = n
  BY <1>1, <1>3 DEF First
<1> QED
  BY <1>2, <1>4 DEF Find

\* What a search finds is a value, if anything.
LEMMA FindType ==
    ASSUME NEW list \in Seq(Node), NEW k
    PROVE  /\ Holds(list, k) => IsFirst(list, k, First(list, k)) /\ Find(list, k) \in Value
           /\ ~ Holds(list, k) => Find(list, k) = None
<1>1. Holds(list, k) => IsFirst(list, k, First(list, k))
  BY DEF Holds, First
<1>2. ASSUME IsFirst(list, k, First(list, k)) PROVE list[First(list, k)] \in Node
  BY <1>2 DEF IsFirst
<1> QED
  BY <1>1, <1>2 DEF Find, Node

\* Two lists in which the nodes of a key correspond have the same value for it.
LEMMA SameFind ==
    ASSUME NEW l1 \in Seq(Node), NEW l2 \in Seq(Node), NEW k,
           \A n \in 1 .. Len(l1) : IsFirst(l1, k, n) =>
              \E m \in 1 .. Len(l2) : IsFirst(l2, k, m) /\ l2[m].data = l1[n].data,
           \A m \in 1 .. Len(l2) : IsFirst(l2, k, m) => Holds(l1, k)
    PROVE  Find(l2, k) = Find(l1, k) /\ (Holds(l2, k) <=> Holds(l1, k))
<1>1. CASE Holds(l1, k)
  <2>1. PICK n \in 1 .. Len(l1) : IsFirst(l1, k, n)
    BY <1>1 DEF Holds
  <2>2. PICK m \in 1 .. Len(l2) : IsFirst(l2, k, m) /\ l2[m].data = l1[n].data
    BY <2>1
  <2> QED
    BY <2>1, <2>2, FindFirst
<1>2. CASE ~ Holds(l1, k)
  <2>1. ~ Holds(l2, k)
    BY <1>2 DEF Holds
  <2> QED
    BY <1>2, <2>1, FindType
<1> QED
  BY <1>1, <1>2

\* A new head is found, and hides what was found for its key before.
LEMMA PushList ==
    ASSUME NEW list \in Seq(Node), NEW b, NEW node \in Node, Hash[node.key] = b,
           WellKept(list, b),
           Holds(list, node.key) => Find(list, node.key) = Invalid
    PROVE  /\ <<node>> \o list \in Seq(Node)
           /\ WellKept(<<node>> \o list, b)
           /\ Find(<<node>> \o list, node.key) = node.data
           /\ \A k \in Key \ {node.key} : Find(<<node>> \o list, k) = Find(list, k)
<1> DEFINE l2 == <<node>> \o list
<1>1. /\ l2 \in Seq(Node) /\ Len(l2) = Len(list) + 1 /\ Len(list) \in Nat
      /\ l2[1] = node
      /\ \A n \in 1 .. Len(list) : l2[n + 1] = list[n]
  OBVIOUS
<1> HIDE DEF l2
<1>2. IsFirst(l2, node.key, 1)
  BY <1>1 DEF IsFirst
<1>3. ASSUME NEW k, k # node.key, NEW n \in 1 .. Len(list)
      PROVE  IsFirst(l2, k, n + 1) <=> IsFirst(list, k, n)
  <2>1. \A m \in 1 .. n : m = 1 \/ (m - 1 \in 1 .. n - 1 /\ l2[m] = list[m - 1])
    BY <1>1
  <2>2. \A m \in 1 .. n - 1 : m + 1 \in 1 .. n /\ l2[m + 1] = list[m]
    BY <1>1
  <2>3. n + 1 \in 1 .. Len(l2) /\ l2[n + 1] = list[n] /\ n + 1 - 1 = n
    BY <1>1
  <2>4. ASSUME IsFirst(list, k, n) PROVE IsFirst(l2, k, n + 1)
    <3>1. list[n].key = k /\ \A m \in 1 .. n - 1 : list[m].key # k
      BY <2>4 DEF IsFirst
    <3>2. \A m \in 1 .. n : l2[m].key # k
      BY <1>1, <1>3, <2>1, <3>1
    <3> QED
      BY <2>3, <3>1, <3>2 DEF IsFirst
  <2>5. ASSUME IsFirst(l2, k, n + 1) PROVE IsFirst(list, k, n)
    <3>1. l2[n + 1].key = k /\ \A m \in 1 .. n : l2[m].key # k
      BY <2>3, <2>5 DEF IsFirst
    <3>2. \A m \in 1 .. n - 1 : list[m].key # k
      BY <2>2, <3>1
    <3> QED
      BY <2>3, <3>1, <3>2 DEF IsFirst
  <2> QED
    BY <2>4, <2>5
<1>4. \A m \in 1 .. Len(l2) : m = 1 \/ (m - 1 \in 1 .. Len(list) /\ l2[m] = list[m - 1])
  BY <1>1
<1>5. ASSUME NEW k \in Key \ {node.key} PROVE Find(l2, k) = Find(list, k)
  <2>1. \A n \in 1 .. Len(list) : IsFirst(list, k, n) =>
           \E m \in 1 .. Len(l2) : IsFirst(l2, k, m) /\ l2[m].data = list[n].data
    <3> SUFFICES ASSUME NEW n \in 1 .. Len(list), IsFirst(list, k, n)
                 PROVE  IsFirst(l2, k, n + 1) /\ l2[n + 1].data = list[n].data /\ n + 1 \in 1 .. Len(l2)
      OBVIOUS
    <3> QED
      BY <1>1, <1>3, <1>5
  <2>2. \A m \in 1 .. Len(l2) : IsFirst(l2, k, m) => Holds(list, k)
    <3> SUFFICES ASSUME NEW m \in 1 .. Len(l2), IsFirst(l2, k, m) PROVE Holds(list, k)
      OBVIOUS
    <3>1. m # 1
      BY <1>1, <1>5 DEF IsFirst
    <3>2. m - 1 \in 1 .. Len(list) /\ m = (m - 1) + 1
      BY <1>4, <3>1
    <3>3. IsFirst(list, k, m - 1)
      BY <1>3, <1>5, <3>2
    <3> QED
      BY <3>2, <3>3 DEF Holds
  <2> QED
    BY <1>1, <2>1, <2>2, SameFind
<1>6. WellKept(l2, b)
  <2> SUFFICES ASSUME NEW m \in 1 .. Len(l2)
               PROVE  /\ Hash[l2[m].key] = b
                      /\ IsFirst(l2, l2[m].key, m) \/ l2[m].data = Invalid
    BY DEF WellKept
  <2>1. CASE m = 1
    BY <1>1, <1>2, <2>1
  <2>2. CASE m # 1
    <3> DEFINE n == m - 1
    <3>1. n \in 1 .. Len(list) /\ l2[m] = list[n] /\ m = n + 1
      BY <1>4, <2>2
    <3> HIDE DEF n
    <3>2. Hash[list[n].key] = b /\ (IsFirst(list, list[n].key, n) \/ list[n].data = Invalid)
      BY <3>1 DEF WellKept
    <3>3. CASE IsFirst(list, list[n].key, n) /\ list[n].key = node.key
      BY <3>1, <3>2, <3>3, FindFirst
    <3>4. CASE IsFirst(list, list[n].key, n) /\ list[n].key # node.key
      BY <1>3, <3>1, <3>2, <3>4
    <3> QED
      BY <3>1, <3>2, <3>3, <3>4
  <2> QED
    BY <2>1, <2>2
<1>7. Find(l2, node.key) = node.data
  BY <1>1, <1>2, FindFirst
<1> QED
  BY <1>1, <1>5, <1>6, <1>7 DEF l2

\* PUT writes the node that is found, and no other.
LEMMA PutList ==
    ASSUME NEW list \in Seq(Node), NEW b, NEW node \in Node, WellKept(list, b),
           Holds(list, node.key)
    PROVE  LET l2 == [list EXCEPT ![First(list, node.key)] = node]
           IN  /\ l2 \in Seq(Node)
               /\ WellKept(l2, b)
               /\ Find(l2, node.key) = node.data
               /\ \A k \in Key \ {node.key} : Find(l2, k) = Find(list, k)
<1> DEFINE n == First(list, node.key)
           l2 == [list EXCEPT ![n] = node]
<1>1. IsFirst(list, node.key, n)
  BY FindType
<1>2. /\ Len(list) \in Nat /\ n \in 1 .. Len(list) /\ list[n].key = node.key
      /\ l2 \in Seq(Node) /\ Len(l2) = Len(list)
      /\ \A m \in 1 .. Len(list) : l2[m] = IF m = n THEN node ELSE list[m]
  BY <1>1 DEF IsFirst
<1> HIDE DEF n, l2
<1>3. \A m \in 1 .. Len(list) : l2[m].key = list[m].key
  BY <1>2
<1>4. ASSUME NEW k, NEW m \in 1 .. Len(list) PROVE IsFirst(l2, k, m) <=> IsFirst(list, k, m)
  BY <1>2, <1>3 DEF IsFirst
<1>5. ASSUME NEW k \in Key \ {node.key} PROVE Find(l2, k) = Find(list, k)
  <2>1. \A m \in 1 .. Len(list) : IsFirst(list, k, m) =>
           IsFirst(l2, k, m) /\ l2[m].data = list[m].data
    BY <1>1, <1>2, <1>4, <1>5 DEF IsFirst
  <2>2. \A m \in 1 .. Len(l2) : IsFirst(l2, k, m) => Holds(list, k)
    BY <1>2, <1>4 DEF Holds
  <2> QED
    BY <1>2, <2>1, <2>2, SameFind
<1>6. WellKept(l2, b)
  <2> SUFFICES ASSUME NEW m \in 1 .. Len(list)
               PROVE  /\ Hash[l2[m].key] = b
                      /\ IsFirst(l2, l2[m].key, m) \/ l2[m].data = Invalid
    BY <1>2 DEF WellKept
  <2>1. Hash[list[m].key] = b /\ (IsFirst(list, list[m].key, m) \/ list[m].data = Invalid)
    BY DEF WellKept
  <2> QED
    BY <1>1, <1>2, <1>3, <1>4, <2>1
<1>7. Find(l2, node.key) = node.data
  BY <1>1, <1>2, <1>4, FindFirst
<1> QED
  BY <1>2, <1>5, <1>6, <1>7 DEF l2, n

\* DELETE takes one node out, and leaves nothing of its key but, perhaps, Invalid.
LEMMA RemoveFromList ==
    ASSUME NEW list \in Seq(Node), NEW b, NEW key \in Key, WellKept(list, b), Holds(list, key)
    PROVE  LET l2 == remove(list, First(list, key))
           IN  /\ l2 \in Seq(Node)
               /\ WellKept(l2, b)
               /\ Find(l2, key) \in {None} \cup (Value \cap {Invalid})
               /\ \A k \in Key \ {key} : Find(l2, k) = Find(list, k)
<1> DEFINE n == First(list, key)
           l2 == remove(list, n)
           old(m) == IF m < n THEN m ELSE m + 1
<1>1. IsFirst(list, key, n)
  BY FindType
<1>2. Len(list) \in Nat /\ n \in 1 .. Len(list) /\ list[n].key = key
  BY <1>1 DEF IsFirst
<1>3. /\ l2 \in Seq(Node) /\ Len(l2) = Len(list) - 1
      /\ \A m \in 1 .. Len(l2) : old(m) \in 1 .. Len(list) \ {n} /\ l2[m] = list[old(m)]
  <2>1. \A m \in 1 .. Len(list) - 1 : list[old(m)] \in Node /\ old(m) \in 1 .. Len(list) \ {n}
    BY <1>2
  <2>2. l2 = [m \in 1 .. Len(list) - 1 |-> list[old(m)]]
    BY <1>2 DEF remove
  <2> HIDE DEF l2
  <2>3. l2 \in [1 .. Len(list) - 1 -> Node] /\ Len(list) - 1 \in Nat
    BY <1>2, <2>1, <2>2
  <2> QED
    BY <2>1, <2>2, <2>3
<1> HIDE DEF n, l2
<1>4. \A m \in 1 .. Len(list) \ {n} : \E j \in 1 .. Len(l2) : old(j) = m /\ l2[j] = list[m]
  <2> SUFFICES ASSUME NEW m \in 1 .. Len(list) \ {n}
               PROVE  \E j \in 1 .. Len(l2) : old(j) = m
    BY <1>3
  <2>1. CASE m < n
    BY <1>2, <1>3, <2>1
  <2>2. CASE m > n
    <3>1. m - 1 \in 1 .. Len(l2) /\ old(m - 1) = m
      BY <1>2, <1>3, <2>2
    <3> QED
      BY <3>1
  <2> QED
    BY <1>2, <2>1, <2>2
<1>5. \A i, j \in 1 .. Len(l2) : i < j <=> old(i) < old(j)
  BY <1>2, <1>3
<1> HIDE DEF old
<1>6. ASSUME NEW k, k # key, NEW j \in 1 .. Len(l2)
      PROVE  IsFirst(l2, k, j) <=> IsFirst(list, k, old(j))
  <2>1. ASSUME IsFirst(list, k, old(j)) PROVE IsFirst(l2, k, j)
    <3>1. list[old(j)].key = k /\ \A m \in 1 .. old(j) - 1 : list[m].key # k
      BY <2>1 DEF IsFirst
    <3>2. ASSUME NEW i \in 1 .. j - 1 PROVE l2[i].key # k
      <4>1. i \in 1 .. Len(l2) /\ i < j
        BY <1>3
      <4>2. old(i) \in 1 .. old(j) - 1 /\ l2[i] = list[old(i)]
        BY <1>3, <1>5, <4>1
      <4> QED
        BY <3>1, <4>2
    <3> QED
      BY <1>3, <3>1, <3>2 DEF IsFirst
  <2>2. ASSUME IsFirst(l2, k, j) PROVE IsFirst(list, k, old(j))
    <3>1. ASSUME NEW m \in 1 .. old(j) - 1 PROVE list[m].key # k
      <4>1. m \in 1 .. Len(list) /\ m < old(j)
        BY <1>2, <1>3
      <4>2. CASE m = n
        BY <1>2, <1>6, <4>2
      <4>3. CASE m # n
        <5>1. PICK i \in 1 .. Len(l2) : old(i) = m /\ l2[i] = list[m]
          BY <1>4, <4>1, <4>3
        <5>2. i \in 1 .. j - 1
          BY <1>3, <1>5, <4>1, <5>1
        <5> QED
          BY <2>2, <5>1, <5>2 DEF IsFirst
      <4> QED
        BY <4>2, <4>3
    <3> QED
      BY <1>3, <2>2, <3>1 DEF IsFirst
  <2> QED
    BY <2>1, <2>2
<1>7. ASSUME NEW k \in Key \ {key} PROVE Find(l2, k) = Find(list, k)
  <2>1. ASSUME NEW m \in 1 .. Len(list), IsFirst(list, k, m)
        PROVE  \E j \in 1 .. Len(l2) : IsFirst(l2, k, j) /\ l2[j].data = list[m].data
    <3>1. m # n
      BY <1>2, <1>7, <2>1 DEF IsFirst
    <3> QED
      BY <1>4, <1>6, <1>7, <2>1, <3>1
  <2>2. ASSUME NEW j \in 1 .. Len(l2), IsFirst(l2, k, j) PROVE Holds(list, k)
    BY <1>3, <1>6, <1>7, <2>2 DEF Holds
  <2> QED
    BY <1>3, <2>1, <2>2, SameFind
<1>8. ASSUME NEW j \in 1 .. Len(l2)
      PROVE  /\ Hash[l2[j].key] = b
             /\ IsFirst(l2, l2[j].key, j) \/ l2[j].data = Invalid
             /\ l2[j].key = key => l2[j].data = Invalid
  <2>1. /\ old(j) \in 1 .. Len(list) /\ old(j) # n /\ l2[j] = list[old(j)]
        /\ Hash[list[old(j)].key] = b
        /\ IsFirst(list, list[old(j)].key, old(j)) \/ list[old(j)].data = Invalid
    BY <1>3 DEF WellKept
  <2>2. CASE l2[j].key = key
    <3>1. ~ IsFirst(list, key, old(j))
      BY <1>1, <1>2, <2>1, FindFirst
    <3> QED
      BY <2>1, <2>2, <3>1
  <2>3. CASE l2[j].key # key
    BY <1>6, <2>1, <2>3
  <2> QED
    BY <2>2, <2>3
<1>9. Find(l2, key) \in {None} \cup (Value \cap {Invalid})
  <2>1. CASE Holds(l2, key)
    <3>1. PICK j \in 1 .. Len(l2) : IsFirst(l2, key, j)
      BY <2>1 DEF Holds
    <3>2. l2[j].key = key
      BY <3>1 DEF IsFirst
    <3>3. Find(l2, key) = l2[j].data
      BY <1>3, <3>1, FindFirst
    <3>4. Find(l2, key) \in Value
      BY <1>3, <2>1, FindType
    <3> QED
      BY <1>8, <3>2, <3>3, <3>4
  <2>2. CASE ~ Holds(l2, key)
    BY <1>3, <2>2, FindType
  <2> QED
    BY <2>1, <2>2
<1>10. WellKept(l2, b)
  BY <1>8 DEF WellKept
<1> QED
  BY <1>3, <1>7, <1>9, <1>10 DEF l2, n

\* A list that readFile makes holds what the file says of its keys, and nothing else.
LEMMA RecoverList ==
    ASSUME TypeOK, NEW b \in Bucket, NEW s \in Orders(Kept(b))
    PROVE  /\ NodesOf(s) \in Seq(Node)
           /\ WellKept(NodesOf(s), b)
           /\ \A k \in Kept(b) : Find(NodesOf(s), k) = file.data[k]
           /\ \A k \in Key \ Kept(b) : Find(NodesOf(s), k) = None
<1> DEFINE c == Cardinality(Kept(b))
           l == NodesOf(s)
<1>1. c \in Nat
  <2>1. Kept(b) \subseteq Key
    BY DEF Kept
  <2> QED
    BY <2>1, StoreAssumption, FS_Subset, FS_CardinalityType
<1> HIDE DEF c
<1>2. /\ s \in [1 .. c -> Kept(b)]
      /\ \A k \in Kept(b) : \E n \in 1 .. c : s[n] = k
      /\ \A m, n \in 1 .. c : s[m] = s[n] => m = n
  BY DEF Orders, c
<1>3. \A k \in Kept(b) : k \in Key /\ Hash[k] = b /\ file.data[k] \in Value
  BY DEF Kept, TypeOK, File, Saved
<1>4. \A n \in 1 .. c : [key |-> s[n], data |-> file.data[s[n]]] \in Node
  BY <1>2, <1>3 DEF Node
<1>5. /\ l \in Seq(Node) /\ Len(l) = c
      /\ \A n \in 1 .. c : l[n].key = s[n] /\ l[n].data = file.data[s[n]]
  <2>1. l = [n \in 1 .. c |-> [key |-> s[n], data |-> file.data[s[n]]]]
    BY <1>2 DEF NodesOf
  <2> HIDE DEF l
  <2>2. l \in [1 .. c -> Node]
    BY <1>4, <2>1
  <2> QED
    BY <1>1, <2>1, <2>2
<1> HIDE DEF l
<1>6. ASSUME NEW n \in 1 .. c PROVE IsFirst(l, s[n], n)
  BY <1>1, <1>2, <1>5 DEF IsFirst
<1>7. WellKept(l, b)
  BY <1>2, <1>3, <1>5, <1>6 DEF WellKept
<1>8. ASSUME NEW k \in Kept(b) PROVE Find(l, k) = file.data[k]
  <2>1. PICK n \in 1 .. c : s[n] = k
    BY <1>2
  <2> QED
    BY <1>5, <1>6, <2>1, FindFirst
<1>9. ASSUME NEW k \in Key \ Kept(b) PROVE Find(l, k) = None
  <2>1. ~ Holds(l, k)
    BY <1>2, <1>5 DEF Holds, IsFirst
  <2> QED
    BY <1>5, <2>1, FindType
<1> QED
  BY <1>5, <1>7, <1>8, <1>9 DEF l

-----------------------------------------------------------------------------
\* What it does to the table when the list of one key is replaced.
LEMMA TableStep ==
    ASSUME TypeOK, OnlyInvalidHidden, NEW k \in Key, NEW l2 \in Seq(Node),
           WellKept(l2, Hash[k]),
           \A j \in Key \ {k} : Find(l2, j) = Find(ListOf(k), j),
           db' = [db EXCEPT ![Hash[k]] = l2]
    PROVE  /\ db' \in [Bucket -> Seq(Node)]
           /\ OnlyInvalidHidden'
           /\ InTable(k)' = Find(l2, k)
           /\ \A j \in Key \ {k} : InTable(j)' = InTable(j)
<1>1. Hash[k] \in Bucket /\ db \in [Bucket -> Seq(Node)] /\ \A j \in Key : Hash[j] \in Bucket
  BY StoreAssumption DEF TypeOK
<1>2. \A b \in Bucket : db'[b] = IF b = Hash[k] THEN l2 ELSE db[b]
  BY <1>1
<1> QED
  BY <1>1, <1>2 DEF OnlyInvalidHidden, InTable, ListOf

\* The three writes: what they do to the table, and to what will be saved.
LEMMA PostEffect ==
    ASSUME IInv, NEW k \in Key, NEW v \in Value, PostHandler(k, v)
    PROVE  /\ db' \in [Bucket -> Seq(Node)] /\ OnlyInvalidHidden'
           /\ \A j \in Key \ {k} : InTable(j)' = InTable(j)
           /\ \/ /\ InTable(k) \in {None, Invalid} /\ InTable(k)' = v /\ answer' = Done
                 /\ db_temp' = [db_temp EXCEPT ![k] = v]
              \/ /\ InTable(k) \notin {None, Invalid} /\ InTable(k)' = InTable(k)
                 /\ answer' = Exists /\ db_temp' = db_temp
<1> DEFINE node == [key |-> k, data |-> v]
           l2 == <<node>> \o ListOf(k)
<1>1. /\ ListOf(k) \in Seq(Node) /\ WellKept(ListOf(k), Hash[k]) /\ node \in Node
      /\ node.key = k /\ node.data = v
  BY StoreAssumption DEF IInv, TypeOK, OnlyInvalidHidden, ListOf, Node
<1>2. Get(k) = Invalid <=> InTable(k) \in {None, Invalid}
  BY <1>1, FindType, StoreAssumption DEF Get, InTable
<1>3. CASE Get(k) = Invalid
  <2>1. Holds(ListOf(k), k) => Find(ListOf(k), k) = Invalid
    BY <1>3 DEF Get
  <2>2. /\ l2 \in Seq(Node) /\ WellKept(l2, Hash[k]) /\ Find(l2, k) = v
        /\ \A j \in Key \ {k} : Find(l2, j) = Find(ListOf(k), j)
    BY <1>1, <2>1, PushList
  <2>3. /\ db' = [db EXCEPT ![Hash[k]] = l2]
        /\ db_temp' = [db_temp EXCEPT ![k] = v] /\ answer' = Done
    BY <1>3 DEF PostHandler, Push, ListOf
  <2> QED
    BY <1>2, <1>3, <2>2, <2>3, TableStep DEF IInv
<1>4. CASE Get(k) # Invalid
  <2>1. UNCHANGED <<db, db_temp>> /\ answer' = Exists
    BY <1>4 DEF PostHandler
  <2> QED
    BY <1>2, <1>4, <2>1 DEF IInv, TypeOK, OnlyInvalidHidden, InTable, ListOf
<1> QED
  BY <1>3, <1>4

LEMMA PutEffect ==
    ASSUME IInv, NEW k \in Key, NEW v \in Value, PutHandler(k, v)
    PROVE  /\ db' \in [Bucket -> Seq(Node)] /\ OnlyInvalidHidden'
           /\ \A j \in Key \ {k} : InTable(j)' = InTable(j)
           /\ \/ /\ InTable(k) # None /\ InTable(k)' = v /\ answer' = Done
                 /\ db_temp' = [db_temp EXCEPT ![k] = v]
              \/ /\ InTable(k) = None /\ InTable(k)' = None
                 /\ answer' = NoPair /\ db_temp' = db_temp
<1> DEFINE node == [key |-> k, data |-> v]
           l2 == [ListOf(k) EXCEPT ![First(ListOf(k), k)] = node]
<1>1. /\ ListOf(k) \in Seq(Node) /\ WellKept(ListOf(k), Hash[k]) /\ node \in Node
      /\ node.key = k /\ node.data = v
  BY StoreAssumption DEF IInv, TypeOK, OnlyInvalidHidden, ListOf, Node
<1>2. Holds(ListOf(k), k) <=> InTable(k) # None
  BY <1>1, FindType, StoreAssumption DEF InTable
<1>3. CASE Holds(ListOf(k), k)
  <2>1. /\ l2 \in Seq(Node) /\ WellKept(l2, Hash[k]) /\ Find(l2, k) = v
        /\ \A j \in Key \ {k} : Find(l2, j) = Find(ListOf(k), j)
    BY <1>1, <1>3, PutList
  <2>2. /\ db' = [db EXCEPT ![Hash[k]] = l2]
        /\ db_temp' = [db_temp EXCEPT ![k] = v] /\ answer' = Done
    BY <1>3 DEF PutHandler, Put, ListOf
  <2> QED
    BY <1>2, <1>3, <2>1, <2>2, TableStep DEF IInv
<1>4. CASE ~ Holds(ListOf(k), k)
  <2>1. UNCHANGED <<db, db_temp>> /\ answer' = NoPair
    BY <1>4 DEF PutHandler
  <2> QED
    BY <1>2, <1>4, <2>1 DEF IInv, TypeOK, OnlyInvalidHidden, InTable, ListOf
<1> QED
  BY <1>3, <1>4

LEMMA DeleteEffect ==
    ASSUME IInv, NEW k \in Key, DeleteHandler(k)
    PROVE  /\ db' \in [Bucket -> Seq(Node)] /\ OnlyInvalidHidden'
           /\ \A j \in Key \ {k} : InTable(j)' = InTable(j)
           /\ \/ /\ InTable(k) # None /\ InTable(k)' \in {None} \cup (Value \cap {Invalid})
                 /\ answer' = Done /\ db_temp' = [db_temp EXCEPT ![k] = Empty]
              \/ /\ InTable(k) = None /\ InTable(k)' = None
                 /\ answer' = NoPair /\ db_temp' = db_temp
<1> DEFINE l2 == remove(ListOf(k), First(ListOf(k), k))
<1>1. ListOf(k) \in Seq(Node) /\ WellKept(ListOf(k), Hash[k])
  BY StoreAssumption DEF IInv, TypeOK, OnlyInvalidHidden, ListOf
<1>2. Holds(ListOf(k), k) <=> InTable(k) # None
  BY <1>1, FindType, StoreAssumption DEF InTable
<1>3. CASE Holds(ListOf(k), k)
  <2>1. /\ l2 \in Seq(Node) /\ WellKept(l2, Hash[k])
        /\ Find(l2, k) \in {None} \cup (Value \cap {Invalid})
        /\ \A j \in Key \ {k} : Find(l2, j) = Find(ListOf(k), j)
    BY <1>1, <1>3, RemoveFromList
  <2>2. /\ db' = [db EXCEPT ![Hash[k]] = l2]
        /\ db_temp' = [db_temp EXCEPT ![k] = Empty] /\ answer' = Done
    BY <1>3 DEF DeleteHandler, Delete, ListOf
  <2> QED
    BY <1>2, <1>3, <2>1, <2>2, TableStep DEF IInv
<1>4. CASE ~ Holds(ListOf(k), k)
  <2>1. UNCHANGED <<db, db_temp>> /\ answer' = NoPair
    BY <1>4 DEF DeleteHandler
  <2> QED
    BY <1>2, <1>4, <2>1 DEF IInv, TypeOK, OnlyInvalidHidden, InTable, ListOf
<1> QED
  BY <1>3, <1>4

\* A restart recovers what the file says.
LEMMA RecoverEffect ==
    ASSUME IInv, InitializeStore
    PROVE  /\ db' \in [Bucket -> Seq(Node)] /\ OnlyInvalidHidden'
           /\ \A k \in Key : InTable(k)' = InFile(k)
<1>1. PICK order :
         /\ \A b \in Bucket : order[b] \in Orders(Kept(b))
         /\ db' = [b \in Bucket |-> NodesOf(order[b])]
  BY DEF InitializeStore
<1>2. ASSUME NEW b \in Bucket
      PROVE  db'[b] \in Seq(Node) /\ WellKept(db'[b], b)
  BY <1>1, RecoverList DEF IInv
<1>3. ASSUME NEW k \in Key PROVE InTable(k)' = InFile(k)
  <2>1. Hash[k] \in Bucket /\ db'[Hash[k]] = NodesOf(order[Hash[k]])
    BY <1>1, StoreAssumption
  <2>2. InTable(k)' = Find(NodesOf(order[Hash[k]]), k)
    BY <2>1 DEF InTable, ListOf
  <2>3. /\ k \in Kept(Hash[k]) => InTable(k)' = file.data[k]
        /\ k \notin Kept(Hash[k]) => InTable(k)' = None
    BY <1>1, <2>1, <2>2, RecoverList DEF IInv
  <2>4. k \in Kept(Hash[k]) <=> file.data[k] \notin {None, Empty}
    BY DEF Kept
  <2> QED
    BY <2>3, <2>4, StoreAssumption DEF InFile
<1> QED
  BY <1>1, <1>2, <1>3 DEF OnlyInvalidHidden

-----------------------------------------------------------------------------
\* Every step keeps the invariant.
LEMMA NextIInv == IInv /\ [Next]_vars => IInv'
<1> SUFFICES ASSUME IInv, [Next]_vars PROVE IInv'
  OBVIOUS
<1>0. /\ TypeOK /\ OnlyInvalidHidden /\ TempFollows /\ FileFollows
      /\ db_temp \in Saved /\ Nothing \in Saved /\ [state |-> "empty", data |-> Nothing] \in File
  BY DEF IInv, TypeOK, Saved, Nothing, File
<1>a. None \notin Value /\ None # Empty /\ None # Invalid /\ Empty # Invalid
  BY StoreAssumption
<1>1. ASSUME NEW k \in Key, GetHandler(k) PROVE IInv'
  <2>1. answer' \in Value \cup {NoPair}
    <3>1. ListOf(k) \in Seq(Node)
      BY <1>0, StoreAssumption DEF TypeOK, ListOf
    <3> QED
      BY <1>1, <3>1, FindType DEF GetHandler, Get
  <2>2. UNCHANGED <<db, db_temp, file, phase>>
    BY <1>1 DEF GetHandler
  <2> QED
    BY <2>1, <2>2 DEF IInv, TypeOK, OnlyInvalidHidden, TempFollows, FileFollows, InTable, ListOf
<1>2. ASSUME NEW k \in Key, NEW v \in Value, PostHandler(k, v) PROVE IInv'
  <2>1. phase # "down" /\ Persist
    BY <1>2 DEF PostHandler
  <2>2. TypeOK' /\ OnlyInvalidHidden'
    <3>1. db_temp' \in Saved /\ answer' \in {Done, Exists}
      BY <1>0, <1>2, PostEffect DEF Saved
    <3> QED
      BY <1>0, <1>2, <2>1, <3>1, PostEffect DEF TypeOK, Persist
  <2>3. TempFollows'
    BY <1>0, <1>a, <1>2, <2>1, PostEffect DEF TempFollows, Saved
  <2>4. FileFollows'
    BY <2>1 DEF FileFollows, Persist
  <2> QED
    BY <2>2, <2>3, <2>4 DEF IInv
<1>3. ASSUME NEW k \in Key, NEW v \in Value, PutHandler(k, v) PROVE IInv'
  <2>1. phase # "down" /\ Persist
    BY <1>3 DEF PutHandler
  <2>2. TypeOK' /\ OnlyInvalidHidden'
    <3>1. db_temp' \in Saved /\ answer' \in {Done, NoPair}
      BY <1>0, <1>3, PutEffect DEF Saved
    <3> QED
      BY <1>0, <1>3, <2>1, <3>1, PutEffect DEF TypeOK, Persist
  <2>3. TempFollows'
    BY <1>0, <1>a, <1>3, <2>1, PutEffect DEF TempFollows, Saved
  <2>4. FileFollows'
    BY <2>1 DEF FileFollows, Persist
  <2> QED
    BY <2>2, <2>3, <2>4 DEF IInv
<1>4. ASSUME NEW k \in Key, DeleteHandler(k) PROVE IInv'
  <2>1. phase # "down" /\ Persist
    BY <1>4 DEF DeleteHandler
  <2>2. TypeOK' /\ OnlyInvalidHidden'
    <3>1. db_temp' \in Saved /\ answer' \in {Done, NoPair}
      BY <1>0, <1>4, DeleteEffect DEF Saved
    <3> QED
      BY <1>0, <1>4, <2>1, <3>1, DeleteEffect DEF TypeOK, Persist
  <2>3. TempFollows'
    BY <1>0, <1>a, <1>4, <2>1, DeleteEffect DEF TempFollows, Saved
  <2>4. FileFollows'
    BY <2>1 DEF FileFollows, Persist
  <2> QED
    BY <2>2, <2>3, <2>4 DEF IInv
<1>5. CASE EncodeType
  <2>1. /\ UNCHANGED <<db, db_temp, answer>> /\ phase' = "encoding" /\ phase # "down"
        /\ file' = [state |-> "types", data |-> Nothing]
    BY <1>0, <1>5 DEF EncodeType, FileFollows
  <2>2. TypeOK'
    BY <1>0, <2>1 DEF TypeOK, File
  <2> QED
    BY <1>0, <2>1, <2>2
       DEF IInv, OnlyInvalidHidden, TempFollows, FileFollows, InTable, ListOf
<1>6. CASE EncodeMap
  <2>1. /\ UNCHANGED <<db, db_temp, answer>> /\ phase' = "serving" /\ phase # "down"
        /\ file' = [state |-> "whole", data |-> db_temp]
    BY <1>6 DEF EncodeMap
  <2>2. TypeOK'
    BY <1>0, <2>1 DEF TypeOK, File
  <2> QED
    BY <1>0, <2>1, <2>2
       DEF IInv, OnlyInvalidHidden, TempFollows, FileFollows, InTable, ListOf
<1>7. CASE Crash
  <2>1. TypeOK'
    BY <1>0, <1>7 DEF TypeOK, Crash
  <2>2. OnlyInvalidHidden'
    BY <1>7 DEF OnlyInvalidHidden, Crash, WellKept
  <2> QED
    BY <1>0, <1>7, <2>1, <2>2 DEF IInv, TempFollows, FileFollows, Crash
<1>8. CASE InitializeStore
  <2>1. phase' = "serving" /\ db_temp' = file.data /\ file' = file /\ file.state # "types"
        /\ answer' = answer
    BY <1>8 DEF InitializeStore
  <2>2. TypeOK' /\ OnlyInvalidHidden'
    BY <1>0, <1>8, <2>1, RecoverEffect DEF TypeOK, File
  <2>3. TempFollows'
    BY <1>8, <1>a, <2>1, RecoverEffect DEF TempFollows, InFile
  <2>4. FileFollows'
    BY <1>0, <2>1 DEF FileFollows
  <2> QED
    BY <2>2, <2>3, <2>4 DEF IInv
<1>9. CASE UNCHANGED vars
  BY <1>9 DEF vars, IInv, TypeOK, OnlyInvalidHidden, TempFollows, FileFollows, InTable, ListOf
<1> QED
  BY <1>1, <1>2, <1>3, <1>4, <1>5, <1>6, <1>7, <1>8, <1>9 DEF Next

LEMMA InitIInv == Init => IInv
<1> SUFFICES ASSUME Init PROVE IInv
  OBVIOUS
<1>1. TypeOK
  BY DEF Init, TypeOK, Saved, Nothing, File
<1>2. OnlyInvalidHidden
  BY DEF Init, OnlyInvalidHidden, WellKept
<1>3. ASSUME NEW k \in Key PROVE InTable(k) = None
  BY StoreAssumption DEF Init, InTable, ListOf, Find, Holds
<1>4. TempFollows
  BY <1>3, StoreAssumption DEF Init, TempFollows, Nothing
<1> QED
  BY <1>1, <1>2, <1>4 DEF IInv, FileFollows, Init

\* The inductive invariant: types, lists that hide only Invalid, and a file that follows.
THEOREM Invariance == Spec => []IInv
<1> QED
  BY InitIInv, NextIInv, PTL DEF Spec

\* Type correctness of the table, of what will be saved and of the file.
THEOREM TypeCorrect == Spec => []TypeOK
<1>1. IInv => TypeOK
  BY DEF IInv
<1> QED
  BY <1>1, Invariance, PTL

\* For any hash function, no list hides a value but Invalid.
THEOREM HiddenNodes == Spec => []OnlyInvalidHidden
<1>1. IInv => OnlyInvalidHidden
  BY DEF IInv
<1> QED
  BY <1>1, Invariance, PTL

\* Whatever was answered can be read back from the file, but for Empty and Invalid.
THEOREM Durable == Spec => []AnsweredIsSaved
<1>1. ASSUME IInv, phase = "serving", NEW k \in Key
      PROVE  \/ {InTable(k), InFile(k)} \subseteq {None, Empty, Invalid}
             \/ InTable(k) = InFile(k)
  <2>1. file.data = db_temp
    BY <1>1 DEF IInv, FileFollows
  <2>2. /\ InTable(k) = Invalid => db_temp[k] \in {Empty, None, Invalid}
        /\ InTable(k) = None => db_temp[k] \in {Empty, None}
        /\ InTable(k) \notin {None, Invalid} => db_temp[k] = InTable(k)
    BY <1>1, StoreAssumption DEF IInv, TempFollows
  <2> QED
    BY <2>1, <2>2, StoreAssumption DEF InFile
<1>2. IInv /\ phase = "serving" => file.state # "types"
  BY DEF IInv, FileFollows
<1>3. IInv => AnsweredIsSaved
  BY <1>1, <1>2 DEF AnsweredIsSaved
<1> QED
  BY <1>3, Invariance, PTL

-----------------------------------------------------------------------------
\* Each step is one of the map, or none: a save takes two steps, which the map does not see.
LEMMA StepIsMap == IInv /\ IInv' /\ [Next]_vars => [Map!Next]_(Map!vars)
<1> SUFFICES ASSUME IInv, IInv', [Next]_vars PROVE [Map!Next]_(Map!vars)
  OBVIOUS
<1> USE DEF Map!vars
<1>a. None \notin Value /\ None # Empty /\ None # Invalid /\ Empty # Invalid
  BY StoreAssumption
<1>b. ASSUME phase # "down" PROVE \A k \in Key : View[k] = InTable(k)
  BY <1>b DEF View
<1>c. ASSUME phase' # "down" PROVE \A k \in Key : View'[k] = InTable(k)'
  BY <1>c DEF View
<1>d. /\ phase = "serving" => Status = "serving"
      /\ phase \in {"created", "encoding"} => Status = "saving"
      /\ phase' = "serving" => Status' = "serving"
      /\ phase' \in {"created", "encoding"} => Status' = "saving"
  BY DEF Status
<1>e. DOMAIN View = Key /\ DOMAIN View' = Key /\ View = [k \in Key |-> View[k]]
      /\ View' = [k \in Key |-> View'[k]]
  BY DEF View
<1>1. ASSUME NEW k \in Key, GetHandler(k) PROVE Map!Get(k)
  <2>1. UNCHANGED <<db, db_temp, file, phase>> /\ phase = "serving"
    BY <1>1 DEF GetHandler
  <2>2. View' = View /\ Status = "serving" /\ Status' = Status
    BY <1>d, <2>1 DEF View, InTable, InFile, ListOf
  <2>3. View[k] = InTable(k) /\ ListOf(k) \in Seq(Node)
    BY <1>b, <2>1, StoreAssumption DEF IInv, TypeOK, ListOf
  <2>4. Get(k) = Invalid <=> View[k] \in {None, Invalid}
    BY <1>a, <2>3, FindType DEF Get, InTable
  <2>5. Get(k) # Invalid => Get(k) = View[k]
    BY <2>3 DEF Get, InTable
  <2> QED
    BY <1>1, <2>2, <2>4, <2>5 DEF GetHandler, Map!Get, Map!Vacant
<1>2. ASSUME NEW k \in Key, NEW v \in Value, PostHandler(k, v) PROVE Map!Post(k, v)
  <2>1. phase = "serving" /\ phase' = "created"
    BY <1>2 DEF PostHandler, Persist
  <2>2. \/ View[k] \in {None, Invalid} /\ View' = [View EXCEPT ![k] = v] /\ answer' = Done
        \/ View[k] \notin {None, Invalid} /\ View' = View /\ answer' = Exists
    BY <1>2, <1>b, <1>c, <1>e, <2>1, PostEffect
  <2> QED
    BY <1>d, <2>1, <2>2 DEF Map!Post, Map!Vacant
<1>3. ASSUME NEW k \in Key, NEW v \in Value, PutHandler(k, v) PROVE Map!Put(k, v)
  <2>1. phase = "serving" /\ phase' = "created"
    BY <1>3 DEF PutHandler, Persist
  <2>2. \/ View[k] # None /\ View' = [View EXCEPT ![k] = v] /\ answer' = Done
        \/ View[k] = None /\ View' = View /\ answer' = NoPair
    BY <1>3, <1>b, <1>c, <1>e, <2>1, PutEffect
  <2> QED
    BY <1>d, <2>1, <2>2 DEF Map!Put
<1>4. ASSUME NEW k \in Key, DeleteHandler(k) PROVE Map!Delete(k)
  <2>1. phase = "serving" /\ phase' = "created"
    BY <1>4 DEF DeleteHandler, Persist
  <2>2. \/ /\ View[k] # None /\ answer' = Done
           /\ InTable(k)' \in {None} \cup (Value \cap {Invalid})
           /\ View' = [View EXCEPT ![k] = InTable(k)']
        \/ View[k] = None /\ View' = View /\ answer' = NoPair
    BY <1>4, <1>b, <1>c, <1>e, <2>1, DeleteEffect
  <2> QED
    BY <1>d, <2>1, <2>2 DEF Map!Delete
<1>5. CASE EncodeType
  <2>1. /\ UNCHANGED <<db, db_temp, answer>> /\ phase = "created" /\ phase' = "encoding"
    BY <1>5 DEF EncodeType
  <2>2. View' = View
    BY <1>b, <1>c, <1>e, <2>1 DEF InTable, ListOf
  <2> QED
    BY <1>d, <2>1, <2>2
<1>6. CASE EncodeMap
  <2>1. /\ UNCHANGED <<db, db_temp, answer>> /\ phase = "encoding" /\ phase' = "serving"
    BY <1>6 DEF EncodeMap
  <2>2. View' = View
    BY <1>b, <1>c, <1>e, <2>1 DEF InTable, ListOf
  <2> QED
    BY <1>d, <2>1, <2>2 DEF Map!Next, Map!Save
<1>7. CASE Crash
  <2>1. /\ phase # "down" /\ phase' = "down" /\ file' = file /\ answer' = None
    BY <1>7 DEF Crash
  <2>2. \A k \in Key : View'[k] = InFile(k)
    BY <2>1 DEF View, InFile
  <2>3. CASE phase = "serving"
    <3>1. file.data = db_temp /\ file.state # "types"
      BY <2>3 DEF IInv, FileFollows
    <3>2. Status = "serving" /\ Status' = "down"
      BY <2>1, <2>3, <3>1 DEF Status
    <3>3. ASSUME NEW k \in Key
          PROVE  /\ View[k] = Empty => View'[k] = None
                 /\ View[k] = Invalid => View'[k] \in {None, Invalid}
                 /\ View[k] \notin {Empty, Invalid} => View'[k] = View[k]
                 /\ View'[k] \in Value \cup {None}
      <4>1. View[k] = InTable(k) /\ View'[k] = InFile(k)
        BY <1>b, <2>2, <2>3
      <4>2. /\ InTable(k) = Invalid => db_temp[k] \in {Empty, None, Invalid}
            /\ InTable(k) = None => db_temp[k] \in {Empty, None}
            /\ InTable(k) \notin {None, Invalid} => db_temp[k] = InTable(k)
        BY <1>a, <2>1 DEF IInv, TempFollows
      <4>3. file.data[k] \in Value \cup {Empty, None}
        BY DEF IInv, TypeOK, File, Saved
      <4> QED
        BY <1>a, <3>1, <4>1, <4>2, <4>3 DEF InFile
    <3>4. View' \in [Key -> Value \cup {None}]
      BY <1>e, <3>3
    <3> QED
      BY <1>a, <2>1, <3>2, <3>3, <3>4 DEF Map!Next, Map!Crash
  <2>4. CASE phase \in {"created", "encoding"}
    <3>1. file.data = Nothing
      BY <2>4 DEF IInv, FileFollows
    <3>2. View' = [k \in Key |-> None]
      BY <1>a, <1>e, <2>2, <3>1 DEF InFile, Nothing
    <3>3. Status' \in {"down", "broken"}
      BY <2>1 DEF Status
    <3> QED
      BY <1>d, <2>1, <2>4, <3>2, <3>3 DEF Map!Next, Map!CrashInSave
  <2> QED
    BY <2>1, <2>3, <2>4 DEF IInv, TypeOK
<1>8. CASE InitializeStore
  <2>1. /\ phase = "down" /\ phase' = "serving" /\ file' = file /\ file.state # "types"
        /\ answer' = answer
    BY <1>8 DEF InitializeStore
  <2>2. \A k \in Key : View[k] = InFile(k) /\ View'[k] = InFile(k)
    BY <1>8, <1>c, <2>1, RecoverEffect DEF View
  <2>3. View' = View
    BY <1>e, <2>2
  <2>4. Status = "down" /\ Status' = "serving"
    BY <2>1 DEF Status
  <2> QED
    BY <2>1, <2>3, <2>4 DEF Map!Next, Map!Restart
<1>9. CASE UNCHANGED vars
  BY <1>9 DEF vars, View, Status, InTable, InFile, ListOf
<1> QED
  BY <1>1, <1>2, <1>3, <1>4, <1>5, <1>6, <1>7, <1>8, <1>9 DEF Next, Map!Next

\* The store implements the map of KvMap: collisions, deleted keys, the two saves of a key
\* and the order in which a restart recovers them do not show.
THEOREM StoreIsMap == Spec => IsMap
<1>1. Init => Map!Init
  <2> SUFFICES ASSUME Init PROVE Map!Init
    OBVIOUS
  <2>2. ASSUME NEW k \in Key PROVE View[k] = None
    <3>1. Hash[k] \in Bucket /\ ListOf(k) = << >>
      BY StoreAssumption DEF Init, ListOf
    <3>2. ~ Holds(ListOf(k), k)
      BY <3>1 DEF Holds
    <3> QED
      BY <3>2 DEF Init, View, InTable, Find
  <2>3. View = [k \in Key |-> None]
    BY <2>2 DEF View
  <2> QED
    BY <2>3 DEF Init, Map!Init, Status
<1> QED
  BY <1>1, StepIsMap, Invariance, PTL DEF Spec, IsMap, Map!Spec
=============================================================================
