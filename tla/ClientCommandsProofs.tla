------------------------ MODULE ClientCommandsProofs ------------------------
(***************************************************************************)
(* What clients of one leader may rely on, for any number of requests,     *)
(* clients, keys and failures: a read sees every write that was answered   *)
(* before it came, a repeated write that is refused was replicated, and a  *)
(* PUT or DELETE finds the key it was checked for.                         *)
(*                                                                         *)
(* The commit index counts the successes and lastApplied the answers, and  *)
(* neither says which entries these are.  So the invariant counts entries. *)
(***************************************************************************)
EXTENDS ClientCommands, SequenceTheorems, FiniteSetTheorems, TLAPS

\* The positions of the entries that a verdict of success is known of, ...
Successes == {p \in DOMAIN log : log[p].verdict = "success"}

\* ... and of those that ApplyToStateMachine was told of.
Told == {p \in DOMAIN log : log[p].told}

Answer == {"none", "not a leader", "repeated", "value", "no value", "read failed", "failure",
           "success"}

RequestState ==
    [at : Place, operation : Operation \cup {NoOp}, client : Client \cup {None}, index : Int,
     checked : Int, needs : Int, saw : Int, answer : Answer]

\* What the variables hold.
Shapes ==
    /\ leading \in BOOLEAN
    /\ log \in Seq(Entry)
    /\ commitIndex \in Int
    /\ lastApplied \in Nat \cup {-1}
    /\ trackMessage \in [Client \cup {None} -> WriteOperation \cup {NoOp}]
    /\ latestClient \in Client \cup {None}
    /\ received \in BOOLEAN
    /\ halted \in BOOLEAN
    /\ kv \in [Key -> Value \cup {None}]
    /\ failures \in 0 .. MaxFailures
    /\ req \in [Task -> RequestState]

\* An entry that was answered has its success.
ToldSucceeded == Told \subseteq Successes

\* The commit index counts the successes, whatever entries they are of.
CommitsCounted == Cardinality(Successes) = commitIndex + 1

\* Each answer was followed by one application, but for the one that is under way and for
\* those that failed.
AnswersCounted ==
    Cardinality(Told) = lastApplied + 1 + failures + IF received THEN 1 ELSE 0

\* The position of the entry that a task waits for.
Position(q) == req[q].index + 1

\* The tasks whose entries are in the log and not answered.
Pending == {q \in Task : req[q].at \in {"written", "announcing"}}

\* A task that waits for a verdict, or to announce one, has an entry of its own.
EntriesOfTasks ==
    /\ \A q \in Pending :
          /\ Position(q) \in DOMAIN log
          /\ log[Position(q)].verdict = IF req[q].at = "written" THEN "none" ELSE "success"
          /\ ~ log[Position(q)].told
          /\ q # ToLeader => /\ log[Position(q)].operation = req[q].operation
                             /\ log[Position(q)].client = req[q].client
    /\ \A q, r \in Pending : q # r => Position(q) # Position(r)

\* A key that was found when lastApplied was checked is there as long as no entry that
\* was applied since then deletes it, and none was given up.
KeyStays(operation, checked) ==
    /\ checked <= lastApplied
    /\ /\ ~ halted
       /\ MustExist(operation)
       /\ checked >= 0
       /\ \A o \in checked + 2 .. lastApplied + 1 : log[o].operation # Delete(operation.key)
       => kv[operation.key] # None

\* The entry that a repeated write repeats, whose verdict was success.
HasReplicated(operation, client) ==
    \E p \in DOMAIN log : /\ log[p].operation = operation
                          /\ log[p].client = client
                          /\ log[p].verdict = "success"

\* What holds of a request, wherever it got: an answer is the end of it; what a read needs
\* is committed when it comes, and applied when it has waited.
Sound(r) ==
    /\ r.at \in {"waiting", "locking", "appending"} => r.operation \in WriteOperation
    /\ r.at \in {"reading", "asking"} => r.operation \in Operation
    /\ r.at \in {"written", "announcing"} => r.operation \in WriteOperation \cup {NoOp}
    /\ r.at # "done" => r.answer = "none"
    /\ r.checked <= lastApplied
    /\ r.at \in {"waiting", "locking", "reading", "asking"} => r.checked = -1
    /\ r.needs <= commitIndex + 1
    /\ r.at = "asking" => r.needs <= lastApplied + 1
    /\ r.answer = "value" => r.saw >= r.needs
    /\ r.answer = "repeated" => HasReplicated(r.operation, r.client)
    /\ r.at = "appending" => KeyStays(r.operation, r.checked)

RequestsSound == \A q \in Task : Sound(req[q])

\* An entry that is not applied yet finds the key it was checked for.
EntriesKeepKeys ==
    \A p \in DOMAIN log : p > lastApplied + 1 => KeyStays(log[p].operation, log[p].checked)

\* trackMessage remembers only writes that were replicated.
TrackedReplicated ==
    \A c \in Client \cup {None} :
        trackMessage[c] # NoOp => HasReplicated(trackMessage[c], c)

\* The inductive invariant.
IInv ==
    /\ Shapes
    /\ ToldSucceeded
    /\ CommitsCounted
    /\ AnswersCounted
    /\ EntriesOfTasks
    /\ RequestsSound
    /\ EntriesKeepKeys
    /\ TrackedReplicated

-----------------------------------------------------------------------------
\* What the operations of clients are made of.
LEMMA Operations ==
    /\ \A operation \in WriteOperation :
          /\ operation.kind \in {"POST", "PUT", "DELETE"}
          /\ operation.key \in Key
          /\ operation.kind \in {"POST", "PUT"} => operation.value \in Value
          /\ operation.kind = "DELETE" => operation = Delete(operation.key)
          /\ operation # NoOp
    /\ \A operation \in Operation :
          /\ operation.key \in Key
          /\ operation.kind # "GET" => operation \in WriteOperation
    /\ NoOp.kind = "NO-OP"
<1>1. ASSUME NEW operation \in WriteOperation
      PROVE  /\ operation.kind \in {"POST", "PUT", "DELETE"}
             /\ operation.key \in Key
             /\ operation.kind \in {"POST", "PUT"} => operation.value \in Value
             /\ operation.kind = "DELETE" => operation = Delete(operation.key)
             /\ operation # NoOp
  <2>1. CASE \E k \in Key : operation = Delete(k)
    BY <2>1 DEF Delete, NoOp
  <2>2. CASE \E k \in Key, v \in Value : operation = Post(k, v)
    BY <2>2 DEF Post, NoOp
  <2>3. CASE \E k \in Key, v \in Value : operation = Put(k, v)
    BY <2>3 DEF Put, NoOp
  <2> QED
    BY <2>1, <2>2, <2>3 DEF WriteOperation
<1>2. ASSUME NEW operation \in Operation, operation \notin WriteOperation
      PROVE  operation.key \in Key /\ operation.kind = "GET"
  BY <1>2 DEF Operation, Get
<1> QED
  BY <1>1, <1>2 DEF NoOp

\* A request as it begins.
Begun(place, operation, client, needs) ==
    [Idle EXCEPT !.at = place, !.operation = operation, !.client = client, !.needs = needs]

LEMMA BegunOn ==
    ASSUME NEW place \in Place, NEW operation \in Operation,
           NEW client \in Client \cup {None}, NEW needs \in Int
    PROVE  LET x == Begun(place, operation, client, needs)
           IN  /\ x \in RequestState
               /\ x.at = place /\ x.operation = operation /\ x.client = client
               /\ x.index = -1 /\ x.checked = -1 /\ x.needs = needs
               /\ x.saw = 0 /\ x.answer = "none"
<1>1. Idle \in RequestState
  BY DEF Idle, RequestState, Place, Answer
<1>2. Idle.index = -1 /\ Idle.checked = -1 /\ Idle.saw = 0 /\ Idle.answer = "none"
  BY DEF Idle
<1> QED
  BY <1>1, <1>2 DEF RequestState, Begun

\* A request that moves on, ...
Moved(r, place) == [r EXCEPT !.at = place]

LEMMA MovedOn ==
    ASSUME NEW r \in RequestState, NEW place \in Place
    PROVE  LET x == Moved(r, place)
           IN  /\ x \in RequestState
               /\ x.at = place /\ x.operation = r.operation /\ x.client = r.client
               /\ x.index = r.index /\ x.checked = r.checked /\ x.needs = r.needs
               /\ x.saw = r.saw /\ x.answer = r.answer
BY DEF RequestState, Moved

\* ... whose entry is appended, ...
Indexed(r, place, i) == [r EXCEPT !.at = place, !.index = i]

LEMMA IndexedOn ==
    ASSUME NEW r \in RequestState, NEW place \in Place, NEW i \in Int
    PROVE  LET x == Indexed(r, place, i)
           IN  /\ x \in RequestState
               /\ x.at = place /\ x.operation = r.operation /\ x.client = r.client
               /\ x.index = i /\ x.checked = r.checked /\ x.needs = r.needs
               /\ x.saw = r.saw /\ x.answer = r.answer
BY DEF RequestState, Indexed

\* ... whose key was found, ...
Checked(r, place, i) == [r EXCEPT !.at = place, !.checked = i]

LEMMA CheckedOn ==
    ASSUME NEW r \in RequestState, NEW place \in Place, NEW i \in Int
    PROVE  LET x == Checked(r, place, i)
           IN  /\ x \in RequestState
               /\ x.at = place /\ x.operation = r.operation /\ x.client = r.client
               /\ x.index = r.index /\ x.checked = i /\ x.needs = r.needs
               /\ x.saw = r.saw /\ x.answer = r.answer
BY DEF RequestState, Checked

\* ... that is answered, ...
Ended(r, place, answer) == [r EXCEPT !.at = place, !.answer = answer]

LEMMA AnsweredOn ==
    ASSUME NEW r \in RequestState, NEW place \in Place, NEW answer \in Answer
    PROVE  LET x == Ended(r, place, answer)
           IN  /\ x \in RequestState
               /\ x.at = place /\ x.operation = r.operation /\ x.client = r.client
               /\ x.index = r.index /\ x.checked = r.checked /\ x.needs = r.needs
               /\ x.saw = r.saw /\ x.answer = answer
BY DEF RequestState, Ended

\* ... with the value of a key.
Seen(r, place, answer, i) == [r EXCEPT !.at = place, !.answer = answer, !.saw = i]

LEMMA SeenOn ==
    ASSUME NEW r \in RequestState, NEW place \in Place, NEW answer \in Answer, NEW i \in Int
    PROVE  LET x == Seen(r, place, answer, i)
           IN  /\ x \in RequestState
               /\ x.at = place /\ x.operation = r.operation /\ x.client = r.client
               /\ x.index = r.index /\ x.checked = r.checked /\ x.needs = r.needs
               /\ x.saw = i /\ x.answer = answer
BY DEF RequestState, Seen

\* A log with a verdict on an entry.
MarkedVerdict(l, k, v) == [l EXCEPT ![k].verdict = v]

LEMMA VerdictMark ==
    ASSUME NEW l \in Seq(Entry), NEW k \in DOMAIN l, NEW v \in {"success", "failure"}
    PROVE  /\ MarkedVerdict(l, k, v) \in Seq(Entry)
           /\ Len(MarkedVerdict(l, k, v)) = Len(l)
           /\ DOMAIN MarkedVerdict(l, k, v) = DOMAIN l
<1> DEFINE e == [l[k] EXCEPT !.verdict = v]
<1>1. k \in 1 .. Len(l) /\ l[k] \in Entry
  BY LenProperties, ElementOfSeq
<1>2. e \in Entry
  BY <1>1 DEF Entry
<1>3. MarkedVerdict(l, k, v) = [l EXCEPT ![k] = e]
  BY DEF MarkedVerdict
<1> HIDE DEF e
<1>4. MarkedVerdict(l, k, v) \in Seq(Entry) /\ Len(MarkedVerdict(l, k, v)) = Len(l)
  BY <1>1, <1>2, <1>3, ExceptSeq
<1>5. DOMAIN MarkedVerdict(l, k, v) = DOMAIN l
  BY <1>4, LenProperties
<1> QED
  BY <1>4, <1>5

LEMMA VerdictEntry ==
    ASSUME NEW l \in Seq(Entry), NEW k \in DOMAIN l, NEW v \in {"success", "failure"},
           NEW p \in DOMAIN l
    PROVE  /\ MarkedVerdict(l, k, v)[p].operation = l[p].operation
           /\ MarkedVerdict(l, k, v)[p].client = l[p].client
           /\ MarkedVerdict(l, k, v)[p].told = l[p].told
           /\ MarkedVerdict(l, k, v)[p].checked = l[p].checked
           /\ MarkedVerdict(l, k, v)[p].verdict = IF p = k THEN v ELSE l[p].verdict
<1>1. l[k] \in Entry
  BY LenProperties, ElementOfSeq
<1>2. MarkedVerdict(l, k, v)[p] = IF p = k THEN [l[k] EXCEPT !.verdict = v] ELSE l[p]
  BY DEF MarkedVerdict
<1> QED
  BY <1>1, <1>2 DEF Entry

\* A log with an entry whose request is answered.
MarkedTold(l, k) == [l EXCEPT ![k].told = TRUE]

LEMMA ToldMark ==
    ASSUME NEW l \in Seq(Entry), NEW k \in DOMAIN l
    PROVE  /\ MarkedTold(l, k) \in Seq(Entry)
           /\ Len(MarkedTold(l, k)) = Len(l)
           /\ DOMAIN MarkedTold(l, k) = DOMAIN l
<1> DEFINE e == [l[k] EXCEPT !.told = TRUE]
<1>1. k \in 1 .. Len(l) /\ l[k] \in Entry
  BY LenProperties, ElementOfSeq
<1>2. e \in Entry
  BY <1>1 DEF Entry
<1>3. MarkedTold(l, k) = [l EXCEPT ![k] = e]
  BY DEF MarkedTold
<1> HIDE DEF e
<1>4. MarkedTold(l, k) \in Seq(Entry) /\ Len(MarkedTold(l, k)) = Len(l)
  BY <1>1, <1>2, <1>3, ExceptSeq
<1>5. DOMAIN MarkedTold(l, k) = DOMAIN l
  BY <1>4, LenProperties
<1> QED
  BY <1>4, <1>5

LEMMA ToldEntry ==
    ASSUME NEW l \in Seq(Entry), NEW k \in DOMAIN l,
           NEW p \in DOMAIN l
    PROVE  /\ MarkedTold(l, k)[p].operation = l[p].operation
           /\ MarkedTold(l, k)[p].client = l[p].client
           /\ MarkedTold(l, k)[p].verdict = l[p].verdict
           /\ MarkedTold(l, k)[p].checked = l[p].checked
           /\ MarkedTold(l, k)[p].told = IF p = k THEN TRUE ELSE l[p].told
<1>1. l[k] \in Entry
  BY LenProperties, ElementOfSeq
<1>2. MarkedTold(l, k)[p] = IF p = k THEN [l[k] EXCEPT !.told = TRUE] ELSE l[p]
  BY DEF MarkedTold
<1> QED
  BY <1>1, <1>2 DEF Entry

\* How the counts bound each other and the log.
LEMMA Bounds ==
    ASSUME Shapes, ToldSucceeded, CommitsCounted, AnswersCounted
    PROVE  /\ Len(log) \in Nat /\ DOMAIN log = 1 .. Len(log)
           /\ IsFiniteSet(Successes) /\ IsFiniteSet(Told)
           /\ Cardinality(Successes) \in Nat /\ Cardinality(Told) \in Nat
           /\ Cardinality(Told) <= Cardinality(Successes)
           /\ commitIndex + 1 <= Len(log)
           /\ lastApplied + failures + (IF received THEN 1 ELSE 0) <= commitIndex
           /\ failures \in Nat
<1>1. Len(log) \in Nat /\ DOMAIN log = 1 .. Len(log)
  BY LenProperties DEF Shapes
<1>2. IsFiniteSet(1 .. Len(log)) /\ Cardinality(1 .. Len(log)) = Len(log)
  <2>1. /\ IsFiniteSet(1 .. Len(log))
        /\ Cardinality(1 .. Len(log)) = IF 1 > Len(log) THEN 0 ELSE Len(log) - 1 + 1
    BY <1>1, FS_Interval
  <2> QED
    BY <1>1, <2>1
<1>3. Successes \in SUBSET (1 .. Len(log))
  BY <1>1 DEF Successes
<1>4. IsFiniteSet(Successes) /\ Cardinality(Successes) <= Len(log)
  BY <1>2, <1>3, FS_Subset
<1>5. IsFiniteSet(Told) /\ Cardinality(Told) <= Cardinality(Successes)
  BY <1>4, FS_Subset DEF ToldSucceeded
<1>6. Cardinality(Successes) \in Nat /\ Cardinality(Told) \in Nat
  BY <1>4, <1>5, FS_CardinalityType
<1>7. failures \in Nat
  BY ClientCommandsAssumption DEF Shapes
<1>8. commitIndex \in Int /\ lastApplied \in Int
  BY DEF Shapes
<1>9. commitIndex + 1 <= Len(log)
  BY <1>1, <1>4, <1>8 DEF CommitsCounted
<1>10. lastApplied + failures + (IF received THEN 1 ELSE 0) <= commitIndex
  BY <1>5, <1>7, <1>8 DEF CommitsCounted, AnswersCounted
<1> QED
  BY <1>1, <1>4, <1>5, <1>6, <1>7, <1>9, <1>10
-----------------------------------------------------------------------------
\* What no step but Applies undoes: entries keep what they were appended with, and their
\* success, and the commit index does not go back.
Grows ==
    /\ log' \in Seq(Entry)
    /\ \A p \in DOMAIN log :
          /\ p \in DOMAIN log'
          /\ log'[p].operation = log[p].operation
          /\ log'[p].client = log[p].client
          /\ log'[p].checked = log[p].checked
          /\ log[p].verdict = "success" => log'[p].verdict = "success"
    /\ commitIndex' \in Int
    /\ commitIndex' >= commitIndex
    /\ UNCHANGED <<lastApplied, halted, kv>>

\* What was replicated stays so.
LEMMA ReplicatedStays ==
    ASSUME Grows, NEW operation, NEW client, HasReplicated(operation, client)
    PROVE  HasReplicated(operation, client)'
BY DEF Grows, HasReplicated

\* A key that was found for an operation stays, until more is applied.
LEMMA KeyStaysOn ==
    ASSUME Shapes, ToldSucceeded, CommitsCounted, AnswersCounted, Grows,
           NEW operation, NEW checked \in Int, KeyStays(operation, checked)
    PROVE  KeyStays(operation, checked)'
<1>1. lastApplied' = lastApplied /\ halted' = halted /\ kv' = kv
  BY DEF Grows
<1>2. ASSUME checked >= 0, NEW o \in checked + 2 .. lastApplied + 1
      PROVE  log'[o].operation = log[o].operation
  <2>1. lastApplied + 1 <= Len(log)
    <3>1. lastApplied \in Int /\ commitIndex \in Int
      BY DEF Shapes
    <3>2. (IF received THEN 1 ELSE 0) \in Nat
      OBVIOUS
    <3> QED
      BY <3>1, <3>2, Bounds
  <2>2. o \in 1 .. Len(log)
    <3>1. lastApplied \in Int
      BY DEF Shapes
    <3> QED
      BY <1>2, <2>1, <3>1, Bounds
  <2> QED
    BY <2>2, Bounds DEF Grows
<1> QED
  BY <1>1, <1>2 DEF KeyStays

\* What holds of a request goes on to hold.
LEMMA SoundStays ==
    ASSUME Shapes, ToldSucceeded, CommitsCounted, AnswersCounted, Grows,
           NEW r \in RequestState, Sound(r)
    PROVE  Sound(r)'
<1>1. r.at = "appending" => KeyStays(r.operation, r.checked)'
  <2>1. r.checked \in Int
    BY DEF RequestState
  <2> QED
    BY <2>1, KeyStaysOn DEF Sound
<1>2. r.answer = "repeated" => HasReplicated(r.operation, r.client)'
  BY ReplicatedStays DEF Sound
<1>3. r.needs <= commitIndex' + 1
  <2>1. /\ r.needs \in Int /\ commitIndex \in Int /\ commitIndex' \in Int
        /\ r.needs <= commitIndex + 1 /\ commitIndex' >= commitIndex
    BY DEF Sound, RequestState, Shapes, Grows
  <2> QED
    BY <2>1
<1>4. lastApplied' = lastApplied
  BY DEF Grows
<1> QED
  BY <1>1, <1>2, <1>3, <1>4 DEF Sound

\* The entries that are not applied keep their keys, and trackMessage what it remembers.
LEMMA EntriesStay ==
    ASSUME IInv, Grows, DOMAIN log' = DOMAIN log
    PROVE  EntriesKeepKeys'
<1> SUFFICES ASSUME NEW p \in DOMAIN log', p > lastApplied' + 1,
                    NEW operation, operation = log'[p].operation,
                    NEW checked, checked = log'[p].checked
             PROVE  KeyStays(operation, checked)'
  BY DEF EntriesKeepKeys, KeyStays
<1>1. /\ p \in DOMAIN log /\ p > lastApplied + 1
      /\ log[p].operation = operation /\ log[p].checked = checked
  BY DEF Grows
<1>2. KeyStays(operation, checked)
  BY <1>1 DEF IInv, EntriesKeepKeys
<1>3. checked \in Int
  <2>1. log[p] \in Entry
    BY <1>1, LenProperties, ElementOfSeq DEF IInv, Shapes
  <2> QED
    BY <1>1, <2>1 DEF Entry
<1> QED
  BY <1>2, <1>3, KeyStaysOn DEF IInv

LEMMA TrackedStays ==
    ASSUME IInv, Grows, UNCHANGED trackMessage
    PROVE  TrackedReplicated'
<1> SUFFICES ASSUME NEW c \in Client \cup {None}, NEW operation,
                    operation = trackMessage[c], operation # NoOp
             PROVE  HasReplicated(operation, c)'
  BY DEF TrackedReplicated
<1>1. HasReplicated(operation, c)
  BY DEF IInv, TrackedReplicated
<1> QED
  BY <1>1, ReplicatedStays
-----------------------------------------------------------------------------
\* A step of a request that leaves the log alone.
LEMMA QuietStep ==
    ASSUME IInv, NEW q \in Task, NEW r \in RequestState, Sound(r),
           q \notin Pending, r.at \notin {"written", "announcing"},
           req' = [req EXCEPT ![q] = r],
           UNCHANGED <<nodeVars, applyVars, failures>>
    PROVE  IInv'
<1>1. /\ log' = log /\ commitIndex' = commitIndex /\ lastApplied' = lastApplied
      /\ trackMessage' = trackMessage /\ kv' = kv /\ received' = received
      /\ halted' = halted /\ failures' = failures
  BY DEF nodeVars, applyVars
<1>2. Grows
  BY <1>1 DEF Grows, IInv, Shapes
<1>3. Shapes'
  BY <1>1 DEF IInv, Shapes, nodeVars, applyVars
<1>4. Successes' = Successes /\ Told' = Told
  BY <1>1 DEF Successes, Told
<1>5. ToldSucceeded' /\ CommitsCounted' /\ AnswersCounted'
  BY <1>1, <1>4 DEF IInv, ToldSucceeded, CommitsCounted, AnswersCounted
<1>6. \A s \in Task : req'[s] = IF s = q THEN r ELSE req[s]
  BY DEF IInv, Shapes
<1>7. EntriesOfTasks'
  <2>1. Pending' = Pending
    BY <1>6 DEF Pending
  <2>2. \A s \in Pending : s \in Task /\ s # q
    BY DEF Pending
  <2>3. \A s \in Pending : req'[s] = req[s] /\ Position(s)' = Position(s)
    BY <1>6, <2>2 DEF Position
  <2> QED
    BY <1>1, <2>1, <2>3 DEF IInv, EntriesOfTasks
<1>8. RequestsSound'
  <2> SUFFICES ASSUME NEW s \in Task, NEW x, x = req'[s] PROVE Sound(x)'
    BY DEF RequestsSound, Sound
  <2>1. x \in RequestState /\ Sound(x)
    BY <1>6 DEF IInv, Shapes, RequestsSound
  <2> QED
    BY <1>2, <2>1, SoundStays DEF IInv
<1>9. EntriesKeepKeys' /\ TrackedReplicated'
  BY <1>1, <1>2, EntriesStay, TrackedStays
<1> QED
  BY <1>3, <1>5, <1>7, <1>8, <1>9 DEF IInv

\* What AppendEntry makes of the log.
LEMMA AppendedLog ==
    ASSUME Shapes, NEW q \in Task, req[q].operation \in WriteOperation, AppendEntry(q)
    PROVE  /\ log' \in Seq(Entry)
           /\ Len(log) \in Nat /\ DOMAIN log = 1 .. Len(log) /\ Len(log') = Len(log) + 1
           /\ DOMAIN log' = 1 .. Len(log) + 1
           /\ \A p \in 1 .. Len(log) : log'[p] = log[p]
           /\ log'[Len(log) + 1] =
                 NewEntry(req[q].operation, req[q].client, req[q].checked)
           /\ latestClient' \in Client \cup {None}
<1> DEFINE e == NewEntry(req[q].operation, req[q].client, req[q].checked)
<1>1. req[q] \in RequestState
  BY DEF Shapes
<1>2. e \in Entry
  BY <1>1 DEF RequestState, NewEntry, Entry
<1>3. log' = Append(log, e)
  BY DEF AppendEntry
<1> HIDE DEF e
<1>4. log \in Seq(Entry) /\ Len(log) \in Nat /\ DOMAIN log = 1 .. Len(log)
  BY LenProperties DEF Shapes
<1>5. /\ log' \in Seq(Entry) /\ Len(log') = Len(log) + 1
      /\ \A p \in 1 .. Len(log) : log'[p] = log[p]
      /\ log'[Len(log) + 1] = e
  BY <1>2, <1>3, <1>4, AppendProperties
<1>6. DOMAIN log' = 1 .. Len(log')
  BY <1>5, LenProperties
<1>7. latestClient' \in Client \cup {None}
  BY <1>1 DEF AppendEntry, RequestState
<1> QED
  BY <1>4, <1>5, <1>6, <1>7 DEF e
\* WriteCommand appends an entry.
LEMMA AppendStep ==
    ASSUME IInv, NEW q \in Task, req[q].at \in {"locking", "appending"}, AppendEntry(q),
           req[q].at = "locking" => ~ MustExist(req[q].operation),
           UNCHANGED <<applyVars, failures>>
    PROVE  IInv'
<1> DEFINE end == Len(log) + 1
           e == NewEntry(req[q].operation, req[q].client, req[q].checked)
<1>1. /\ leading' = leading /\ commitIndex' = commitIndex /\ lastApplied' = lastApplied
      /\ trackMessage' = trackMessage /\ kv' = kv /\ received' = received
      /\ halted' = halted /\ failures' = failures
  BY DEF AppendEntry, applyVars
<1>2. req[q] \in RequestState /\ Sound(req[q]) /\ req[q].operation \in WriteOperation
  BY DEF IInv, Shapes, RequestsSound, Sound
<1>3. /\ log' \in Seq(Entry) /\ Len(log) \in Nat /\ DOMAIN log = 1 .. Len(log)
      /\ DOMAIN log' = 1 .. end
      /\ \A p \in 1 .. Len(log) : log'[p] = log[p]
      /\ log'[end] = e
      /\ latestClient' \in Client \cup {None}
  BY <1>2, AppendedLog DEF IInv
<1>4. /\ e.operation = req[q].operation /\ e.client = req[q].client
      /\ e.verdict = "none" /\ e.told = FALSE /\ e.checked = req[q].checked
  BY DEF NewEntry
<1>5. \A p \in DOMAIN log' : p \in DOMAIN log \/ p = end
  BY <1>3
<1>6. \A p \in DOMAIN log : p \in DOMAIN log' /\ p # end /\ log'[p] = log[p]
  BY <1>3
<1>7. end \in DOMAIN log' /\ end \notin DOMAIN log
  BY <1>3
<1> HIDE DEF end, e
<1> DEFINE r == Indexed(req[q], "written", Len(log))
<1>8. /\ r \in RequestState /\ r.at = "written" /\ r.index = Len(log)
       /\ r.operation = req[q].operation /\ r.client = req[q].client
       /\ r.answer = req[q].answer /\ r.checked = req[q].checked /\ r.needs = req[q].needs
  <2>1. "written" \in Place /\ Len(log) \in Int
    BY <1>3 DEF Place
  <2> QED
    BY <1>2, <2>1, IndexedOn
<1>9. req' = [req EXCEPT ![q] = r]
  BY DEF AppendEntry, Indexed
<1> HIDE DEF r
<1>10. Grows
  BY <1>1, <1>3, <1>6 DEF Grows, IInv, Shapes
<1>11. \A s \in Task : req'[s] = IF s = q THEN r ELSE req[s]
  BY <1>9 DEF IInv, Shapes
<1>12. Shapes'
  <2>1. req' \in [Task -> RequestState]
    BY <1>8, <1>9 DEF IInv, Shapes
  <2> QED
    BY <1>1, <1>3, <2>1 DEF IInv, Shapes
<1>13. Successes' = Successes /\ Told' = Told
  BY <1>3, <1>4, <1>5, <1>6 DEF Successes, Told
<1>14. ToldSucceeded' /\ CommitsCounted' /\ AnswersCounted'
  BY <1>1, <1>13 DEF IInv, ToldSucceeded, CommitsCounted, AnswersCounted
<1>15. EntriesOfTasks'
  <2>1. Pending' = Pending \cup {q} /\ q \notin Pending
    <3>1. \A s \in Task : s # q => req'[s] = req[s]
      BY <1>11
    <3>2. req'[q].at = "written"
      BY <1>11, <1>8
    <3> QED
      BY <3>1, <3>2 DEF Pending
  <2>2. \A s \in Pending : /\ req'[s] = req[s] /\ Position(s)' = Position(s)
                           /\ Position(s) \in DOMAIN log
    BY <1>11, <2>1 DEF Position, Pending, IInv, EntriesOfTasks
  <2>3. /\ Position(q)' = end /\ req'[q].at = "written"
        /\ req'[q].operation = req[q].operation /\ req'[q].client = req[q].client
    BY <1>11, <1>8 DEF Position, end
  <2>4. ASSUME NEW s \in Pending
        PROVE  /\ Position(s)' \in DOMAIN log'
               /\ log'[Position(s)'].verdict = IF req'[s].at = "written" THEN "none" ELSE "success"
               /\ ~ log'[Position(s)'].told
               /\ s # ToLeader => /\ log'[Position(s)'].operation = req'[s].operation
                                  /\ log'[Position(s)'].client = req'[s].client
    BY <1>6, <2>2, <2>4 DEF IInv, EntriesOfTasks
  <2>5. /\ Position(q)' \in DOMAIN log'
        /\ log'[Position(q)'].verdict = IF req'[q].at = "written" THEN "none" ELSE "success"
        /\ ~ log'[Position(q)'].told
        /\ log'[Position(q)'].operation = req'[q].operation
        /\ log'[Position(q)'].client = req'[q].client
    BY <1>3, <1>4, <1>7, <2>3
  <2>6. \A s \in Pending : Position(s)' # Position(q)'
    BY <1>7, <2>2, <2>3
  <2>7. \A s, t \in Pending : s # t => Position(s)' # Position(t)'
    BY <2>2 DEF IInv, EntriesOfTasks
  <2> QED
    BY <2>1, <2>4, <2>5, <2>6, <2>7 DEF EntriesOfTasks
<1>16. RequestsSound'
  <2> SUFFICES ASSUME NEW s \in Task, NEW x, x = req'[s] PROVE Sound(x)'
    BY DEF RequestsSound, Sound
  <2>1. CASE s # q
    BY <1>10, <1>11, <2>1, SoundStays DEF IInv, Shapes, RequestsSound
  <2>2. CASE s = q
    <3>1. /\ req[q].answer = "none" /\ req[q].checked <= lastApplied
          /\ req[q].needs <= commitIndex + 1
      BY <1>2 DEF Sound
    <3>2. /\ x.at = "written" /\ x.operation = req[q].operation /\ x.answer = "none"
          /\ x.checked = req[q].checked /\ x.needs = req[q].needs
      BY <1>11, <1>8, <2>2, <3>1
    <3> QED
      BY <1>1, <1>2, <3>1, <3>2 DEF Sound
  <2> QED
    BY <2>1, <2>2
<1>17. EntriesKeepKeys'
  <2> SUFFICES ASSUME NEW p \in DOMAIN log', p > lastApplied' + 1,
                      NEW operation, operation = log'[p].operation,
                      NEW checked, checked = log'[p].checked
               PROVE  KeyStays(operation, checked)'
    BY DEF EntriesKeepKeys, KeyStays
  <2>1. KeyStays(operation, checked)
    <3>1. CASE p \in DOMAIN log
      BY <1>1, <1>6, <3>1 DEF IInv, EntriesKeepKeys
    <3>2. CASE p = end
      BY <1>2, <1>3, <1>4, <3>2 DEF Sound, KeyStays
    <3> QED
      BY <1>5, <3>1, <3>2
  <2>2. checked \in Int
    <3>1. log'[p] \in Entry
      BY <1>3, ElementOfSeq, LenProperties
    <3> QED
      BY <3>1 DEF Entry
  <2> QED
    BY <1>10, <2>1, <2>2, KeyStaysOn DEF IInv
<1>18. TrackedReplicated'
  BY <1>1, <1>10, TrackedStays
<1> QED
  BY <1>12, <1>14, <1>15, <1>16, <1>17, <1>18 DEF IInv
-----------------------------------------------------------------------------
\* One request moves, and the others stay as they are.
LEMMA RequestMoves ==
    ASSUME IInv, Grows, NEW q \in Task, NEW x, req' = [req EXCEPT ![q] = x], Sound(x)'
    PROVE  RequestsSound'
<1> SUFFICES ASSUME NEW s \in Task, NEW y, y = req'[s] PROVE Sound(y)'
  BY DEF RequestsSound, Sound
<1>1. CASE s = q
  BY <1>1 DEF IInv, Shapes
<1>2. CASE s # q
  <2>1. y = req[s]
    BY <1>2 DEF IInv, Shapes
  <2>2. y \in RequestState /\ Sound(y)
    BY <2>1 DEF IInv, Shapes, RequestsSound
  <2> QED
    BY <2>2, SoundStays DEF IInv
<1> QED
  BY <1>1, <1>2

\* The entry of a task is marked, and the entries of the others stay as they are.
LEMMA EntryMarked ==
    ASSUME IInv, NEW q \in Pending, NEW x, req' = [req EXCEPT ![q] = x],
           x.index = req[q].index, x.operation = req[q].operation, x.client = req[q].client,
           x.at \in {"announcing", "done"},
           DOMAIN log' = DOMAIN log,
           \A p \in DOMAIN log :
              /\ log'[p].operation = log[p].operation
              /\ log'[p].client = log[p].client
              /\ p # Position(q) =>
                    log'[p].verdict = log[p].verdict /\ log'[p].told = log[p].told,
           x.at = "announcing" => /\ log'[Position(q)].verdict = "success"
                                  /\ log'[Position(q)].told = log[Position(q)].told
    PROVE  EntriesOfTasks'
<1>1. q \in Task /\ req[q].at \in {"written", "announcing"}
  BY DEF Pending
<1>2. \A s \in Task : req'[s] = IF s = q THEN x ELSE req[s]
  BY DEF IInv, Shapes
<1>3. /\ \A s \in Pending' : s \in Pending
      /\ q \in Pending' => x.at = "announcing"
  BY <1>1, <1>2 DEF Pending
<1>4. \A s \in Pending : s \in Task /\ Position(s)' = Position(s)
  BY <1>2 DEF Pending, Position
<1>5. ASSUME NEW s \in Pending'
      PROVE  /\ Position(s)' \in DOMAIN log'
             /\ log'[Position(s)'].verdict = IF req'[s].at = "written" THEN "none" ELSE "success"
             /\ ~ log'[Position(s)'].told
             /\ s # ToLeader => /\ log'[Position(s)'].operation = req'[s].operation
                                /\ log'[Position(s)'].client = req'[s].client
  <2>1. s \in Pending /\ Position(s)' = Position(s) /\ s \in Task
    BY <1>3, <1>4
  <2>2. /\ Position(s) \in DOMAIN log
        /\ log[Position(s)].verdict = IF req[s].at = "written" THEN "none" ELSE "success"
        /\ ~ log[Position(s)].told
        /\ s # ToLeader => /\ log[Position(s)].operation = req[s].operation
                           /\ log[Position(s)].client = req[s].client
    BY <2>1 DEF IInv, EntriesOfTasks
  <2>3. CASE s = q
    <3>1. req'[s] = x /\ x.at = "announcing"
      BY <1>2, <1>3, <2>1, <2>3
    <3> QED
      BY <2>1, <2>2, <2>3, <3>1
  <2>4. CASE s # q
    <3>1. Position(s) # Position(q)
      BY <2>1, <2>4 DEF IInv, EntriesOfTasks
    <3>2. req'[s] = req[s]
      BY <1>2, <2>1, <2>4
    <3> QED
      BY <2>1, <2>2, <3>1, <3>2
  <2> QED
    BY <2>3, <2>4
<1>6. ASSUME NEW s \in Pending', NEW t \in Pending', s # t
      PROVE  Position(s)' # Position(t)'
  BY <1>3, <1>4, <1>6 DEF IInv, EntriesOfTasks
<1> QED
  BY <1>5, <1>6 DEF EntriesOfTasks
\* The verdict on an entry is a success.
LEMMA SuccessStep ==
    ASSUME IInv, NEW q \in Task, Succeeds(q)
    PROVE  IInv'
<1> SUFFICES ASSUME NEW at, at = Position(q), NEW x, x = Moved(req[q], "announcing")
             PROVE  IInv'
  OBVIOUS
<1>1. /\ leading' = leading /\ commitIndex' = commitIndex + 1 /\ lastApplied' = lastApplied
      /\ latestClient' = latestClient /\ kv' = kv /\ received' = received
      /\ halted' = halted /\ failures' = failures /\ trackMessage' = Tracks(q)
      /\ req[q].at = "written"
  BY DEF Succeeds, applyVars
<1>2. q \in Pending
  BY <1>1 DEF Pending
<1>3. /\ at \in DOMAIN log /\ log[at].verdict = "none" /\ ~ log[at].told
      /\ q # ToLeader => log[at].operation = req[q].operation /\ log[at].client = req[q].client
  BY <1>1, <1>2 DEF IInv, EntriesOfTasks
<1>4. log \in Seq(Entry) /\ commitIndex \in Int
  BY DEF IInv, Shapes
<1>5. req[q] \in RequestState /\ Sound(req[q]) /\ "announcing" \in Place
  BY DEF IInv, Shapes, RequestsSound, Place
<1>6. /\ x \in RequestState
      /\ x.at = "announcing" /\ x.operation = req[q].operation /\ x.client = req[q].client
      /\ x.index = req[q].index /\ x.checked = req[q].checked /\ x.needs = req[q].needs
      /\ x.saw = req[q].saw /\ x.answer = req[q].answer
  BY <1>5, MovedOn
<1>7. req' = [req EXCEPT ![q] = x]
  BY DEF Succeeds, Moves, Moved
<1>8. log' = MarkedVerdict(log, at, "success")
  BY DEF Succeeds, MarkedVerdict, Position
<1>9. /\ log' \in Seq(Entry) /\ DOMAIN log' = DOMAIN log
      /\ \A p \in DOMAIN log :
            /\ log'[p].operation = log[p].operation /\ log'[p].client = log[p].client
            /\ log'[p].told = log[p].told /\ log'[p].checked = log[p].checked
            /\ log'[p].verdict = IF p = at THEN "success" ELSE log[p].verdict
  <2>1. PICK v \in {"success", "failure"} : v = "success"
    OBVIOUS
  <2>2. log' = MarkedVerdict(log, at, v)
    BY <1>8, <2>1
  <2>3. at \in DOMAIN log
    BY <1>3
  <2>4. log' \in Seq(Entry) /\ DOMAIN log' = DOMAIN log
    BY <1>4, <2>2, <2>3, VerdictMark
  <2>5. ASSUME NEW p \in DOMAIN log
        PROVE  /\ log'[p].operation = log[p].operation /\ log'[p].client = log[p].client
               /\ log'[p].told = log[p].told /\ log'[p].checked = log[p].checked
               /\ log'[p].verdict = IF p = at THEN v ELSE log[p].verdict
    BY <1>4, <2>2, <2>3, VerdictEntry
  <2> QED
    BY <2>1, <2>4, <2>5
<1>10. Grows
  BY <1>1, <1>4, <1>9 DEF Grows
<1>11. Shapes'
  <2>1. req' \in [Task -> RequestState]
    BY <1>6, <1>7 DEF IInv, Shapes
  <2>2. trackMessage' \in [Client \cup {None} -> WriteOperation \cup {NoOp}]
    BY <1>1, <1>5 DEF Tracks, Sound, IInv, Shapes
  <2> QED
    BY <1>1, <1>4, <1>9, <2>1, <2>2 DEF IInv, Shapes
<1>12. Told' = Told /\ Successes' = Successes \cup {at} /\ at \notin Successes
  BY <1>3, <1>9 DEF Told, Successes
<1>13. ToldSucceeded'
  BY <1>12 DEF IInv, ToldSucceeded
<1>14. CommitsCounted'
  <2>1. IsFiniteSet(Successes) /\ Cardinality(Successes) = commitIndex + 1
    BY Bounds DEF IInv, CommitsCounted
  <2>2. Cardinality(Successes') = Cardinality(Successes) + 1
    BY <1>12, <2>1, FS_AddElement
  <2> QED
    BY <1>1, <1>4, <2>1, <2>2 DEF CommitsCounted
<1>15. AnswersCounted'
  BY <1>1, <1>12 DEF IInv, AnswersCounted
<1>16. EntriesOfTasks'
  BY <1>2, <1>3, <1>6, <1>7, <1>9, EntryMarked
<1>17. RequestsSound'
  <2>1. /\ req[q].answer = "none" /\ req[q].checked <= lastApplied
        /\ req[q].operation \in WriteOperation \cup {NoOp}
    BY <1>1, <1>5 DEF Sound
  <2>2. x.needs <= commitIndex' + 1
    <3>1. x.needs \in Int /\ x.needs <= commitIndex + 1
      BY <1>5, <1>6 DEF Sound, RequestState
    <3> QED
      BY <1>1, <1>4, <3>1
  <2>3. Sound(x)'
    BY <1>1, <1>6, <2>1, <2>2 DEF Sound
  <2> QED
    BY <1>7, <1>10, <2>3, RequestMoves
<1>18. EntriesKeepKeys'
  BY <1>9, <1>10, EntriesStay
<1>19. TrackedReplicated'
  <2> SUFFICES ASSUME NEW c \in Client \cup {None}, NEW operation,
                      operation = trackMessage'[c], operation # NoOp
               PROVE  HasReplicated(operation, c)'
    BY DEF TrackedReplicated
  <2>1. CASE q # ToLeader /\ c = req[q].client
    <3>1. operation = req[q].operation
      BY <1>1, <2>1 DEF Tracks, IInv, Shapes
    <3> QED
      BY <1>3, <1>9, <2>1, <3>1 DEF HasReplicated
  <2>2. CASE q = ToLeader \/ c # req[q].client
    <3>1. operation = trackMessage[c]
      BY <1>1, <2>2 DEF Tracks, IInv, Shapes
    <3>2. HasReplicated(operation, c)
      BY <3>1 DEF IInv, TrackedReplicated
    <3> QED
      BY <1>10, <3>2, ReplicatedStays
  <2> QED
    BY <2>1, <2>2
<1> QED
  BY <1>11, <1>13, <1>14, <1>15, <1>16, <1>17, <1>18, <1>19 DEF IInv
\* The verdict on an entry is a failure.
LEMMA FailureStep ==
    ASSUME IInv, NEW q \in Task, Fails(q)
    PROVE  IInv'
<1> SUFFICES ASSUME NEW at, at = Position(q), NEW x, x = Ended(req[q], "done", "failure")
             PROVE  IInv'
  OBVIOUS
<1>1. /\ leading' = leading /\ commitIndex' = commitIndex /\ lastApplied' = lastApplied
      /\ latestClient' = latestClient /\ kv' = kv /\ received' = received
      /\ halted' = halted /\ failures' = failures /\ trackMessage' = trackMessage
      /\ req[q].at = "written"
  BY DEF Fails, applyVars
<1>2. q \in Pending
  BY <1>1 DEF Pending
<1>3. at \in DOMAIN log /\ log[at].verdict = "none" /\ ~ log[at].told
  BY <1>1, <1>2 DEF IInv, EntriesOfTasks
<1>4. log \in Seq(Entry) /\ commitIndex \in Int
  BY DEF IInv, Shapes
<1>5. req[q] \in RequestState /\ Sound(req[q]) /\ "done" \in Place /\ "failure" \in Answer
  BY DEF IInv, Shapes, RequestsSound, Place, Answer
<1>6. /\ x \in RequestState
      /\ x.at = "done" /\ x.operation = req[q].operation /\ x.client = req[q].client
      /\ x.index = req[q].index /\ x.checked = req[q].checked /\ x.needs = req[q].needs
      /\ x.saw = req[q].saw /\ x.answer = "failure"
  BY <1>5, AnsweredOn
<1>7. req' = [req EXCEPT ![q] = x]
  BY DEF Fails, Answers, Ended
<1>8. log' = MarkedVerdict(log, at, "failure")
  BY DEF Fails, MarkedVerdict, Position
<1>9. /\ log' \in Seq(Entry) /\ DOMAIN log' = DOMAIN log
      /\ \A p \in DOMAIN log :
            /\ log'[p].operation = log[p].operation /\ log'[p].client = log[p].client
            /\ log'[p].told = log[p].told /\ log'[p].checked = log[p].checked
            /\ log'[p].verdict = IF p = at THEN "failure" ELSE log[p].verdict
  <2>1. PICK v \in {"success", "failure"} : v = "failure"
    OBVIOUS
  <2>2. log' = MarkedVerdict(log, at, v)
    BY <1>8, <2>1
  <2>3. at \in DOMAIN log
    BY <1>3
  <2>4. log' \in Seq(Entry) /\ DOMAIN log' = DOMAIN log
    BY <1>4, <2>2, <2>3, VerdictMark
  <2>5. ASSUME NEW p \in DOMAIN log
        PROVE  /\ log'[p].operation = log[p].operation /\ log'[p].client = log[p].client
               /\ log'[p].told = log[p].told /\ log'[p].checked = log[p].checked
               /\ log'[p].verdict = IF p = at THEN v ELSE log[p].verdict
    BY <1>4, <2>2, <2>3, VerdictEntry
  <2> QED
    BY <2>1, <2>4, <2>5
<1>10. Grows
  BY <1>1, <1>3, <1>4, <1>9 DEF Grows
<1>11. Shapes'
  <2>1. req' \in [Task -> RequestState]
    BY <1>6, <1>7 DEF IInv, Shapes
  <2> QED
    BY <1>1, <1>4, <1>9, <2>1 DEF IInv, Shapes
<1>12. Told' = Told /\ Successes' = Successes
  BY <1>3, <1>9 DEF Told, Successes
<1>13. ToldSucceeded' /\ CommitsCounted' /\ AnswersCounted'
  BY <1>1, <1>12 DEF IInv, ToldSucceeded, CommitsCounted, AnswersCounted
<1>14. EntriesOfTasks'
  BY <1>2, <1>3, <1>6, <1>7, <1>9, EntryMarked
<1>15. RequestsSound'
  <2>1. req[q].checked <= lastApplied /\ req[q].needs <= commitIndex + 1
    BY <1>5 DEF Sound
  <2>2. Sound(x)'
    BY <1>1, <1>6, <2>1 DEF Sound
  <2> QED
    BY <1>7, <1>10, <2>2, RequestMoves
<1>16. EntriesKeepKeys' /\ TrackedReplicated'
  BY <1>1, <1>9, <1>10, EntriesStay, TrackedStays
<1> QED
  BY <1>11, <1>13, <1>14, <1>15, <1>16 DEF IInv

\* ApplyToStateMachine is told of a success, and the request is answered.
LEMMA AnnounceStep ==
    ASSUME IInv, NEW q \in Task, Announces(q)
    PROVE  IInv'
<1> SUFFICES ASSUME NEW at, at = Position(q), NEW x, x = Ended(req[q], "done", "success")
             PROVE  IInv'
  OBVIOUS
<1>1. /\ leading' = leading /\ commitIndex' = commitIndex /\ lastApplied' = lastApplied
      /\ latestClient' = latestClient /\ kv' = kv /\ ~ received /\ received' = TRUE
      /\ halted' = halted /\ failures' = failures /\ trackMessage' = trackMessage
      /\ req[q].at = "announcing"
  BY DEF Announces
<1>2. q \in Pending
  BY <1>1 DEF Pending
<1>3. at \in DOMAIN log /\ log[at].verdict = "success" /\ ~ log[at].told
  BY <1>1, <1>2 DEF IInv, EntriesOfTasks
<1>4. log \in Seq(Entry) /\ commitIndex \in Int /\ lastApplied \in Int
  BY DEF IInv, Shapes
<1>5. req[q] \in RequestState /\ Sound(req[q]) /\ "done" \in Place /\ "success" \in Answer
  BY DEF IInv, Shapes, RequestsSound, Place, Answer
<1>6. /\ x \in RequestState
      /\ x.at = "done" /\ x.operation = req[q].operation /\ x.client = req[q].client
      /\ x.index = req[q].index /\ x.checked = req[q].checked /\ x.needs = req[q].needs
      /\ x.saw = req[q].saw /\ x.answer = "success"
  BY <1>5, AnsweredOn
<1>7. req' = [req EXCEPT ![q] = x]
  BY DEF Announces, Answers, Ended
<1>8. log' = MarkedTold(log, at)
  BY DEF Announces, MarkedTold, Position
<1>9. /\ log' \in Seq(Entry) /\ DOMAIN log' = DOMAIN log
      /\ \A p \in DOMAIN log :
            /\ log'[p].operation = log[p].operation /\ log'[p].client = log[p].client
            /\ log'[p].verdict = log[p].verdict /\ log'[p].checked = log[p].checked
            /\ log'[p].told = IF p = at THEN TRUE ELSE log[p].told
  <2>1. at \in DOMAIN log
    BY <1>3
  <2>2. log' \in Seq(Entry) /\ DOMAIN log' = DOMAIN log
    BY <1>4, <1>8, <2>1, ToldMark
  <2>3. ASSUME NEW p \in DOMAIN log
        PROVE  /\ log'[p].operation = log[p].operation /\ log'[p].client = log[p].client
               /\ log'[p].verdict = log[p].verdict /\ log'[p].checked = log[p].checked
               /\ log'[p].told = IF p = at THEN TRUE ELSE log[p].told
    BY <1>4, <1>8, <2>1, ToldEntry
  <2> QED
    BY <2>2, <2>3
<1>10. Grows
  <2>1. \A p \in DOMAIN log :
           /\ p \in DOMAIN log'
           /\ log'[p].operation = log[p].operation /\ log'[p].client = log[p].client
           /\ log'[p].verdict = log[p].verdict /\ log'[p].checked = log[p].checked
    BY <1>9
  <2>2. commitIndex' \in Int /\ commitIndex' >= commitIndex
    BY <1>1, <1>4
  <2> QED
    BY <1>1, <1>9, <2>1, <2>2 DEF Grows
<1>11. Shapes'
  <2>1. req' \in [Task -> RequestState]
    BY <1>6, <1>7 DEF IInv, Shapes
  <2> QED
    BY <1>1, <1>4, <1>9, <2>1 DEF IInv, Shapes
<1>12. Successes' = Successes /\ Told' = Told \cup {at} /\ at \notin Told /\ at \in Successes
  BY <1>3, <1>9 DEF Told, Successes
<1>13. ToldSucceeded' /\ CommitsCounted'
  BY <1>1, <1>12 DEF IInv, ToldSucceeded, CommitsCounted
<1>14. AnswersCounted'
  <2>1. IsFiniteSet(Told) /\ failures \in Nat
    BY Bounds DEF IInv
  <2>2. Cardinality(Told) = lastApplied + 1 + failures + 0
    BY <1>1 DEF IInv, AnswersCounted
  <2>3. Cardinality(Told') = Cardinality(Told) + 1
    BY <1>12, <2>1, FS_AddElement
  <2>4. Cardinality(Told') = lastApplied + 1 + failures + 1
    BY <1>4, <2>1, <2>2, <2>3
  <2> QED
    BY <1>1, <2>4 DEF AnswersCounted
<1>15. EntriesOfTasks'
  BY <1>2, <1>3, <1>6, <1>7, <1>9, EntryMarked
<1>16. RequestsSound'
  <2>1. req[q].checked <= lastApplied /\ req[q].needs <= commitIndex + 1
    BY <1>5 DEF Sound
  <2>2. Sound(x)'
    BY <1>1, <1>6, <2>1 DEF Sound
  <2> QED
    BY <1>7, <1>10, <2>2, RequestMoves
<1>17. EntriesKeepKeys' /\ TrackedReplicated'
  BY <1>1, <1>9, <1>10, EntriesStay, TrackedStays
<1> QED
  BY <1>11, <1>13, <1>14, <1>15, <1>16, <1>17 DEF IInv
-----------------------------------------------------------------------------
\* What the key-value store makes of an operation: no key is lost but to its DELETE.
LEMMA PerformedStore ==
    ASSUME Shapes, NEW operation \in WriteOperation \cup {NoOp}
    PROVE  /\ Performed(operation) \in [Key -> Value \cup {None}]
           /\ \A k \in Key : kv[k] # None /\ operation # Delete(k)
                             => Performed(operation)[k] # None
<1>1. kv \in [Key -> Value \cup {None}] /\ None \notin Value
  BY ClientCommandsAssumption DEF Shapes
<1>2. CASE operation = NoOp
  <2>1. Performed(operation) = kv
    BY <1>2, Operations DEF Performed
  <2> QED
    BY <1>1, <2>1
<1>3. CASE operation \in WriteOperation /\ operation.kind = "DELETE"
  <2>1. operation.key \in Key /\ operation = Delete(operation.key)
    BY <1>3, Operations
  <2>2. Performed(operation) = [kv EXCEPT ![operation.key] = None]
    BY <1>3 DEF Performed
  <2> QED
    BY <1>1, <2>1, <2>2
<1>4. CASE operation \in WriteOperation /\ operation.kind \in {"POST", "PUT"}
  <2>1. operation.key \in Key /\ operation.value \in Value
    BY <1>4, Operations
  <2>2. \/ Performed(operation) = [kv EXCEPT ![operation.key] = operation.value]
        \/ Performed(operation) = kv
    BY <1>4 DEF Performed
  <2> QED
    BY <1>1, <2>1, <2>2
<1> QED
  BY <1>2, <1>3, <1>4, Operations

\* When ApplyToStateMachine has received a 1 there is an entry to perform.
LEMMA NextOperation ==
    ASSUME IInv, received
    PROVE  NextEntry \in DOMAIN log /\ log[NextEntry].operation \in WriteOperation \cup {NoOp}
<1>1. /\ lastApplied \in Int /\ lastApplied >= -1 /\ commitIndex \in Int
      /\ log \in Seq(Entry)
  BY DEF IInv, Shapes
<1>2. /\ Len(log) \in Nat /\ DOMAIN log = 1 .. Len(log) /\ failures \in Nat
      /\ commitIndex + 1 <= Len(log)
      /\ lastApplied + failures + (IF received THEN 1 ELSE 0) <= commitIndex
  BY Bounds DEF IInv
<1>3. lastApplied + failures + 1 <= commitIndex
  BY <1>2
<1>4. NextEntry \in DOMAIN log
  <2>1. lastApplied + 2 <= Len(log)
    BY <1>1, <1>2, <1>3
  <2> QED
    BY <1>1, <1>2, <2>1 DEF NextEntry
<1>5. log[NextEntry] \in Entry
  BY <1>1, <1>2, <1>4, ElementOfSeq
<1> QED
  BY <1>4, <1>5 DEF Entry

\* ApplyToStateMachine performs the next entry.
LEMMA ApplyStep ==
    ASSUME IInv, Applies
    PROVE  IInv'
<1>1. /\ leading' = leading /\ log' = log /\ commitIndex' = commitIndex
      /\ trackMessage' = trackMessage /\ latestClient' = latestClient /\ halted' = halted
      /\ failures' = failures /\ req' = req /\ received = TRUE /\ received' = FALSE
      /\ lastApplied' = lastApplied + 1
  BY DEF Applies, IInv, Shapes
<1>2. /\ lastApplied \in Int /\ lastApplied >= -1 /\ commitIndex \in Int
      /\ log \in Seq(Entry)
  BY DEF IInv, Shapes
<1>3. /\ Len(log) \in Nat /\ DOMAIN log = 1 .. Len(log) /\ failures \in Nat
  BY Bounds DEF IInv
<1> SUFFICES ASSUME NEW performed, performed = log[NextEntry].operation
             PROVE  IInv'
  OBVIOUS
<1>6. performed \in WriteOperation \cup {NoOp}
  BY <1>1, NextOperation
<1>7. kv' = Performed(performed)
  BY DEF Applies
<1>8. /\ kv' \in [Key -> Value \cup {None}]
      /\ \A k \in Key : kv[k] # None /\ performed # Delete(k) => kv'[k] # None
  BY <1>6, <1>7, PerformedStore DEF IInv
<1>9. Shapes'
  <2>1. lastApplied' \in Nat \cup {-1}
    BY <1>1, <1>2
  <2> QED
    BY <1>1, <1>8, <2>1 DEF IInv, Shapes
<1>10. Successes' = Successes /\ Told' = Told
  BY <1>1 DEF Successes, Told
<1>11. ToldSucceeded' /\ CommitsCounted'
  BY <1>1, <1>10 DEF IInv, ToldSucceeded, CommitsCounted
<1>12. AnswersCounted'
  <2>1. Cardinality(Told) = lastApplied + 1 + failures + 1
    BY <1>1 DEF IInv, AnswersCounted
  <2>2. Cardinality(Told') = lastApplied' + 1 + failures' + 0
    BY <1>1, <1>2, <1>3, <1>10, <2>1
  <2> QED
    BY <1>1, <2>2 DEF AnswersCounted
<1>13. EntriesOfTasks'
  <2>1. Pending' = Pending /\ \A q \in Pending : Position(q)' = Position(q)
    BY <1>1 DEF Pending, Position
  <2> QED
    BY <1>1, <2>1 DEF IInv, EntriesOfTasks
<1>14. ASSUME NEW operation \in WriteOperation \cup {NoOp}, NEW checked \in Int,
              KeyStays(operation, checked)
       PROVE  KeyStays(operation, checked)'
  <2>1. checked <= lastApplied'
    BY <1>1, <1>2, <1>14 DEF KeyStays
  <2>2. ASSUME ~ halted, MustExist(operation), checked >= 0,
               \A o \in checked + 2 .. lastApplied' + 1 :
                  log[o].operation # Delete(operation.key)
        PROVE  kv'[operation.key] # None
    <3>1. operation.key \in Key
      BY <2>2, Operations DEF MustExist
    <3>2. \A o \in checked + 2 .. lastApplied + 1 :
             log[o].operation # Delete(operation.key)
      BY <1>1, <1>2, <2>2
    <3>3. kv[operation.key] # None
      BY <1>14, <2>2, <3>2 DEF KeyStays
    <3>4. NextEntry \in checked + 2 .. lastApplied' + 1
      <4>1. checked <= lastApplied
        BY <1>14 DEF KeyStays
      <4> QED
        BY <1>1, <1>2, <4>1 DEF NextEntry
    <3>5. performed # Delete(operation.key)
      BY <2>2, <3>4
    <3> QED
      BY <1>8, <3>1, <3>3, <3>5
  <2> QED
    BY <1>1, <2>1, <2>2 DEF KeyStays
<1>15. RequestsSound'
  <2> SUFFICES ASSUME NEW q \in Task, NEW x, x = req'[q] PROVE Sound(x)'
    BY DEF RequestsSound, Sound
  <2>1. x \in RequestState /\ Sound(x)
    BY <1>1 DEF IInv, Shapes, RequestsSound
  <2>2. x.checked \in Int /\ x.needs \in Int
    BY <2>1 DEF RequestState
  <2>3. x.checked <= lastApplied'
    BY <1>1, <1>2, <2>1, <2>2 DEF Sound
  <2>4. x.at = "asking" => x.needs <= lastApplied' + 1
    <3>1. x.at = "asking" => x.needs <= lastApplied + 1
      BY <2>1 DEF Sound
    <3>2. x.needs <= lastApplied + 1 => x.needs <= lastApplied' + 1
      BY <1>1, <1>2, <2>2
    <3> QED
      BY <3>1, <3>2
  <2>5. x.at = "appending" => KeyStays(x.operation, x.checked)'
    BY <1>14, <2>1, <2>2 DEF Sound
  <2>6. x.answer = "repeated" => HasReplicated(x.operation, x.client)'
    BY <1>1, <2>1 DEF Sound, HasReplicated
  <2> QED
    BY <1>1, <2>1, <2>3, <2>4, <2>5, <2>6 DEF Sound
<1>16. EntriesKeepKeys'
  <2> SUFFICES ASSUME NEW p \in DOMAIN log', p > lastApplied' + 1,
                      NEW operation, operation = log'[p].operation,
                      NEW checked, checked = log'[p].checked
               PROVE  KeyStays(operation, checked)'
    BY DEF EntriesKeepKeys, KeyStays
  <2>1. log[p] \in Entry
    BY <1>1, <1>2, <1>3, ElementOfSeq
  <2>2. operation \in WriteOperation \cup {NoOp} /\ checked \in Int
    BY <1>1, <2>1 DEF Entry
  <2>3. p \in DOMAIN log /\ p > lastApplied + 1
    BY <1>1, <1>2, <1>3
  <2>4. KeyStays(operation, checked)
    BY <1>1, <2>3 DEF IInv, EntriesKeepKeys
  <2> QED
    BY <1>14, <2>2, <2>4
<1>17. TrackedReplicated'
  BY <1>1 DEF IInv, TrackedReplicated, HasReplicated
<1> QED
  BY <1>9, <1>11, <1>12, <1>13, <1>15, <1>16, <1>17 DEF IInv
\* ApplyToStateMachine gives an entry up.
LEMMA HaltStep ==
    ASSUME IInv, ApplyHalts
    PROVE  IInv'
<1>1. /\ leading' = leading /\ log' = log /\ commitIndex' = commitIndex
      /\ lastApplied' = lastApplied /\ trackMessage' = trackMessage
      /\ latestClient' = latestClient /\ halted' = TRUE /\ failures < MaxFailures
      /\ failures' = failures + 1 /\ req' = req /\ received = TRUE /\ received' = FALSE
  BY DEF ApplyHalts, nodeVars, IInv, Shapes
<1>2. lastApplied \in Int /\ failures \in Nat /\ MaxFailures \in Nat
  BY Bounds, ClientCommandsAssumption DEF IInv, Shapes
<1>3. Shapes'
  <2>1. failures' \in 0 .. MaxFailures
    BY <1>1, <1>2
  <2>2. kv' \in [Key -> Value \cup {None}]
    BY NextOperation, PerformedStore DEF ApplyHalts, IInv, Shapes
  <2> QED
    BY <1>1, <2>1, <2>2 DEF IInv, Shapes
<1>4. Successes' = Successes /\ Told' = Told
  BY <1>1 DEF Successes, Told
<1>5. ToldSucceeded' /\ CommitsCounted'
  BY <1>1, <1>4 DEF IInv, ToldSucceeded, CommitsCounted
<1>6. AnswersCounted'
  <2>1. Cardinality(Told) = lastApplied + 1 + failures + 1
    BY <1>1 DEF IInv, AnswersCounted
  <2>2. Cardinality(Told') = lastApplied' + 1 + failures' + 0
    BY <1>1, <1>2, <1>4, <2>1
  <2> QED
    BY <1>1, <2>2 DEF AnswersCounted
<1>7. EntriesOfTasks'
  BY <1>1 DEF IInv, EntriesOfTasks, Pending, Position
<1>8. RequestsSound' /\ EntriesKeepKeys' /\ TrackedReplicated'
  BY <1>1 DEF IInv, RequestsSound, Sound, EntriesKeepKeys, KeyStays, TrackedReplicated, HasReplicated
<1> QED
  BY <1>3, <1>5, <1>6, <1>7, <1>8 DEF IInv

\* The invariant says nothing of who leads, and holds on while nothing else changes.
LEMMA LeadingStep ==
    ASSUME IInv, leading' \in BOOLEAN,
           UNCHANGED <<log, commitIndex, lastApplied, trackMessage, latestClient, applyVars,
                       failures, req>>
    PROVE  IInv'
<1>1. /\ log' = log /\ commitIndex' = commitIndex /\ lastApplied' = lastApplied
      /\ trackMessage' = trackMessage /\ latestClient' = latestClient /\ halted' = halted
      /\ received' = received /\ kv' = kv /\ failures' = failures /\ req' = req
  BY DEF applyVars
<1>2. Shapes'
  BY <1>1 DEF IInv, Shapes
<1>3. ToldSucceeded' /\ CommitsCounted' /\ AnswersCounted'
  BY <1>1 DEF IInv, ToldSucceeded, CommitsCounted, AnswersCounted, Successes, Told
<1>4. EntriesOfTasks'
  BY <1>1 DEF IInv, EntriesOfTasks, Pending, Position
<1>5. RequestsSound' /\ EntriesKeepKeys' /\ TrackedReplicated'
  BY <1>1 DEF IInv, RequestsSound, Sound, EntriesKeepKeys, KeyStays, TrackedReplicated, HasReplicated
<1> QED
  BY <1>2, <1>3, <1>4, <1>5 DEF IInv

-----------------------------------------------------------------------------
\* What is answered is committed.
LEMMA AnsweredCommitted ==
    ASSUME IInv
    PROVE  Answered \in Nat /\ Answered <= commitIndex + 1
<1> DEFINE first == {p \in DOMAIN log : \A o \in 1 .. p : log[o].told}
<1>1. /\ DOMAIN log = 1 .. Len(log)
      /\ IsFiniteSet(Told)
      /\ Cardinality(Told) <= Cardinality(Successes)
  BY Bounds DEF IInv
<1>2. first \in SUBSET Told
  BY <1>1 DEF Told
<1>3. IsFiniteSet(first) /\ Cardinality(first) <= Cardinality(Told)
  BY <1>1, <1>2, FS_Subset
<1>4. Cardinality(first) \in Nat /\ Cardinality(Told) \in Nat
  BY <1>1, <1>3, FS_CardinalityType
<1>5. Answered = Cardinality(first)
  BY DEF Answered
<1>6. Cardinality(Successes) = commitIndex + 1 /\ commitIndex \in Int
  BY DEF IInv, CommitsCounted, Shapes
<1> HIDE DEF first
<1> QED
  BY <1>1, <1>3, <1>4, <1>5, <1>6

\* A request comes.
LEMMA HandlerStep ==
    ASSUME IInv, NEW q \in Request, NEW operation \in Operation,
           NEW client \in ClientsOf(operation), Handler(q, operation, client)
    PROVE  IInv'
<1>1. q \in Task /\ req[q].at = "idle" /\ UNCHANGED <<nodeVars, applyVars, failures>>
  BY DEF Task, Handler
<1>2. req[q] \in RequestState /\ Sound(req[q]) /\ q \notin Pending
  BY <1>1 DEF IInv, Shapes, RequestsSound, Pending
<1>3. /\ commitIndex \in Int /\ commitIndex + 1 >= 0 /\ lastApplied \in Int
      /\ lastApplied >= -1
  <2>1. Cardinality(Successes) \in Nat /\ Cardinality(Successes) = commitIndex + 1
    BY Bounds DEF IInv, CommitsCounted
  <2> QED
    BY <2>1 DEF IInv, Shapes
<1>4. CASE leading
  <2>1. client \in Client \cup {None}
    BY DEF ClientsOf
  <2> SUFFICES ASSUME NEW place, place = IF operation.kind = "GET" THEN "reading" ELSE "waiting",
                      NEW needs, needs = Answered,
                      NEW x, x = Begun(place, operation, client, needs)
               PROVE  IInv'
    OBVIOUS
  <2>2. place \in {"reading", "waiting"} /\ place \in Place
    BY DEF Place
  <2>3. needs \in Int /\ needs <= commitIndex + 1
    BY AnsweredCommitted
  <2>4. /\ x.at = place /\ x.operation = operation /\ x.client = client /\ x.index = -1
        /\ x.checked = -1 /\ x.needs = needs /\ x.saw = 0 /\ x.answer = "none"
        /\ x \in RequestState
    BY <2>1, <2>2, <2>3, BegunOn
  <2>5. place = "waiting" => operation \in WriteOperation
    BY Operations
  <2>6. Sound(x)
    BY <1>3, <2>2, <2>3, <2>4, <2>5 DEF Sound
  <2>7. req' = [req EXCEPT ![q] = x]
    BY <1>4 DEF Handler, Begun
  <2>8. x.at \notin {"written", "announcing"}
    BY <2>2, <2>4
  <2> QED
    BY <1>1, <1>2, <2>4, <2>6, <2>7, <2>8, QuietStep
<1>5. CASE ~ leading
  <2> SUFFICES ASSUME NEW x, x = Ended(req[q], "done", "not a leader") PROVE IInv'
    OBVIOUS
  <2>1. "done" \in Place /\ "not a leader" \in Answer
    BY DEF Place, Answer
  <2>2. /\ x \in RequestState
        /\ x.at = "done" /\ x.checked = req[q].checked /\ x.needs = req[q].needs
        /\ x.answer = "not a leader"
    BY <1>2, <2>1, AnsweredOn
  <2>3. Sound(x)
    BY <1>2, <2>2 DEF Sound
  <2>4. req' = [req EXCEPT ![q] = x]
    BY <1>5 DEF Handler, Answers, Ended
  <2> QED
    BY <1>1, <1>2, <2>2, <2>3, <2>4, QuietStep
<1> QED
  BY <1>4, <1>5
\* A request moves on without a trace in the log.
LEMMA MoveStep ==
    ASSUME IInv, NEW q \in Task, NEW place \in Place, Moves(q, place),
           q \notin Pending, place \notin {"written", "announcing"},
           UNCHANGED <<nodeVars, applyVars, failures>>,
           req[q].answer = "none",
           place \in {"locking", "appending"} => req[q].operation \in WriteOperation,
           place \in {"reading", "asking"} => req[q].operation \in Operation,
           place \notin {"idle", "waiting", "done"},
           place = "asking" => NothingToApply,
           req[q].checked = -1
    PROVE  IInv'
<1> SUFFICES ASSUME NEW x, x = Moved(req[q], place) PROVE IInv'
  OBVIOUS
<1>1. req[q] \in RequestState /\ Sound(req[q])
  BY DEF IInv, Shapes, RequestsSound
<1>2. /\ x \in RequestState /\ x.at = place /\ x.operation = req[q].operation
      /\ x.checked = req[q].checked /\ x.needs = req[q].needs /\ x.answer = "none"
  BY <1>1, MovedOn
<1>3. place = "asking" => x.needs <= lastApplied + 1
  BY <1>1, <1>2 DEF NothingToApply, Sound
<1>4. place = "appending" => KeyStays(x.operation, x.checked)
  BY <1>1, <1>2 DEF Sound, KeyStays
<1>5. Sound(x)
  BY <1>1, <1>2, <1>3, <1>4 DEF Sound
<1>6. req' = [req EXCEPT ![q] = x]
  BY DEF Moves, Moved
<1> QED
  BY <1>2, <1>5, <1>6, QuietStep

\* A request is answered without a trace in the log.
LEMMA AnswerStep ==
    ASSUME IInv, NEW q \in Task, NEW answer \in Answer, Answers(q, answer),
           q \notin Pending, answer \notin {"value", "none"},
           UNCHANGED <<nodeVars, applyVars, failures>>,
           answer = "repeated" => HasReplicated(req[q].operation, req[q].client)
    PROVE  IInv'
<1> SUFFICES ASSUME NEW x, x = Ended(req[q], "done", answer) PROVE IInv'
  OBVIOUS
<1>1. req[q] \in RequestState /\ Sound(req[q]) /\ "done" \in Place
  BY DEF IInv, Shapes, RequestsSound, Place
<1>2. /\ x \in RequestState /\ x.at = "done" /\ x.operation = req[q].operation
      /\ x.client = req[q].client
      /\ x.checked = req[q].checked /\ x.needs = req[q].needs /\ x.answer = answer
  BY <1>1, AnsweredOn
<1>3. Sound(x)
  BY <1>1, <1>2 DEF Sound
<1>4. req' = [req EXCEPT ![q] = x]
  BY DEF Answers, Ended
<1> QED
  BY <1>2, <1>3, <1>4, QuietStep
\* The goroutine of WriteCommand, before its entry is in the log, ...
LEMMA WriteSteps ==
    ASSUME IInv, NEW q \in Task,
           WriteCommandWaits(q) \/ WriteCommandChecks(q) \/ WriteCommandAppends(q)
    PROVE  IInv'
<1>1. Sound(req[q]) /\ req[q] \in RequestState
  BY DEF IInv, RequestsSound, Shapes
<1>2. {"locking", "reading"} \subseteq Place /\ {"not a leader", "repeated"} \subseteq Answer
  BY DEF Place, Answer
<1>3. CASE WriteCommandWaits(q)
  <2>1. /\ req[q].at = "waiting" /\ Moves(q, "locking")
        /\ UNCHANGED <<nodeVars, applyVars, failures>>
    BY <1>3 DEF WriteCommandWaits
  <2>2. /\ req[q].operation \in WriteOperation /\ req[q].answer = "none"
        /\ req[q].checked = -1 /\ q \notin Pending
    BY <1>1, <2>1 DEF Sound, Pending
  <2> QED
    BY <1>2, <2>1, <2>2, MoveStep
<1>4. CASE WriteCommandChecks(q)
  <2>1. /\ req[q].at = "locking" /\ UNCHANGED <<applyVars, failures>>
    BY <1>4 DEF WriteCommandChecks
  <2>2. /\ req[q].operation \in WriteOperation /\ req[q].answer = "none"
        /\ req[q].checked = -1 /\ q \notin Pending
    BY <1>1, <2>1 DEF Sound, Pending
  <2>3. CASE Answers(q, "not a leader") /\ UNCHANGED nodeVars
    BY <1>2, <2>1, <2>2, <2>3, AnswerStep
  <2>4. CASE /\ IsRepeated(req[q].operation, req[q].client)
             /\ Answers(q, "repeated") /\ UNCHANGED nodeVars
    <3>1. trackMessage[req[q].client] = req[q].operation
      BY <2>4 DEF IsRepeated
    <3>2. req[q].client \in Client \cup {None} /\ req[q].operation # NoOp
      BY <1>1, <2>2, Operations DEF RequestState
    <3>3. HasReplicated(trackMessage[req[q].client], req[q].client)
      BY <3>1, <3>2 DEF IInv, TrackedReplicated
    <3>4. HasReplicated(req[q].operation, req[q].client)
      BY <3>1, <3>3
    <3> QED
      BY <1>2, <2>1, <2>2, <2>4, <3>4, AnswerStep
  <2>5. CASE Moves(q, "reading") /\ UNCHANGED nodeVars
    <3>1. req[q].operation \in Operation
      BY <2>2 DEF Operation
    <3> QED
      BY <1>2, <2>1, <2>2, <2>5, <3>1, MoveStep
  <2>6. CASE ~ MustExist(req[q].operation) /\ AppendEntry(q)
    BY <2>1, <2>6, AppendStep
  <2> QED
    BY <1>4, <2>3, <2>4, <2>5, <2>6 DEF WriteCommandChecks
<1>5. CASE WriteCommandAppends(q)
  <2>1. req[q].at = "appending" /\ AppendEntry(q) /\ UNCHANGED <<applyVars, failures>>
    BY <1>5 DEF WriteCommandAppends
  <2> QED
    BY <2>1, AppendStep
<1> QED
  BY <1>3, <1>4, <1>5

\* ... and of ReadCommand.
LEMMA ReadSteps ==
    ASSUME IInv, NEW q \in Task, ReadCommandWaits(q) \/ ReadCommandReads(q)
    PROVE  IInv'
<1>1. Sound(req[q]) /\ req[q] \in RequestState
  BY DEF IInv, RequestsSound, Shapes
<1>2. /\ {"asking", "appending", "done"} \subseteq Place
      /\ {"value", "no value", "read failed"} \subseteq Answer
  BY DEF Place, Answer
<1>3. CASE ReadCommandWaits(q)
  <2>1. /\ req[q].at = "reading" /\ NothingToApply /\ Moves(q, "asking")
        /\ UNCHANGED <<nodeVars, applyVars, failures>>
    BY <1>3 DEF ReadCommandWaits
  <2>2. /\ req[q].operation \in Operation /\ req[q].answer = "none"
        /\ req[q].checked = -1 /\ q \notin Pending
    BY <1>1, <2>1 DEF Sound, Pending
  <2> QED
    BY <1>2, <2>1, <2>2, MoveStep
<1>4. CASE ReadCommandReads(q)
  <2>1. req[q].at = "asking" /\ UNCHANGED <<nodeVars, applyVars, failures>>
    BY <1>4 DEF ReadCommandReads
  <2>2. /\ req[q].operation \in Operation /\ req[q].answer = "none"
        /\ req[q].checked = -1 /\ q \notin Pending
        /\ req[q].needs <= commitIndex + 1 /\ req[q].needs <= lastApplied + 1
    BY <1>1, <2>1 DEF Sound, Pending
  <2>3. lastApplied \in Int /\ req[q].needs \in Int
    BY <1>1 DEF IInv, Shapes, RequestState
  <2>4. CASE /\ req[q].operation.kind = "GET"
             /\ req' = [req EXCEPT ![q].at = "done", ![q].answer = "value",
                                   ![q].saw = lastApplied + 1]
    <3> SUFFICES ASSUME NEW saw, saw = lastApplied + 1,
                        NEW x, x = Seen(req[q], "done", "value", saw)
                 PROVE  IInv'
      OBVIOUS
    <3>1. saw \in Int /\ saw >= req[q].needs
      BY <2>2, <2>3
    <3>2. /\ x \in RequestState /\ x.at = "done" /\ x.operation = req[q].operation
          /\ x.checked = req[q].checked /\ x.needs = req[q].needs /\ x.saw = saw
          /\ x.answer = "value"
      <4>1. "done" \in Place /\ "value" \in Answer
        BY <1>2
      <4> QED
        BY <1>1, <3>1, <4>1, SeenOn
    <3>3. req[q].checked <= lastApplied
      BY <1>1 DEF Sound
    <3>4. Sound(x)
      BY <2>2, <3>1, <3>2, <3>3 DEF Sound
    <3>5. req' = [req EXCEPT ![q] = x]
      BY <2>4 DEF Seen
    <3> QED
      BY <2>1, <2>2, <3>2, <3>4, <3>5, QuietStep
  <2>5. CASE Answers(q, "no value")
    BY <1>2, <2>1, <2>2, <2>5, AnswerStep
  <2>6. CASE Answers(q, "read failed")
    BY <1>2, <2>1, <2>2, <2>6, AnswerStep
  <2>7. CASE /\ req[q].operation.kind # "GET" /\ kv[req[q].operation.key] # None
             /\ req' = [req EXCEPT ![q].at = "appending", ![q].checked = lastApplied]
    <3> SUFFICES ASSUME NEW x, x = Checked(req[q], "appending", lastApplied) PROVE IInv'
      OBVIOUS
    <3>1. /\ x \in RequestState /\ x.at = "appending" /\ x.operation = req[q].operation
          /\ x.checked = lastApplied /\ x.needs = req[q].needs /\ x.answer = "none"
      <4>1. "appending" \in Place
        BY <1>2
      <4> QED
        BY <1>1, <2>2, <2>3, <4>1, CheckedOn
    <3>2. x.operation \in WriteOperation
      BY <2>2, <2>7, <3>1, Operations
    <3>3. lastApplied <= lastApplied
      BY <2>3
    <3>4. KeyStays(x.operation, x.checked)
      BY <2>7, <3>1, <3>3 DEF KeyStays
    <3>5. Sound(x)
      BY <2>2, <3>1, <3>2, <3>3, <3>4 DEF Sound
    <3>6. req' = [req EXCEPT ![q] = x]
      BY <2>7 DEF Checked
    <3> QED
      BY <2>1, <2>2, <3>1, <3>5, <3>6, QuietStep
  <2>8. CASE req[q].operation.kind # "GET" /\ Moves(q, "appending")
    <3>1. req[q].operation \in WriteOperation
      BY <2>2, <2>8, Operations
    <3> QED
      BY <1>2, <2>1, <2>2, <2>8, <3>1, MoveStep
  <2> QED
    BY <1>4, <2>4, <2>5, <2>6, <2>7, <2>8 DEF ReadCommandReads, ReadFinds, ReadFails
<1> QED
  BY <1>3, <1>4
-----------------------------------------------------------------------------
\* Nothing has a verdict when the replica begins to lead, and ToLeader waits for one.
LEMMA InitIInv == Init => IInv
<1> SUFFICES ASSUME Init PROVE IInv
  OBVIOUS
<1>1. PICK n \in 0 .. MaxInherited, operation \in WriteOperation :
         log = Append([p \in 1 .. n |-> NewEntry(operation, None, -1)],
                      NewEntry(NoOp, None, -1))
  BY DEF Init
<1> DEFINE e == NewEntry(operation, None, -1)
           noop == NewEntry(NoOp, None, -1)
           inherited == [p \in 1 .. n |-> e]
<1>2. n \in Nat
  BY ClientCommandsAssumption
<1>3. /\ e \in Entry /\ e.verdict = "none" /\ e.told = FALSE /\ e.checked = -1
      /\ noop \in Entry /\ noop.verdict = "none" /\ noop.told = FALSE /\ noop.checked = -1
  BY DEF Entry, NewEntry
<1> HIDE DEF e, noop
<1>4. inherited \in Seq(Entry) /\ Len(inherited) = n /\ \A p \in 1 .. n : inherited[p] = e
  BY <1>2, <1>3
<1>5. log = Append(inherited, noop)
  BY <1>1 DEF e, noop
<1> HIDE DEF inherited
<1>6. /\ log \in Seq(Entry) /\ Len(log) = n + 1
      /\ \A p \in 1 .. n : log[p] = e
      /\ log[n + 1] = noop
  BY <1>3, <1>4, <1>5, AppendProperties
<1>7. DOMAIN log = 1 .. n + 1
  BY <1>6, LenProperties
<1>8. \A p \in DOMAIN log : log[p].verdict = "none" /\ log[p].told = FALSE /\ log[p].checked = -1
  <2>1. \A p \in DOMAIN log : p \in 1 .. n \/ p = n + 1
    BY <1>2, <1>7
  <2> QED
    BY <1>3, <1>6, <2>1
<1>9. Idle \in RequestState /\ Idle.at = "idle" /\ Idle.answer = "none" /\ Idle.operation = NoOp
  BY DEF Idle, RequestState, Place, Answer
<1>10. Idle.checked = -1 /\ Idle.needs = 0
  BY DEF Idle
<1> SUFFICES ASSUME NEW waits, waits = Indexed(Idle, "written", n) PROVE IInv
  OBVIOUS
<1>11. /\ waits \in RequestState /\ waits.at = "written" /\ waits.operation = NoOp
       /\ waits.index = n /\ waits.checked = -1 /\ waits.needs = 0 /\ waits.answer = "none"
  <2>1. "written" \in Place /\ n \in Int
    BY <1>2 DEF Place
  <2> QED
    BY <1>9, <1>10, <2>1, IndexedOn
<1>12. req = [q \in Task |-> IF q = ToLeader THEN waits ELSE Idle]
  <2>1. Len(log) - 1 = n
    BY <1>2, <1>6
  <2> QED
    BY <2>1 DEF Init, Indexed
<1>13. /\ commitIndex = -1 /\ lastApplied = -1 /\ received = FALSE /\ failures = 0
       /\ trackMessage = [c \in Client \cup {None} |-> NoOp]
  BY DEF Init
<1>14. Shapes
  <2>1. req \in [Task -> RequestState]
    BY <1>9, <1>11, <1>12
  <2>2. failures \in 0 .. MaxFailures
    BY <1>13, ClientCommandsAssumption
  <2>3. trackMessage \in [Client \cup {None} -> WriteOperation \cup {NoOp}]
    BY <1>13
  <2> QED
    <3>1. /\ leading \in BOOLEAN /\ latestClient \in Client \cup {None} /\ halted \in BOOLEAN
          /\ kv \in [Key -> Value \cup {None}]
      BY Zenon DEF Init
    <3>2. commitIndex \in Int /\ lastApplied \in Nat \cup {-1}
      BY <1>13
    <3>3. received \in BOOLEAN
      BY <1>13
    <3> QED
      BY <1>6, <2>1, <2>2, <2>3, <3>1, <3>2, <3>3 DEF Shapes
<1>15. Successes = {} /\ Told = {} /\ Cardinality({}) = 0
  BY <1>8, FS_EmptySet DEF Successes, Told
<1>16. ToldSucceeded /\ CommitsCounted /\ AnswersCounted
  <2>1. (IF received THEN 1 ELSE 0) = 0
    BY <1>13
  <2> QED
    BY <1>13, <1>15, <2>1 DEF ToldSucceeded, CommitsCounted, AnswersCounted
<1>17. EntriesOfTasks
  <2>1. ToLeader \in Task /\ req[ToLeader] = waits
    BY <1>12 DEF Task
  <2>2. \A q \in Pending : q = ToLeader
    BY <1>9, <1>12 DEF Pending
  <2>3. Position(ToLeader) = n + 1 /\ n + 1 \in DOMAIN log
    BY <1>2, <1>7, <1>11, <2>1 DEF Position
  <2> QED
    BY <1>8, <1>11, <2>1, <2>2, <2>3 DEF EntriesOfTasks
<1>18. RequestsSound
  <2>1. Sound(Idle)
    BY <1>9, <1>10, <1>13 DEF Sound
  <2>2. Sound(waits)
    BY <1>11, <1>13 DEF Sound
  <2> QED
    BY <1>12, <2>1, <2>2 DEF RequestsSound
<1>19. EntriesKeepKeys
  BY <1>8, <1>13 DEF EntriesKeepKeys, KeyStays
<1>20. TrackedReplicated
  BY <1>13 DEF TrackedReplicated
<1> QED
  BY <1>14, <1>16, <1>17, <1>18, <1>19, <1>20 DEF IInv

\* Every step keeps the invariant.
LEMMA NextIInv == IInv /\ [Next]_vars => IInv'
<1> SUFFICES ASSUME IInv, [Next]_vars PROVE IInv'
  OBVIOUS
<1>1. ASSUME NEW q \in Request, NEW operation \in Operation, NEW client \in ClientsOf(operation),
             Handler(q, operation, client)
      PROVE  IInv'
  BY <1>1, HandlerStep
<1>2. ASSUME NEW q \in Task, Step(q) PROVE IInv'
  <2>1. CASE WriteCommandWaits(q) \/ WriteCommandChecks(q) \/ WriteCommandAppends(q)
    BY <2>1, WriteSteps
  <2>2. CASE ReadCommandWaits(q) \/ ReadCommandReads(q)
    BY <2>2, ReadSteps
  <2>3. CASE Succeeds(q)
    BY <2>3, SuccessStep
  <2>4. CASE Fails(q)
    BY <2>4, FailureStep
  <2>5. CASE Announces(q)
    BY <2>5, AnnounceStep
  <2> QED
    BY <1>2, <2>1, <2>2, <2>3, <2>4, <2>5 DEF Step
<1>3. CASE Applies
  BY <1>3, ApplyStep
<1>4. CASE ApplyHalts
  BY <1>4, HaltStep
<1>5. CASE StepDown
  <2>1. leading' \in BOOLEAN
    BY <1>5 DEF StepDown
  <2> QED
    BY <1>5, <2>1, LeadingStep DEF StepDown
<1>6. CASE UNCHANGED vars
  <2>1. leading' \in BOOLEAN
    BY <1>6 DEF vars, nodeVars, IInv, Shapes
  <2> QED
    BY <1>6, <2>1, LeadingStep DEF vars, nodeVars
<1> QED
  BY <1>1, <1>2, <1>3, <1>4, <1>5, <1>6 DEF Next

\* The counts of entries, and what they say of the requests, hold in every state.
THEOREM Invariance == Spec => []IInv
<1> QED
  BY InitIInv, NextIInv, PTL DEF Spec

\* client.go, raft_server.go: the variables hold what their types allow, nothing is applied
\* that is not committed, and nothing is committed that is not in the log.
THEOREM TypeCorrect == Spec => []TypeOK
<1>1. IInv => TypeOK
  <2> SUFFICES ASSUME IInv PROVE TypeOK
    OBVIOUS
  <2>1. commitIndex \in -1 .. Len(log) - 1 /\ lastApplied \in -1 .. commitIndex
    <3>1. /\ commitIndex \in Int /\ lastApplied \in Int /\ lastApplied >= -1
          /\ Cardinality(Successes) = commitIndex + 1
      BY DEF IInv, Shapes, CommitsCounted
    <3>2. /\ Len(log) \in Nat /\ Cardinality(Successes) \in Nat /\ failures \in Nat
          /\ commitIndex + 1 <= Len(log)
          /\ lastApplied + failures + (IF received THEN 1 ELSE 0) <= commitIndex
      BY Bounds DEF IInv
    <3>3. lastApplied <= commitIndex
      <4>1. CASE received
        BY <3>1, <3>2, <4>1
      <4>2. CASE ~ received
        BY <3>1, <3>2, <4>2
      <4> QED
        BY <4>1, <4>2
    <3> QED
      BY <3>1, <3>2, <3>3
  <2>2. ASSUME NEW q \in Task
        PROVE  /\ req[q].at \in Place
               /\ req[q].operation \in Operation \cup {NoOp}
               /\ req[q].client \in Client \cup {None}
               /\ req[q].at = "written" => log[req[q].index + 1].verdict = "none"
    <3>1. req[q] \in RequestState
      BY DEF IInv, Shapes
    <3>2. req[q].at = "written" => log[req[q].index + 1].verdict = "none"
      BY DEF IInv, EntriesOfTasks, Pending, Position
    <3> QED
      BY <3>1, <3>2 DEF RequestState
  <2> QED
    BY <2>1, <2>2 DEF IInv, Shapes, TypeOK
<1> QED
  BY <1>1, Invariance, PTL

\* client.go, ReadCommand: a read returns a value only after it has waited for lastApplied
\* to reach the commit index, so it has seen every write that was answered before it came.
THEOREM ReadsSeeAnswers == Spec => []ReadSeesAnswered
<1>1. IInv => ReadSeesAnswered
  BY DEF IInv, RequestsSound, Sound, ReadSeesAnswered, Task
<1> QED
  BY <1>1, Invariance, PTL

\* As many successes at the start of the log are committed, since commitIndex counts them.
LEMMA PrefixCommitted ==
    ASSUME IInv, NEW p \in DOMAIN log, \A o \in 1 .. p : log[o].verdict = "success"
    PROVE  p <= commitIndex + 1
<1>1. DOMAIN log = 1 .. Len(log) /\ Len(log) \in Nat /\ IsFiniteSet(Successes)
  BY Bounds DEF IInv
<1>2. 1 .. p \subseteq Successes
  BY <1>1 DEF Successes
<1>3. Cardinality(1 .. p) = p
  <2>1. Cardinality(1 .. p) = IF 1 > p THEN 0 ELSE p - 1 + 1
    BY <1>1, FS_Interval
  <2> QED
    BY <1>1, <2>1
<1>4. Cardinality(1 .. p) <= Cardinality(Successes)
  BY <1>1, <1>2, FS_Subset
<1>5. Cardinality(Successes) = commitIndex + 1
  BY DEF IInv, CommitsCounted
<1> QED
  BY <1>3, <1>4, <1>5

\* client.go, WriteCommand: a write is refused as repeated only when LeaderSendAEs reported
\* success for the same write of the same client, and that one is committed, unless an
\* entry before it has had no success.
THEOREM RepeatedAreReplicated == Spec => []RepeatedIsReplicated
<1>1. IInv => RepeatedIsReplicated
  <2> SUFFICES ASSUME IInv, NEW q \in Request, req[q].answer = "repeated"
               PROVE  \E p \in DOMAIN log :
                         /\ log[p].operation = req[q].operation
                         /\ log[p].client = req[q].client
                         /\ log[p].verdict = "success"
                         /\ \/ p <= commitIndex + 1
                            \/ \E o \in 1 .. p - 1 : log[o].verdict # "success"
    BY DEF RepeatedIsReplicated
  <2>1. HasReplicated(req[q].operation, req[q].client)
    BY DEF IInv, RequestsSound, Sound, Task
  <2>2. PICK p \in DOMAIN log : /\ log[p].operation = req[q].operation
                                /\ log[p].client = req[q].client
                                /\ log[p].verdict = "success"
    BY <2>1 DEF HasReplicated
  <2>3. p \in Nat \ {0}
    BY Bounds DEF IInv
  <2>4. CASE \E o \in 1 .. p - 1 : log[o].verdict # "success"
    BY <2>2, <2>4
  <2>5. CASE \A o \in 1 .. p - 1 : log[o].verdict = "success"
    <3>1. \A o \in 1 .. p : log[o].verdict = "success"
      <4> SUFFICES ASSUME NEW o \in 1 .. p PROVE log[o].verdict = "success"
        OBVIOUS
      <4>1. o = p \/ o \in 1 .. p - 1
        BY <2>3
      <4> QED
        BY <2>2, <2>5, <4>1
    <3> QED
      BY <2>2, <3>1, PrefixCommitted
  <2> QED
    BY <2>4, <2>5
<1> QED
  BY <1>1, Invariance, PTL

\* client.go, WriteCommand: a PUT or DELETE is performed on the key that ReadCommand found,
\* unless a DELETE of that key was not applied when the lookup was made, or an entry was given
\* up before.
THEOREM KeysFound == Spec => ChangesExistingKey
<1>1. ASSUME IInv, [Next]_vars, NEW k \in DOMAIN log,
             lastApplied' = k - 1, lastApplied' # lastApplied,
             MustExist(log[k].operation), KeyKept(k), ~ halted
      PROVE  kv[log[k].operation.key] # None
  <2>1. lastApplied' = lastApplied + 1
    BY <1>1 DEF Next, Step, Handler, WriteCommandWaits, WriteCommandChecks, WriteCommandAppends,
       AppendEntry, ReadCommandWaits, ReadCommandReads, Succeeds, Fails, Announces, Applies,
       ApplyHalts, StepDown, nodeVars, vars
  <2>2. lastApplied \in Int /\ k \in Int
    <3>1. DOMAIN log = 1 .. Len(log)
      BY <1>1, Bounds DEF IInv
    <3> QED
      BY <1>1, <3>1 DEF IInv, Shapes
  <2>3. k > lastApplied + 1 /\ k - 1 = lastApplied + 1
    BY <1>1, <2>1, <2>2
  <2>4. KeyStays(log[k].operation, log[k].checked)
    BY <1>1, <2>3 DEF IInv, EntriesKeepKeys
  <2> QED
    BY <1>1, <2>3, <2>4 DEF KeyStays, KeyKept
<1>2. IInv /\ [Next]_vars =>
         [\A k \in DOMAIN log :
            /\ lastApplied' = k - 1 /\ lastApplied' # lastApplied
            /\ MustExist(log[k].operation)
            /\ KeyKept(k)
            /\ ~ halted
            => kv[log[k].operation.key] # None]_vars
  BY <1>1
<1> QED
  BY <1>2, Invariance, PTL DEF Spec, ChangesExistingKey
=============================================================================
