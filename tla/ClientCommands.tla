--------------------------- MODULE ClientCommands ---------------------------
(***************************************************************************)
(* Requests of clients to a leader: the handlers of raft_server.go,        *)
(* WriteCommand and ReadCommand (client.go), each goroutine cut where it   *)
(* gives up raft_node_mutex or waits for a channel, with the check for     *)
(* repeated writes, and ApplyToStateMachine, which performs one entry for  *)
(* each success.                                                           *)
(*                                                                         *)
(* One replica, from the start of its leadership, ToLeader's no-op         *)
(* included.  What LeaderSendAEs finds out is left open: each of its       *)
(* verdicts may be either.  The key-value store is the map that KvStore    *)
(* shows it to be.  What happens to the log once another replica leads is  *)
(* in Replication.                                                         *)
(***************************************************************************)
EXTENDS Integers, Sequences, FiniteSets

CONSTANTS
    MaxRequests,   \* bound on the requests of clients
    Client,        \* the names that clients give themselves
    Key,
    Value,
    None,          \* no value, or the empty name
    MaxInherited,  \* bound on entries of earlier leaders that are not known to be committed
    MaxFailures    \* bound on the requests to the key-value store that fail

ASSUME ClientCommandsAssumption ==
    /\ None \notin Client \cup Value
    /\ MaxRequests \in Nat
    /\ MaxInherited \in Nat
    /\ MaxFailures \in Nat

VARIABLES
    leading,       \* node.state = Leader
    log,           \* node.log
    commitIndex,   \* node.commitIndex
    lastApplied,   \* node.lastApplied
    trackMessage,  \* node.trackMessage
    latestClient,  \* node.Meta.latestClient
    received,      \* ApplyToStateMachine has received a 1 from commits_ready
    halted,        \* history: it gave up an entry
    kv,            \* the key-value store
    failures,      \* how many requests to it have failed
    req            \* the requests, and ToLeader with its no-op

nodeVars == <<leading, log, commitIndex, lastApplied, trackMessage, latestClient>>
applyVars == <<received, halted, kv>>
vars == <<nodeVars, applyVars, failures, req>>

-----------------------------------------------------------------------------
\* Requests of clients, in the order in which they come.
Request == 1 .. MaxRequests

\* No request, but the goroutine that waits for the verdict on the no-op.
ToLeader == 0

Task == Request \cup {ToLeader}

Get(k) == [kind |-> "GET", key |-> k]
Delete(k) == [kind |-> "DELETE", key |-> k]
Post(k, v) == [kind |-> "POST", key |-> k, value |-> v]
Put(k, v) == [kind |-> "PUT", key |-> k, value |-> v]
NoOp == [kind |-> "NO-OP"]

WriteOperation ==
    {Delete(k) : k \in Key} \cup
    {Post(k, v) : k \in Key, v \in Value} \cup {Put(k, v) : k \in Key, v \in Value}

Operation == WriteOperation \cup {Get(k) : k \in Key}

\* An entry of the log, with how far its own WriteCommand got, and what lastApplied was
\* when the key was last looked up for it.
Entry == [operation : WriteOperation \cup {NoOp}, client : Client \cup {None},
          verdict : {"none", "success", "failure"}, told : BOOLEAN, checked : Int]

NewEntry(operation, client, checked) ==
    [operation |-> operation, client |-> client, verdict |-> "none", told |-> FALSE,
     checked |-> checked]

Place == {"idle",
          "waiting",     \* in the loop that begins WriteCommand
          "locking",     \* between the read lock and the write lock
          "reading",     \* in the loop that begins ReadCommand
          "asking",      \* StaleReadCheck has no verdict yet
          "appending",   \* WriteCommand has read the key and takes the lock again
          "written",     \* the entry is in the log and has no verdict yet
          "announcing",  \* at commits_ready <- 1
          "done"}

\* The names under which an operation can come: a DELETE carries none, nor does a GET.
ClientsOf(operation) ==
    IF operation.kind \in {"POST", "PUT"} THEN Client \cup {None} ELSE {None}

Idle == [at |-> "idle", operation |-> NoOp, client |-> None, index |-> -1, checked |-> -1,
         needs |-> 0, saw |-> 0, answer |-> "none"]

MustExist(operation) == operation.kind \in {"PUT", "DELETE"}

\* An entry of an earlier leader may wait in the log when the replica begins to lead.
Init ==
    /\ leading = TRUE
    /\ \E n \in 0 .. MaxInherited, operation \in WriteOperation :
          log = Append([p \in 1 .. n |-> NewEntry(operation, None, -1)],
                       NewEntry(NoOp, None, -1))
    /\ commitIndex = -1
    /\ lastApplied = -1
    /\ trackMessage = [c \in Client \cup {None} |-> NoOp]
    /\ latestClient = None
    /\ received = FALSE
    /\ halted = FALSE
    /\ kv \in [Key -> Value \cup {None}]
    /\ failures = 0
    /\ req = [q \in Task |->
                 IF q = ToLeader
                 THEN [Idle EXCEPT !.at = "written", !.index = Len(log) - 1]
                 ELSE Idle]

Moves(q, place) == req' = [req EXCEPT ![q].at = place]

Answers(q, answer) == req' = [req EXCEPT ![q].at = "done", ![q].answer = answer]

-----------------------------------------------------------------------------
\* How many entries at the start of the log have requests that were all answered with
\* success.
Answered == Cardinality({p \in DOMAIN log : \A o \in 1 .. p : log[o].told})

\* A handler of raft_server.go.
Handler(q, operation, client) ==
    /\ req[q].at = "idle"
    /\ q = 1 \/ req[q - 1].at # "idle"
    /\ IF leading
          THEN req' = [req EXCEPT ![q] =
                          [Idle EXCEPT !.at = IF operation.kind = "GET" THEN "reading"
                                                                       ELSE "waiting",
                                       !.operation = operation, !.client = client,
                                       !.needs = Answered]]
          ELSE Answers(q, "not a leader")
    /\ UNCHANGED <<nodeVars, applyVars, failures>>

\* Mutant of NothingToApply: the wait ends too early.
AlmostNothingToApply == lastApplied >= commitIndex - 1

\* What both loops wait for.
NothingToApply == commitIndex = lastApplied

\* WriteCommand leaves its loop and releases the read lock.
WriteCommandWaits(q) ==
    /\ req[q].at = "waiting"
    /\ NothingToApply
    /\ Moves(q, "locking")
    /\ UNCHANGED <<nodeVars, applyVars, failures>>

\* Mutant of IsRepeated: the operations are not compared.
IsOfLatestClient(operation, client) ==
    operation.kind # "DELETE" /\ latestClient = client

\* The request repeats the last write of its client, who also made the last write of all.
IsRepeated(operation, client) ==
    /\ operation.kind # "DELETE"
    /\ trackMessage[client] = operation
    /\ latestClient = client

\* WriteCommand appends the entry and calls LeaderSendAEs.
AppendEntry(q) ==
    /\ latestClient' = req[q].client
    /\ log' = Append(log, NewEntry(req[q].operation, req[q].client, req[q].checked))
    /\ req' = [req EXCEPT ![q].at = "written", ![q].index = Len(log)]
    /\ UNCHANGED <<leading, commitIndex, lastApplied, trackMessage>>

\* With the write lock, WriteCommand checks, and a POST is appended at once.
WriteCommandChecks(q) ==
    /\ req[q].at = "locking"
    /\ \/ /\ ~ leading
          /\ Answers(q, "not a leader")
          /\ UNCHANGED nodeVars
       \/ /\ leading
          /\ IsRepeated(req[q].operation, req[q].client)
          /\ Answers(q, "repeated")
          /\ UNCHANGED nodeVars
       \/ /\ leading
          /\ ~ IsRepeated(req[q].operation, req[q].client)
          /\ MustExist(req[q].operation)
          /\ Moves(q, "reading")
          /\ UNCHANGED nodeVars
       \/ /\ leading
          /\ ~ IsRepeated(req[q].operation, req[q].client)
          /\ ~ MustExist(req[q].operation)
          /\ AppendEntry(q)
    /\ UNCHANGED <<applyVars, failures>>

\* ReadCommand leaves its loop and calls StaleReadCheck.
ReadCommandWaits(q) ==
    /\ req[q].at = "reading"
    /\ NothingToApply
    /\ Moves(q, "asking")
    /\ UNCHANGED <<nodeVars, applyVars, failures>>

\* ReadCommand returns the value of the key, or that there is none.
ReadFinds(q, value) ==
    IF req[q].operation.kind = "GET"
    THEN req' = [req EXCEPT ![q].at = "done", ![q].answer = "value", ![q].saw = lastApplied + 1]
    ELSE IF value = None THEN Answers(q, "no value")
    ELSE req' = [req EXCEPT ![q].at = "appending", ![q].checked = lastApplied]

\* Mutant of ReadFails: the error passes for a lookup.
ReadFailsUnseen(q) ==
    IF req[q].operation.kind = "GET" THEN Answers(q, "read failed")
    ELSE req' = [req EXCEPT ![q].at = "appending", ![q].checked = lastApplied]

\* ReadCommand returns an error, after which a PUT or DELETE goes on.
ReadFails(q) ==
    IF req[q].operation.kind = "GET" THEN Answers(q, "read failed")
    ELSE Moves(q, "appending")

\* The verdict on StaleReadCheck, and with success the request to the key-value store.
ReadCommandReads(q) ==
    /\ req[q].at = "asking"
    /\ \/ leading /\ ReadFinds(q, kv[req[q].operation.key])
       \/ ReadFails(q)
    /\ UNCHANGED <<nodeVars, applyVars, failures>>

\* WriteCommand takes the lock again for a PUT or DELETE, whether or not it still leads.
WriteCommandAppends(q) ==
    /\ req[q].at = "appending"
    /\ AppendEntry(q)
    /\ UNCHANGED <<applyVars, failures>>

-----------------------------------------------------------------------------
\* WriteCommand remembers what the client did last.  The no-op has no client.
Tracks(q) ==
    IF q = ToLeader THEN trackMessage
    ELSE [trackMessage EXCEPT ![req[q].client] = req[q].operation]

\* The verdict is a success: the commit index moves by one, whatever the entry's index.
Succeeds(q) ==
    /\ req[q].at = "written"
    /\ commitIndex' = commitIndex + 1
    /\ trackMessage' = Tracks(q)
    /\ log' = [log EXCEPT ![req[q].index + 1].verdict = "success"]
    /\ Moves(q, "announcing")
    /\ UNCHANGED <<leading, lastApplied, latestClient, applyVars, failures>>

\* It is a failure: the entry stays in the log.  ToLeader goes on while it leads.
Fails(q) ==
    /\ req[q].at = "written"
    /\ q = ToLeader => ~ leading
    /\ log' = [log EXCEPT ![req[q].index + 1].verdict = "failure"]
    /\ Answers(q, "failure")
    /\ UNCHANGED <<leading, commitIndex, lastApplied, trackMessage, latestClient, applyVars,
                   failures>>

\* ApplyToStateMachine takes the 1, and the request is answered.
Announces(q) ==
    /\ req[q].at = "announcing"
    /\ ~ received
    /\ received' = TRUE
    /\ log' = [log EXCEPT ![req[q].index + 1].told = TRUE]
    /\ Answers(q, "success")
    /\ UNCHANGED <<leading, commitIndex, lastApplied, trackMessage, latestClient, halted, kv,
                   failures>>

\* The position in the log of the entry to apply.
NextEntry == lastApplied + 2

\* What the key-value store makes of an operation.
Performed(operation) ==
    CASE operation.kind = "POST" ->
            IF kv[operation.key] = None
            THEN [kv EXCEPT ![operation.key] = operation.value] ELSE kv
      [] operation.kind = "PUT" ->
            IF kv[operation.key] # None
            THEN [kv EXCEPT ![operation.key] = operation.value] ELSE kv
      [] operation.kind = "DELETE" -> [kv EXCEPT ![operation.key] = None]
      [] OTHER -> kv

\* Mutants of Applies: all that is in the log counts as applied, or nothing does.
AppliesAll ==
    /\ received
    /\ received' = FALSE
    /\ kv' = Performed(log[NextEntry].operation)
    /\ lastApplied' = Len(log) - 1
    /\ UNCHANGED <<leading, log, commitIndex, trackMessage, latestClient, halted, failures, req>>

AppliesUncounted ==
    /\ received
    /\ received' = FALSE
    /\ kv' = Performed(log[NextEntry].operation)
    /\ UNCHANGED <<nodeVars, halted, failures, req>>

\* ApplyToStateMachine performs the next entry and moves lastApplied.
Applies ==
    /\ received
    /\ received' = FALSE
    /\ kv' = Performed(log[NextEntry].operation)
    /\ lastApplied' = lastApplied + 1
    /\ UNCHANGED <<leading, log, commitIndex, trackMessage, latestClient, halted, failures, req>>

\* The request to the key-value store fails, before the store has performed the operation or
\* after, and the entry is not announced again.
ApplyHalts ==
    /\ received
    /\ log[NextEntry].operation # NoOp
    /\ failures < MaxFailures
    /\ failures' = failures + 1
    /\ received' = FALSE
    /\ halted' = TRUE
    /\ kv' \in {kv, Performed(log[NextEntry].operation)}
    /\ UNCHANGED <<nodeVars, req>>

\* The replica learns of a later term.
StepDown ==
    /\ leading
    /\ leading' = FALSE
    /\ UNCHANGED <<log, commitIndex, lastApplied, trackMessage, latestClient, applyVars,
                   failures, req>>

\* A goroutine moves on.
Step(q) ==
    \/ WriteCommandWaits(q) \/ WriteCommandChecks(q) \/ WriteCommandAppends(q)
    \/ ReadCommandWaits(q) \/ ReadCommandReads(q)
    \/ Succeeds(q) \/ Fails(q) \/ Announces(q)

Next ==
    \/ \E q \in Request, operation \in Operation :
          \E client \in ClientsOf(operation) : Handler(q, operation, client)
    \/ \E q \in Task : Step(q)
    \/ Applies \/ ApplyHalts
    \/ StepDown

Spec == Init /\ [][Next]_vars

\* While some goroutine can move on, one does.  The loops look again every 20 ms, a verdict
\* always comes (LeaderSendAEs), and ApplyToStateMachine serves its channel.  That is
\* enough: no goroutine ever goes back, so none can keep another waiting for good.
Fairness == WF_vars((\E q \in Task : Step(q)) \/ Applies \/ ApplyHalts)

FairSpec == Spec /\ Fairness

-----------------------------------------------------------------------------
\* Every variable holds what the code's types allow.
TypeOK ==
    /\ leading \in BOOLEAN
    /\ log \in Seq(Entry)
    /\ commitIndex \in -1 .. Len(log) - 1
    /\ lastApplied \in -1 .. commitIndex
    /\ trackMessage \in [Client \cup {None} -> WriteOperation \cup {NoOp}]
    /\ latestClient \in Client \cup {None}
    /\ received \in BOOLEAN
    /\ halted \in BOOLEAN
    /\ kv \in [Key -> Value \cup {None}]
    /\ failures \in 0 .. MaxFailures
    /\ \A q \in Task :
          /\ req[q].at \in Place
          /\ req[q].operation \in Operation \cup {NoOp}
          /\ req[q].client \in Client \cup {None}
          /\ req[q].at = "written" => log[req[q].index + 1].verdict = "none"

\* A read that returns a value has seen every write that was answered with success before
\* the read came, as long as every entry before that write was answered so, too.
ReadSeesAnswered ==
    \A q \in Request : req[q].answer = "value" => req[q].saw >= req[q].needs

\* A client whose write is refused as repeated made the very same write before, and that one
\* was replicated: LeaderSendAEs reported success for it.  It is committed, too, unless an
\* entry before it has had no success: then the commit index, which counts successes, may
\* not have reached it, and the client is refused a write that may never be performed.
RepeatedIsReplicated ==
    \A q \in Request : req[q].answer = "repeated" =>
        \E p \in DOMAIN log :
            /\ log[p].operation = req[q].operation
            /\ log[p].client = req[q].client
            /\ log[p].verdict = "success"
            /\ p <= commitIndex + 1 \/ \E o \in 1 .. p - 1 : log[o].verdict # "success"

\* The entry at position p was appended after its key was found, and after none of the
\* entries that were not applied by then deletes the key.
KeyKept(p) ==
    /\ log[p].checked >= 0
    /\ \A o \in log[p].checked + 2 .. p - 1 : log[o].operation # Delete(log[p].operation.key)

\* A PUT or DELETE finds its key when it is performed, unless the lookup failed, a DELETE was
\* on its way, or an entry was given up: that one is performed twice, perhaps.
ChangesExistingKey ==
    [][\A k \in DOMAIN log :
          /\ lastApplied' = k - 1 /\ lastApplied' # lastApplied
          /\ MustExist(log[k].operation)
          /\ KeyKept(k)
          /\ ~ halted
          => kv[log[k].operation.key] # None]_vars

\* Every request is answered, unless an entry was given up: then nobody gets past
\* the loops again.
RequestsAnswered ==
    \A q \in Request : req[q].at # "idle" ~> req[q].at = "done" \/ halted

\* client.go: if the write request is successfully persisted across a majority, WriteCommand
\* informs ApplyToStateMachine to perform the write operation.
AnsweredIsPerformed ==
    /\ leading
    /\ \A q \in Task : req[q].at \in {"idle", "done"}
    /\ ~ received
    /\ ~ halted
    => \A p \in DOMAIN log : log[p].told => lastApplied >= p - 1
=============================================================================
