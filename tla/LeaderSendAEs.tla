--------------------------- MODULE LeaderSendAEs ---------------------------
(***************************************************************************)
(* One call of LeaderSendAEs (raft/send_AEs.go): the goroutine it starts   *)
(* for each peer, with the retries of LeaderSendAE, the two counters they  *)
(* share, and the channel on which the caller waits for the verdict.  The  *)
(* callers are WriteCommand and ReadCommand (raft/client.go), ToLeader     *)
(* (raft/states.go) and HeartBeats; all of them just receive one value.    *)
(*                                                                         *)
(* Which entries are sent from which index is left out: "stored" says that *)
(* a peer has all of them.  But the goroutines share one message, and each *)
(* writes its PrevLogIndex, PrevLogTerm and Entries there: "astray" says   *)
(* that what a peer was sent need not be about these entries.              *)
(***************************************************************************)
EXTENDS Integers, FiniteSets

CONSTANTS
    N,        \* n_replicas; nobody is elected in a cluster of one
    Peer,     \* the peers that peer_replica_clients has a client for
    MaxTries  \* bound on the calls to one peer (20 ms for all of them in the code)

ASSUME QuorumAssumption ==
    /\ N \in Nat \ {0, 1}
    /\ IsFiniteSet(Peer)
    /\ Cardinality(Peer) < N
    /\ MaxTries \in Nat \ {0}

VARIABLES
    pc,         \* where the goroutine of each peer is
    tries,      \* the calls that each goroutine has made
    mixed,      \* two goroutines have written the message they share at the same time
    stored,     \* the peers that have the entries
    astray,     \* history: the peers that may have been sent a message about other entries
    leading,    \* node.state = Leader
    deposed,    \* history: the node has left the Leader state since the call began
    successes,  \* the counter of that name, which starts with the leader
    failures,   \* the counter of that name
    verdict     \* what the caller received on successful_write, if anything

nodeVars == <<leading, deposed>>
countVars == <<successes, failures, verdict>>
vars == <<pc, tries, mixed, stored, astray, nodeVars, countVars>>

-----------------------------------------------------------------------------
None == "none"
Success == "success"
Failure == "failure"

\* Mutant of WriteQuorum: half of an even cluster is enough.
HalfIsEnough == (N + 1) \div 2

\* The number of successes at which the write is a success.
WriteQuorum == N \div 2 + 1

\* Mutants of WriteFailure: fewer failures, or as many as a write quorum.
FailsEarly == (N - 1) \div 2

FailsLate == N \div 2 + 1

\* The number of failures at which it is a failure.
WriteFailure == (N + 1) \div 2

\* Mutant of FailureVerdict: reached instead of just reached.
FailureFrom(n) == n >= WriteFailure

\* The goroutine that takes a counter to its threshold, and no other, has a verdict.
SuccessVerdict(n) == n = WriteQuorum

FailureVerdict(n) == n = WriteFailure

\* The goroutines that have begun to write the message and not ended.
Writers == {p \in Peer : pc[p] = "writing"}

Init ==
    /\ pc = [p \in Peer |-> "starting"]
    /\ tries = [p \in Peer |-> 1]
    /\ mixed = FALSE
    /\ stored = {}
    /\ astray = {}
    /\ leading = TRUE
    /\ deposed = FALSE
    /\ successes = 1
    /\ failures = 0
    /\ verdict = None

\* A goroutine begins to write its PrevLogIndex, PrevLogTerm and Entries into the message;
\* the lock that it holds at the first two is shared, so nothing keeps the others away.
BeginMessage(p) ==
    /\ pc[p] = "starting"
    /\ pc' = [pc EXCEPT ![p] = "writing"]
    /\ mixed' = (Writers # {})
    /\ UNCHANGED <<tries, stored, astray, nodeVars, countVars>>

\* It has written all three.
EndMessage(p) ==
    /\ pc[p] = "writing"
    /\ pc' = [pc EXCEPT ![p] = "encoding"]
    /\ UNCHANGED <<tries, mixed, stored, astray, nodeVars, countVars>>

\* The first message of p may be put together from the writes of several goroutines.
MayBeMixed(p) ==
    /\ tries[p] = 1
    /\ mixed \/ \E q \in Peer : pc[q] \in {"starting", "writing"}

\* gRPC encodes the message, the shared one in the first call and one of the goroutine's
\* own in a retry.  It holds pointers into the log, which may have been overwritten if the
\* node has not led all the time.
Encode(p) ==
    /\ pc[p] = "encoding"
    /\ pc' = [pc EXCEPT ![p] = "calling"]
    /\ \/ UNCHANGED astray
       \/ (deposed \/ MayBeMixed(p)) /\ astray' = astray \cup {p}
    /\ UNCHANGED <<tries, mixed, stored, nodeVars, countVars>>

\* The AppendEntries handler of p stores the entries, of this call or another one; it may
\* do so after the call was given up.
Store(p) ==
    /\ p \notin stored
    /\ stored' = stored \cup {p}
    /\ UNCHANGED <<pc, tries, mixed, astray, nodeVars, countVars>>

\* The call fails: no connection, or no answer in time.
CallFails(p) ==
    /\ pc[p] = "calling"
    /\ pc' = [pc EXCEPT ![p] = Failure]
    /\ UNCHANGED <<tries, mixed, stored, astray, nodeVars, countVars>>

\* The peer has what it was sent, which are the entries unless the message went astray.
Matched(p) == p \in stored \cup astray

\* Success.  If its term is a later one, the leader steps down, and still counts it.
Accepted(p) ==
    /\ pc[p] = "calling"
    /\ Matched(p)
    /\ pc' = [pc EXCEPT ![p] = Success]
    /\ \/ UNCHANGED nodeVars
       \/ leading' = FALSE /\ deposed' = TRUE
    /\ UNCHANGED <<tries, mixed, stored, astray, countVars>>

\* No success, and the node leads no more or learns of a later term: it gives up.
Refused(p) ==
    /\ pc[p] = "calling"
    /\ leading' = FALSE
    /\ deposed' = TRUE
    /\ pc' = [pc EXCEPT ![p] = Failure]
    /\ UNCHANGED <<tries, mixed, stored, astray, countVars>>

\* Mutant of Retry: without an end.
RetryForever(p) ==
    /\ pc[p] = "calling"
    /\ leading
    /\ tries' = [tries EXCEPT ![p] = @ + 1]
    /\ pc' = [pc EXCEPT ![p] = "encoding"]
    /\ UNCHANGED <<mixed, stored, astray, nodeVars, countVars>>

\* No success at the leader's own term: one more call, from one entry earlier.
Retry(p) ==
    /\ pc[p] = "calling"
    /\ leading
    /\ tries[p] < MaxTries
    /\ tries' = [tries EXCEPT ![p] = @ + 1]
    /\ pc' = [pc EXCEPT ![p] = "encoding"]
    /\ UNCHANGED <<mixed, stored, astray, nodeVars, countVars>>

\* The replica leaves the Leader state for another reason.
Deposed ==
    /\ leading
    /\ leading' = FALSE
    /\ deposed' = TRUE
    /\ UNCHANGED <<pc, tries, mixed, stored, astray, countVars>>

\* It leads again, in a later term.
ToLeader ==
    /\ ~ leading
    /\ leading' = TRUE
    /\ UNCHANGED <<pc, tries, mixed, stored, astray, deposed, countVars>>

\* atomic.AddInt32 on one of the counters, and the comparison of what it returned.
CountSuccess(p) ==
    /\ pc[p] = Success
    /\ successes' = successes + 1
    /\ pc' = [pc EXCEPT ![p] = IF SuccessVerdict(successes') THEN "tellSuccess" ELSE "doneSuccess"]
    /\ UNCHANGED <<tries, mixed, stored, astray, nodeVars, failures, verdict>>

CountFailure(p) ==
    /\ pc[p] = Failure
    /\ failures' = failures + 1
    /\ pc' = [pc EXCEPT ![p] = IF FailureVerdict(failures') THEN "tellFailure" ELSE "doneFailure"]
    /\ UNCHANGED <<tries, mixed, stored, astray, nodeVars, successes, verdict>>

\* The goroutine hands its verdict to the caller; without a receiver it waits forever.
TellSuccess(p) ==
    /\ pc[p] = "tellSuccess"
    /\ verdict = None
    /\ verdict' = Success
    /\ pc' = [pc EXCEPT ![p] = "doneSuccess"]
    /\ UNCHANGED <<tries, mixed, stored, astray, nodeVars, successes, failures>>

TellFailure(p) ==
    /\ pc[p] = "tellFailure"
    /\ verdict = None
    /\ verdict' = Failure
    /\ pc' = [pc EXCEPT ![p] = "doneFailure"]
    /\ UNCHANGED <<tries, mixed, stored, astray, nodeVars, successes, failures>>

Next ==
    \/ \E p \in Peer :
          \/ BeginMessage(p) \/ EndMessage(p) \/ Encode(p)
          \/ Store(p) \/ CallFails(p) \/ Accepted(p) \/ Refused(p) \/ Retry(p)
          \/ CountSuccess(p) \/ CountFailure(p) \/ TellSuccess(p) \/ TellFailure(p)
    \/ Deposed \/ ToLeader

\* A call has a deadline, so it ends, and the goroutine then only needs the node's mutex, as
\* when it begins to write the message; the other steps are its own, and Go runs every
\* goroutine that can run.
Fairness ==
    \A p \in Peer :
        /\ WF_vars(BeginMessage(p) \/ EndMessage(p) \/ Encode(p))
        /\ WF_vars(CallFails(p) \/ Accepted(p) \/ Refused(p))
        /\ WF_vars(CountSuccess(p) \/ CountFailure(p))
        /\ WF_vars(TellSuccess(p) \/ TellFailure(p))

Spec == Init /\ [][Next]_vars

FairSpec == Spec /\ Fairness

-----------------------------------------------------------------------------
\* Every variable holds what the code's types allow.
TypeOK ==
    /\ pc \in [Peer -> {"starting", "writing", "encoding", "calling", Success, Failure,
                        "tellSuccess", "tellFailure", "doneSuccess", "doneFailure"}]
    /\ tries \in [Peer -> 1 .. MaxTries]
    /\ mixed \in BOOLEAN
    /\ stored \subseteq Peer
    /\ astray \subseteq Peer
    /\ leading \in BOOLEAN
    /\ deposed \in BOOLEAN
    /\ successes \in Nat
    /\ failures \in Nat
    /\ verdict \in {None, Success, Failure}

\* The goroutines that have a verdict the caller has not received.
Tellers == {p \in Peer : pc[p] \in {"tellSuccess", "tellFailure"}}

\* A verdict of success, which WriteCommand and ToLeader commit on, means that a majority has
\* the entries, the leader and all others in it but those whose message went astray.  (When
\* one did, there may be no such majority: see AckedIsPersisted of Replication.)
SuccessIsReplicated == verdict = Success => 2 * (1 + Cardinality(stored \cup astray)) > N

\* A verdict of failure is final: even if every other peer answered with success,
\* these successes would not be a write quorum.
FailureIsFinal == verdict = Failure => N - failures < N \div 2 + 1

\* There is one verdict at most, so no goroutine waits for a receiver that is gone.
OneVerdict ==
    /\ \A p, q \in Tellers : p = q
    /\ verdict # None => Tellers = {}

\* With a client for every peer, the goroutines do not all end without a verdict.
NoSilentEnd ==
    /\ Cardinality(Peer) = N - 1
    /\ \A p \in Peer : pc[p] \in {"doneSuccess", "doneFailure"}
    => verdict # None

\* The caller is told: "Written to from AE when majority of nodes have replicated the
\* write or failure occurs" (client.go).
CallerIsTold == <>(verdict # None)

-----------------------------------------------------------------------------
\* The inductive invariant behind the verdict.

\* The peers counted in each of the counters.
Succeeded == {p \in Peer : pc[p] \in {"tellSuccess", "doneSuccess"}}

Failed == {p \in Peer : pc[p] \in {"tellFailure", "doneFailure"}}

CountersExact ==
    /\ successes = 1 + Cardinality(Succeeded)
    /\ failures = Cardinality(Failed)

\* A success, counted or still to count, is of a peer that has what it was sent.
SuccessesMatched ==
    \A p \in Peer : pc[p] \in {Success, "tellSuccess", "doneSuccess"} => Matched(p)

\* A counter is at its threshold or past it just when its verdict is on its way or told.
VerdictOnThreshold ==
    /\ successes >= WriteQuorum <=> verdict = Success \/ \E p \in Peer : pc[p] = "tellSuccess"
    /\ failures >= WriteFailure <=> verdict = Failure \/ \E p \in Peer : pc[p] = "tellFailure"

IInv ==
    /\ TypeOK
    /\ CountersExact
    /\ SuccessesMatched
    /\ VerdictOnThreshold
    /\ OneVerdict
=============================================================================
