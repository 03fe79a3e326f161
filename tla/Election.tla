------------------------------ MODULE Election ------------------------------
(***************************************************************************)
(* Leader election among the replicas of one cluster: raft/election.go,    *)
(* RequestVote and AppendEntries in raft/rpcs.go, the state changes of     *)
(* raft/states.go, the heartbeat goroutine of raft/send_AEs.go, and the    *)
(* restart from the persistence file (raft/raft_node.go, raft/storage.go). *)
(*                                                                         *)
(* An action is one critical section of raft_node_mutex, or one access to  *)
(* the node made outside it: between two actions of a goroutine every      *)
(* other goroutine of every replica may run.  Messages are sets of         *)
(* records; a lost message is one that is never delivered.                 *)
(***************************************************************************)
EXTENDS AppendEntriesLog, FiniteSets

CONSTANTS
    Replica,      \* the replicas
    NoVote,       \* votedFor when no vote was given (-1 in the code)
    MaxTerm,      \* bound: an election timer does not fire in this term
    MaxElections, \* bound on the number of elections
    MaxAppends,   \* bound: no heartbeat once this many appends were sent
    MaxRestarts   \* bound on the number of crashes

ASSUME ElectionAssumption ==
    /\ IsFiniteSet(Replica)
    /\ NoVote \notin Replica
    /\ MaxTerm \in Nat
    /\ MaxElections \in Nat
    /\ MaxAppends \in Nat
    /\ MaxRestarts \in Nat

VARIABLES
    currentTerm,    \* node.currentTerm
    votedFor,       \* node.votedFor
    log,            \* node.log, entries reduced to their term
    state,          \* node.state
    disk,           \* the persistence file
    voters,         \* StartElection goroutines that have not read their arguments yet
    requests,       \* RequestVote calls on their way
    answers,        \* RequestVote responses on their way
    receivedVotes,  \* received_votes, one counter for each StartElection call
    beating,        \* HeartBeats is past its "still a leader" check
    appends,        \* AppendEntries messages sent so far
    accepted,       \* who answered Success to an AppendEntries of its own term
    refusals,       \* AppendEntries responses from a later term on their way
    counted,        \* history: the votes that candidates have counted
    restarts,       \* number of crashes so far
    torn            \* history: how many of them came inside a save, for each replica

nodeVars == <<currentTerm, votedFor, log, state, disk>>
voteVars == <<voters, requests, answers, receivedVotes>>
appendVars == <<beating, appends, accepted, refusals>>
crashVars == <<restarts, torn>>
vars == <<nodeVars, voteVars, appendVars, counted, crashVars>>

-----------------------------------------------------------------------------
Follower == "Follower"
Candidate == "Candidate"
Leader == "Leader"

Term == 0 .. MaxTerm
Entry == [term : Term]
Saved == [term : Term, vote : Replica \cup {NoVote}, log : Seq(Entry)]

\* What a process starts with that finds no file, or an empty one.
NoFile == [term |-> 0, vote |-> NoVote, log |-> <<>>]

\* The election a call belongs to; the calls of a crashed process belong to none.
Orphan == 0

VoteGoroutine == [from : Replica, to : Replica, round : Term]
VoteRequest == [from : Replica, to : Replica, round : Term, term : Term,
                lastLogIndex : Int, lastLogTerm : Int]
VoteAnswer == [from : Replica, to : Replica, round : Term, term : Term, granted : BOOLEAN]
AppendMessage == [leader : Replica, term : Term, log : Seq(Entry)]
Refusal == [leader : Replica, term : Term, success : BOOLEAN]
Vote == [voter : Replica, term : Term, candidate : Replica]

\* More than half of the replicas, counted the way StartElection does.
WinsElection(votes) == votes * 2 > Cardinality(Replica)

\* More than half of the replicas, counted the way LeaderSendAEs does.
WriteQuorum(successes) == successes >= Cardinality(Replica) \div 2 + 1

\* Mutant of Peers: the replica is not skipped in its own list of clients.
PeersAndSelf(i) == Replica

\* The replicas that i has a client for.
Peers(i) == Replica \ {i}

\* Mutants of PersistToStorage: nothing is written, or the vote is not.
PersistNothing(i) == disk' = disk

PersistNoVote(i) ==
    disk' = [disk EXCEPT ![i] =
                [term |-> currentTerm'[i], vote |-> NoVote, log |-> log'[i]]]

\* PersistToStorage: the file holds what the node holds after the step.  (TornSave is the
\* crash on the way.)
PersistToStorage(i) ==
    disk' = [disk EXCEPT ![i] =
                [term |-> currentTerm'[i], vote |-> votedFor'[i], log |-> log'[i]]]

\* The elections held so far: each begins with a vote of the candidate for itself.
Elections == {u \in counted : u.voter = u.candidate}

-----------------------------------------------------------------------------
\* InitializeNode without a persistence file, on every replica.
Init ==
    /\ currentTerm = [i \in Replica |-> 0]
    /\ votedFor = [i \in Replica |-> NoVote]
    /\ log = [i \in Replica |-> <<>>]
    /\ state = [i \in Replica |-> Follower]
    /\ disk = [i \in Replica |-> NoFile]
    /\ voters = {}
    /\ requests = {}
    /\ answers = {}
    /\ receivedVotes = [i \in Replica |-> [t \in Term |-> 0]]
    /\ beating = [i \in Replica |-> FALSE]
    /\ appends = {}
    /\ accepted = {}
    /\ refusals = {}
    /\ counted = {}
    /\ restarts = 0
    /\ torn = [i \in Replica |-> 0]

\* RunElectionTimer runs out: ToCandidate and StartElection.  A leader has no
\* election timer (module ElectionTimer).
ElectionTimeout(i) ==
    LET round == currentTerm[i] + 1
    IN  /\ state[i] # Leader
        /\ currentTerm[i] < MaxTerm
        /\ Cardinality(Elections) < MaxElections
        /\ state' = [state EXCEPT ![i] = Candidate]
        /\ currentTerm' = [currentTerm EXCEPT ![i] = round]
        /\ votedFor' = [votedFor EXCEPT ![i] = i]
        /\ log' = log
        /\ PersistToStorage(i)
        /\ voters' = voters \cup {[from |-> i, to |-> j, round |-> round] : j \in Peers(i)}
        /\ receivedVotes' = [receivedVotes EXCEPT ![i][round] = 1]
        /\ counted' = counted \cup {[voter |-> i, term |-> round, candidate |-> i]}
        /\ UNCHANGED <<requests, answers, appendVars, crashVars>>

\* A StartElection goroutine reads its arguments, whatever the node is by now.
SendRequestVote(g) ==
    /\ g \in voters
    /\ voters' = voters \ {g}
    /\ requests' = requests \cup
          {[from |-> g.from, to |-> g.to, round |-> g.round,
            term |-> currentTerm[g.from],
            lastLogIndex |-> LatestLogIndex(log[g.from]),
            lastLogTerm |-> LatestLogTerm(log[g.from])]}
    /\ UNCHANGED <<nodeVars, answers, receivedVotes, appendVars, counted, crashVars>>

\* Mutant of Grants: the vote already given in the term is not looked at.
GrantsToAnyone(m, term, vote) ==
    m.term = term /\ AtLeastAsUpToDate(m.lastLogIndex, m.lastLogTerm, log[m.to])

\* A vote goes to the candidate already voted for, or to an up-to-date candidate
\* of the node's term.
Grants(m, term, vote) ==
    \/ vote = m.from
    \/ /\ m.term = term
       /\ vote = NoVote
       /\ AtLeastAsUpToDate(m.lastLogIndex, m.lastLogTerm, log[m.to])

\* RequestVote, with the ToFollower it begins with.  It answers in.Term.
RequestVote(m) ==
    LET j == m.to
        newer == m.term > currentTerm[j]
        term == IF newer THEN m.term ELSE currentTerm[j]
        vote == IF newer THEN NoVote ELSE votedFor[j]
        granted == Grants(m, term, vote)
    IN  /\ m \in requests
        /\ requests' = requests \ {m}
        /\ currentTerm' = [currentTerm EXCEPT ![j] = term]
        /\ votedFor' = [votedFor EXCEPT ![j] = IF granted THEN m.from ELSE vote]
        /\ state' = [state EXCEPT ![j] = IF newer THEN Follower ELSE @]
        /\ log' = log
        /\ IF newer \/ granted THEN PersistToStorage(j) ELSE disk' = disk
        /\ answers' = answers \cup
              (IF m.round = Orphan THEN {}
               ELSE {[from |-> m.from, to |-> j, round |-> m.round,
                      term |-> m.term, granted |-> granted]})
        /\ UNCHANGED <<voters, receivedVotes, appendVars, counted, crashVars>>

\* Mutant of Counts: a vote of an earlier term counts.
CountsOldVotes(a) == state[a.from] = Candidate /\ a.granted

\* An answer counts when it is a vote for the term the candidate is in now.
Counts(a) ==
    /\ state[a.from] = Candidate
    /\ a.term = currentTerm[a.from]
    /\ a.granted

\* A StartElection goroutine drops its answer.  (Its ToFollower on a later term
\* cannot run: see NoNewerAnswer.)
DropAnswer(a) ==
    /\ a \in answers
    /\ ~ Counts(a)
    /\ answers' = answers \ {a}
    /\ UNCHANGED <<nodeVars, voters, requests, receivedVotes, appendVars, counted, crashVars>>

\* A StartElection goroutine counts a vote into the counter of its own election...
CountVote(a) ==
    /\ a \in answers
    /\ Counts(a)
    /\ answers' = answers \ {a}
    /\ receivedVotes' = [receivedVotes EXCEPT ![a.from][a.round] = @ + 1]
    /\ counted' = counted \cup {[voter |-> a.to, term |-> a.term, candidate |-> a.from]}
    /\ UNCHANGED <<voters, requests, beating, accepted, refusals, crashVars>>

\* ... which is not a majority yet,
KeepWaiting(a) ==
    /\ CountVote(a)
    /\ ~ WinsElection(receivedVotes'[a.from][a.round])
    /\ UNCHANGED <<nodeVars, appends>>

\* ... or is one: ToLeader appends its no-op, saves it and sends it to the others.
ToLeader(a) ==
    LET i == a.from
    IN  /\ CountVote(a)
        /\ WinsElection(receivedVotes'[i][a.round])
        /\ state' = [state EXCEPT ![i] = Leader]
        /\ log' = [log EXCEPT ![i] = Append(@, [term |-> currentTerm[i]])]
        /\ UNCHANGED <<currentTerm, votedFor>>
        /\ PersistToStorage(i)
        /\ appends' = appends \cup {[leader |-> i, term |-> currentTerm[i], log |-> log'[i]]}

-----------------------------------------------------------------------------
\* HeartBeats, started once the no-op is on a write quorum, checks for leadership...
HeartBeatCheck(i) ==
    /\ ~ beating[i]
    /\ Cardinality(appends) < MaxAppends
    /\ state[i] = Leader
    /\ WriteQuorum(1 + Cardinality({j \in Replica :
                       [voter |-> j, term |-> currentTerm[i], candidate |-> i] \in accepted}))
    /\ beating' = [beating EXCEPT ![i] = TRUE]
    /\ UNCHANGED <<nodeVars, voteVars, appends, accepted, refusals, counted, crashVars>>

\* ... and, with the lock released, reads the term and the log it sends.
HeartBeatSend(i) ==
    /\ beating[i]
    /\ beating' = [beating EXCEPT ![i] = FALSE]
    /\ appends' = appends \cup {[leader |-> i, term |-> currentTerm[i], log |-> log[i]]}
    /\ UNCHANGED <<nodeVars, voteVars, accepted, refusals, counted, crashVars>>

\* The prevLogIndex and entries of a message: nextIndex may be anywhere in the log.
PrevLogTerm(m, prev) == IF prev = -1 THEN -1 ELSE m.log[prev + 1].term

EntriesAfter(m, prev) == SubSeq(m.log, prev + 2, Len(m.log))

\* AppendEntries of an earlier term: nothing changes, and the answer carries the term.
\* One from no later term than the leader's would have no effect and is not kept.
RefuseAppend(j, m, prev) ==
    /\ m \in appends
    /\ m.leader # j
    /\ m.term < currentTerm[j]
    /\ currentTerm[m.leader] < currentTerm[j]
    /\ refusals' = refusals \cup
          {[leader |-> m.leader, term |-> currentTerm[j],
            success |-> /\ HasPrevEntry(log[j], prev, PrevLogTerm(m, prev))
                        /\ AlreadyReplicated(log[j], prev, EntriesAfter(m, prev))]}
    /\ UNCHANGED <<nodeVars, voteVars, beating, appends, accepted, counted, crashVars>>

\* AppendEntries of this term or a later one.  A leader that receives one of its own
\* term waits forever for an election timer it does not have, so it takes no step.
AppendEntries(j, m, prev) ==
    LET newer == m.term > currentTerm[j]
        stepsDown == newer \/ state[j] = Candidate
        matches == HasPrevEntry(log[j], prev, PrevLogTerm(m, prev))
    IN  /\ m \in appends
        /\ m.leader # j
        /\ m.term >= currentTerm[j]
        /\ newer \/ state[j] # Leader
        /\ currentTerm' = [currentTerm EXCEPT ![j] = m.term]
        /\ votedFor' = [votedFor EXCEPT ![j] = IF stepsDown THEN NoVote ELSE @]
        /\ state' = [state EXCEPT ![j] = Follower]
        /\ log' = [log EXCEPT ![j] = IF matches THEN MergedLog(@, prev, EntriesAfter(m, prev)) ELSE @]
        /\ IF stepsDown \/ matches THEN PersistToStorage(j) ELSE disk' = disk
        /\ accepted' = IF matches
                       THEN accepted \cup {[voter |-> j, term |-> m.term, candidate |-> m.leader]}
                       ELSE accepted
        /\ UNCHANGED <<voteVars, beating, appends, refusals, counted, crashVars>>

\* LeaderSendAE learns of a later term: after a failure only a leader steps down,
\* after a success any node does.
StepDown(r) ==
    LET i == r.leader
    IN  /\ r \in refusals
        /\ r.term > currentTerm[i]
        /\ r.success \/ state[i] = Leader
        /\ refusals' = refusals \ {r}
        /\ currentTerm' = [currentTerm EXCEPT ![i] = r.term]
        /\ votedFor' = [votedFor EXCEPT ![i] = NoVote]
        /\ state' = [state EXCEPT ![i] = Follower]
        /\ log' = log
        /\ PersistToStorage(i)
        /\ UNCHANGED <<voteVars, beating, appends, accepted, counted, crashVars>>

-----------------------------------------------------------------------------
\* The process of replica i dies, and InitializeNode starts one that reads file.  The old
\* one's goroutines are gone; the requests it sent may still arrive.
Reboot(i, file) ==
    /\ restarts < MaxRestarts
    /\ restarts' = restarts + 1
    /\ currentTerm' = [currentTerm EXCEPT ![i] = file.term]
    /\ votedFor' = [votedFor EXCEPT ![i] = file.vote]
    /\ log' = [log EXCEPT ![i] = file.log]
    /\ state' = [state EXCEPT ![i] = Follower]
    /\ voters' = {g \in voters : g.from # i}
    /\ requests' = {IF m.from = i THEN [m EXCEPT !.round = Orphan] ELSE m : m \in requests}
    /\ answers' = {a \in answers : a.from # i}
    /\ receivedVotes' = [receivedVotes EXCEPT ![i] = [t \in Term |-> 0]]
    /\ beating' = [beating EXCEPT ![i] = FALSE]
    /\ refusals' = {r \in refusals : r.leader # i}
    /\ UNCHANGED <<appends, accepted, counted>>

\* A crash between two saves: RestoreFromStorage gives back what was saved.
Restart(i) ==
    /\ Reboot(i, disk[i])
    /\ UNCHANGED <<disk, torn>>

\* A crash inside a save, after os.Create has emptied the file and before Encode has
\* written it: nothing of the handler that saves was seen yet, and HasData says that there
\* is no file.  (A file that was written in part stops every later start: see README.)
TornSave(i) ==
    /\ Reboot(i, NoFile)
    /\ disk' = [disk EXCEPT ![i] = NoFile]
    /\ torn' = [torn EXCEPT ![i] = @ + 1]

Next ==
    \/ \E i \in Replica : ElectionTimeout(i)
    \/ \E g \in voters : SendRequestVote(g)
    \/ \E m \in requests : RequestVote(m)
    \/ \E a \in answers : DropAnswer(a) \/ KeepWaiting(a) \/ ToLeader(a)
    \/ \E i \in Replica : HeartBeatCheck(i) \/ HeartBeatSend(i)
    \/ \E j \in Replica, m \in appends : \E prev \in -1 .. Len(m.log) - 1 :
          RefuseAppend(j, m, prev) \/ AppendEntries(j, m, prev)
    \/ \E r \in refusals : StepDown(r)
    \/ \E i \in Replica : Restart(i) \/ TornSave(i)

Spec == Init /\ [][Next]_vars

-----------------------------------------------------------------------------
\* Every variable holds what the code's types allow, and nothing is in flight
\* from a replica to itself.
TypeOK ==
    /\ currentTerm \in [Replica -> Term]
    /\ votedFor \in [Replica -> Replica \cup {NoVote}]
    /\ log \in [Replica -> Seq(Entry)]
    /\ state \in [Replica -> {Follower, Candidate, Leader}]
    /\ disk \in [Replica -> Saved]
    /\ voters \subseteq VoteGoroutine
    /\ requests \subseteq VoteRequest
    /\ answers \subseteq VoteAnswer
    /\ receivedVotes \in [Replica -> [Term -> Nat]]
    /\ beating \in [Replica -> BOOLEAN]
    /\ appends \subseteq AppendMessage
    /\ accepted \subseteq Vote
    /\ refusals \subseteq Refusal
    /\ counted \subseteq Vote
    /\ restarts \in Nat
    /\ torn \in [Replica -> Nat]
    /\ \A c \in voters \cup requests \cup answers : c.from # c.to

\* The votes that candidate c has counted in term t, its own included.
VotersOf(c, t) == {v \in Replica : [voter |-> v, term |-> t, candidate |-> c] \in counted}

HasMajority(i) == WinsElection(Cardinality(VotersOf(i, currentTerm[i])))

\* No replica has crashed inside a save.
NoTornSave == \A i \in Replica : torn[i] = 0

\* Two leaders that both have a majority in their term are the same, as long as no crash
\* came inside a save: that loses a vote.  With LeaderHasMajority it is one leader per term,
\* which TestInitialElection, TestReElection and TestLeaderPartition count; a leader
\* without a majority could break that.
MajorityElectionSafety ==
    NoTornSave =>
    \A i, k \in Replica :
        /\ state[i] = Leader /\ HasMajority(i)
        /\ state[k] = Leader /\ HasMajority(k)
        /\ currentTerm[i] = currentTerm[k]
        => i = k

\* states.go: ToLeader is called when the candidate gets majority votes in election.
LeaderHasMajority == \A i \in Replica : state[i] = Leader => HasMajority(i)

\* The answers a candidate may still count are votes as good as counted ones.
LiveVotes ==
    {u \in counted : u.voter # u.candidate} \cup
    {[voter |-> a.to, term |-> a.term, candidate |-> a.from] :
        a \in {b \in answers : b.granted /\ b.term = currentTerm[b.from]}}

\* No two candidates ever get the vote of the same replica in the same term, whatever
\* restarts, step-downs and late answers come between; a crash inside a save excepted.
OneVotePerTerm ==
    NoTornSave =>
    \A u, w \in LiveVotes :
        u.voter = w.voter /\ u.term = w.term => u.candidate = w.candidate

\* No answer carries a later term than its candidate's, since RequestVote answers
\* in.Term: the step down in StartElection is unreachable, and a candidate that is
\* behind learns nothing from being refused.
NoNewerAnswer == \A a \in answers : a.term <= currentTerm[a.from]

\* No handler takes a replica's term back, and no crash does, except one inside a save.
TermNeverDecreases ==
    [][\A i \in Replica :
          torn'[i] = torn[i] => currentTerm'[i] >= currentTerm[i]]_vars

\* A vote given to another replica stands for the rest of the term, through every handler
\* and every crash, except one inside a save.
VoteForOtherStands ==
    [][\A i \in Replica :
          /\ torn'[i] = torn[i]
          /\ currentTerm'[i] = currentTerm[i]
          /\ votedFor[i] \in Replica \ {i}
          => votedFor'[i] = votedFor[i]]_vars

-----------------------------------------------------------------------------
\* The inductive invariant behind OneVotePerTerm and MajorityElectionSafety.

\* The file always holds what a lost process would need.
DiskIsCurrent ==
    \A i \in Replica : disk[i] = [term |-> currentTerm[i], vote |-> votedFor[i], log |-> log[i]]

\* A candidate or leader has voted for itself, and has counted that vote.
VotedForSelf ==
    \A i \in Replica : state[i] # Follower =>
        /\ votedFor[i] = i
        /\ i \in VotersOf(i, currentTerm[i])

\* A request is never ahead of its sender, unless that lost its term in a save.
NoNewerRequest ==
    \A m \in requests :
        \/ m.term <= currentTerm[m.from]
        \/ m.round = Orphan /\ torn[m.from] > 0

\* Nobody is voted for in a term it has not reached.
VotedForReached ==
    NoTornSave =>
    \A i \in Replica : votedFor[i] \in Replica => currentTerm[i] <= currentTerm[votedFor[i]]

\* The voter remembers a live vote until it moves to a later term.
LiveVotesRemembered ==
    NoTornSave =>
    \A u \in LiveVotes :
        /\ u.term <= currentTerm[u.voter]
        /\ u.term = currentTerm[u.voter] => votedFor[u.voter] = u.candidate

IInv ==
    /\ TypeOK
    /\ DiskIsCurrent
    /\ VotedForSelf
    /\ NoNewerRequest
    /\ NoNewerAnswer
    /\ VotedForReached
    /\ LiveVotesRemembered
    /\ OneVotePerTerm
=============================================================================
