----------------------------- MODULE Replication -----------------------------
(***************************************************************************)
(* How the logs of the replicas come to agree: ToLeader, WriteCommand and  *)
(* the heartbeats, whose LeaderSendAEs starts a goroutine per peer         *)
(* (send_AEs.go), the AppendEntries handler (rpcs.go, with the operators   *)
(* of AppendEntriesLog), the retries that walk nextIndex back, the verdict *)
(* that moves commitIndex, and the file, which lacks what WriteCommand     *)
(* appends until something else is saved.                                  *)
(*                                                                         *)
(* An election is one step here and Election has its parts, and what waits *)
(* on a channel with the lock held does not block the others.              *)
(***************************************************************************)
EXTENDS Integers, Sequences, FiniteSets, AppendEntriesLog

CONSTANTS
    Replica,
    Call,         \* calls of LeaderSendAEs that may be under way at a time
    None,         \* no call, no entry, no nextIndex, or nobody
    MaxTerm,      \* bound on the terms
    MaxLog,       \* bound on the length of a log after a write
    MaxExtras     \* bound on heartbeats, crashes, lost answers and lost elections together

ASSUME ReplicationAssumption ==
    /\ IsFiniteSet(Replica)
    /\ None \notin Replica \cup Call \cup [Replica -> Int]
    /\ MaxTerm \in Nat
    /\ MaxLog \in Nat
    /\ MaxExtras \in Nat

VARIABLES
    currentTerm,  \* node.currentTerm, which is saved whenever it changes
    votedFor,     \* node.votedFor, which is saved whenever it changes
    leading,      \* node.state = Leader
    candidate,    \* node.state = Candidate
    log,          \* node.log
    commitIndex,  \* node.commitIndex
    nextIndex,    \* node.nextIndex, of each peer; None before the process first leads
    disk,         \* log and commitIndex in the file
    calls,        \* the calls of LeaderSendAEs
    starts,       \* their goroutines before they read the log
    sent,         \* AppendEntries messages on their way
    answers,      \* answers on their way
    shared,       \* what a call's goroutines wrote to PrevLogIndex of their one message
    acked,        \* history: entries whose callers learned of a write quorum
    odd,          \* history: what the code did that breaks the log's invariants
    extras        \* number of heartbeats, crashes, lost answers and lost elections so far

electionVars == <<currentTerm, votedFor, leading, candidate>>
nodeVars == <<electionVars, log, commitIndex, nextIndex, disk>>
callVars == <<calls, starts, sent, answers, shared>>
vars == <<nodeVars, callVars, acked, odd, extras>>

-----------------------------------------------------------------------------
Term == 0 .. MaxTerm

NoOp == "NO-OP"
Write == "write"

\* An entry is told from others by the replica that appended it, too.
Entry == [term : Term, by : Replica, operation : {NoOp, Write}]

Idle == [from |-> None]

Peers(i) == Replica \ {i}

WriteQuorum(n) == n = Cardinality(Replica) \div 2 + 1

\* Mutant of Saved: the log is left out.
SavedWithoutLog(i) == [log |-> disk[i].log, commitIndex |-> commitIndex'[i]]

Saved(i) == [log |-> log'[i], commitIndex |-> commitIndex'[i]]

\* PersistToStorage on the replicas of a set.  (CrashInSave is the crash on the way.)
PersistToStorage(S) == disk' = [i \in Replica |-> IF i \in S THEN Saved(i) ELSE disk[i]]

\* What a process starts with that finds no file, or an empty one.
NoFile == [log |-> << >>, commitIndex |-> -1]

Init ==
    /\ currentTerm = [i \in Replica |-> 0]
    /\ votedFor = [i \in Replica |-> None]
    /\ leading = [i \in Replica |-> FALSE]
    /\ candidate = [i \in Replica |-> FALSE]
    /\ log = [i \in Replica |-> << >>]
    /\ commitIndex = [i \in Replica |-> -1]
    /\ nextIndex = [i \in Replica |-> None]
    /\ disk = [i \in Replica |-> NoFile]
    /\ calls = [c \in Call |-> Idle]
    /\ starts = {}
    /\ sent = {}
    /\ answers = {}
    /\ shared = [c \in Call |-> {}]
    /\ acked = {}
    /\ odd = {}
    /\ extras = 0

Extra == extras < MaxExtras /\ extras' = extras + 1

\* LeaderSendAEs, called by replica i for an entry or, without one, for a heartbeat.
LeaderSendAEs(i, c, entry, leaderCommit) ==
    /\ calls[c] = Idle
    /\ calls' = [calls EXCEPT ![c] =
          [from |-> i, entry |-> entry, term |-> currentTerm'[i], leaderCommit |-> leaderCommit,
           index |-> Len(log'[i]) - 1, upper |-> Len(log'[i]) - 1, successes |-> 1,
           verdict |-> "none"]]
    /\ starts' = starts \cup {[call |-> c, from |-> i, to |-> j] : j \in Peers(i)}

-----------------------------------------------------------------------------
\* Mutant of Grants: logs are not compared.
GrantsToAnyone(j, i) == TRUE

\* RequestVote's test of the candidate's log.
Grants(j, i) == AtLeastAsUpToDate(LatestLogIndex(log[i]), LatestLogTerm(log[i]), log[j])

\* ... and of the vote that the replica has given in the term, if it is there already.
MayVote(j, term) ==
    \/ currentTerm[j] < term
    \/ currentTerm[j] = term /\ votedFor[j] = None

\* From four replicas on, the counter of a candidate may hold votes of an earlier term, all
\* but its own and the one that ends the election.
MayMiscount(voters) == Cardinality(Replica) >= 4 /\ Cardinality(voters) >= 2

\* A candidate of the next term has asked some replicas, and the answers that it got made
\* it the leader or not.  Who learns of the term or votes saves it, with the whole log.
Election(i, asked, wins, c) ==
    LET t == currentTerm[i] + 1
        reached == {i} \cup {j \in asked : currentTerm[j] < t}
        voters == {j \in {i} \cup asked : MayVote(j, t) /\ Grants(j, i)}
        majority == 2 * Cardinality(voters) > Cardinality(Replica)
        noOp == [term |-> t, by |-> i, operation |-> NoOp]
    IN  /\ ~ leading[i]
        /\ t <= MaxTerm
        /\ wins => majority \/ MayMiscount(voters)
        /\ currentTerm' = [j \in Replica |-> IF j \in reached THEN t ELSE currentTerm[j]]
        /\ votedFor' = [j \in Replica |-> IF j \in voters THEN i
                                         ELSE IF j \in reached THEN None ELSE votedFor[j]]
        /\ leading' = [j \in Replica |-> IF j \in reached THEN wins /\ j = i ELSE leading[j]]
        /\ candidate' = [j \in Replica |-> IF j \in reached THEN ~ wins /\ j = i
                                          ELSE candidate[j]]
        /\ commitIndex' = commitIndex
        /\ IF wins
              THEN /\ nextIndex' = [nextIndex EXCEPT ![i] = [j \in Replica |-> Len(log[i])]]
                   /\ log' = [log EXCEPT ![i] = Append(@, noOp)]
                   /\ LeaderSendAEs(i, c, noOp, commitIndex[i])
              ELSE UNCHANGED <<nextIndex, log, calls, starts>>
        /\ PersistToStorage(reached \cup voters)
        /\ odd' = IF wins /\ ~ majority THEN odd \cup {"minority leader"} ELSE odd
        /\ IF wins THEN UNCHANGED extras ELSE Extra
        /\ UNCHANGED <<sent, answers, shared, acked>>

\* WriteCommand appends its entry and does not save it.  A PUT or DELETE does so even when
\* the replica has stopped leading: it gave up the lock, to read the key, after it checked.
WriteCommand(i, c) ==
    LET entry == [term |-> currentTerm[i], by |-> i, operation |-> Write]
    IN  /\ nextIndex[i] # None
        /\ Len(log[i]) < MaxLog
        /\ log' = [log EXCEPT ![i] = Append(@, entry)]
        /\ UNCHANGED <<electionVars, commitIndex, nextIndex, disk>>
        /\ LeaderSendAEs(i, c, entry, commitIndex[i])
        /\ odd' = IF leading[i] THEN odd ELSE odd \cup {"append of a follower"}
        /\ UNCHANGED <<sent, answers, shared, acked, extras>>

\* HeartBeats and StaleReadCheck.  Both give up the lock after they checked for leadership,
\* and then read the current term.
HeartBeat(i, c) ==
    /\ nextIndex[i] # None
    /\ UNCHANGED nodeVars
    /\ Extra
    /\ LeaderSendAEs(i, c, None, commitIndex[i])
    /\ odd' = IF leading[i] THEN odd ELSE odd \cup {"heartbeat of a follower"}
    /\ UNCHANGED <<sent, answers, shared, acked>>

\* Mutant of FirstSent: one entry is left out.
FirstSentLater(prev) == prev + 3

\* The position in the log of the first entry of a message.
FirstSent(prev) == prev + 2

\* The message from replica i to j about what follows prev: the first of a goroutine, which
\* it shares with the others of the call, or one of its own for a retry.
Message(c, first, i, j, term, leaderCommit, prev) ==
    [call |-> c, first |-> first, from |-> i, to |-> j, term |-> term,
     leaderCommit |-> leaderCommit,
     prevLogIndex |-> prev, prevLogTerm |-> IF prev = -1 THEN -1 ELSE log[i][prev + 1].term,
     entries |-> SubSeq(log[i], FirstSent(prev), calls[c].upper + 1)]

\* A goroutine reads nextIndex and the log, whatever the node is by now, writes its parts of
\* the message and makes the call.
Send(g) ==
    LET i == g.from
        call == calls[g.call]
        prev == nextIndex[i][g.to] - 1
    IN  /\ g \in starts
        /\ prev >= -1
        /\ starts' = starts \ {g}
        /\ shared' = [shared EXCEPT ![g.call] = @ \cup {prev}]
        /\ sent' = sent \cup
              {Message(g.call, TRUE, i, g.to, call.term, call.leaderCommit, prev)}
        /\ UNCHANGED <<nodeVars, calls, answers, acked, odd, extras>>

\* Before gRPC encodes a message, another goroutine of the call writes some of its parts to
\* it, or AppendEntries overwrites the log that the entries of it are pointers into.
Rewritten(m) ==
    LET Other(prev) == Message(m.call, m.first, m.from, m.to, m.term, m.leaderCommit, prev)
    IN  /\ m \in sent
        /\ m.call # None
        /\ \E prev \in {m.prevLogIndex} \cup (IF m.first THEN shared[m.call] ELSE {}) :
           \E index \in {m.prevLogIndex, prev} :
           \E term \in {m.prevLogTerm} \cup (IF m.first THEN {Other(prev).prevLogTerm} ELSE {}) :
           \E entries \in {m.entries, Other(prev).entries} :
              LET rewritten == [m EXCEPT !.prevLogIndex = index, !.prevLogTerm = term,
                                         !.entries = entries]
              IN  /\ rewritten # m
                  /\ sent' = (sent \ {m}) \cup {rewritten}
        /\ odd' = odd \cup {"shared message"}
        /\ UNCHANGED <<nodeVars, calls, starts, answers, shared, acked, extras>>

-----------------------------------------------------------------------------
\* What the goroutines of a call wrote to its message matters as long as one is left that
\* has not gone on to a message of its own.
Forget ==
    shared' = [c \in Call |->
        IF \E g \in starts' \cup {m \in sent' \cup answers' : m.first} : g.call = c
        THEN shared[c] ELSE {}]

Answer(m, term, success) ==
    IF m.call = None THEN {}
    ELSE {[call |-> m.call, first |-> m.first /\ ~ success, from |-> m.from, to |-> m.to,
           term |-> term, success |-> success,
           prevLogIndex |-> IF success THEN -1 ELSE m.prevLogIndex]}

Matches(m) == HasPrevEntry(log[m.to], m.prevLogIndex, m.prevLogTerm)

\* AppendEntries of an earlier term.
AppendEntriesStale(m) ==
    /\ m \in sent
    /\ currentTerm[m.to] > m.term
    /\ sent' = sent \ {m}
    /\ answers' = answers \cup
          Answer(m, currentTerm[m.to],
                 Matches(m) /\ AlreadyReplicated(log[m.to], m.prevLogIndex, m.entries))
    /\ UNCHANGED <<nodeVars, calls, starts, acked, odd, extras>>
    /\ Forget

\* Entries stay behind the last one of a message that overwrites.
KeepsTail(m, merged) ==
    /\ m.prevLogIndex + 1 + Len(m.entries) < Len(merged)
    /\ Written(log[m.to], m.prevLogIndex, m.entries) # {}

\* AppendEntries of this term or a later one.  (A leader of the term waits forever.)  A
\* candidate of the term steps down as for a later one.
AppendEntries(m) ==
    LET j == m.to
        toFollower == m.term > currentTerm[j] \/ candidate[j]
        merged == MergedLog(log[j], m.prevLogIndex, m.entries)
    IN  /\ m \in sent
        /\ m.term >= currentTerm[j]
        /\ m.term = currentTerm[j] => ~ leading[j]
        /\ sent' = sent \ {m}
        /\ currentTerm' = [currentTerm EXCEPT ![j] = m.term]
        /\ votedFor' = [votedFor EXCEPT ![j] = IF toFollower THEN None ELSE @]
        /\ leading' = [leading EXCEPT ![j] = FALSE]
        /\ candidate' = [candidate EXCEPT ![j] = FALSE]
        /\ IF Matches(m)
              THEN /\ log' = [log EXCEPT ![j] = merged]
                   /\ commitIndex' = [commitIndex EXCEPT ![j] =
                                        FollowerCommit(@, m.leaderCommit, merged)]
                   /\ odd' = IF KeepsTail(m, merged) THEN odd \cup {"tail"} ELSE odd
              ELSE UNCHANGED <<log, commitIndex, odd>>
        /\ PersistToStorage(IF toFollower \/ Matches(m) THEN {j} ELSE {})
        /\ answers' = answers \cup Answer(m, m.term, Matches(m))
        /\ UNCHANGED <<nextIndex, calls, starts, acked, extras>>
        /\ Forget

-----------------------------------------------------------------------------
\* Mutant of Over: answers that were not read yet are forgotten.
OverUnread(c) == \A g \in starts' \cup sent' : g.call # c

\* No goroutine of the call is left.
Over(c) == \A g \in starts' \cup sent' \cup answers' : g.call # c

\* What becomes of a call when its last goroutine has ended.
Settled(c, call) ==
    IF ~ Over(c) \/ call.verdict = "won" THEN call
    ELSE IF call.verdict = "none" /\ call.entry # None /\ call.entry.operation = NoOp
         THEN [call EXCEPT !.verdict = "failed"]
    ELSE Idle

\* A goroutine ends.  The success that makes a write quorum is the verdict; later ones
\* change nothing, and the verdict on a heartbeat nothing here.
Returns(c, success) ==
    LET counts == success /\ calls[c].verdict = "none" /\ calls[c].entry # None
        n == calls[c].successes + IF counts THEN 1 ELSE 0
        verdict == IF counts /\ WriteQuorum(n) THEN "won" ELSE calls[c].verdict
    IN  calls' = [calls EXCEPT ![c] =
                     Settled(c, [@ EXCEPT !.successes = n, !.verdict = verdict])]

\* The context of a message is over, or its connection fails, before the message arrives
\* or after.
GiveUp(m) ==
    /\ m.call # None
    /\ \/ m \in sent /\ UNCHANGED extras
       \/ m \in answers /\ Extra
    /\ sent' = sent \ {m}
    /\ answers' = answers \ {m}
    /\ UNCHANGED starts
    /\ Returns(m.call, FALSE)
    /\ Forget
    /\ UNCHANGED <<nodeVars, acked, odd>>

\* LeaderSendAE learns of a later term.
StepDown(i, term) ==
    /\ currentTerm' = [currentTerm EXCEPT ![i] = term]
    /\ votedFor' = [votedFor EXCEPT ![i] = None]
    /\ leading' = [leading EXCEPT ![i] = FALSE]
    /\ candidate' = [candidate EXCEPT ![i] = FALSE]
    /\ UNCHANGED <<log, commitIndex>>
    /\ PersistToStorage({i})

\* Mutant of NextAfter: the length is taken for an index.
NextAfterLength(call) == call.upper + 2

\* What nextIndex is set to after a success.
NextAfter(call) == call.upper + 1

\* LeaderSendAE returns, after a success or a failure that it does not try again.
Answered(a) ==
    LET i == a.from
    IN  /\ a \in answers
        /\ a.success \/ ~ leading[i] \/ a.term > currentTerm[i]
        /\ answers' = answers \ {a}
        /\ IF a.term > currentTerm[i] /\ (a.success \/ leading[i])
              THEN StepDown(i, a.term)
              ELSE UNCHANGED <<electionVars, log, commitIndex, disk>>
        /\ nextIndex' = IF a.success /\ a.term <= currentTerm[i]
                        THEN [nextIndex EXCEPT ![i][a.to] = NextAfter(calls[a.call])]
                        ELSE nextIndex
        /\ UNCHANGED <<starts, sent>>
        /\ Returns(a.call, a.success)
        /\ Forget
        /\ UNCHANGED <<acked, odd, extras>>

\* The leadership that a call was for is over.
IsLate(call) == ~ leading[call.from] \/ currentTerm[call.from] # call.term

\* PrevLogIndex when LeaderSendAE reads it again: of the message that its call shares, with
\* whatever the goroutines wrote, or of one of its own.
ReadAgain(a) == IF a.first THEN shared[a.call] ELSE {a.prevLogIndex}

Refused(a) == ~ a.success /\ leading[a.from] /\ a.term <= currentTerm[a.from]

\* It tries again from one entry before, in the current term and with the current
\* commitIndex, whatever the term of the call.
Retry(a, prev) ==
    LET i == a.from
    IN  /\ a \in answers
        /\ Refused(a)
        /\ prev \in ReadAgain(a)
        /\ prev >= 0
        /\ answers' = answers \ {a}
        /\ nextIndex' = [nextIndex EXCEPT ![i][a.to] = @ - 1]
        /\ odd' = odd \cup (IF nextIndex[i][a.to] = prev + 1 THEN {} ELSE {"stale refusal"})
                      \cup (IF prev = a.prevLogIndex THEN {} ELSE {"shared message"})
                      \cup (IF IsLate(calls[a.call]) THEN {"late retry"} ELSE {})
        /\ sent' = sent \cup
              {Message(a.call, FALSE, i, a.to, currentTerm[i], commitIndex[i], prev - 1)}
        /\ UNCHANGED <<electionVars, log, commitIndex, disk, calls, starts, acked, extras>>
        /\ Forget

\* ToLeader and WriteCommand take the verdict: the commit index moves by one, whatever
\* the index of the entry.
Commit(c) ==
    LET i == calls[c].from
    IN  /\ calls[c] # Idle
        /\ calls[c].verdict = "won"
        /\ commitIndex' = [commitIndex EXCEPT ![i] = @ + 1]
        /\ UNCHANGED <<electionVars, log, nextIndex, starts, sent, answers>>
        /\ PersistToStorage({i})
        /\ calls' = [calls EXCEPT ![c] = Settled(c, [@ EXCEPT !.verdict = "told"])]
        /\ Forget
        /\ acked' = acked \cup {[index |-> calls[c].index, entry |-> calls[c].entry]}
        /\ odd' = IF IsLate(calls[c]) THEN odd \cup {"late verdict"} ELSE odd
        /\ UNCHANGED extras

\* ToLeader sends its no-op again, with the same term and LeaderCommit, as long as the
\* replica leads, be it in a later term.
RetryNoOp(c) ==
    LET call == calls[c]
        i == call.from
    IN  /\ call # Idle
        /\ call.verdict = "failed"
        /\ IF leading[i]
              THEN /\ calls' = [calls EXCEPT ![c] = [@ EXCEPT !.verdict = "none", !.successes = 1,
                                                              !.upper = Len(log[i]) - 1]]
                   /\ starts' = starts \cup {[call |-> c, from |-> i, to |-> j] : j \in Peers(i)}
                   /\ odd' = IF IsLate(call) THEN odd \cup {"late retry"} ELSE odd
              ELSE /\ calls' = [calls EXCEPT ![c] = Idle]
                   /\ UNCHANGED <<starts, odd>>
        /\ shared' = [shared EXCEPT ![c] = {}]
        /\ UNCHANGED <<nodeVars, sent, answers, acked, extras>>

-----------------------------------------------------------------------------
\* The process of a replica ends, and the next one reads the file.
Restart(i, file) ==
    /\ leading' = [leading EXCEPT ![i] = FALSE]
    /\ candidate' = [candidate EXCEPT ![i] = FALSE]
    /\ log' = [log EXCEPT ![i] = file.log]
    /\ commitIndex' = [commitIndex EXCEPT ![i] = file.commitIndex]
    /\ nextIndex' = [nextIndex EXCEPT ![i] = None]
    /\ calls' = [c \in Call |-> IF calls[c].from = i THEN Idle ELSE calls[c]]
    /\ starts' = {g \in starts : g.from # i}
    /\ sent' = {IF m.from = i THEN [m EXCEPT !.call = None] ELSE m : m \in sent}
    /\ answers' = {a \in answers : a.from # i}
    /\ Forget
    /\ acked' = acked

Reboot(i) ==
    /\ Restart(i, disk[i])
    /\ UNCHANGED <<currentTerm, votedFor, disk, odd>>

\* A crash between two saves.
Crash(i) ==
    /\ Extra
    /\ Reboot(i)

\* A crash inside one, after os.Create has emptied the file and before Encode has written
\* it: the term, the vote and the log are lost.
CrashInSave(i) ==
    /\ Extra
    /\ Restart(i, NoFile)
    /\ currentTerm' = [currentTerm EXCEPT ![i] = 0]
    /\ votedFor' = [votedFor EXCEPT ![i] = None]
    /\ disk' = [disk EXCEPT ![i] = NoFile]
    /\ odd' = odd \cup {"torn save"}

\* Slicing the log from before its first entry panics, in Send and in Retry.
Panics(i) ==
    /\ \/ \E g \in starts : g.from = i /\ nextIndex[i][g.to] < 0
       \/ \E a \in answers : a.from = i /\ Refused(a) /\ \E prev \in ReadAgain(a) : prev < 0
    /\ Reboot(i)
    /\ UNCHANGED extras

Next ==
    \/ \E i \in Replica, c \in Call :
          \/ \E asked \in SUBSET Peers(i), wins \in BOOLEAN : Election(i, asked, wins, c)
          \/ WriteCommand(i, c)
          \/ HeartBeat(i, c)
    \/ \E i \in Replica : Crash(i) \/ CrashInSave(i) \/ Panics(i)
    \/ \E g \in starts : Send(g)
    \/ \E m \in sent : Rewritten(m) \/ AppendEntriesStale(m) \/ AppendEntries(m)
    \/ \E m \in sent \cup answers : GiveUp(m)
    \/ \E a \in answers : Answered(a) \/ \E prev \in ReadAgain(a) : Retry(a, prev)
    \/ \E c \in Call : Commit(c) \/ RetryNoOp(c)

Spec == Init /\ [][Next]_vars

-----------------------------------------------------------------------------
\* Every variable holds what the code's types allow.
TypeOK ==
    /\ currentTerm \in [Replica -> Term]
    /\ votedFor \in [Replica -> Replica \cup {None}]
    /\ leading \in [Replica -> BOOLEAN]
    /\ candidate \in [Replica -> BOOLEAN]
    /\ log \in [Replica -> Seq(Entry)]
    /\ commitIndex \in [Replica -> {n \in Int : n >= -1}]
    /\ nextIndex \in [Replica -> [Replica -> Int] \cup {None}]
    /\ disk \in [Replica -> [log : Seq(Entry), commitIndex : {n \in Int : n >= -1}]]
    /\ \A g \in starts \cup answers : g.call \in Call /\ calls[g.call].from = g.from
    /\ \A m \in sent : m.entries \in Seq(Entry) /\ m.prevLogIndex >= -1
    /\ \A c \in Call : \A prev \in shared[c] : prev >= -1
    /\ \A c \in Call : calls[c] = Idle \/ calls[c].upper < Len(log[calls[c].from])
    /\ acked \subseteq [index : Nat, entry : Entry]

\* What the Raft paper's argument relies on and the code may break.
Broken ==
    odd \cap {"append of a follower", "heartbeat of a follower", "tail", "late verdict",
              "late retry", "shared message", "torn save", "minority leader"}

\* As long as nothing of this has happened, two logs with an entry of the same index and
\* term agree on it and on all before it.
LogMatching ==
    Broken = {} =>
        \A i, j \in Replica : \A p \in DOMAIN log[i] \cap DOMAIN log[j] :
            log[i][p].term = log[j][p].term => SubSeq(log[i], 1, p) = SubSeq(log[j], 1, p)

\* As long as nothing of it has happened, two replicas that both take an index for committed
\* have the same entry there.
CommittedAgree ==
    Broken = {} =>
        \A i, j \in Replica : \A p \in 1 .. commitIndex[i] + 1 :
            p <= commitIndex[j] + 1 =>
                /\ p \in DOMAIN log[i] \cap DOMAIN log[j]
                /\ log[i][p] = log[j][p]

HasEntry(l, a) == a.index + 1 \in DOMAIN l /\ l[a.index + 1] = a.entry

\* As long as nothing of it has happened, an entry whose caller was told of success is in the
\* files of a majority from then on, through crashes between saves, and in the log of
\* whoever leads in its term or later.
AckedStays ==
    Broken = {} =>
        \A a \in acked :
            /\ 2 * Cardinality({i \in Replica : HasEntry(disk[i].log, a)}) > Cardinality(Replica)
            /\ \A i \in Replica :
                  leading[i] /\ currentTerm[i] >= a.entry.term => HasEntry(log[i], a)

\* client.go: the caller is told of success if the write request is successfully persisted
\* across a majority of replicas.
AckedIsPersisted ==
    \A a \in acked : a.entry.operation = Write =>
        2 * Cardinality({i \in Replica : HasEntry(disk[i].log, a)}) > Cardinality(Replica)

\* nextIndex is an index of the log or the one after its end, unless a refusal came of a
\* message that was not made with it: two calls then walk it below 0 together.
NextIndexInLog ==
    "stale refusal" \notin odd =>
        \A i \in Replica : nextIndex[i] # None =>
            \A j \in Peers(i) : nextIndex[i][j] \in 0 .. Len(log[i])
=============================================================================
