---------------------------- MODULE ElectionTimer ----------------------------
(***************************************************************************)
(* The election timer of one replica: the RunElectionTimer goroutine, the  *)
(* unbuffered channels that stop and reset it, and raft_node_mutex, which  *)
(* the senders of both channels may hold and which a timer that has run    *)
(* out must take.  What the messages to the replica say is left open:      *)
(* each handler is reduced to what it does to the state, the lock and the  *)
(* timers (module Election has the terms and votes).                       *)
(*                                                                         *)
(* A timer runs under a context: the one that shutdown cancels, or the one *)
(* of an AppendEntries call, which lasts 20 ms and so is always over by    *)
(* the time a timer (500 ms or more) runs out.                             *)
(***************************************************************************)
EXTENDS Integers

CONSTANTS
    MaxElections,   \* bound on the number of elections
    MaxResets       \* bound on the reset goroutines that wait at one time

ASSUME ElectionTimerAssumption ==
    /\ MaxElections \in Nat
    /\ MaxResets \in Nat

VARIABLES
    state,       \* node.state
    lock,        \* what holds raft_node_mutex between two steps
    waiting,     \* for each context, timers that count down
    fired,       \* for each context, timers that ran out and wait for the lock
    resets,      \* goroutines of ToFollower that send electionResetEvent
    led,         \* the replica has been a leader, so AppendEntries calls may return
    cancelled,   \* the master context is cancelled
    elections    \* number of elections so far

vars == <<state, lock, waiting, fired, resets, led, cancelled, elections>>

-----------------------------------------------------------------------------
Follower == "Follower"
Candidate == "Candidate"
Leader == "Leader"

Master == "Master"
Call == "Call"
Context == {Master, Call}

Free == "Free"
InAppendEntries == "AppendEntries"   \* at electionResetEvent <- true
InToLeader == "ToLeader"             \* at stopElectiontimer <- true
InToCandidate == "ToCandidate"       \* held by a timer on its way into ToCandidate
Leaked == "RunElectionTimer"         \* held by a timer that has returned

\* All timer goroutines there are.
Timers ==
    waiting[Master] + waiting[Call] + fired[Master] + fired[Call]
        + (IF lock = InToCandidate THEN 1 ELSE 0)

\* <-parent_ctx.Done() does not block, when a timer under c has run out.
ContextOver(c) == c = Call \/ cancelled

\* Mutant of Restart: the new timer is started before a reset is there to be taken.
RestartAnyway(c) == waiting' = [waiting EXCEPT ![c] = @ + 1] /\ resets' = resets - 1

\* A fresh timer under c, in answer to one reset goroutine.
Restart(c) ==
    /\ resets > 0
    /\ waiting' = [waiting EXCEPT ![c] = @ + 1]
    /\ resets' = resets - 1

\* Mutant of ToFollower: a timer is started whatever the replica was.
ToFollowerNewTimer(c) ==
    /\ state' = Follower
    /\ waiting' = [waiting EXCEPT ![c] = @ + 1]
    /\ UNCHANGED resets

\* Mutant of ToFollower: a leader gets no timer.
ToFollowerNoTimer(c) ==
    /\ state' = Follower
    /\ resets' = IF state = Leader THEN resets ELSE resets + 1
    /\ state # Leader => resets < MaxResets
    /\ UNCHANGED waiting

\* ToFollower under context c: a leader gets a timer, the others have theirs reset.
ToFollower(c) ==
    /\ state' = Follower
    /\ \/ /\ state = Leader
          /\ waiting' = [waiting EXCEPT ![c] = @ + 1]
          /\ UNCHANGED resets
       \/ /\ state # Leader
          /\ resets < MaxResets
          /\ resets' = resets + 1
          /\ UNCHANGED waiting

-----------------------------------------------------------------------------
\* ConnectToPeerReplicas starts the timer before the servers take any message.
Init ==
    /\ state = Follower
    /\ lock = Free
    /\ waiting = [c \in Context |-> IF c = Master THEN 1 ELSE 0]
    /\ fired = [c \in Context |-> 0]
    /\ resets = 0
    /\ led = FALSE
    /\ cancelled = FALSE
    /\ elections = 0

\* The timeout is over, and the timer goes for the lock.
TimerExpires(c) ==
    /\ waiting[c] > 0
    /\ waiting' = [waiting EXCEPT ![c] = @ - 1]
    /\ fired' = [fired EXCEPT ![c] = @ + 1]
    /\ UNCHANGED <<state, lock, resets, led, cancelled, elections>>

\* A timer counting down takes a reset from one of the goroutines of ToFollower.
TakeReset(c) ==
    /\ waiting[c] > 0
    /\ resets > 0
    /\ resets' = resets - 1
    /\ UNCHANGED <<state, lock, waiting, fired, led, cancelled, elections>>

\* A timer that ran out has the lock and finds its context over: it keeps the lock.
FiredAfterContext(c) ==
    /\ fired[c] > 0
    /\ lock = Free
    /\ ContextOver(c)
    /\ lock' = Leaked
    /\ fired' = [fired EXCEPT ![c] = @ - 1]
    /\ UNCHANGED <<state, waiting, resets, led, cancelled, elections>>

\* A timer that ran out has the lock and finds a goroutine at electionResetEvent.  It
\* cannot find one at stopElectiontimer: that one would hold the lock.
FiredTakesReset(c) ==
    /\ fired[c] > 0
    /\ lock = Free
    /\ ~ ContextOver(c)
    /\ Restart(c)
    /\ fired' = [fired EXCEPT ![c] = @ - 1]
    /\ UNCHANGED <<state, lock, led, cancelled, elections>>

\* A timer that ran out has the lock and finds nobody at the channels, since none was
\* sent or since the goroutine has not come that far.  From here on nothing stops it: the
\* context, which is the master one, may still be cancelled, and that takes no lock.
FiredProceeds(c) ==
    /\ fired[c] > 0
    /\ lock = Free
    /\ ~ ContextOver(c)
    /\ elections < MaxElections
    /\ lock' = InToCandidate
    /\ fired' = [fired EXCEPT ![c] = @ - 1]
    /\ UNCHANGED <<state, waiting, resets, led, cancelled, elections>>

\* ToCandidate and StartElection, with the timer of the new election.
ToCandidate ==
    /\ lock = InToCandidate
    /\ lock' = Free
    /\ elections' = elections + 1
    /\ state' = Candidate
    /\ waiting' = [waiting EXCEPT ![Master] = @ + 1]
    /\ UNCHANGED <<fired, resets, led, cancelled>>

\* RequestVote of a later term.
RequestVote ==
    /\ lock = Free
    /\ ToFollower(Master)
    /\ UNCHANGED <<lock, fired, led, cancelled, elections>>

\* AppendEntries of a later term, or of the term of a candidate, up to its reset.
AppendEntriesToFollower ==
    /\ lock = Free
    /\ ToFollower(Master)
    /\ lock' = InAppendEntries
    /\ UNCHANGED <<fired, led, cancelled, elections>>

\* AppendEntries of the term of a follower, or of a leader: the heartbeat of a predecessor
\* that was deposed after its check and took the leader's term.  Up to the reset.
AppendEntriesSameTerm ==
    /\ lock = Free
    /\ state # Candidate
    /\ lock' = InAppendEntries
    /\ UNCHANGED <<state, waiting, fired, resets, led, cancelled, elections>>

\* The timer takes the reset of AppendEntries, which then runs to its end.
AppendEntriesEnds(c) ==
    /\ lock = InAppendEntries
    /\ waiting[c] > 0
    /\ lock' = Free
    /\ UNCHANGED <<state, waiting, fired, resets, led, cancelled, elections>>

\* LeaderSendAE learns of a later term: a leader from a failure, anyone from a success.
LeaderSendAE ==
    /\ lock = Free
    /\ led
    /\ ToFollower(Call)
    /\ UNCHANGED <<lock, fired, led, cancelled, elections>>

\* A StartElection goroutine has a majority and calls ToLeader with the lock.
WinElection ==
    /\ lock = Free
    /\ state = Candidate
    /\ lock' = InToLeader
    /\ UNCHANGED <<state, waiting, fired, resets, led, cancelled, elections>>

\* Mutant of StopTimer: the timer is told to stop and goes on.
StopNothing(c) == waiting[c] > 0 /\ UNCHANGED waiting

\* A timer counting down takes the stop and is gone.
StopTimer(c) ==
    /\ waiting[c] > 0
    /\ waiting' = [waiting EXCEPT ![c] = @ - 1]

\* The timer takes the stop of ToLeader, which then runs up to the release of the lock.
ToLeader(c) ==
    /\ lock = InToLeader
    /\ StopTimer(c)
    /\ lock' = Free
    /\ state' = Leader
    /\ led' = TRUE
    /\ UNCHANGED <<fired, resets, cancelled, elections>>

\* ListenForShutdown, or the crash of a node in the tests.
Cancel ==
    /\ ~ cancelled
    /\ cancelled' = TRUE
    /\ UNCHANGED <<state, lock, waiting, fired, resets, led, elections>>

Next ==
    \/ \E c \in Context :
          \/ TimerExpires(c) \/ TakeReset(c)
          \/ FiredAfterContext(c) \/ FiredTakesReset(c) \/ FiredProceeds(c)
          \/ AppendEntriesEnds(c) \/ ToLeader(c)
    \/ ToCandidate
    \/ RequestVote \/ AppendEntriesToFollower \/ AppendEntriesSameTerm
    \/ LeaderSendAE \/ WinElection \/ Cancel

Spec == Init /\ [][Next]_vars

\* Time passes, a receiver that is ready receives, and the lock is starvation-free
\* (sync.RWMutex); messages and votes need not come.
Fairness ==
    /\ WF_vars(ToCandidate)
    /\ \A c \in Context :
          /\ WF_vars(TimerExpires(c))
          /\ WF_vars(TakeReset(c))
          /\ SF_vars(FiredAfterContext(c) \/ FiredTakesReset(c) \/ FiredProceeds(c))
          /\ WF_vars(AppendEntriesEnds(c))
          /\ WF_vars(ToLeader(c))

FairSpec == Spec /\ Fairness

-----------------------------------------------------------------------------
\* Every variable holds what the code's types allow.
TypeOK ==
    /\ state \in {Follower, Candidate, Leader}
    /\ lock \in {Free, InAppendEntries, InToLeader, InToCandidate, Leaked}
    /\ waiting \in [Context -> Nat]
    /\ fired \in [Context -> Nat]
    /\ resets \in Nat
    /\ led \in BOOLEAN
    /\ cancelled \in BOOLEAN
    /\ elections \in Nat

\* Through resets, stops, step-downs and elections a follower or candidate has exactly
\* one timer goroutine and a leader none; only a timer that kept the lock is not replaced.
OneTimer ==
    Timers = IF state = Leader \/ lock = Leaked THEN 0 ELSE 1

\* Only a candidate is ever about to become leader.
CandidateWins == lock = InToLeader => state = Candidate

\* A timer left over from before never makes a leader start an election.
LeaderNeverCampaigns ==
    [][elections' # elections => state # Leader]_vars

\* election.go: a timer that runs out makes the replica a candidate, unless it is reset
\* or the replica shuts down.
TimeoutStartsElection ==
    [][\A c \in Context :
          fired'[c] < fired[c] /\ ~ cancelled
              => lock' = InToCandidate \/ resets' < resets]_vars

\* Something from another replica that resets the timer or makes this one a follower.
Message ==
    RequestVote \/ AppendEntriesToFollower \/ AppendEntriesSameTerm \/ LeaderSendAE

\* The lock is never given up again: a timer returned with it (election.go:36), or its
\* holder sends to a timer that does not listen any more (rpcs.go:115, states.go:53).
Stuck ==
    \/ lock = Leaked
    \/ lock \in {InAppendEntries, InToLeader} /\ \A c \in Context : waiting[c] = 0

\* When messages stop, whatever resets, step-downs, stops and elections came before them,
\* the replica leads, or it goes on campaigning, or it shuts down, or it is in one of the
\* three deadlocks of Stuck: no other way leads to a replica without a timer.
SilenceBringsElections ==
    <>[][~ Message]_vars
    => <>[](state = Leader \/ cancelled \/ elections = MaxElections \/ Stuck)

\* The inductive invariant behind OneTimer and LeaderNeverCampaigns.
IInv == TypeOK /\ OneTimer /\ CandidateWins
=============================================================================
