------------------------- MODULE ElectionTimerProofs -------------------------
(***************************************************************************)
(* What holds of the election timer for any number of elections and reset  *)
(* goroutines: the replica has exactly one timer when it does not lead and *)
(* none when it leads, so a leader never starts an election.                *)
(***************************************************************************)
EXTENDS ElectionTimer, TLAPS

\* The first state satisfies the invariant: one timer, just started.
LEMMA InitIInv == Init => IInv
<1> SUFFICES ASSUME Init PROVE IInv
  OBVIOUS
<1> USE DEF Context, Master, Call, Follower, Candidate, Leader, Free, InToLeader,
            InToCandidate, Leaked, InAppendEntries
<1>1. TypeOK
  BY DEF Init, TypeOK
<1>2. OneTimer
  BY DEF Init, OneTimer, Timers
<1>3. CandidateWins
  BY DEF Init, CandidateWins
<1> QED
  BY <1>1, <1>2, <1>3 DEF IInv

\* ToFollower leaves a replica that leads with a new timer, and one that does not with
\* the timer it had.
LEMMA ToFollowerOneTimer ==
    ASSUME IInv, NEW c \in Context, ToFollower(c), lock = Free, UNCHANGED fired,
           lock' \in {Free, InAppendEntries}
    PROVE  /\ waiting' \in [Context -> Nat]
           /\ resets' \in Nat
           /\ Timers' = 1
BY DEF IInv, TypeOK, OneTimer, ToFollower, Timers, Context, Master, Call,
       Follower, Candidate, Leader, Free, Leaked, InToCandidate, InAppendEntries

\* Every step keeps the types, the number of timers and the candidacy of a winner.
LEMMA NextIInv == IInv /\ [Next]_vars => IInv'
<1> SUFFICES ASSUME IInv, [Next]_vars PROVE IInv'
  OBVIOUS
<1> USE DEF IInv, TypeOK, OneTimer, CandidateWins, Timers, Context, Master, Call,
            Follower, Candidate, Leader, Free, InToLeader, InToCandidate, Leaked,
            InAppendEntries
<1>1. ASSUME NEW c \in Context, TimerExpires(c) PROVE IInv'
  BY <1>1 DEF TimerExpires
<1>2. ASSUME NEW c \in Context, TakeReset(c) PROVE IInv'
  BY <1>2 DEF TakeReset
<1>3. ASSUME NEW c \in Context, FiredAfterContext(c) PROVE IInv'
  BY <1>3 DEF FiredAfterContext
<1>4. ASSUME NEW c \in Context, FiredTakesReset(c) PROVE IInv'
  BY <1>4 DEF FiredTakesReset, Restart
<1>5. ASSUME NEW c \in Context, FiredProceeds(c) PROVE IInv'
  BY <1>5 DEF FiredProceeds
<1>6. ASSUME NEW c \in Context, AppendEntriesEnds(c) PROVE IInv'
  BY <1>6 DEF AppendEntriesEnds
<1>7. ASSUME NEW c \in Context, ToLeader(c) PROVE IInv'
  BY <1>7 DEF ToLeader, StopTimer
<1>8. CASE RequestVote
  BY <1>8, ToFollowerOneTimer DEF RequestVote, ToFollower
<1>9. CASE AppendEntriesToFollower
  BY <1>9, ToFollowerOneTimer DEF AppendEntriesToFollower, ToFollower
<1>10. CASE AppendEntriesSameTerm
  BY <1>10 DEF AppendEntriesSameTerm
<1>11. CASE LeaderSendAE
  BY <1>11, ToFollowerOneTimer DEF LeaderSendAE, ToFollower
<1>12. CASE WinElection
  BY <1>12 DEF WinElection
<1>13. CASE Cancel
  BY <1>13 DEF Cancel
<1>14. CASE ToCandidate
  BY <1>14 DEF ToCandidate
<1>15. CASE UNCHANGED vars
  BY <1>15 DEF vars
<1> QED
  BY <1>1, <1>2, <1>3, <1>4, <1>5, <1>6, <1>7, <1>8, <1>9, <1>10, <1>11, <1>12,
     <1>13, <1>14, <1>15 DEF Next

\* The types, and exactly one timer when the replica does not lead and none when it
\* does (election.go, states.go).
THEOREM Invariance == Spec => []IInv
BY InitIInv, NextIInv, PTL DEF Spec

\* Type correctness of a replica's timers, for any number of elections and resets.
THEOREM TypeCorrect == Spec => []TypeOK
<1>1. IInv => TypeOK
  BY DEF IInv
<1> QED
  BY <1>1, Invariance, PTL

THEOREM TimerCount == Spec => []OneTimer
<1>1. IInv => OneTimer
  BY DEF IInv
<1> QED
  BY <1>1, Invariance, PTL

\* An election is started by a timer, so not by a leader, which has none.
THEOREM NoCampaignOfLeader == Spec => LeaderNeverCampaigns
<1>1. IInv /\ [Next]_vars => [elections' # elections => state # Leader]_vars
  <2> SUFFICES ASSUME IInv, Next, elections' # elections PROVE state # Leader
    BY DEF vars
  <2>1. ToCandidate
    BY DEF Next, TimerExpires, TakeReset, FiredAfterContext, FiredTakesReset,
           FiredProceeds, AppendEntriesEnds, ToLeader, RequestVote, AppendEntriesToFollower,
           AppendEntriesSameTerm, LeaderSendAE, WinElection, Cancel
  <2>2. Timers > 0
    BY <2>1 DEF ToCandidate, IInv, TypeOK, Timers, Context
  <2> QED
    BY <2>2 DEF IInv, OneTimer
<1> QED
  BY <1>1, Invariance, PTL DEF Spec, LeaderNeverCampaigns

=============================================================================
