--------------------------- MODULE ElectionProofs ---------------------------
(***************************************************************************)
(* What holds of elections for any number of replicas, terms, elections,   *)
(* messages and crashes: only a crash inside a save takes a term or a vote *)
(* back.  As long as there is none, no replica gives two candidates a vote *)
(* that counts in one term, and so two leaders that each have a majority   *)
(* of one term are the same.  With at most three replicas a leader has one *)
(* whatever happens.                                                       *)
(***************************************************************************)
EXTENDS Election, SequenceTheorems, FiniteSetTheorems, TLAPS

\* The first states satisfy the invariant: nobody has voted, nothing is on its way.
LEMMA InitIInv == Init => IInv
<1> SUFFICES ASSUME Init PROVE IInv
  OBVIOUS
<1>1. 0 \in Term /\ <<>> \in Seq(Entry)
  BY ElectionAssumption DEF Term
<1>2. TypeOK
  BY <1>1 DEF Init, TypeOK, Saved, NoFile, Follower, Candidate, Leader
<1>3. LiveVotes = {}
  BY DEF Init, LiveVotes
<1>4. DiskIsCurrent /\ VotedForSelf /\ NoNewerRequest /\ NoNewerAnswer /\ VotedForReached
  BY ElectionAssumption DEF Init, DiskIsCurrent, NoFile, VotedForSelf, NoNewerRequest, NoNewerAnswer,
     VotedForReached, Follower
<1> QED
  BY <1>2, <1>3, <1>4 DEF IInv, LiveVotesRemembered, OneVotePerTerm

-----------------------------------------------------------------------------
\* A saved node is what the file may hold (storage.go).
LEMMA PersistType ==
    ASSUME NEW i \in Replica, disk \in [Replica -> Saved], PersistToStorage(i),
           currentTerm'[i] \in Term, votedFor'[i] \in Replica \cup {NoVote},
           log'[i] \in Seq(Entry)
    PROVE  disk' \in [Replica -> Saved]
BY DEF PersistToStorage, Saved

\* The pair a candidate sends for its log is a pair of numbers.
LEMMA LatestType ==
    ASSUME NEW l \in Seq(Entry)
    PROVE  LatestLogIndex(l) \in Int /\ LatestLogTerm(l) \in Int
<1>1. Len(l) \in Nat
  OBVIOUS
<1>2. ASSUME l # <<>> PROVE l[Len(l)].term \in Int
  <2>1. Len(l) \in 1 .. Len(l)
    BY <1>2, <1>1, EmptySeq
  <2>2. l[Len(l)] \in Entry
    BY <2>1, ElementOfSeq
  <2> QED
    BY <2>2, ElectionAssumption DEF Entry, Term
<1> QED
  BY <1>1, <1>2 DEF LatestLogIndex, LatestLogTerm

\* What AppendEntries leaves of a log is a log.
LEMMA AppendedType ==
    ASSUME NEW l \in Seq(Entry), NEW m \in AppendMessage, NEW prev \in -1 .. Len(m.log) - 1,
           HasPrevEntry(l, prev, PrevLogTerm(m, prev))
    PROVE  MergedLog(l, prev, EntriesAfter(m, prev)) \in Seq(Entry)
<1>1. m.log \in Seq(Entry)
  BY DEF AppendMessage
<1>2. Len(m.log) \in Nat /\ Len(l) \in Nat
  BY <1>1, LenProperties
<1>3. EntriesAfter(m, prev) \in Seq(Entry)
  BY <1>1, <1>2, SubSeqProperties DEF EntriesAfter
<1>4. prev \in Int /\ prev >= -1 /\ prev < Len(l)
  BY <1>2 DEF HasPrevEntry
<1> SUFFICES ASSUME NEW entries \in Seq(Entry), Len(entries) \in Nat
             PROVE  MergedLog(l, prev, entries) \in Seq(Entry)
  BY <1>3, LenProperties
<1> DEFINE end == prev + 1 + Len(entries)
           len == IF end > Len(l) THEN end ELSE Len(l)
           value(p) == IF p \in Written(l, prev, entries) THEN entries[p - prev - 1] ELSE l[p]
<1>5. len \in Nat
  BY <1>2, <1>4
<1>6. ASSUME NEW p \in 1 .. len PROVE value(p) \in Entry
  <2>1. CASE p \in Written(l, prev, entries)
    <3>1. p - prev - 1 \in 1 .. Len(entries)
      BY <1>4, <2>1 DEF Written, Covered
    <3> QED
      BY <2>1, <3>1, ElementOfSeq
  <2>2. CASE p \notin Written(l, prev, entries)
    <3>1. p <= Len(l)
      <4> SUFFICES ASSUME p > Len(l) PROVE FALSE
        BY <1>2
      <4>1. p \in prev + 2 .. end /\ Mismatch(l, prev, entries, p)
        BY <1>2, <1>4, <1>6 DEF Mismatch
      <4> QED
        BY <2>2, <4>1 DEF Written, Covered
    <3> QED
      BY <1>2, <2>2, <3>1, ElementOfSeq
  <2> QED
    BY <2>1, <2>2
<1>7. MergedLog(l, prev, entries) = [p \in 1 .. len |-> value(p)]
  BY DEF MergedLog
<1> HIDE DEF value, len
<1> QED
  BY <1>5, <1>6, <1>7

\* Either crash gives the replica what is in its file, which is then what it was or empty.
LEMMA Crash ==
    ASSUME TypeOK, NEW i \in Replica, Restart(i) \/ TornSave(i)
    PROVE  \E file \in Saved :
              /\ Reboot(i, file)
              /\ disk' = [disk EXCEPT ![i] = file]
              /\ torn' \in [Replica -> Nat]
<1>1. disk \in [Replica -> Saved] /\ torn \in [Replica -> Nat]
  BY DEF TypeOK
<1>2. CASE Restart(i)
  <2>1. disk[i] \in Saved /\ disk' = [disk EXCEPT ![i] = disk[i]]
    BY <1>1, <1>2 DEF Restart
  <2> QED
    BY <1>1, <1>2, <2>1 DEF Restart
<1>3. CASE TornSave(i)
  <2>1. NoFile \in Saved
    <3>1. 0 \in Term /\ <<>> \in Seq(Entry)
      BY ElectionAssumption DEF Term
    <3> QED
      BY <3>1 DEF NoFile, Saved
  <2>2. torn' \in [Replica -> Nat]
    BY <1>1, <1>3 DEF TornSave
  <2>3. Reboot(i, NoFile) /\ disk' = [disk EXCEPT ![i] = NoFile]
    BY <1>3 DEF TornSave
  <2> QED
    BY <2>1, <2>2, <2>3, Zenon
<1> QED
  BY <1>2, <1>3

\* Every step keeps the types.
LEMMA StepTypeOK == TypeOK /\ [Next]_vars => TypeOK'
<1> SUFFICES ASSUME TypeOK, [Next]_vars PROVE TypeOK'
  OBVIOUS
<1> USE DEF nodeVars, voteVars, appendVars, crashVars, Follower, Candidate, Leader
<1>0. /\ \A t \in Term : t \in Nat /\ (t < MaxTerm => t + 1 \in Term)
      /\ Orphan \in Term
  BY ElectionAssumption DEF Term, Orphan
<1>1. ASSUME NEW i \in Replica, ElectionTimeout(i) PROVE TypeOK'
  <2>1. /\ currentTerm[i] + 1 \in Term
        /\ currentTerm' = [currentTerm EXCEPT ![i] = currentTerm[i] + 1]
        /\ votedFor' = [votedFor EXCEPT ![i] = i] /\ log' = log
    BY <1>0, <1>1 DEF TypeOK, ElectionTimeout
  <2>2. disk' \in [Replica -> Saved]
    BY <1>1, <2>1, PersistType DEF TypeOK, ElectionTimeout
  <2>3. /\ voters' \subseteq VoteGoroutine
        /\ \A c \in voters' : c.from # c.to
    BY <1>1, <2>1 DEF TypeOK, ElectionTimeout, VoteGoroutine, Peers
  <2>4. counted' \subseteq Vote
    BY <1>1, <2>1 DEF TypeOK, ElectionTimeout, Vote
  <2>5. receivedVotes' \in [Replica -> [Term -> Nat]]
    BY <1>1, <2>1 DEF TypeOK, ElectionTimeout
  <2> QED
    BY <1>1, <2>1, <2>2, <2>3, <2>4, <2>5 DEF TypeOK, ElectionTimeout
<1>2. ASSUME NEW g \in voters, SendRequestVote(g) PROVE TypeOK'
  <2>1. g \in VoteGoroutine /\ g.from # g.to /\ log[g.from] \in Seq(Entry)
    BY <1>2 DEF TypeOK, VoteGoroutine
  <2>2. LatestLogIndex(log[g.from]) \in Int /\ LatestLogTerm(log[g.from]) \in Int
    BY <2>1, LatestType
  <2>3. requests' \subseteq VoteRequest /\ \A m \in requests' : m.from # m.to
    BY <1>2, <2>1, <2>2 DEF TypeOK, SendRequestVote, VoteGoroutine, VoteRequest
  <2> QED
    BY <1>2, <2>3 DEF TypeOK, SendRequestVote
<1>3. ASSUME NEW m \in requests, RequestVote(m) PROVE TypeOK'
  <2>1. m \in VoteRequest /\ m.from # m.to
    BY DEF TypeOK
  <2>2. /\ currentTerm' \in [Replica -> Term] /\ log' = log
        /\ votedFor' \in [Replica -> Replica \cup {NoVote}]
        /\ state' \in [Replica -> {Follower, Candidate, Leader}]
    BY <1>3, <2>1 DEF TypeOK, RequestVote, VoteRequest
  <2>3. disk' \in [Replica -> Saved]
    <3>1. PersistToStorage(m.to) \/ disk' = disk
      BY <1>3 DEF RequestVote
    <3> QED
      BY <2>1, <2>2, <3>1, PersistType DEF TypeOK, VoteRequest
  <2>4. answers' \subseteq VoteAnswer /\ \A a \in answers' : a.from # a.to
    <3>1. PICK granted \in BOOLEAN :
             answers' \subseteq answers \cup
                {[from |-> m.from, to |-> m.to, round |-> m.round,
                  term |-> m.term, granted |-> granted]}
      BY <1>3 DEF RequestVote, Grants
    <3> QED
      BY <2>1, <3>1 DEF TypeOK, VoteRequest, VoteAnswer
  <2> QED
    BY <1>3, <2>2, <2>3, <2>4 DEF TypeOK, RequestVote
<1>4. ASSUME NEW a \in answers, DropAnswer(a) PROVE TypeOK'
  BY <1>4 DEF TypeOK, DropAnswer
<1>5. ASSUME NEW a \in answers, CountVote(a)
      PROVE  /\ a.from \in Replica
             /\ answers' \subseteq answers
             /\ receivedVotes' \in [Replica -> [Term -> Nat]]
             /\ counted' \subseteq Vote
  BY <1>5 DEF TypeOK, CountVote, VoteAnswer, Vote
<1>6. ASSUME NEW a \in answers, KeepWaiting(a) PROVE TypeOK'
  BY <1>5, <1>6 DEF TypeOK, KeepWaiting, CountVote
<1>7. ASSUME NEW a \in answers, ToLeader(a) PROVE TypeOK'
  <2>1. /\ CountVote(a) /\ a.from \in Replica
        /\ currentTerm' = currentTerm /\ votedFor' = votedFor
    BY <1>5, <1>7 DEF ToLeader
  <2>2. [term |-> currentTerm[a.from]] \in Entry
    BY <2>1 DEF TypeOK, Entry
  <2>3. log' \in [Replica -> Seq(Entry)]
    <3>1. Append(log[a.from], [term |-> currentTerm[a.from]]) \in Seq(Entry)
      BY <2>1, <2>2, AppendProperties DEF TypeOK
    <3> QED
      BY <1>7, <3>1 DEF TypeOK, ToLeader
  <2>4. disk' \in [Replica -> Saved]
    BY <1>7, <2>1, <2>3, PersistType DEF TypeOK, ToLeader
  <2>5. appends' \subseteq AppendMessage
    <3>1. [leader |-> a.from, term |-> currentTerm[a.from], log |-> log'[a.from]] \in AppendMessage
      BY <2>1, <2>3 DEF TypeOK, AppendMessage
    <3> QED
      BY <1>7, <3>1 DEF TypeOK, ToLeader
  <2> QED
    BY <1>5, <1>7, <2>1, <2>3, <2>4, <2>5 DEF TypeOK, ToLeader, CountVote
<1>8. ASSUME NEW i \in Replica, HeartBeatCheck(i) PROVE TypeOK'
  BY <1>8 DEF TypeOK, HeartBeatCheck
<1>9. ASSUME NEW i \in Replica, HeartBeatSend(i) PROVE TypeOK'
  BY <1>9 DEF TypeOK, HeartBeatSend, AppendMessage
<1>10. ASSUME NEW j \in Replica, NEW m \in appends, NEW prev \in -1 .. Len(m.log) - 1,
              RefuseAppend(j, m, prev)
       PROVE  TypeOK'
  <2>1. PICK ok \in BOOLEAN :
           refusals' = refusals \cup {[leader |-> m.leader, term |-> currentTerm[j], success |-> ok]}
    BY <1>10 DEF RefuseAppend, HasPrevEntry, AlreadyReplicated
  <2>2. refusals' \subseteq Refusal
    BY <2>1 DEF TypeOK, Refusal, AppendMessage
  <2> QED
    BY <1>10, <2>2 DEF TypeOK, RefuseAppend
<1>11. ASSUME NEW j \in Replica, NEW m \in appends, NEW prev \in -1 .. Len(m.log) - 1,
              AppendEntries(j, m, prev)
       PROVE  TypeOK'
  <2>1. m \in AppendMessage
    BY DEF TypeOK
  <2>2. /\ currentTerm' \in [Replica -> Term]
        /\ votedFor' \in [Replica -> Replica \cup {NoVote}]
        /\ state' \in [Replica -> {Follower, Candidate, Leader}]
    BY <1>11, <2>1 DEF TypeOK, AppendEntries, AppendMessage
  <2>3. log' \in [Replica -> Seq(Entry)]
    <3>1. log[j] \in Seq(Entry)
      BY DEF TypeOK
    <3>2. HasPrevEntry(log[j], prev, PrevLogTerm(m, prev))
             => MergedLog(log[j], prev, EntriesAfter(m, prev)) \in Seq(Entry)
      BY <2>1, <3>1, AppendedType
    <3> QED
      BY <1>11, <3>1, <3>2 DEF TypeOK, AppendEntries
  <2>4. disk' \in [Replica -> Saved]
    <3>1. PersistToStorage(j) \/ disk' = disk
      BY <1>11 DEF AppendEntries
    <3> QED
      BY <2>2, <2>3, <3>1, PersistType DEF TypeOK
  <2>5. accepted' \subseteq Vote
    BY <1>11, <2>1 DEF TypeOK, AppendEntries, Vote, AppendMessage
  <2> QED
    BY <1>11, <2>2, <2>3, <2>4, <2>5 DEF TypeOK, AppendEntries
<1>12. ASSUME NEW r \in refusals, StepDown(r) PROVE TypeOK'
  <2>1. r.leader \in Replica /\ r.term \in Term
    BY DEF TypeOK, Refusal
  <2>2. /\ currentTerm' \in [Replica -> Term] /\ log' = log
        /\ votedFor' \in [Replica -> Replica \cup {NoVote}]
    BY <1>12, <2>1 DEF TypeOK, StepDown
  <2>3. disk' \in [Replica -> Saved]
    BY <1>12, <2>1, <2>2, PersistType DEF TypeOK, StepDown
  <2> QED
    BY <1>12, <2>1, <2>2, <2>3 DEF TypeOK, StepDown
<1>13. ASSUME NEW i \in Replica, Restart(i) \/ TornSave(i) PROVE TypeOK'
  <2>1. PICK file \in Saved :
           /\ Reboot(i, file)
           /\ disk' = [disk EXCEPT ![i] = file]
           /\ torn' \in [Replica -> Nat]
    BY <1>13, Crash
  <2>8. disk' \in [Replica -> Saved]
    BY <2>1 DEF TypeOK
  <2>2. voters' \subseteq voters /\ answers' \subseteq answers /\ refusals' \subseteq refusals
    BY <2>1 DEF Reboot
  <2>4. ASSUME NEW m \in requests' PROVE m \in VoteRequest /\ m.from # m.to
    <3>1. requests' = {IF o.from = i THEN [o EXCEPT !.round = Orphan] ELSE o : o \in requests}
      BY <2>1 DEF Reboot
    <3>2. PICK o \in requests : m = IF o.from = i THEN [o EXCEPT !.round = Orphan] ELSE o
      BY <2>4, <3>1, Zenon
    <3>3. o \in VoteRequest /\ o.from # o.to
      BY DEF TypeOK
    <3>4. CASE o.from = i
      BY <1>0, <3>2, <3>3, <3>4 DEF VoteRequest
    <3>5. CASE o.from # i
      BY <3>2, <3>3, <3>5
    <3> QED
      BY <3>4, <3>5
  <2>5. requests' \subseteq VoteRequest
    BY <2>4
  <2>3. /\ receivedVotes' \in [Replica -> [Term -> Nat]] /\ restarts' \in Nat
        /\ currentTerm' \in [Replica -> Term]
        /\ votedFor' \in [Replica -> Replica \cup {NoVote}]
        /\ log' \in [Replica -> Seq(Entry)]
        /\ state' \in [Replica -> {Follower, Candidate, Leader}]
        /\ beating' \in [Replica -> BOOLEAN]
    BY <2>1 DEF TypeOK, Reboot, Saved
  <2>6. \A c \in voters' \cup requests' \cup answers' : c.from # c.to
    BY <2>2, <2>4 DEF TypeOK
  <2>7. UNCHANGED <<appends, accepted, counted>>
    BY <2>1 DEF Reboot
  <2> QED
    BY <2>1, <2>2, <2>3, <2>5, <2>6, <2>7, <2>8 DEF TypeOK
<1>14. CASE UNCHANGED vars
  BY <1>14 DEF TypeOK, vars
<1> QED
  BY <1>1, <1>2, <1>3, <1>4, <1>6, <1>7, <1>8, <1>9, <1>10, <1>11, <1>12, <1>13, <1>14 DEF Next

-----------------------------------------------------------------------------
\* Writing the file keeps it current when only the node that writes it has changed.
LEMMA PersistCurrent ==
    ASSUME NEW i \in Replica, disk \in [Replica -> Saved], DiskIsCurrent, PersistToStorage(i),
           \A k \in Replica \ {i} : /\ currentTerm'[k] = currentTerm[k]
                                    /\ votedFor'[k] = votedFor[k]
                                    /\ log'[k] = log[k]
    PROVE  DiskIsCurrent'
BY DEF PersistToStorage, DiskIsCurrent

\* Every step leaves the file current: what changes is saved before the lock is released.
LEMMA StepDisk == TypeOK /\ DiskIsCurrent /\ [Next]_vars => DiskIsCurrent'
<1> SUFFICES ASSUME TypeOK, DiskIsCurrent, [Next]_vars PROVE DiskIsCurrent'
  OBVIOUS
<1> USE DEF nodeVars
<1>0. /\ currentTerm \in [Replica -> Term] /\ votedFor \in [Replica -> Replica \cup {NoVote}]
      /\ log \in [Replica -> Seq(Entry)] /\ disk \in [Replica -> Saved]
  BY DEF TypeOK
<1>1. ASSUME NEW i \in Replica, ElectionTimeout(i) PROVE DiskIsCurrent'
  BY <1>0, <1>1, PersistCurrent DEF ElectionTimeout
<1>2. ASSUME NEW m \in requests, RequestVote(m) PROVE DiskIsCurrent'
  <2>1. m.to \in Replica
    BY DEF TypeOK, VoteRequest
  <2>2. CASE PersistToStorage(m.to)
    BY <1>0, <1>2, <2>1, <2>2, PersistCurrent DEF RequestVote
  <2>3. CASE ~ PersistToStorage(m.to)
    BY <1>0, <1>2, <2>1, <2>3 DEF RequestVote, DiskIsCurrent
  <2> QED
    BY <2>2, <2>3
<1>3. ASSUME NEW a \in answers, ToLeader(a) PROVE DiskIsCurrent'
  <2>1. a.from \in Replica
    BY DEF TypeOK, VoteAnswer
  <2> QED
    BY <1>0, <1>3, <2>1, PersistCurrent DEF ToLeader
<1>4. ASSUME NEW j \in Replica, NEW m \in appends, NEW prev \in -1 .. Len(m.log) - 1,
             AppendEntries(j, m, prev)
      PROVE  DiskIsCurrent'
  <2>1. CASE PersistToStorage(j)
    BY <1>0, <1>4, <2>1, PersistCurrent DEF AppendEntries
  <2>2. CASE ~ PersistToStorage(j)
    <3>1. /\ disk' = disk /\ log' = log /\ votedFor' = votedFor
          /\ m.term = currentTerm[j]
      BY <1>0, <1>4, <2>2 DEF AppendEntries, TypeOK, AppendMessage, Term
    <3>2. currentTerm' = currentTerm
      BY <1>0, <1>4, <3>1 DEF AppendEntries
    <3> QED
      BY <3>1, <3>2 DEF DiskIsCurrent
  <2> QED
    BY <2>1, <2>2
<1>5. ASSUME NEW r \in refusals, StepDown(r) PROVE DiskIsCurrent'
  <2>1. r.leader \in Replica
    BY DEF TypeOK, Refusal
  <2> QED
    BY <1>0, <1>5, <2>1, PersistCurrent DEF StepDown
<1>6. ASSUME NEW i \in Replica, Restart(i) \/ TornSave(i) PROVE DiskIsCurrent'
  <2>1. PICK file \in Saved : Reboot(i, file) /\ disk' = [disk EXCEPT ![i] = file]
    BY <1>6, Crash
  <2>2. file = [term |-> file.term, vote |-> file.vote, log |-> file.log]
    BY DEF Saved
  <2> QED
    BY <1>0, <2>1, <2>2 DEF Reboot, DiskIsCurrent
<1>7. CASE UNCHANGED nodeVars
  BY <1>7 DEF DiskIsCurrent
<1> QED
  BY <1>1, <1>2, <1>3, <1>4, <1>5, <1>6, <1>7
  DEF Next, vars, SendRequestVote, DropAnswer, KeepWaiting, HeartBeatCheck, HeartBeatSend,
      RefuseAppend

\* A crash between two saves gives a replica back the term and the vote that it had.
LEMMA RestartKeeps ==
    ASSUME TypeOK, DiskIsCurrent, NEW i \in Replica, Restart(i)
    PROVE  currentTerm' = currentTerm /\ votedFor' = votedFor
<1>1. disk[i] = [term |-> currentTerm[i], vote |-> votedFor[i], log |-> log[i]]
  BY Zenon DEF DiskIsCurrent
<1>2. disk[i].term = currentTerm[i] /\ disk[i].vote = votedFor[i]
  BY <1>1
<1>3. currentTerm \in [Replica -> Term] /\ votedFor \in [Replica -> Replica \cup {NoVote}]
  BY DEF TypeOK
<1>4. /\ currentTerm' = [currentTerm EXCEPT ![i] = disk[i].term]
      /\ votedFor' = [votedFor EXCEPT ![i] = disk[i].vote]
  BY DEF Restart, Reboot
<1> QED
  BY <1>2, <1>3, <1>4

\* A crash inside a save is counted for its replica, and leaves the others alone.
LEMMA TornCrash ==
    ASSUME TypeOK, NEW i \in Replica, TornSave(i), NEW k \in Replica
    PROVE  /\ k = i => torn'[k] = torn[k] + 1 /\ torn'[k] \in Nat /\ torn'[k] # torn[k]
           /\ k # i => /\ torn'[k] = torn[k]
                        /\ currentTerm'[k] = currentTerm[k]
                        /\ votedFor'[k] = votedFor[k]
BY DEF TypeOK, TornSave, Reboot

\* Nothing else changes that count.
LEMMA TornStep ==
    ASSUME TypeOK, [Next]_vars
    PROVE  torn' = torn \/ \E i \in Replica : TornSave(i)
<1> USE DEF crashVars
<1>1. ASSUME NEW i \in Replica,
             ElectionTimeout(i) \/ HeartBeatCheck(i) \/ HeartBeatSend(i) \/ Restart(i)
      PROVE  torn' = torn
  BY <1>1 DEF ElectionTimeout, HeartBeatCheck, HeartBeatSend, Restart
<1>2. ASSUME NEW g \in voters, SendRequestVote(g) PROVE torn' = torn
  BY <1>2 DEF SendRequestVote
<1>3. ASSUME NEW m \in requests, RequestVote(m) PROVE torn' = torn
  BY <1>3 DEF RequestVote
<1>4. ASSUME NEW a \in answers, DropAnswer(a) \/ KeepWaiting(a) \/ ToLeader(a)
      PROVE  torn' = torn
  BY <1>4 DEF DropAnswer, KeepWaiting, ToLeader, CountVote
<1>5. ASSUME NEW j \in Replica, NEW m \in appends, NEW prev \in -1 .. Len(m.log) - 1,
             RefuseAppend(j, m, prev) \/ AppendEntries(j, m, prev)
      PROVE  torn' = torn
  BY <1>5 DEF RefuseAppend, AppendEntries
<1>6. ASSUME NEW m \in refusals, StepDown(m) PROVE torn' = torn
  BY <1>6 DEF StepDown
<1>7. CASE UNCHANGED vars
  BY <1>7 DEF vars
<1> HIDE DEF crashVars
<1> QED
  BY <1>1, <1>2, <1>3, <1>4, <1>5, <1>6, <1>7 DEF Next

\* When no crash has come inside a save after the step, none had before.
LEMMA NoneTorn ==
    ASSUME TypeOK, [Next]_vars, NoTornSave'
    PROVE  /\ NoTornSave /\ torn' = torn
           /\ \A i \in Replica : ~ TornSave(i)
<1>1. ASSUME NEW i \in Replica, TornSave(i) PROVE FALSE
  <2>1. torn'[i] = torn[i] + 1 /\ torn[i] \in Nat /\ torn'[i] = 0
    BY <1>1, TornCrash DEF TypeOK, NoTornSave
  <2> QED
    BY <2>1
<1>2. torn' = torn
  BY <1>1, TornStep
<1> QED
  BY <1>1, <1>2 DEF NoTornSave

\* Terms never go back, unless in a save.
LEMMA StepTerm ==
    ASSUME TypeOK, DiskIsCurrent, [Next]_vars, NEW k \in Replica, torn'[k] = torn[k]
    PROVE  currentTerm'[k] >= currentTerm[k]
<1> USE DEF nodeVars
<1>0. currentTerm \in [Replica -> Term] /\ \A t \in Term : t \in Nat
  BY ElectionAssumption DEF TypeOK, Term
<1>1. ASSUME NEW i \in Replica, ElectionTimeout(i) PROVE currentTerm'[k] >= currentTerm[k]
  BY <1>0, <1>1 DEF ElectionTimeout
<1>2. ASSUME NEW m \in requests, RequestVote(m) PROVE currentTerm'[k] >= currentTerm[k]
  <2>1. m.to \in Replica /\ m.term \in Nat /\ currentTerm[m.to] \in Nat /\ currentTerm[k] \in Nat
    BY <1>0 DEF TypeOK, VoteRequest
  <2> QED
    BY <1>0, <1>2, <2>1 DEF RequestVote
<1>3. ASSUME NEW j \in Replica, NEW m \in appends, NEW prev \in -1 .. Len(m.log) - 1,
             AppendEntries(j, m, prev)
      PROVE  currentTerm'[k] >= currentTerm[k]
  <2>1. m.term \in Nat /\ currentTerm[j] \in Nat /\ currentTerm[k] \in Nat
    BY <1>0 DEF TypeOK, AppendMessage
  <2>2. currentTerm' = [currentTerm EXCEPT ![j] = m.term] /\ m.term >= currentTerm[j]
    BY <1>3 DEF AppendEntries
  <2> QED
    BY <1>0, <2>1, <2>2
<1>4. ASSUME NEW r \in refusals, StepDown(r) PROVE currentTerm'[k] >= currentTerm[k]
  BY <1>0, <1>4 DEF StepDown, TypeOK, Refusal
<1>5. ASSUME NEW i \in Replica, Restart(i) PROVE currentTerm'[k] >= currentTerm[k]
  BY <1>0, <1>5, RestartKeeps
<1>6. ASSUME NEW i \in Replica, TornSave(i) PROVE currentTerm'[k] >= currentTerm[k]
  BY <1>0, <1>6, TornCrash
<1>7. CASE UNCHANGED currentTerm
  BY <1>0, <1>7
<1> QED
  BY <1>1, <1>2, <1>3, <1>4, <1>5, <1>6, <1>7
  DEF Next, vars, SendRequestVote, DropAnswer, KeepWaiting, ToLeader, HeartBeatCheck,
      HeartBeatSend, RefuseAppend

\* A candidate or leader keeps its vote for itself.
LEMMA StepVotedForSelf ==
    TypeOK /\ DiskIsCurrent /\ VotedForSelf /\ [Next]_vars => VotedForSelf'
<1> SUFFICES ASSUME TypeOK, DiskIsCurrent, VotedForSelf, [Next]_vars,
                    NEW k \in Replica, state'[k] # Follower
             PROVE  /\ votedFor'[k] = k
                    /\ [voter |-> k, term |-> currentTerm'[k], candidate |-> k] \in counted'
  BY DEF VotedForSelf, VotersOf
<1> USE DEF nodeVars
<1>0. /\ currentTerm \in [Replica -> Term] /\ votedFor \in [Replica -> Replica \cup {NoVote}]
      /\ state \in [Replica -> {Follower, Candidate, Leader}]
      /\ \A t \in Term : t \in Nat
      /\ NoVote \notin Replica
  BY ElectionAssumption DEF TypeOK, Term
<1>a. ASSUME state[k] # Follower
      PROVE  /\ votedFor[k] = k
             /\ [voter |-> k, term |-> currentTerm[k], candidate |-> k] \in counted
  BY <1>a DEF VotedForSelf, VotersOf
<1> DEFINE Goal == /\ votedFor'[k] = k
                   /\ [voter |-> k, term |-> currentTerm'[k], candidate |-> k] \in counted'
<1>1. ASSUME NEW i \in Replica, ElectionTimeout(i) PROVE Goal
  BY <1>0, <1>1, <1>a DEF ElectionTimeout
<1>2. ASSUME NEW m \in requests, RequestVote(m) PROVE Goal
  <2>1. m.to \in Replica /\ m.from # m.to /\ m.term \in Term
    BY DEF TypeOK, VoteRequest
  <2>2. counted' = counted /\ state[k] # Follower
    BY <1>0, <1>2, <2>1 DEF RequestVote
  <2>3. currentTerm'[k] = currentTerm[k]
    BY <1>0, <1>2, <2>1 DEF RequestVote
  <2>4. votedFor'[k] = votedFor[k]
    BY <1>0, <1>2, <1>a, <2>1, <2>2 DEF RequestVote, Grants
  <2> QED
    BY <1>a, <2>2, <2>3, <2>4
<1>3. ASSUME NEW a \in answers, CountVote(a) PROVE counted \subseteq counted'
  BY <1>3 DEF CountVote
<1>4. ASSUME NEW a \in answers, KeepWaiting(a) PROVE Goal
  BY <1>3, <1>4, <1>a DEF KeepWaiting
<1>5. ASSUME NEW a \in answers, ToLeader(a) PROVE Goal
  <2>1. CountVote(a) /\ state[a.from] = Candidate
    BY <1>5 DEF ToLeader, CountVote, Counts
  <2>2. state[k] # Follower
    BY <1>0, <1>5, <2>1 DEF ToLeader, Follower, Candidate
  <2> QED
    BY <1>3, <1>5, <1>a, <2>1, <2>2 DEF ToLeader
<1>6. ASSUME NEW j \in Replica, NEW m \in appends, NEW prev \in -1 .. Len(m.log) - 1,
             AppendEntries(j, m, prev)
      PROVE  Goal
  BY <1>0, <1>6, <1>a DEF AppendEntries
<1>7. ASSUME NEW r \in refusals, StepDown(r) PROVE Goal
  BY <1>0, <1>7, <1>a DEF StepDown, TypeOK, Refusal
<1>8. ASSUME NEW i \in Replica, Restart(i) \/ TornSave(i) PROVE Goal
  BY <1>0, <1>8, <1>a DEF Restart, TornSave, Reboot
<1>9. CASE UNCHANGED <<nodeVars, counted>>
  BY <1>9, <1>a
<1> QED
  BY <1>1, <1>2, <1>4, <1>5, <1>6, <1>7, <1>8, <1>9
  DEF Next, vars, SendRequestVote, DropAnswer, HeartBeatCheck, HeartBeatSend, RefuseAppend

\* Which actions add to the calls, the responses and the votes.
LEMMA Frames ==
    ASSUME [Next]_vars
    PROVE  /\ \/ requests' \subseteq requests
              \/ \E g \in voters : SendRequestVote(g)
              \/ \E i \in Replica : Restart(i) \/ TornSave(i)
           /\ \/ answers' \subseteq answers
              \/ \E m \in requests : RequestVote(m)
           /\ \/ counted' = counted
              \/ \E i \in Replica : ElectionTimeout(i)
              \/ \E a \in answers : CountVote(a)
<1> USE DEF nodeVars, voteVars
<1>1. ASSUME NEW i \in Replica, ElectionTimeout(i)
      PROVE  requests' \subseteq requests /\ answers' \subseteq answers
  BY <1>1 DEF ElectionTimeout
<1>2. ASSUME NEW g \in voters, SendRequestVote(g)
      PROVE  answers' \subseteq answers /\ counted' = counted
  BY <1>2 DEF SendRequestVote
<1>3. ASSUME NEW m \in requests, RequestVote(m)
      PROVE  requests' \subseteq requests /\ counted' = counted
  BY <1>3 DEF RequestVote
<1>4. ASSUME NEW a \in answers, KeepWaiting(a) \/ ToLeader(a)
      PROVE  CountVote(a) /\ requests' \subseteq requests /\ answers' \subseteq answers
  BY <1>4 DEF KeepWaiting, ToLeader, CountVote
<1> DEFINE Same == /\ requests' \subseteq requests
                   /\ answers' \subseteq answers
                   /\ counted' = counted
<1>5. ASSUME NEW a \in answers, DropAnswer(a) PROVE Same
  BY <1>5 DEF DropAnswer
<1>6. ASSUME NEW i \in Replica, HeartBeatCheck(i) \/ HeartBeatSend(i) PROVE Same
  BY <1>6 DEF HeartBeatCheck, HeartBeatSend
<1>7. ASSUME NEW j \in Replica, NEW m \in appends, NEW prev \in -1 .. Len(m.log) - 1,
             RefuseAppend(j, m, prev) \/ AppendEntries(j, m, prev)
      PROVE  Same
  BY <1>7 DEF RefuseAppend, AppendEntries
<1>8. ASSUME NEW r \in refusals, StepDown(r) PROVE Same
  BY <1>8 DEF StepDown
<1>9. ASSUME NEW i \in Replica, Restart(i) \/ TornSave(i)
      PROVE  answers' \subseteq answers /\ counted' = counted
  BY <1>9 DEF Restart, TornSave, Reboot
<1>10. CASE UNCHANGED vars
  BY <1>10 DEF vars
<1> HIDE DEF nodeVars, voteVars
<1> QED
  BY <1>1, <1>2, <1>3, <1>4, <1>5, <1>6, <1>7, <1>8, <1>9, <1>10 DEF Next

\* A request carries no later term than its sender has, if it has not lost it.
LEMMA StepNoNewerRequest ==
    TypeOK /\ DiskIsCurrent /\ NoNewerRequest /\ [Next]_vars => NoNewerRequest'
<1> SUFFICES ASSUME TypeOK, DiskIsCurrent, NoNewerRequest, [Next]_vars, NEW r \in requests'
             PROVE  \/ r.term <= currentTerm'[r.from]
                    \/ r.round = Orphan /\ torn'[r.from] > 0
  BY DEF NoNewerRequest
<1> USE DEF nodeVars, voteVars
<1>z. TypeOK'
  BY StepTypeOK
<1>0. /\ currentTerm \in [Replica -> Term] /\ \A t \in Term : t \in Nat
      /\ currentTerm' \in [Replica -> Term]
      /\ requests \subseteq VoteRequest
      /\ torn \in [Replica -> Nat] /\ torn' \in [Replica -> Nat]
  BY <1>z, ElectionAssumption DEF TypeOK, Term
<1> DEFINE Goal == \/ r.term <= currentTerm'[r.from]
                   \/ r.round = Orphan /\ torn'[r.from] > 0
<1>1. ASSUME NEW m \in requests, r.from = m.from, r.term = m.term,
             r.round \in {m.round, Orphan}, torn'[m.from] = torn[m.from]
      PROVE  Goal
  <2>1. m.from \in Replica /\ m.term \in Nat
    BY <1>0 DEF VoteRequest
  <2>2. /\ currentTerm'[m.from] >= currentTerm[m.from]
        /\ currentTerm[m.from] \in Nat /\ currentTerm'[m.from] \in Nat
    BY <1>0, <1>1, <2>1, StepTerm
  <2>3. CASE m.term <= currentTerm[m.from]
    BY <1>1, <2>1, <2>2, <2>3
  <2>4. CASE m.round = Orphan /\ torn[m.from] > 0
    BY <1>1, <2>4
  <2> QED
    BY <2>3, <2>4 DEF NoNewerRequest
<1>2. ASSUME NEW g \in voters, SendRequestVote(g), r \notin requests PROVE Goal
  <2>1. r.term = currentTerm[r.from] /\ r.from = g.from /\ currentTerm' = currentTerm
    BY <1>2 DEF SendRequestVote
  <2>2. currentTerm[g.from] \in Nat
    BY <1>0 DEF TypeOK, VoteGoroutine
  <2> QED
    BY <2>1, <2>2
<1>3. ASSUME NEW i \in Replica, Restart(i) \/ TornSave(i) PROVE Goal
  <2>1. requests' = {IF o.from = i THEN [o EXCEPT !.round = Orphan] ELSE o : o \in requests}
    BY <1>3 DEF Restart, TornSave, Reboot
  <2>2. PICK m \in requests : r = IF m.from = i THEN [m EXCEPT !.round = Orphan] ELSE m
    BY <2>1, Zenon
  <2>3. m \in VoteRequest
    BY <1>0
  <2>4. /\ r.from = m.from /\ r.term = m.term /\ m.from \in Replica
        /\ m.from = i => r.round = Orphan
        /\ m.from # i => r.round = m.round
    BY <2>2, <2>3 DEF VoteRequest
  <2>5. CASE TornSave(i) /\ m.from = i
    <3>1. torn'[i] = torn[i] + 1 /\ torn[i] \in Nat
      BY <1>0, <2>5, TornCrash
    <3> QED
      BY <2>4, <2>5, <3>1
  <2>6. CASE TornSave(i) /\ m.from # i
    <3>1. torn'[m.from] = torn[m.from]
      BY <2>4, <2>6, TornCrash
    <3> QED
      BY <1>1, <2>4, <2>6, <3>1
  <2>7. CASE Restart(i)
    <3>1. torn' = torn
      BY <2>7 DEF Restart
    <3> QED
      BY <1>1, <2>4, <3>1
  <2> QED
    BY <1>3, <2>5, <2>6, <2>7
<1>4. CASE r \in requests /\ ~ \E i \in Replica : Restart(i) \/ TornSave(i)
  <2>1. torn' = torn
    BY <1>4, TornStep
  <2> QED
    BY <1>1, <1>4, <2>1
<1> QED
  BY <1>2, <1>3, <1>4, Frames

\* RequestVote gives its vote, with the term and the vote as ToFollower leaves them.
GivesVote(m) ==
    LET newer == m.term > currentTerm[m.to]
    IN  Grants(m, IF newer THEN m.term ELSE currentTerm[m.to],
                  IF newer THEN NoVote ELSE votedFor[m.to])

\* The answers a step adds are RequestVote's.
LEMMA NewAnswer ==
    ASSUME [Next]_vars, NEW a \in answers', a \notin answers
    PROVE  \E m \in requests :
              /\ RequestVote(m) /\ m.round # Orphan
              /\ a.from = m.from /\ a.to = m.to /\ a.term = m.term
              /\ a.granted = GivesVote(m)
<1>1. PICK m \in requests : RequestVote(m)
  BY Frames
<1>2. PICK granted :
         /\ granted = GivesVote(m)
         /\ answers' = answers \cup
               (IF m.round = Orphan THEN {}
                ELSE {[from |-> m.from, to |-> m.to, round |-> m.round,
                       term |-> m.term, granted |-> granted]})
  BY <1>1 DEF RequestVote, GivesVote
<1>3. /\ m.round # Orphan
      /\ a = [from |-> m.from, to |-> m.to, round |-> m.round, term |-> m.term,
              granted |-> granted]
  BY <1>2
<1> QED
  BY <1>1, <1>2, <1>3

\* An answer carries no later term than its candidate has.
LEMMA StepNoNewerAnswer ==
    TypeOK /\ DiskIsCurrent /\ NoNewerRequest /\ NoNewerAnswer /\ [Next]_vars => NoNewerAnswer'
<1> SUFFICES ASSUME TypeOK, DiskIsCurrent, NoNewerRequest, NoNewerAnswer, [Next]_vars,
                    NEW a \in answers'
             PROVE  a.term <= currentTerm'[a.from]
  BY DEF NoNewerAnswer
<1>1. TypeOK'
  BY StepTypeOK
<1>2. a.from \in Replica /\ a.term \in Term
  BY <1>1 DEF TypeOK, VoteAnswer
<1>3. a.term <= currentTerm[a.from]
  BY NewAnswer DEF NoNewerAnswer, NoNewerRequest
<1>4. currentTerm'[a.from] >= currentTerm[a.from]
  <2>1. ASSUME TornSave(a.from) PROVE FALSE
    BY <2>1 DEF TornSave, Reboot
  <2>2. torn'[a.from] = torn[a.from]
    BY <1>2, <2>1, TornStep, TornCrash
  <2> QED
    BY <1>2, <2>2, StepTerm
<1>5. /\ a.term \in Nat /\ currentTerm[a.from] \in Nat /\ currentTerm'[a.from] \in Nat
  BY <1>1, <1>2, ElectionAssumption DEF TypeOK, Term
<1> QED
  BY <1>3, <1>4, <1>5

\* What the lemmas on votes use of the invariant.
LEMMA VoteTypes ==
    ASSUME TypeOK
    PROVE  /\ currentTerm \in [Replica -> Term] /\ votedFor \in [Replica -> Replica \cup {NoVote}]
           /\ \A t \in Term : t \in Nat
           /\ NoVote \notin Replica
           /\ \A m \in requests : /\ m.from \in Replica /\ m.to \in Replica /\ m.from # m.to
                                  /\ m.term \in Nat
           /\ \A a \in answers : /\ a.from \in Replica /\ a.to \in Replica /\ a.from # a.to
                                 /\ a.term \in Nat
           /\ \A k \in Replica : currentTerm[k] \in Nat
BY ElectionAssumption DEF TypeOK, Term, VoteRequest, VoteAnswer

\* What RequestVote does to the replica it is for, and that it leaves the others alone.
LEMMA RequestVoteVote ==
    ASSUME TypeOK, NEW m \in requests, RequestVote(m), NEW k \in Replica
    PROVE  /\ k # m.to => currentTerm'[k] = currentTerm[k] /\ votedFor'[k] = votedFor[k]
           /\ m.term > currentTerm[m.to] =>
                /\ currentTerm'[m.to] = m.term
                /\ votedFor'[m.to] \in {NoVote, m.from}
           /\ ~ m.term > currentTerm[m.to] =>
                /\ currentTerm'[m.to] = currentTerm[m.to]
                /\ \/ votedFor'[m.to] = votedFor[m.to]
                   \/ /\ votedFor[m.to] = NoVote /\ m.term = currentTerm[m.to]
                      /\ votedFor'[m.to] = m.from
<1>1. m.to \in Replica /\ m.from \in Replica /\ NoVote \notin Replica
  BY VoteTypes
<1>2. /\ currentTerm' = [currentTerm EXCEPT ![m.to] =
                           IF m.term > currentTerm[m.to] THEN m.term ELSE currentTerm[m.to]]
      /\ currentTerm \in [Replica -> Term]
  BY VoteTypes DEF RequestVote
<1>3. /\ votedFor' = [votedFor EXCEPT ![m.to] =
                        LET newer == m.term > currentTerm[m.to]
                            vote == IF newer THEN NoVote ELSE votedFor[m.to]
                        IN  IF Grants(m, IF newer THEN m.term ELSE currentTerm[m.to], vote)
                            THEN m.from ELSE vote]
      /\ votedFor \in [Replica -> Replica \cup {NoVote}]
  BY VoteTypes DEF RequestVote
<1>4. /\ k # m.to => currentTerm'[k] = currentTerm[k]
      /\ m.term > currentTerm[m.to] => currentTerm'[m.to] = m.term
      /\ ~ m.term > currentTerm[m.to] => currentTerm'[m.to] = currentTerm[m.to]
  BY <1>1, <1>2
<1>5. k # m.to => votedFor'[k] = votedFor[k]
  BY <1>1, <1>3
<1>6. CASE m.term > currentTerm[m.to]
  <2>1. votedFor'[m.to] \in {NoVote, m.from}
    BY <1>1, <1>3, <1>6
  <2> QED
    BY <1>4, <1>5, <1>6, <2>1
<1>7. CASE ~ m.term > currentTerm[m.to]
  <2>1. votedFor'[m.to] = IF Grants(m, currentTerm[m.to], votedFor[m.to])
                          THEN m.from ELSE votedFor[m.to]
    BY <1>1, <1>3, <1>7
  <2> QED
    BY <1>4, <1>5, <1>7, <2>1 DEF Grants
<1> QED
  BY <1>6, <1>7

\* What AppendEntries and a step down do to votes.
LEMMA AppendEntriesVote ==
    ASSUME TypeOK, NEW j \in Replica, NEW m \in appends, NEW prev \in -1 .. Len(m.log) - 1,
           AppendEntries(j, m, prev), NEW k \in Replica
    PROVE  \/ /\ currentTerm'[k] = currentTerm[k]
              /\ votedFor'[k] = votedFor[k]
           \/ /\ votedFor'[k] = NoVote
              /\ currentTerm'[k] = currentTerm[k] => state[k] = Candidate
<1>1. /\ currentTerm' = [currentTerm EXCEPT ![j] = m.term]
      /\ votedFor' = [votedFor EXCEPT ![j] =
                        IF m.term > currentTerm[j] \/ state[j] = Candidate THEN NoVote ELSE @]
      /\ m.term >= currentTerm[j]
  BY DEF AppendEntries
<1>2. m.term \in Nat /\ \A i \in Replica : currentTerm[i] \in Nat
  BY VoteTypes DEF TypeOK, AppendMessage
<1>3. currentTerm \in [Replica -> Term] /\ votedFor \in [Replica -> Replica \cup {NoVote}]
  BY VoteTypes
<1>4. CASE k # j
  BY <1>1, <1>3, <1>4
<1>5. CASE k = j
  BY <1>1, <1>2, <1>3, <1>5
<1> QED
  BY <1>4, <1>5

\* A vote for another replica is not changed or forgotten within its term.
LEMMA StepVoteStands ==
    ASSUME TypeOK, DiskIsCurrent, VotedForSelf, [Next]_vars,
           NEW k \in Replica, torn'[k] = torn[k], currentTerm'[k] = currentTerm[k],
           votedFor[k] \in Replica \ {k}
    PROVE  votedFor'[k] = votedFor[k]
<1> USE DEF nodeVars
<1>0. /\ currentTerm \in [Replica -> Term] /\ votedFor \in [Replica -> Replica \cup {NoVote}]
      /\ \A i \in Replica : currentTerm[i] \in Nat
      /\ NoVote \notin Replica
  BY VoteTypes
<1>1. ASSUME NEW i \in Replica, ElectionTimeout(i) PROVE votedFor'[k] = votedFor[k]
  <2>1. k # i
    BY <1>0, <1>1 DEF ElectionTimeout
  <2> QED
    BY <1>0, <1>1, <2>1 DEF ElectionTimeout
<1>2. ASSUME NEW m \in requests, RequestVote(m) PROVE votedFor'[k] = votedFor[k]
  <2>1. m.term \in Nat /\ m.to \in Replica
    BY VoteTypes
  <2> QED
    BY <1>0, <1>2, <2>1, RequestVoteVote
<1>3. ASSUME NEW j \in Replica, NEW m \in appends, NEW prev \in -1 .. Len(m.log) - 1,
             AppendEntries(j, m, prev)
      PROVE  votedFor'[k] = votedFor[k]
  <2>1. state[k] # Candidate
    BY DEF VotedForSelf, Candidate, Follower
  <2> QED
    BY <1>3, <2>1, AppendEntriesVote
<1>4. ASSUME NEW r \in refusals, StepDown(r) PROVE votedFor'[k] = votedFor[k]
  <2>1. r.leader \in Replica /\ r.term \in Nat
    BY VoteTypes DEF TypeOK, Refusal
  <2>2. k # r.leader
    BY <1>0, <1>4, <2>1 DEF StepDown
  <2> QED
    BY <1>0, <1>4, <2>1, <2>2 DEF StepDown
<1>5. ASSUME NEW i \in Replica, Restart(i) PROVE votedFor'[k] = votedFor[k]
  BY <1>5, RestartKeeps
<1>6. ASSUME NEW i \in Replica, TornSave(i) PROVE votedFor'[k] = votedFor[k]
  BY <1>6, TornCrash
<1>7. CASE UNCHANGED votedFor
  BY <1>7
<1> QED
  BY <1>1, <1>2, <1>3, <1>4, <1>5, <1>6, <1>7
  DEF Next, vars, SendRequestVote, DropAnswer, KeepWaiting, ToLeader, HeartBeatCheck,
      HeartBeatSend, RefuseAppend

\* Nobody is voted for in a term it has not reached.
LEMMA StepVotedForReached ==
    TypeOK /\ DiskIsCurrent /\ NoNewerRequest /\ VotedForReached /\ [Next]_vars => VotedForReached'
<1> SUFFICES ASSUME TypeOK, DiskIsCurrent, NoNewerRequest, VotedForReached, [Next]_vars,
                    NoTornSave', NEW k \in Replica, votedFor'[k] \in Replica
             PROVE  currentTerm'[k] <= currentTerm'[votedFor'[k]]
  BY DEF VotedForReached
<1> USE DEF nodeVars
<1>t. NoTornSave /\ torn' = torn /\ \A i \in Replica : ~ TornSave(i)
  BY NoneTorn
<1> DEFINE c == votedFor'[k]
<1>0. /\ currentTerm \in [Replica -> Term] /\ votedFor \in [Replica -> Replica \cup {NoVote}]
      /\ \A i \in Replica : currentTerm[i] \in Nat
      /\ NoVote \notin Replica
  BY VoteTypes
<1>a. /\ currentTerm'[k] \in Nat
      /\ c \in Replica /\ currentTerm[c] \in Nat /\ currentTerm'[c] \in Nat
      /\ currentTerm'[c] >= currentTerm[c]
  <2>1. TypeOK'
    BY StepTypeOK
  <2>2. \A i \in Replica : currentTerm'[i] \in Nat
    BY <2>1, ElectionAssumption DEF TypeOK, Term
  <2> QED
    BY <1>0, <1>t, <2>2, StepTerm
<1>b. ASSUME votedFor[k] = c, currentTerm'[k] = currentTerm[k]
      PROVE  currentTerm'[k] <= currentTerm'[c]
  BY <1>0, <1>a, <1>b, <1>t DEF VotedForReached
<1>1. ASSUME NEW i \in Replica, ElectionTimeout(i) PROVE currentTerm'[k] <= currentTerm'[c]
  <2>1. CASE k = i
    BY <1>0, <1>1, <1>a, <2>1 DEF ElectionTimeout
  <2>2. CASE k # i
    BY <1>0, <1>1, <1>b, <2>2 DEF ElectionTimeout
  <2> QED
    BY <2>1, <2>2
<1>2. ASSUME NEW m \in requests, RequestVote(m) PROVE currentTerm'[k] <= currentTerm'[c]
  <2>1. m.term \in Nat /\ m.to \in Replica /\ m.from \in Replica /\ m.term <= currentTerm[m.from]
    BY <1>t, VoteTypes DEF NoNewerRequest, NoTornSave
  <2>2. \/ votedFor[k] = c /\ currentTerm'[k] = currentTerm[k]
        \/ c = m.from /\ currentTerm'[k] = m.term
    BY <1>0, <1>2, <1>a, <2>1, RequestVoteVote
  <2>3. ASSUME c = m.from, currentTerm'[k] = m.term PROVE currentTerm'[k] <= currentTerm'[c]
    BY <1>a, <2>1, <2>3
  <2> QED
    BY <1>b, <2>2, <2>3
<1>3. ASSUME NEW j \in Replica, NEW m \in appends, NEW prev \in -1 .. Len(m.log) - 1,
             AppendEntries(j, m, prev)
      PROVE  currentTerm'[k] <= currentTerm'[c]
  <2>1. votedFor[k] = c /\ currentTerm'[k] = currentTerm[k]
    BY <1>0, <1>3, <1>a, AppendEntriesVote
  <2> QED
    BY <1>b, <2>1
<1>4. ASSUME NEW r \in refusals, StepDown(r) PROVE currentTerm'[k] <= currentTerm'[c]
  <2>1. r.leader \in Replica
    BY DEF TypeOK, Refusal
  <2>2. votedFor[k] = c /\ currentTerm'[k] = currentTerm[k]
    BY <1>0, <1>4, <1>a, <2>1 DEF StepDown
  <2> QED
    BY <1>b, <2>2
<1>5. ASSUME NEW i \in Replica, Restart(i) PROVE currentTerm'[k] <= currentTerm'[c]
  <2>1. votedFor[k] = c /\ currentTerm'[k] = currentTerm[k]
    BY <1>5, RestartKeeps
  <2> QED
    BY <1>b, <2>1
<1>6. CASE UNCHANGED <<votedFor, currentTerm>>
  BY <1>6, <1>b
<1> QED
  BY <1>t, <1>1, <1>2, <1>3, <1>4, <1>5, <1>6
  DEF Next, vars, SendRequestVote, DropAnswer, KeepWaiting, ToLeader, HeartBeatCheck,
      HeartBeatSend, RefuseAppend

\* A live vote was live before the step, or RequestVote has just given it.
LEMMA StepLiveVotes ==
    ASSUME TypeOK, DiskIsCurrent, NoNewerRequest, NoNewerAnswer, [Next]_vars, NoTornSave',
           NEW u \in LiveVotes'
    PROVE  /\ u.voter \in Replica /\ u.candidate \in Replica /\ u.voter # u.candidate
           /\ u.term \in Nat
           /\ \/ u \in LiveVotes
              \/ \E m \in requests :
                    /\ RequestVote(m)
                    /\ u.voter = m.to /\ u.candidate = m.from /\ u.term = m.term
                    /\ m.term = currentTerm[m.from]
                    /\ GivesVote(m)
<1>0. TypeOK'
  BY StepTypeOK
<1>t. NoTornSave /\ torn' = torn
  BY NoneTorn
<1>1. CASE u \in counted' /\ u.voter # u.candidate
  <2>1. u.voter \in Replica /\ u.candidate \in Replica /\ u.term \in Nat
    BY <1>0, <1>1, ElectionAssumption DEF TypeOK, Vote, Term
  <2>2. u \in LiveVotes
    <3>1. CASE u \in counted
      BY <1>1, <3>1 DEF LiveVotes
    <3>2. ASSUME NEW i \in Replica, ElectionTimeout(i), u \notin counted PROVE FALSE
      BY <1>1, <3>2 DEF ElectionTimeout
    <3>3. ASSUME NEW a \in answers, CountVote(a), u \notin counted PROVE u \in LiveVotes
      BY <1>1, <3>3 DEF CountVote, Counts, LiveVotes
    <3> QED
      BY <1>1, <3>1, <3>2, <3>3, Frames
  <2> QED
    BY <1>1, <2>1, <2>2
<1>2. ASSUME NEW a \in answers', a.granted, a.term = currentTerm'[a.from],
             u = [voter |-> a.to, term |-> a.term, candidate |-> a.from]
      PROVE  /\ u.voter \in Replica /\ u.candidate \in Replica /\ u.voter # u.candidate
             /\ u.term \in Nat
             /\ \/ u \in LiveVotes
                \/ \E m \in requests :
                      /\ RequestVote(m)
                      /\ u.voter = m.to /\ u.candidate = m.from /\ u.term = m.term
                      /\ m.term = currentTerm[m.from]
                      /\ GivesVote(m)
  <2>1. a.from \in Replica /\ a.to \in Replica /\ a.from # a.to /\ a.term \in Nat
    BY <1>0, ElectionAssumption DEF TypeOK, VoteAnswer, Term
  <2>2. currentTerm[a.from] \in Nat /\ currentTerm'[a.from] >= currentTerm[a.from]
    BY <1>t, <2>1, VoteTypes, StepTerm
  <2>3. CASE a \in answers
    <3>1. a.term <= currentTerm[a.from]
      BY <2>3 DEF NoNewerAnswer
    <3>2. a.term = currentTerm[a.from]
      BY <1>2, <2>1, <2>2, <3>1
    <3>3. u \in LiveVotes
      BY <1>2, <2>3, <3>2 DEF LiveVotes
    <3> QED
      BY <1>2, <2>1, <3>3
  <2>4. CASE a \notin answers
    <3>1. PICK m \in requests :
             /\ RequestVote(m)
             /\ a.from = m.from /\ a.to = m.to /\ a.term = m.term
             /\ a.granted = GivesVote(m)
      BY <2>4, NewAnswer
    <3>2. m.term <= currentTerm[m.from]
      BY <1>t, VoteTypes DEF NoNewerRequest, NoTornSave
    <3>3. m.term = currentTerm[m.from]
      BY <1>2, <2>1, <2>2, <3>1, <3>2
    <3> QED
      BY <1>2, <2>1, <3>1, <3>3
  <2> QED
    BY <2>3, <2>4
<1>3. \/ u \in counted' /\ u.voter # u.candidate
      \/ \E a \in answers' : /\ a.granted /\ a.term = currentTerm'[a.from]
                             /\ u = [voter |-> a.to, term |-> a.term, candidate |-> a.from]
  BY DEF LiveVotes
<1> QED
  BY <1>1, <1>2, <1>3

\* The types of a live vote; nobody's vote for itself is one.
LEMMA LiveVoteType ==
    ASSUME TypeOK, NEW u \in LiveVotes
    PROVE  /\ u.voter \in Replica /\ u.candidate \in Replica /\ u.voter # u.candidate
           /\ u.term \in Nat
<1>0. \A t \in Term : t \in Nat
  BY ElectionAssumption DEF Term
<1>1. CASE u \in counted /\ u.voter # u.candidate
  <2>1. u \in Vote
    BY <1>1 DEF TypeOK
  <2> QED
    BY <1>0, <1>1, <2>1 DEF Vote
<1>2. ASSUME NEW a \in answers, u = [voter |-> a.to, term |-> a.term, candidate |-> a.from]
      PROVE  /\ u.voter \in Replica /\ u.candidate \in Replica /\ u.voter # u.candidate
             /\ u.term \in Nat
  <2>1. a \in VoteAnswer /\ a.from # a.to
    BY DEF TypeOK
  <2> QED
    BY <1>0, <1>2, <2>1 DEF VoteAnswer
<1> QED
  BY <1>1, <1>2 DEF LiveVotes

\* The voter remembers each live vote until it moves to a later term.
LEMMA StepLiveVotesRemembered ==
    ASSUME TypeOK, DiskIsCurrent, VotedForSelf, NoNewerRequest, NoNewerAnswer,
           LiveVotesRemembered, [Next]_vars
    PROVE  LiveVotesRemembered'
<1> SUFFICES ASSUME NoTornSave', NEW u \in LiveVotes'
             PROVE  /\ u.term <= currentTerm'[u.voter]
                    /\ u.term = currentTerm'[u.voter] => votedFor'[u.voter] = u.candidate
  BY DEF LiveVotesRemembered
<1>t. NoTornSave /\ torn' = torn
  BY NoneTorn
<1>1. u.voter \in Replica /\ u.candidate \in Replica /\ u.voter # u.candidate /\ u.term \in Nat
  BY StepLiveVotes
<1>2. /\ currentTerm[u.voter] \in Nat /\ currentTerm'[u.voter] \in Nat
      /\ currentTerm'[u.voter] >= currentTerm[u.voter]
  <2>1. TypeOK'
    BY StepTypeOK
  <2> QED
    BY <1>1, <1>t, <2>1, VoteTypes, StepTerm, ElectionAssumption DEF TypeOK, Term
<1>3. CASE u \in LiveVotes
  <2>1. /\ u.term <= currentTerm[u.voter]
        /\ u.term = currentTerm[u.voter] => votedFor[u.voter] = u.candidate
    BY <1>3, <1>t DEF LiveVotesRemembered
  <2>2. ASSUME u.term = currentTerm'[u.voter] PROVE votedFor'[u.voter] = u.candidate
    <3>1. currentTerm'[u.voter] = currentTerm[u.voter] /\ votedFor[u.voter] = u.candidate
      BY <1>1, <1>2, <2>1, <2>2
    <3> QED
      BY <1>1, <1>t, <3>1, StepVoteStands
  <2> QED
    BY <1>1, <1>2, <2>1, <2>2
<1>4. ASSUME NEW m \in requests, RequestVote(m),
             u.voter = m.to, u.candidate = m.from, u.term = m.term,
             GivesVote(m)
      PROVE  /\ u.term <= currentTerm'[u.voter]
             /\ u.term = currentTerm'[u.voter] => votedFor'[u.voter] = u.candidate
  <2>1. votedFor'[m.to] = m.from
    BY <1>1, <1>4, VoteTypes DEF RequestVote, GivesVote
  <2>2. m.term <= currentTerm'[m.to]
    BY <1>1, <1>2, <1>4, RequestVoteVote
  <2> QED
    BY <1>4, <2>1, <2>2
<1> QED
  BY <1>3, <1>4, StepLiveVotes

\* The live votes of one replica in one term are for one candidate.
LEMMA StepOneVotePerTerm ==
    ASSUME TypeOK, DiskIsCurrent, NoNewerRequest, NoNewerAnswer, VotedForReached,
           LiveVotesRemembered, OneVotePerTerm, [Next]_vars
    PROVE  OneVotePerTerm'
<1> SUFFICES ASSUME NoTornSave' PROVE OneVotePerTerm'
  BY DEF OneVotePerTerm
<1>t. NoTornSave
  BY NoneTorn
<1>1. ASSUME NEW w \in LiveVotes, NEW m \in requests, RequestVote(m),
             m.term = currentTerm[m.from], w.voter = m.to, w.term = m.term,
             GivesVote(m)
      PROVE  w.candidate = m.from
  <2>1. /\ m.to \in Replica /\ m.from \in Replica /\ m.term \in Nat /\ NoVote \notin Replica
        /\ currentTerm[m.to] \in Nat
    BY VoteTypes
  <2>2. w.candidate \in Replica
    BY LiveVoteType
  <2>3. /\ m.term <= currentTerm[m.to]
        /\ m.term = currentTerm[m.to] => votedFor[m.to] = w.candidate
    BY <1>1, <1>t DEF LiveVotesRemembered
  <2>4. Grants(m, currentTerm[m.to], votedFor[m.to])
    BY <1>1, <2>1, <2>3 DEF GivesVote
  <2>5. CASE m.term = currentTerm[m.to]
    BY <2>1, <2>2, <2>3, <2>4, <2>5 DEF Grants
  <2>6. CASE m.term # currentTerm[m.to]
    <3>1. votedFor[m.to] = m.from
      BY <2>4, <2>6 DEF Grants
    <3>2. currentTerm[m.to] <= currentTerm[m.from]
      BY <1>t, <2>1, <3>1 DEF VotedForReached
    <3> QED
      BY <1>1, <2>1, <2>3, <2>6, <3>2
  <2> QED
    BY <2>5, <2>6
<1> SUFFICES ASSUME NEW u \in LiveVotes', NEW w \in LiveVotes',
                    u.voter = w.voter, u.term = w.term
             PROVE  u.candidate = w.candidate
  BY DEF OneVotePerTerm
<1>2. CASE u \in LiveVotes /\ w \in LiveVotes
  BY <1>2, <1>t DEF OneVotePerTerm
<1>3. CASE u \in LiveVotes /\ w \notin LiveVotes
  BY <1>1, <1>3, StepLiveVotes
<1>4. CASE u \notin LiveVotes /\ w \in LiveVotes
  BY <1>1, <1>4, StepLiveVotes
<1>5. CASE u \notin LiveVotes /\ w \notin LiveVotes
  <2>1. PICK m \in requests : RequestVote(m) /\ u.candidate = m.from
    BY <1>5, StepLiveVotes
  <2>2. PICK n \in requests : RequestVote(n) /\ w.candidate = n.from
    BY <1>5, StepLiveVotes
  <2>3. m = n
    BY <2>1, <2>2 DEF RequestVote
  <2> QED
    BY <2>1, <2>2, <2>3
<1> QED
  BY <1>2, <1>3, <1>4, <1>5

\* Every step keeps the invariant.
LEMMA NextIInv == IInv /\ [Next]_vars => IInv'
BY StepTypeOK, StepDisk, StepVotedForSelf, StepNoNewerRequest, StepNoNewerAnswer,
   StepVotedForReached, StepLiveVotesRemembered, StepOneVotePerTerm
DEF IInv

-----------------------------------------------------------------------------
\* The invariant holds in every cluster, for every bound on terms and crashes.
THEOREM Invariance == Spec => []IInv
BY InitIInv, NextIInv, PTL DEF Spec

\* Every variable keeps the code's types.
THEOREM TypeCorrect == Spec => []TypeOK
<1>1. IInv => TypeOK
  BY DEF IInv
<1> QED
  BY <1>1, Invariance, PTL

\* No replica votes for two candidates in one term (RequestVote and all that resets
\* votedFor: ToFollower, AppendEntries, restarts), if no crash comes inside a save.
THEOREM OneVote == Spec => []OneVotePerTerm
<1>1. IInv => OneVotePerTerm
  BY DEF IInv
<1> QED
  BY <1>1, Invariance, PTL

\* No answer to RequestVote makes a candidate step down.
THEOREM NobodyStepsDown == Spec => []NoNewerAnswer
<1>1. IInv => NoNewerAnswer
  BY DEF IInv
<1> QED
  BY <1>1, Invariance, PTL

\* Terms never go back, and a restart does not take one back either, but after a crash
\* between os.Create and Encode of WriteFile.
THEOREM TermsGrow == Spec => TermNeverDecreases
<1>1. IInv /\ [Next]_vars => 
         [\A i \in Replica : torn'[i] = torn[i] => currentTerm'[i] >= currentTerm[i]]_vars
  BY StepTerm DEF IInv, vars, crashVars
<1> QED
  BY <1>1, Invariance, PTL DEF Spec, TermNeverDecreases

\* A vote for another replica stands for the rest of its term, but after such a crash.
THEOREM VotesStand == Spec => VoteForOtherStands
<1>1. IInv /\ [Next]_vars =>
         [\A i \in Replica :
             /\ torn'[i] = torn[i]
             /\ currentTerm'[i] = currentTerm[i]
             /\ votedFor[i] \in Replica \ {i}
             => votedFor'[i] = votedFor[i]]_vars
  BY StepVoteStands DEF IInv
<1> QED
  BY <1>1, Invariance, PTL DEF Spec, VoteForOtherStands

\* Two leaders of one term that each have a majority of it are the same: their
\* majorities share a replica, which voted for both.  Only a crash inside a save can
\* make it forget the first vote.
THEOREM MajorityLeaders == Spec => []MajorityElectionSafety
<1>1. IInv => MajorityElectionSafety
  <2> SUFFICES ASSUME IInv, NoTornSave, NEW i \in Replica, NEW k \in Replica,
                      state[i] = Leader, HasMajority(i), state[k] = Leader, HasMajority(k),
                      currentTerm[i] = currentTerm[k]
               PROVE  i = k
    BY DEF MajorityElectionSafety
  <2> DEFINE t == currentTerm[i]
  <2>1. VotersOf(i, t) \subseteq Replica /\ VotersOf(k, t) \subseteq Replica
    BY DEF VotersOf
  <2>2. VotersOf(i, t) \cap VotersOf(k, t) # {}
    <3>1. Cardinality(VotersOf(i, t)) * 2 > Cardinality(Replica)
      BY DEF HasMajority, WinsElection
    <3>2. Cardinality(VotersOf(k, t)) * 2 > Cardinality(Replica)
      BY DEF HasMajority, WinsElection
    <3>3. /\ Cardinality(VotersOf(i, t)) \in Nat /\ Cardinality(VotersOf(k, t)) \in Nat
          /\ Cardinality(Replica) \in Nat
      BY <2>1, ElectionAssumption, FS_Subset, FS_CardinalityType
    <3>4. Cardinality(VotersOf(i, t)) + Cardinality(VotersOf(k, t)) > Cardinality(Replica)
      BY <3>1, <3>2, <3>3
    <3> QED
      BY <2>1, <3>4, ElectionAssumption, FS_MajoritiesIntersect
  <2>3. PICK v \in Replica : /\ [voter |-> v, term |-> t, candidate |-> i] \in counted
                             /\ [voter |-> v, term |-> t, candidate |-> k] \in counted
    BY <2>2 DEF VotersOf
  <2>4. votedFor[i] = i /\ votedFor[k] = k
    BY DEF IInv, VotedForSelf, Follower, Leader
  <2>5. ASSUME v # i PROVE [voter |-> v, term |-> t, candidate |-> i] \in LiveVotes
    BY <2>3, <2>5 DEF LiveVotes
  <2>6. ASSUME v # k PROVE [voter |-> v, term |-> t, candidate |-> k] \in LiveVotes
    BY <2>3, <2>6 DEF LiveVotes
  <2>7. CASE v # i /\ v # k
    BY <2>5, <2>6, <2>7 DEF IInv, OneVotePerTerm
  <2>8. CASE v = i /\ v # k
    BY <2>4, <2>6, <2>8 DEF IInv, LiveVotesRemembered
  <2>9. CASE v # i /\ v = k
    BY <2>4, <2>5, <2>9 DEF IInv, LiveVotesRemembered
  <2> QED
    BY <2>7, <2>8, <2>9
<1> QED
  BY <1>1, Invariance, PTL

-----------------------------------------------------------------------------
\* A leader that stays one in its term keeps the votes it has counted.
LEMMA LeaderStays ==
    ASSUME TypeOK, [Next]_vars, NEW k \in Replica, state'[k] = Leader
    PROVE  \/ /\ state[k] = Leader /\ currentTerm'[k] = currentTerm[k]
              /\ counted \subseteq counted'
           \/ \E a \in answers : a.from = k /\ ToLeader(a)
<1> USE DEF nodeVars
<1> DEFINE Goal == /\ state[k] = Leader /\ currentTerm'[k] = currentTerm[k]
                   /\ counted \subseteq counted'
<1>0. /\ currentTerm \in [Replica -> Term]
      /\ state \in [Replica -> {Follower, Candidate, Leader}]
  BY DEF TypeOK
<1>1. ASSUME NEW i \in Replica, ElectionTimeout(i) PROVE Goal
  BY <1>0, <1>1 DEF ElectionTimeout, Candidate, Leader
<1>2. ASSUME NEW m \in requests, RequestVote(m) PROVE Goal
  <2>1. m.to \in Replica
    BY DEF TypeOK, VoteRequest
  <2> QED
    BY <1>0, <1>2, <2>1 DEF RequestVote, Follower, Leader
<1>3. ASSUME NEW a \in answers, KeepWaiting(a) PROVE Goal
  BY <1>3 DEF KeepWaiting, CountVote
<1>4. ASSUME NEW a \in answers, ToLeader(a), a.from # k PROVE Goal
  BY <1>0, <1>4 DEF ToLeader, CountVote
<1>5. ASSUME NEW j \in Replica, NEW m \in appends, NEW prev \in -1 .. Len(m.log) - 1,
             AppendEntries(j, m, prev)
      PROVE  Goal
  BY <1>0, <1>5 DEF AppendEntries, Follower, Leader
<1>6. ASSUME NEW r \in refusals, StepDown(r) PROVE Goal
  BY <1>0, <1>6 DEF StepDown, TypeOK, Refusal, Follower, Leader
<1>7. ASSUME NEW i \in Replica, Restart(i) \/ TornSave(i) PROVE Goal
  BY <1>0, <1>7 DEF Restart, TornSave, Reboot, Follower, Leader
<1>8. CASE UNCHANGED <<nodeVars, counted>>
  BY <1>8
<1> QED
  BY <1>1, <1>2, <1>3, <1>4, <1>5, <1>6, <1>7, <1>8
  DEF Next, vars, SendRequestVote, DropAnswer, HeartBeatCheck, HeartBeatSend, RefuseAppend

\* Among at most three replicas two are a majority.
LEMMA TwoAreMajority ==
    ASSUME Cardinality(Replica) <= 3, NEW S \in SUBSET Replica,
           NEW i \in S, NEW k \in S, i # k
    PROVE  WinsElection(Cardinality(S))
<1>1. IsFiniteSet(Replica) /\ IsFiniteSet(S) /\ Cardinality(S) \in Nat
  BY ElectionAssumption, FS_Subset, FS_CardinalityType
<1>2. Cardinality(Replica) \in Nat
  BY <1>1, FS_CardinalityType
<1>3. IsFiniteSet({i}) /\ Cardinality({i}) = 1
  BY FS_Singleton
<1>4. Cardinality({i} \cup {k}) = 2
  BY <1>3, FS_AddElement
<1>5. Cardinality({i} \cup {k}) <= Cardinality(S)
  <2>1. {i} \cup {k} \in SUBSET S
    OBVIOUS
  <2> QED
    BY <1>1, <2>1, FS_Subset
<1> QED
  BY <1>1, <1>2, <1>4, <1>5 DEF WinsElection

\* With a vote of another replica, for the term that StartElection compares the answer
\* with, a leader of at most three replicas has a majority of that term, whatever its
\* counter has counted.  (Four replicas break this: see MCElectionNoMajority.)
THEOREM SmallClusterMajority ==
    ASSUME Cardinality(Replica) <= 3
    PROVE  Spec => []LeaderHasMajority
<1>1. Init => LeaderHasMajority
  BY DEF Init, LeaderHasMajority, Follower, Leader
<1>2. ASSUME IInv, LeaderHasMajority, [Next]_vars, NEW k \in Replica, state'[k] = Leader
      PROVE  WinsElection(Cardinality(VotersOf(k, currentTerm[k])'))
  <2>1. VotersOf(k, currentTerm[k])' \in SUBSET Replica
    BY DEF VotersOf
  <2>2. CASE /\ state[k] = Leader /\ currentTerm'[k] = currentTerm[k]
             /\ counted \subseteq counted'
    <3>1. VotersOf(k, currentTerm[k]) \in SUBSET VotersOf(k, currentTerm[k])'
      BY <2>2 DEF VotersOf
    <3>2. /\ IsFiniteSet(VotersOf(k, currentTerm[k])')
          /\ IsFiniteSet(VotersOf(k, currentTerm[k]))
          /\ Cardinality(VotersOf(k, currentTerm[k])) <= Cardinality(VotersOf(k, currentTerm[k])')
      BY <2>1, <3>1, ElectionAssumption, FS_Subset
    <3>3. /\ Cardinality(VotersOf(k, currentTerm[k])) \in Nat
          /\ Cardinality(VotersOf(k, currentTerm[k])') \in Nat
          /\ Cardinality(Replica) \in Nat
      BY <3>2, ElectionAssumption, FS_CardinalityType
    <3>4. WinsElection(Cardinality(VotersOf(k, currentTerm[k])))
      BY <1>2, <2>2 DEF LeaderHasMajority, HasMajority
    <3> QED
      BY <3>2, <3>3, <3>4 DEF WinsElection
  <2>3. ASSUME NEW a \in answers, a.from = k, ToLeader(a)
        PROVE  WinsElection(Cardinality(VotersOf(k, currentTerm[k])'))
    <3>1. /\ a.to \in Replica /\ a.to # k /\ state[k] = Candidate
          /\ a.term = currentTerm[k] /\ currentTerm'[k] = currentTerm[k]
          /\ counted' = counted \cup {[voter |-> a.to, term |-> a.term, candidate |-> a.from]}
      BY <1>2, <2>3 DEF IInv, TypeOK, VoteAnswer, ToLeader, CountVote, Counts
    <3>2. k \in VotersOf(k, currentTerm[k])
      BY <1>2, <3>1 DEF IInv, VotedForSelf, Candidate, Follower
    <3>3. k \in VotersOf(k, currentTerm[k])' /\ a.to \in VotersOf(k, currentTerm[k])'
      BY <2>3, <3>1, <3>2 DEF VotersOf
    <3> QED
      BY <2>1, <3>1, <3>3, TwoAreMajority
  <2> QED
    BY <1>2, <2>2, <2>3, LeaderStays DEF IInv
<1>3. IInv /\ LeaderHasMajority /\ [Next]_vars => LeaderHasMajority'
  BY <1>2 DEF LeaderHasMajority, HasMajority, WinsElection
<1> QED
  BY <1>1, <1>3, Invariance, PTL DEF Spec
=============================================================================
