------------------------- MODULE ApplyCommitsProofs -------------------------
(***************************************************************************)
(* Proofs about ApplyCommits, for a log, failures and crashes without      *)
(* bound: the accounting of announced commits, and what the key-value      *)
(* store and the persistence file may say of each other.  All of it is     *)
(* linear arithmetic over the counters, so every action has one step for   *)
(* each part of the inductive invariant.                                   *)
(***************************************************************************)
EXTENDS ApplyCommits, TLAPS

USE DEF Free, InAppendEntries, InConnect, InApply, Index

\* The records that the persistence file may hold.
Saved == [logLen : Nat, commitIndex : Index, lastApplied : Index]

\* The types of the Boolean variables.
Flags ==
    /\ leading \in BOOLEAN
    /\ passed \in BOOLEAN
    /\ noop \in BOOLEAN
    /\ received \in BOOLEAN
    /\ late \in BOOLEAN
    /\ torn \in BOOLEAN

\* The conjuncts of the inductive invariant about what is on its way to the key-value
\* store, ...
OnItsWay ==
    /\ Channel
    /\ LeaderWrites
    /\ AmountsNatural
    /\ CommitsAccounted

\* ... and about what has reached it and the file.
Arrived ==
    /\ DiskIsCurrent
    /\ AppliedInLog
    /\ AppliedIsRecorded
    /\ KVFollows
    /\ AppliedOnce

\* What PersistToStorage writes has the types of the node's fields.
LEMMA SavedType ==
  ASSUME NEW len \in Nat, NEW commit \in Index, NEW last \in Index
  PROVE  [logLen |-> len, commitIndex |-> commit, lastApplied |-> last] \in Saved
  BY SMT DEF Saved

\* Together with the types and the bound on the commit index they are all of IInv.
LEMMA IInvParts == IInv <=> TypeOK /\ OnItsWay /\ OnlyOrphansOverrun /\ Arrived
  BY Zenon DEF IInv, OnItsWay, Arrived

\* The first process has applied nothing and committed nothing.
LEMMA InitIInv == Init => IInv
<1> SUFFICES ASSUME Init PROVE IInv
  OBVIOUS
<1>1. Flags
  BY Zenon DEF Init, Flags
<1>2. disk \in Saved
  BY SavedType, SMT DEF Init, NoFile
<1>3. TypeOK
  BY <1>1, <1>2, SMT DEF Init, TypeOK, Flags, Saved, NoFile
<1>4. OnItsWay
  BY SMT DEF Init, OnItsWay, Channel, LeaderWrites, AmountsNatural, CommitsAccounted
<1>5. OnlyOrphansOverrun
  BY SMT DEF Init, OnlyOrphansOverrun, Pending
<1>6. Arrived
  BY SMT DEF Init, Arrived, DiskIsCurrent, AppliedInLog, AppliedIsRecorded, KVFollows,
     AppliedOnce, NoFile
<1> QED
  BY <1>3, <1>4, <1>5, <1>6, IInvParts

\* Every step of the handlers, of ApplyToStateMachine and of a restart keeps the inductive
\* invariant.
LEMMA NextIInv == IInv /\ [Next]_vars => IInv'
<1> DEFINE Goal == TypeOK /\ OnItsWay /\ OnlyOrphansOverrun /\ Arrived
<1> SUFFICES ASSUME TypeOK, OnItsWay, OnlyOrphansOverrun, Arrived, [Next]_vars PROVE Goal'
  BY IInvParts, PTL
<1> USE DEF clientVars, indexVars, applyVars, counterVars
<1>t. /\ disk \in Saved
      /\ disk.logLen \in Nat /\ disk.commitIndex \in Index /\ disk.lastApplied \in Index
  BY SMT DEF TypeOK, Saved
<1>1. CASE ToLeader
  <2>t. logLen' \in Nat /\ commitIndex' \in Index /\ lastApplied' \in Index
    BY <1>1, <1>t, SMT DEF TypeOK, ToLeader, Persist
  <2>d. disk' \in Saved
    BY <1>1, <1>t, <2>t, SavedType, SMT DEF TypeOK, ToLeader, Persist
  <2>f. Flags'
    BY <1>1, Zenon DEF TypeOK, Flags, ToLeader, Persist
  <2>1. TypeOK'
    BY <1>1, <1>t, <2>t, <2>d, <2>f, SMT DEF TypeOK, Flags, Saved, OnItsWay,
       Channel, Pending, ToLeader, Persist
  <2>2. OnItsWay'
    BY <1>1, <1>t, <2>1, SMT DEF TypeOK, OnItsWay, Channel, LeaderWrites,
       AmountsNatural, CommitsAccounted, ToLeader, Persist
  <2>3. OnlyOrphansOverrun'
    BY <1>1, <1>t, <2>1, SMT DEF TypeOK, OnItsWay, LeaderWrites, OnlyOrphansOverrun,
       Pending, ToLeader, Persist
  <2>4. Arrived'
    BY <1>1, <1>t, <2>1, SMT DEF TypeOK, Arrived, DiskIsCurrent, AppliedInLog,
       AppliedIsRecorded, KVFollows, AppliedOnce, ToLeader, Persist
  <2> QED
    BY <2>1, <2>2, <2>3, <2>4
<1>2. CASE WriteRequestPasses
  <2>f. Flags'
    BY <1>2, Zenon DEF TypeOK, Flags, WriteRequestPasses
  <2>1. TypeOK'
    BY <1>2, <1>t, <2>f, SMT DEF TypeOK, Flags, Saved, OnItsWay, Channel, Pending,
       WriteRequestPasses
  <2>2. OnItsWay'
    BY <1>2, <1>t, <2>1, SMT DEF TypeOK, OnItsWay, Channel, LeaderWrites,
       AmountsNatural, CommitsAccounted, WriteRequestPasses
  <2>3. OnlyOrphansOverrun'
    BY <1>2, <1>t, <2>1, SMT DEF TypeOK, OnItsWay, LeaderWrites, OnlyOrphansOverrun,
       Pending, WriteRequestPasses
  <2>4. Arrived'
    BY <1>2, <1>t, <2>1, SMT DEF TypeOK, Arrived, DiskIsCurrent, AppliedInLog,
       AppliedIsRecorded, KVFollows, AppliedOnce, WriteRequestPasses
  <2> QED
    BY <2>1, <2>2, <2>3, <2>4
<1>3. CASE WriteCommand
  <2>f. Flags'
    BY <1>3, Zenon DEF TypeOK, Flags, WriteCommand
  <2>1. TypeOK'
    BY <1>3, <1>t, <2>f, SMT DEF TypeOK, Flags, Saved, OnItsWay, Channel, Pending,
       WriteCommand
  <2>2. OnItsWay'
    BY <1>3, <1>t, <2>1, SMT DEF TypeOK, OnItsWay, Channel, LeaderWrites,
       AmountsNatural, CommitsAccounted, WriteCommand
  <2>3. OnlyOrphansOverrun'
    <3>1. CASE leading
      <4>1. Pending' = Pending + 1 /\ logLen' = logLen + 1
        BY <1>3, <3>1, <2>1, SMT DEF TypeOK, Pending, WriteCommand
      <4>2. Pending \in Nat
        BY SMT DEF TypeOK, Pending
      <4>3. commitIndex' = commitIndex /\ late' = late
        BY <1>3, Zenon DEF WriteCommand
      <4> QED
        BY <4>1, <4>2, <4>3, SMT DEF TypeOK, OnlyOrphansOverrun
    <3>2. CASE ~ leading
      <4>1. Pending' = Pending /\ logLen' = logLen + 1
        BY <1>3, <3>2, <2>1, SMT DEF TypeOK, Pending, WriteCommand
      <4>2. Pending \in Nat
        BY SMT DEF TypeOK, Pending
      <4>3. commitIndex' = commitIndex /\ late' = late
        BY <1>3, Zenon DEF WriteCommand
      <4> QED
        BY <4>1, <4>2, <4>3, SMT DEF TypeOK, OnlyOrphansOverrun
    <3> QED
      BY <3>1, <3>2
  <2>4. Arrived'
    BY <1>3, <1>t, <2>1, SMT DEF TypeOK, Arrived, DiskIsCurrent, AppliedInLog,
       AppliedIsRecorded, KVFollows, AppliedOnce, WriteCommand
  <2> QED
    BY <2>1, <2>2, <2>3, <2>4
<1>4. CASE StepDown
  <2>t. logLen' \in Nat /\ commitIndex' \in Index /\ lastApplied' \in Index
    BY <1>4, <1>t, SMT DEF TypeOK, StepDown, StopLeading, Persist
  <2>d. disk' \in Saved
    BY <1>4, <1>t, <2>t, SavedType, SMT DEF TypeOK, StepDown, StopLeading, Persist
  <2>f. Flags'
    BY <1>4, Zenon DEF TypeOK, Flags, StepDown, StopLeading, Persist
  <2>1. TypeOK'
    BY <1>4, <1>t, <2>t, <2>d, <2>f, SMT DEF TypeOK, Flags, Saved, OnItsWay,
       Channel, Pending, StepDown, StopLeading, Persist
  <2>2. OnItsWay'
    BY <1>4, <1>t, <2>1, SMT DEF TypeOK, OnItsWay, Channel, LeaderWrites,
       AmountsNatural, CommitsAccounted, StepDown, StopLeading, Persist
  <2>3. OnlyOrphansOverrun'
    BY <1>4, <1>t, <2>1, SMT DEF TypeOK, OnItsWay, LeaderWrites, OnlyOrphansOverrun,
       Pending, StepDown, StopLeading, Persist
  <2>4. Arrived'
    BY <1>4, <1>t, <2>1, SMT DEF TypeOK, Arrived, DiskIsCurrent, AppliedInLog,
       AppliedIsRecorded, KVFollows, AppliedOnce, StepDown, StopLeading, Persist
  <2> QED
    BY <2>1, <2>2, <2>3, <2>4
<1>5. CASE CommitNoOp
  <2>t. logLen' \in Nat /\ commitIndex' \in Index /\ lastApplied' \in Index
    BY <1>5, <1>t, SMT DEF TypeOK, CommitNoOp, CommitOne, Persist
  <2>d. disk' \in Saved
    BY <1>5, <1>t, <2>t, SavedType, SMT DEF TypeOK, CommitNoOp, CommitOne, Persist
  <2>f. Flags'
    BY <1>5, Zenon DEF TypeOK, Flags, CommitNoOp, CommitOne, Persist
  <2>1. TypeOK'
    BY <1>5, <1>t, <2>t, <2>d, <2>f, SMT DEF TypeOK, Flags, Saved, OnItsWay,
       Channel, Pending, CommitNoOp, CommitOne, Persist
  <2>2. OnItsWay'
    BY <1>5, <1>t, <2>1, SMT DEF TypeOK, OnItsWay, Channel, LeaderWrites,
       AmountsNatural, CommitsAccounted, CommitNoOp, CommitOne, Persist
  <2>3. OnlyOrphansOverrun'
    BY <1>5, <1>t, <2>1, SMT DEF TypeOK, OnItsWay, LeaderWrites, OnlyOrphansOverrun,
       Pending, CommitNoOp, CommitOne, Persist
  <2>4. Arrived'
    BY <1>5, <1>t, <2>1, SMT DEF TypeOK, Arrived, DiskIsCurrent, AppliedInLog,
       AppliedIsRecorded, KVFollows, AppliedOnce, OnlyOrphansOverrun, Pending,
       CommitNoOp, CommitOne, Persist
  <2> QED
    BY <2>1, <2>2, <2>3, <2>4
<1>6. CASE CommitWrite
  <2>t. logLen' \in Nat /\ commitIndex' \in Index /\ lastApplied' \in Index
    BY <1>6, <1>t, SMT DEF TypeOK, CommitWrite, CommitOne, Persist
  <2>d. disk' \in Saved
    BY <1>6, <1>t, <2>t, SavedType, SMT DEF TypeOK, CommitWrite, CommitOne, Persist
  <2>f. Flags'
    BY <1>6, Zenon DEF TypeOK, Flags, CommitWrite, CommitOne, Persist
  <2>1. TypeOK'
    BY <1>6, <1>t, <2>t, <2>d, <2>f, SMT DEF TypeOK, Flags, Saved, OnItsWay,
       Channel, Pending, CommitWrite, CommitOne, Persist
  <2>2. OnItsWay'
    BY <1>6, <1>t, <2>1, SMT DEF TypeOK, OnItsWay, Channel, LeaderWrites,
       AmountsNatural, CommitsAccounted, CommitWrite, CommitOne, Persist
  <2>3. OnlyOrphansOverrun'
    BY <1>6, <1>t, <2>1, SMT DEF TypeOK, OnItsWay, LeaderWrites, OnlyOrphansOverrun,
       Pending, CommitWrite, CommitOne, Persist
  <2>4. Arrived'
    BY <1>6, <1>t, <2>1, SMT DEF TypeOK, Arrived, DiskIsCurrent, AppliedInLog,
       AppliedIsRecorded, KVFollows, AppliedOnce, OnlyOrphansOverrun, Pending,
       CommitWrite, CommitOne, Persist
  <2> QED
    BY <2>1, <2>2, <2>3, <2>4
<1>7. CASE CommitOrphan
  <2>t. logLen' \in Nat /\ commitIndex' \in Index /\ lastApplied' \in Index
    BY <1>7, <1>t, SMT DEF TypeOK, CommitOrphan, CommitOne, Persist
  <2>d. disk' \in Saved
    BY <1>7, <1>t, <2>t, SavedType, SMT DEF TypeOK, CommitOrphan, CommitOne, Persist
  <2>f. Flags'
    BY <1>7, Zenon DEF TypeOK, Flags, CommitOrphan, CommitOne, Persist
  <2>1. TypeOK'
    BY <1>7, <1>t, <2>t, <2>d, <2>f, SMT DEF TypeOK, Flags, Saved, OnItsWay,
       Channel, Pending, CommitOrphan, CommitOne, Persist
  <2>2. OnItsWay'
    BY <1>7, <1>t, <2>1, SMT DEF TypeOK, OnItsWay, Channel, LeaderWrites,
       AmountsNatural, CommitsAccounted, CommitOrphan, CommitOne, Persist
  <2>3. OnlyOrphansOverrun'
    BY <1>7, <1>t, <2>1, SMT DEF TypeOK, OnItsWay, LeaderWrites, OnlyOrphansOverrun,
       Pending, CommitOrphan, CommitOne, Persist
  <2>4. Arrived'
    BY <1>7, <1>t, <2>1, SMT DEF TypeOK, Arrived, DiskIsCurrent, AppliedInLog,
       AppliedIsRecorded, KVFollows, AppliedOnce, OnlyOrphansOverrun, Pending,
       CommitOrphan, CommitOne, Persist
  <2> QED
    BY <2>1, <2>2, <2>3, <2>4
<1>8. CASE WriteFails
  <2>f. Flags'
    BY <1>8, Zenon DEF TypeOK, Flags, WriteFails
  <2>1. TypeOK'
    BY <1>8, <1>t, <2>f, SMT DEF TypeOK, Flags, Saved, OnItsWay, Channel, Pending,
       WriteFails
  <2>2. OnItsWay'
    BY <1>8, <1>t, <2>1, SMT DEF TypeOK, OnItsWay, Channel, LeaderWrites,
       AmountsNatural, CommitsAccounted, WriteFails
  <2>3. OnlyOrphansOverrun'
    <3>n. noop' = noop /\ commitIndex' = commitIndex /\ logLen' = logLen /\ late' = late
      BY <1>8, Zenon DEF WriteFails
    <3>p. commitIndex \in Int /\ logLen \in Nat /\ Pending \in Nat
      BY SMT DEF TypeOK, Pending
    <3>1. CASE writes > 0 /\ writes' = writes - 1
      <4>1. Pending' = Pending - 1
        BY <3>n, <3>1, SMT DEF TypeOK, Pending
      <4> QED
        BY <3>n, <3>p, <4>1, SMT DEF OnlyOrphansOverrun
    <3>2. CASE writes' = writes
      <4>1. Pending' = Pending
        BY <3>n, <3>2, Zenon DEF Pending
      <4> QED
        BY <3>n, <3>p, <4>1, SMT DEF OnlyOrphansOverrun
    <3> QED
      BY <1>8, <3>1, <3>2, SMT DEF WriteFails
  <2>4. Arrived'
    BY <1>8, <1>t, <2>1, SMT DEF TypeOK, Arrived, DiskIsCurrent, AppliedInLog,
       AppliedIsRecorded, KVFollows, AppliedOnce, WriteFails
  <2> QED
    BY <2>1, <2>2, <2>3, <2>4
<1>9. ASSUME NEW len \in 0 .. MaxLog, AppendEntries(len) PROVE Goal'
  <2>t. logLen' \in Nat /\ commitIndex' \in Index /\ lastApplied' \in Index
    BY <1>9, <1>t, SMT DEF TypeOK, AppendEntries, StopLeading, Persist
  <2>d. disk' \in Saved
    BY <1>9, <1>t, <2>t, SavedType, SMT DEF TypeOK, AppendEntries, StopLeading,
       Persist
  <2>f. Flags'
    BY <1>9, Zenon DEF TypeOK, Flags, AppendEntries, StopLeading, Persist
  <2>1. TypeOK'
    BY <1>9, <1>t, <2>t, <2>d, <2>f, SMT DEF TypeOK, Flags, Saved, OnItsWay,
       Channel, Pending, AppendEntries, StopLeading, Persist
  <2>2. OnItsWay'
    BY <1>9, <1>t, <2>1, SMT DEF TypeOK, OnItsWay, Channel, LeaderWrites,
       AmountsNatural, CommitsAccounted, AppendEntries, StopLeading, Persist
  <2>3. OnlyOrphansOverrun'
    BY <1>9, <1>t, <2>1, SMT DEF TypeOK, OnItsWay, LeaderWrites, OnlyOrphansOverrun,
       Pending, AppendEntries, StopLeading, Persist
  <2>4. Arrived'
    BY <1>9, <1>t, <2>1, SMT DEF TypeOK, Arrived, DiskIsCurrent, AppliedInLog,
       AppliedIsRecorded, KVFollows, AppliedOnce, OnItsWay, Channel,
       CommitsAccounted, AppendEntries, StopLeading, Persist
  <2> QED
    BY <2>1, <2>2, <2>3, <2>4
<1>10. ASSUME NEW len \in 0 .. MaxLog, NEW leaderCommit \in 0 .. MaxLog,
              AppendEntriesCommit(len, leaderCommit)
       PROVE  Goal'
  <2>t. logLen' \in Nat /\ commitIndex' \in Index /\ lastApplied' \in Index
    BY <1>10, <1>t, SMT DEF TypeOK, AppendEntriesCommit, StopLeading, LastCommitted,
       Announced
  <2>d. disk' \in Saved
    BY <1>10, <1>t, <2>t, SavedType, SMT DEF TypeOK, AppendEntriesCommit,
       StopLeading, LastCommitted, Announced
  <2>f. Flags'
    BY <1>10, Zenon DEF TypeOK, Flags, AppendEntriesCommit, StopLeading,
       LastCommitted, Announced
  <2>1. TypeOK'
    BY <1>10, <1>t, <2>t, <2>d, <2>f, SMT DEF TypeOK, Flags, Saved, OnItsWay,
       Channel, Pending, AppendEntriesCommit, StopLeading, LastCommitted, Announced
  <2>2. OnItsWay'
    BY <1>10, <1>t, <2>1, SMT DEF TypeOK, OnItsWay, Channel, LeaderWrites,
       AmountsNatural, CommitsAccounted, OnlyOrphansOverrun, Pending,
       AppendEntriesCommit, StopLeading, LastCommitted, Announced
  <2>3. OnlyOrphansOverrun'
    BY <1>10, <1>t, <2>1, SMT DEF TypeOK, OnItsWay, LeaderWrites,
       OnlyOrphansOverrun, Pending, AppendEntriesCommit, StopLeading, LastCommitted,
       Announced
  <2>4. Arrived'
    BY <1>10, <1>t, <2>1, SMT DEF TypeOK, Arrived, DiskIsCurrent, AppliedInLog,
       AppliedIsRecorded, KVFollows, AppliedOnce, OnlyOrphansOverrun, Pending,
       OnItsWay, Channel, AppendEntriesCommit, StopLeading, LastCommitted, Announced
  <2> QED
    BY <2>1, <2>2, <2>3, <2>4
<1>11. CASE ReceiveFromHolder
  <2>t. logLen' \in Nat /\ commitIndex' \in Index /\ lastApplied' \in Index
    BY <1>11, <1>t, SMT DEF TypeOK, ReceiveFromHolder, Persist
  <2>d. disk' \in Saved
    BY <1>11, <1>t, <2>t, SavedType, SMT DEF TypeOK, ReceiveFromHolder, Persist
  <2>f. Flags'
    BY <1>11, Zenon DEF TypeOK, Flags, ReceiveFromHolder, Persist
  <2>1. TypeOK'
    BY <1>11, <1>t, <2>t, <2>d, <2>f, SMT DEF TypeOK, Flags, Saved, OnItsWay,
       Channel, Pending, ReceiveFromHolder, Persist
  <2>2. OnItsWay'
    BY <1>11, <1>t, <2>1, SMT DEF TypeOK, OnItsWay, Channel, LeaderWrites,
       AmountsNatural, CommitsAccounted, ReceiveFromHolder, Persist
  <2>3. OnlyOrphansOverrun'
    BY <1>11, <1>t, <2>1, SMT DEF TypeOK, OnItsWay, LeaderWrites,
       OnlyOrphansOverrun, Pending, ReceiveFromHolder, Persist
  <2>4. Arrived'
    <3>1. CASE lock = InAppendEntries
      <4>1. disk' = [logLen |-> logLen', commitIndex |-> commitIndex', lastApplied |-> lastApplied']
        BY <1>11, <3>1, Zenon DEF ReceiveFromHolder, Persist
      <4>2. /\ disk'.logLen = logLen /\ disk'.commitIndex = commitIndex
            /\ disk'.lastApplied = lastApplied
        BY <1>11, <4>1, SMT DEF ReceiveFromHolder, Persist
      <4>3. late \/ torn \/ kv <= commitIndex
        BY <1>t, SMT DEF TypeOK, OnItsWay, Arrived, Channel, LeaderWrites,
           AmountsNatural, CommitsAccounted, DiskIsCurrent, AppliedInLog,
           AppliedIsRecorded, KVFollows, AppliedOnce
      <4> QED
        BY <1>11, <3>1, <4>2, <4>3, <1>t, <2>1, SMT DEF TypeOK, Arrived,
           DiskIsCurrent, AppliedInLog, AppliedIsRecorded, KVFollows,
           AppliedOnce, OnItsWay, Channel, CommitsAccounted, OnlyOrphansOverrun,
           Pending, ReceiveFromHolder
    <3>2. CASE lock = InConnect
      <4>1. disk' = disk
        BY <1>11, <3>2, SMT DEF ReceiveFromHolder, Persist
      <4> QED
        BY <1>11, <3>2, <4>1, <1>t, <2>1, SMT DEF TypeOK, Arrived,
           DiskIsCurrent, AppliedInLog, AppliedIsRecorded, KVFollows,
           AppliedOnce, OnItsWay, Channel, CommitsAccounted, OnlyOrphansOverrun,
           Pending, ReceiveFromHolder, Persist
    <3> QED
      BY <1>11, <3>1, <3>2, SMT DEF ReceiveFromHolder
  <2> QED
    BY <2>1, <2>2, <2>3, <2>4
<1>12. CASE ReceiveOne
  <2>f. Flags'
    BY <1>12, Zenon DEF TypeOK, Flags, ReceiveOne
  <2>1. TypeOK'
    BY <1>12, <1>t, <2>f, SMT DEF TypeOK, Flags, Saved, OnItsWay, Channel, Pending,
       ReceiveOne
  <2>2. OnItsWay'
    BY <1>12, <1>t, <2>1, SMT DEF TypeOK, OnItsWay, Channel, LeaderWrites,
       AmountsNatural, CommitsAccounted, ReceiveOne
  <2>3. OnlyOrphansOverrun'
    BY <1>12, <1>t, <2>1, SMT DEF TypeOK, OnItsWay, LeaderWrites,
       OnlyOrphansOverrun, Pending, ReceiveOne
  <2>4. Arrived'
    BY <1>12, <1>t, <2>1, SMT DEF TypeOK, Arrived, DiskIsCurrent, AppliedInLog,
       AppliedIsRecorded, KVFollows, AppliedOnce, ReceiveOne
  <2> QED
    BY <2>1, <2>2, <2>3, <2>4
<1>13. CASE TakeLock
  <2>f. Flags'
    BY <1>13, Zenon DEF TypeOK, Flags, TakeLock
  <2>1. TypeOK'
    BY <1>13, <1>t, <2>f, SMT DEF TypeOK, Flags, Saved, OnItsWay, Channel, Pending,
       TakeLock
  <2>2. OnItsWay'
    BY <1>13, <1>t, <2>1, SMT DEF TypeOK, OnItsWay, Channel, LeaderWrites,
       AmountsNatural, CommitsAccounted, TakeLock
  <2>3. OnlyOrphansOverrun'
    BY <1>13, <1>t, <2>1, SMT DEF TypeOK, OnItsWay, LeaderWrites,
       OnlyOrphansOverrun, Pending, TakeLock
  <2>4. Arrived'
    BY <1>13, <1>t, <2>1, SMT DEF TypeOK, Arrived, DiskIsCurrent, AppliedInLog,
       AppliedIsRecorded, KVFollows, AppliedOnce, OnItsWay, Channel,
       CommitsAccounted, TakeLock
  <2> QED
    BY <2>1, <2>2, <2>3, <2>4
<1>14. CASE ApplyEntry
  <2>f. Flags'
    BY <1>14, Zenon DEF TypeOK, Flags, ApplyEntry, NextEntry, StoreHasSeen
  <2>1. TypeOK'
    BY <1>14, <1>t, <2>f, SMT DEF TypeOK, Flags, Saved, OnItsWay, Channel, Pending,
       ApplyEntry, NextEntry, StoreHasSeen
  <2>2. OnItsWay'
    BY <1>14, <1>t, <2>1, SMT DEF TypeOK, OnItsWay, Channel, LeaderWrites,
       AmountsNatural, CommitsAccounted, ApplyEntry, NextEntry, StoreHasSeen
  <2>3. OnlyOrphansOverrun'
    BY <1>14, <1>t, <2>1, SMT DEF TypeOK, OnItsWay, LeaderWrites,
       OnlyOrphansOverrun, Pending, ApplyEntry, NextEntry, StoreHasSeen
  <2>4. Arrived'
    BY <1>14, <1>t, <2>1, SMT DEF TypeOK, Arrived, DiskIsCurrent, AppliedInLog,
       AppliedIsRecorded, KVFollows, AppliedOnce, OnItsWay, Channel,
       CommitsAccounted, ApplyEntry, NextEntry, StoreHasSeen
  <2> QED
    BY <2>1, <2>2, <2>3, <2>4
<1>15. CASE ApplyAll
  <2>t. logLen' \in Nat /\ commitIndex' \in Index /\ lastApplied' \in Index
    BY <1>15, <1>t, SMT DEF TypeOK, ApplyAll, ApplyDone, ApplyEnds, Persist
  <2>d. disk' \in Saved
    BY <1>15, <1>t, <2>t, SavedType, SMT DEF TypeOK, ApplyAll, ApplyDone, ApplyEnds,
       Persist
  <2>f. Flags'
    BY <1>15, Zenon DEF TypeOK, Flags, ApplyAll, ApplyDone, ApplyEnds, Persist
  <2>1. TypeOK'
    BY <1>15, <1>t, <2>t, <2>d, <2>f, SMT DEF TypeOK, Flags, Saved, OnItsWay,
       Channel, Pending, ApplyAll, ApplyDone, ApplyEnds, Persist
  <2>2. OnItsWay'
    BY <1>15, <1>t, <2>1, SMT DEF TypeOK, OnItsWay, Channel, LeaderWrites,
       AmountsNatural, CommitsAccounted, ApplyAll, ApplyDone, ApplyEnds, Persist
  <2>3. OnlyOrphansOverrun'
    BY <1>15, <1>t, <2>1, SMT DEF TypeOK, OnItsWay, LeaderWrites,
       OnlyOrphansOverrun, Pending, ApplyAll, ApplyDone, ApplyEnds, Persist
  <2>4. Arrived'
    BY <1>15, <1>t, <2>1, SMT DEF TypeOK, Arrived, DiskIsCurrent, AppliedInLog,
       AppliedIsRecorded, KVFollows, AppliedOnce, OnItsWay, Channel,
       CommitsAccounted, ApplyAll, ApplyDone, ApplyEnds, Persist
  <2> QED
    BY <2>1, <2>2, <2>3, <2>4
<1>16. CASE ApplyFails
  <2>t. logLen' \in Nat /\ commitIndex' \in Index /\ lastApplied' \in Index
    BY <1>16, <1>t, SMT DEF TypeOK, ApplyFails, RequestFails, NextEntry,
       StoreHasSeen, ApplyDone, ApplyEnds, Persist
  <2>d. disk' \in Saved
    BY <1>16, <1>t, <2>t, SavedType, SMT DEF TypeOK, ApplyFails, RequestFails, NextEntry,
       StoreHasSeen, ApplyDone,
       ApplyEnds, Persist
  <2>f. Flags'
    BY <1>16, Zenon DEF TypeOK, Flags, ApplyFails, RequestFails, NextEntry,
       StoreHasSeen, ApplyDone, ApplyEnds, Persist
  <2>1. TypeOK'
    BY <1>16, <1>t, <2>t, <2>d, <2>f, SMT DEF TypeOK, Flags, Saved, OnItsWay,
       Channel, Pending, ApplyFails, RequestFails, NextEntry,
       StoreHasSeen, ApplyDone, ApplyEnds, Persist
  <2>2. OnItsWay'
    BY <1>16, <1>t, <2>1, SMT DEF TypeOK, OnItsWay, Channel, LeaderWrites,
       AmountsNatural, CommitsAccounted, ApplyFails, RequestFails, NextEntry,
       StoreHasSeen, ApplyDone, ApplyEnds, Persist
  <2>3. OnlyOrphansOverrun'
    BY <1>16, <1>t, <2>1, SMT DEF TypeOK, OnItsWay, LeaderWrites,
       OnlyOrphansOverrun, Pending, ApplyFails, RequestFails, NextEntry,
       StoreHasSeen, ApplyDone, ApplyEnds, Persist
  <2>4. Arrived'
    BY <1>16, <1>t, <2>1, SMT DEF TypeOK, Arrived, DiskIsCurrent, AppliedInLog,
       AppliedIsRecorded, KVFollows, AppliedOnce, OnItsWay, Channel,
       CommitsAccounted, ApplyFails, RequestFails, NextEntry,
       StoreHasSeen, ApplyDone, ApplyEnds, Persist
  <2> QED
    BY <2>1, <2>2, <2>3, <2>4
<1>17. CASE Crash
  <2>f. Flags'
    BY <1>17, Zenon DEF TypeOK, Flags, Crash, Reboot
  <2>1. TypeOK'
    BY <1>17, <1>t, <2>f, SMT DEF TypeOK, Flags, Saved, Crash, Reboot, BootOffer
  <2>2. OnItsWay'
    BY <1>17, <1>t, <2>1, SMT DEF TypeOK, OnItsWay, Channel, LeaderWrites,
       AmountsNatural, CommitsAccounted, Arrived, AppliedInLog, DiskIsCurrent,
       Crash, Reboot, BootOffer
  <2>3. OnlyOrphansOverrun'
    BY <1>17, <1>t, <2>1, SMT DEF TypeOK, OnItsWay, LeaderWrites, Arrived,
       DiskIsCurrent, OnlyOrphansOverrun, Pending, Crash, Reboot
  <2>4. Arrived'
    BY <1>17, <1>t, <2>1, SMT DEF TypeOK, Arrived, DiskIsCurrent, AppliedInLog,
       AppliedIsRecorded, KVFollows, AppliedOnce, OnItsWay, Channel,
       CommitsAccounted, Crash, Reboot, BootOffer
  <2> QED
    BY <2>1, <2>2, <2>3, <2>4
<1>19. CASE CrashInSave
  <2>k. kv' \in Index /\ kv' >= kv /\ failures' \in Nat
    BY <1>19, SMT DEF TypeOK, CrashInSave, RequestFails, StoreHasSeen, NextEntry
  <2>r. Reboot(NoFile) /\ torn' = TRUE
    BY <1>19, Zenon DEF CrashInSave
  <2>f. Flags'
    BY <2>r, Zenon DEF TypeOK, Flags, Reboot
  <2>n. NoFile \in Saved
    BY SavedType, SMT DEF NoFile
  <2>1. TypeOK'
    BY <2>k, <2>r, <2>n, <1>t, <2>f, SMT DEF TypeOK, Flags, Saved, Reboot, BootOffer, NoFile
  <2>2. OnItsWay'
    BY <2>r, <2>1, SMT DEF TypeOK, OnItsWay, Channel, LeaderWrites, AmountsNatural,
       CommitsAccounted, Reboot, BootOffer, NoFile
  <2>3. OnlyOrphansOverrun'
    BY <2>r, <2>1, SMT DEF TypeOK, OnlyOrphansOverrun, Pending, Reboot, NoFile
  <2>4. Arrived'
    BY <2>k, <2>r, <1>t, <2>1, SMT DEF TypeOK, Arrived, DiskIsCurrent, AppliedInLog,
       AppliedIsRecorded, KVFollows, AppliedOnce, Reboot, BootOffer, NoFile
  <2> QED
    BY <2>1, <2>2, <2>3, <2>4
<1>18. CASE UNCHANGED vars
  <2>f. Flags'
    BY <1>18, Zenon DEF TypeOK, Flags, vars
  <2>1. TypeOK'
    BY <1>18, <1>t, <2>f, SMT DEF TypeOK, Flags, Saved, OnItsWay, Channel, Pending,
       vars
  <2>2. OnItsWay'
    BY <1>18, <1>t, <2>1, SMT DEF TypeOK, OnItsWay, Channel, LeaderWrites,
       AmountsNatural, CommitsAccounted, vars
  <2>3. OnlyOrphansOverrun'
    BY <1>18, <1>t, <2>1, SMT DEF TypeOK, OnItsWay, LeaderWrites,
       OnlyOrphansOverrun, Pending, vars
  <2>4. Arrived'
    BY <1>18, <1>t, <2>1, SMT DEF TypeOK, Arrived, DiskIsCurrent, AppliedInLog,
       AppliedIsRecorded, KVFollows, AppliedOnce, vars
  <2> QED
    BY <2>1, <2>2, <2>3, <2>4
<1> QED
  BY <1>1, <1>2, <1>3, <1>4, <1>5, <1>6, <1>7, <1>8, <1>9, <1>10, <1>11, <1>12, <1>13,
     <1>14, <1>15, <1>16, <1>17, <1>18, <1>19, Zenon DEF Next, Panics

\* In every reachable state the inductive invariant holds.
THEOREM Invariance == Spec => []IInv
  BY InitIInv, NextIInv, PTL DEF Spec

\* Type correctness of commits and applies: indices from -1 on, and counters that are natural.
THEOREM TypeCorrect == Spec => []TypeOK
<1>1. IInv => TypeOK
  BY DEF IInv
<1> QED
  BY <1>1, Invariance, PTL

\* Every commit that AppendEntries, ToLeader and WriteCommand announce on commits_ready is
\* applied, on its way, or given up by ApplyToStateMachine; none is announced twice.
THEOREM CommitAccounts == Spec => []CommitsAccounted
<1>1. IInv => CommitsAccounted
  BY Zenon DEF IInv
<1> QED
  BY <1>1, Invariance, PTL

\* As long as WriteCommand and ToLeader commit only entries of the leadership they were
\* appended in, the commit index stays inside the log.
THEOREM Overrun == Spec => []OnlyOrphansOverrun
<1>1. IInv => OnlyOrphansOverrun
  BY Zenon DEF IInv
<1> QED
  BY <1>1, Invariance, PTL

\* ... and what ApplyToStateMachine has given to the key-value store is committed and in the
\* log as the persistence file has them, unless the process crashed inside a save.
THEOREM AppliedRecorded == Spec => []AppliedIsRecorded
<1>1. IInv => AppliedIsRecorded
  BY Zenon DEF IInv
<1> QED
  BY <1>1, Invariance, PTL

\* Before the first crash ApplyToStateMachine gives the key-value store no entry twice, but
\* for the one whose request failed after the store had performed it.
THEOREM NoReplay == Spec => []AppliedOnce
<1>1. IInv => AppliedOnce
  BY Zenon DEF IInv
<1> QED
  BY <1>1, Invariance, PTL

\* ApplyToStateMachine gives the key-value store the entries in the order of the log, also
\* across failed requests and crashes.
THEOREM InOrder == Spec => AppliedInOrder
<1>1. IInv /\ [Next]_vars => (kv' # kv => kv' = kv + 1)
  <2> SUFFICES ASSUME IInv, [Next]_vars, kv' # kv PROVE kv' = kv + 1
    OBVIOUS
  <2>1. ApplyEntry \/ RequestFails
    BY Zenon DEF Next, vars, clientVars, indexVars, applyVars, counterVars,
       ToLeader, WriteRequestPasses, WriteCommand, StepDown, CommitNoOp,
       CommitWrite, CommitOrphan, CommitOne, WriteFails, AppendEntries,
       AppendEntriesCommit, ReceiveFromHolder, ReceiveOne, TakeLock, ApplyAll,
       ApplyFails, ApplyDone, Crash, CrashInSave, Panics
  <2>2. kv' = StoreHasSeen
    BY <2>1, SMT DEF ApplyEntry, RequestFails
  <2> QED
    BY <2>2, SMT DEF StoreHasSeen, NextEntry, IInv, TypeOK, KVFollows
<1> QED
  BY <1>1, Invariance, PTL DEF Spec, AppliedInOrder
=============================================================================
