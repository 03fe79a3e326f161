---------------------------- MODULE ApplyCommits ----------------------------
(***************************************************************************)
(* How commits of one replica reach its key-value store: commitIndex and   *)
(* its three writers (AppendEntries in raft/rpcs.go, ToLeader in           *)
(* raft/states.go, WriteCommand in raft/client.go), the unbuffered channel *)
(* commits_ready on which each of them sends an amount, the goroutine      *)
(* ApplyToStateMachine (raft/raft_node.go) that receives it and applies    *)
(* that many entries, and the crash that leaves the persistence file and   *)
(* the key-value store to the next process.                                *)
(*                                                                         *)
(* Entries are only counted: an entry is its index in the log.  What the   *)
(* other replicas do is left open: a verdict on a write and a message of a *)
(* leader may come whenever the replica's own state allows it.             *)
(***************************************************************************)
EXTENDS Integers

CONSTANTS
    MaxLog,       \* bound on the length of the log
    MaxFailures,  \* bound on the requests to the key-value store that fail
    MaxCrashes    \* bound on the number of crashes

ASSUME ApplyAssumption ==
    /\ MaxLog \in Nat
    /\ MaxFailures \in Nat
    /\ MaxCrashes \in Nat

VARIABLES
    leading,      \* node.state = Leader
    passed,       \* write requests are past the loop that begins WriteCommand
    noop,         \* the no-op of this leadership has no verdict of success yet
    writes,       \* its other entries whose LeaderSendAEs has no verdict yet
    orphans,      \* entries without a verdict whose leadership is over, or never was
    logLen,       \* len(node.log)
    commitIndex,  \* node.commitIndex
    lastApplied,  \* node.lastApplied
    disk,         \* what the persistence file says of these three
    lock,         \* what holds raft_node_mutex between two steps
    offer,        \* what the holder of the lock sends on commits_ready
    ones,         \* goroutines that send 1 on commits_ready, without the lock
    received,     \* ApplyToStateMachine has received an amount
    toCommit,     \* that amount
    applied,      \* how many entries of it have been applied
    kv,           \* the highest entry that the key-value store has seen
    skipped,      \* history: entries that this process gave up applying
    late,         \* history: an orphan was committed
    failures,     \* requests to the key-value store that failed
    crashes,      \* number of crashes so far
    torn          \* history: one of them came inside a save

clientVars == <<leading, passed, noop, writes, orphans>>
indexVars == <<logLen, commitIndex, lastApplied, disk>>
applyVars == <<received, toCommit, applied, kv, skipped>>
counterVars == <<failures, crashes, torn>>
vars == <<clientVars, indexVars, lock, offer, ones, applyVars, late, counterVars>>

-----------------------------------------------------------------------------
Free == "Free"
InAppendEntries == "AppendEntries"       \* at commits_ready <- ...
InConnect == "ConnectToPeerReplicas"     \* at commits_ready <- ...
InApply == "ApplyToStateMachine"         \* in the loop over the entries

Index == {n \in Int : n >= -1}

\* The entries of this leadership that wait for a verdict.
Pending == writes + (IF noop THEN 1 ELSE 0)

\* The replica is a follower from now on.
StopLeading ==
    /\ leading' = FALSE
    /\ noop' = FALSE
    /\ writes' = 0
    /\ orphans' = orphans + Pending

\* What a process starts with that finds no file, or an empty one.
NoFile == [logLen |-> 0, commitIndex |-> -1, lastApplied |-> -1]

\* PersistToStorage: the file says what the node holds after the step.  (CrashInSave is the
\* crash on the way.)
Persist ==
    disk' = [logLen |-> logLen', commitIndex |-> commitIndex', lastApplied |-> lastApplied']

\* The first process finds no file, and its key-value store is empty.
Init ==
    /\ leading = FALSE
    /\ passed = FALSE
    /\ noop = FALSE
    /\ writes = 0
    /\ orphans = 0
    /\ logLen = 0
    /\ commitIndex = -1
    /\ lastApplied = -1
    /\ disk = NoFile
    /\ lock = Free
    /\ offer = 0
    /\ ones = 0
    /\ received = FALSE
    /\ toCommit = 0
    /\ applied = 0
    /\ kv = -1
    /\ skipped = 0
    /\ late = FALSE
    /\ failures = 0
    /\ crashes = 0
    /\ torn = FALSE

\* ToLeader appends its no-op, saves it and waits for a verdict without the lock.
ToLeader ==
    /\ lock = Free
    /\ ~ leading
    /\ logLen < MaxLog
    /\ leading' = TRUE
    /\ noop' = TRUE
    /\ logLen' = logLen + 1
    /\ UNCHANGED <<commitIndex, lastApplied>>
    /\ Persist
    /\ UNCHANGED <<passed, writes, orphans, lock, offer, ones, applyVars, late, counterVars>>

\* Nothing is left to apply, so all write requests that wait get past the loop.
WriteRequestPasses ==
    /\ lock = Free
    /\ leading
    /\ ~ passed
    /\ commitIndex = lastApplied
    /\ passed' = TRUE
    /\ UNCHANGED <<leading, noop, writes, orphans, indexVars, lock, offer, ones, applyVars,
                   late, counterVars>>

\* WriteCommand, with the lock taken anew, appends its entry and does not save it.  A PUT
\* or DELETE does so even when the replica has stopped leading: it gave up the lock, to
\* read the key, after it checked for leadership.
WriteCommand ==
    /\ lock = Free
    /\ passed
    /\ logLen < MaxLog
    /\ logLen' = logLen + 1
    /\ IF leading THEN writes' = writes + 1 /\ UNCHANGED orphans
                  ELSE orphans' = orphans + 1 /\ UNCHANGED writes
    /\ UNCHANGED <<leading, passed, noop, commitIndex, lastApplied, disk, lock, offer, ones,
                   applyVars, late, counterVars>>

\* The replica learns of a later term from a candidate or from an answer, and saves.
StepDown ==
    /\ lock = Free
    /\ leading
    /\ StopLeading
    /\ UNCHANGED <<logLen, commitIndex, lastApplied>>
    /\ Persist
    /\ UNCHANGED <<passed, lock, offer, ones, applyVars, late, counterVars>>

\* Mutant of CommitOne: the commit is announced before it is saved.
CommitOneUnsaved ==
    /\ lock = Free
    /\ commitIndex' = commitIndex + 1
    /\ UNCHANGED <<logLen, lastApplied, disk>>
    /\ ones' = ones + 1

\* The verdict on an entry is a success: the commit index moves by one, is saved, and
\* the goroutine goes to commits_ready.  Whether the replica still leads is not asked.
CommitOne ==
    /\ lock = Free
    /\ commitIndex' = commitIndex + 1
    /\ UNCHANGED <<logLen, lastApplied>>
    /\ Persist
    /\ ones' = ones + 1

CommitNoOp ==
    /\ noop
    /\ CommitOne
    /\ noop' = FALSE
    /\ UNCHANGED <<leading, passed, writes, orphans, lock, offer, applyVars, late, counterVars>>

CommitWrite ==
    /\ writes > 0
    /\ CommitOne
    /\ writes' = writes - 1
    /\ UNCHANGED <<leading, passed, noop, orphans, lock, offer, applyVars, late, counterVars>>

CommitOrphan ==
    /\ orphans > 0
    /\ CommitOne
    /\ orphans' = orphans - 1
    /\ late' = TRUE
    /\ UNCHANGED <<leading, passed, noop, writes, lock, offer, applyVars, counterVars>>

\* Mutant of WriteFails: of two verdicts, both are taken.
WriteFailsTwice ==
    /\ writes > 0
    /\ writes' = writes - 2
    /\ UNCHANGED <<leading, passed, noop, orphans, indexVars, lock, offer, ones, applyVars,
                   late, counterVars>>

\* The verdict is a failure: the entry stays in the log.  (A no-op is sent again while the
\* replica leads.)
WriteFails ==
    /\ \/ writes > 0 /\ writes' = writes - 1 /\ UNCHANGED orphans
       \/ orphans > 0 /\ orphans' = orphans - 1 /\ UNCHANGED writes
    /\ UNCHANGED <<leading, passed, noop, indexVars, lock, offer, ones, applyVars, late,
                   counterVars>>

-----------------------------------------------------------------------------
\* Mutant of LastCommitted: the length is taken for an index.
LastCommittedAtLen(leaderCommit, len) == IF leaderCommit < len THEN leaderCommit ELSE len

\* The commit index that a message ahead of the node's leads to.
LastCommitted(leaderCommit, len) == IF leaderCommit < len THEN leaderCommit ELSE len - 1

\* Mutant of Announced: all that the leader has committed, in the log or not.
AnnouncedByLeader(leaderCommit) == leaderCommit - commitIndex

\* The amount that AppendEntries sends: commitIndex minus old_commit_index.
Announced(leaderCommit) == commitIndex' - commitIndex

\* A message of another leader without news of commits: the log may grow.
AppendEntries(len) ==
    /\ lock = Free
    /\ len \in logLen .. MaxLog
    /\ StopLeading
    /\ logLen' = len
    /\ UNCHANGED <<commitIndex, lastApplied>>
    /\ Persist
    /\ UNCHANGED <<passed, lock, offer, ones, applyVars, late, counterVars>>

\* One with news, up to the send on commits_ready.  The file is written after that; but a
\* replica that stops leading, or learns of a later term, has saved its old log first.
AppendEntriesCommit(len, leaderCommit) ==
    /\ lock = Free
    /\ len \in logLen .. MaxLog
    /\ leaderCommit > commitIndex
    /\ StopLeading
    /\ logLen' = len
    /\ commitIndex' = LastCommitted(leaderCommit, len)
    /\ offer' = Announced(leaderCommit)
    /\ lock' = InAppendEntries
    /\ \/ disk' = [disk EXCEPT !.logLen = logLen]
       \/ ~ leading /\ disk' = disk
    /\ UNCHANGED <<passed, lastApplied, ones, applyVars, late, counterVars>>

\* ApplyToStateMachine receives from the holder of the lock.  AppendEntries then writes
\* the file, and both holders release the lock.
ReceiveFromHolder ==
    /\ ~ received
    /\ lock \in {InAppendEntries, InConnect}
    /\ received' = TRUE
    /\ toCommit' = offer
    /\ offer' = 0
    /\ lock' = Free
    /\ UNCHANGED <<logLen, commitIndex, lastApplied>>
    /\ IF lock = InAppendEntries THEN Persist ELSE disk' = disk
    /\ UNCHANGED <<clientVars, ones, applied, kv, skipped, late, counterVars>>

\* It receives from ToLeader or WriteCommand.
ReceiveOne ==
    /\ ~ received
    /\ ones > 0
    /\ received' = TRUE
    /\ toCommit' = 1
    /\ ones' = ones - 1
    /\ UNCHANGED <<clientVars, indexVars, lock, offer, applied, kv, skipped, late, counterVars>>

\* It takes the lock and slices the log.  (An amount below 0 does not slice: see Panics.)
TakeLock ==
    /\ received
    /\ lock = Free
    /\ toCommit >= 0
    /\ lock' = InApply
    /\ UNCHANGED <<clientVars, indexVars, offer, ones, applyVars, late, counterVars>>

\* Mutant of NextEntry: the slice starts one entry too far.
NextEntryAfter == lastApplied + applied + 2

\* The entry that the loop is at.
NextEntry == lastApplied + applied + 1

\* The store has performed the operation of the entry that the loop is at.
StoreHasSeen == IF NextEntry > kv THEN NextEntry ELSE kv

\* The key-value store performs the operation of the next entry, or it is a no-op.
ApplyEntry ==
    /\ lock = InApply
    /\ applied < toCommit
    /\ NextEntry < logLen
    /\ applied' = applied + 1
    /\ kv' = StoreHasSeen
    /\ UNCHANGED <<clientVars, indexVars, lock, offer, ones, received, toCommit, skipped, late,
                   counterVars>>

\* What is left of the amount, if a request failed, is given up.
ApplyEnds ==
    /\ lastApplied' = lastApplied + applied
    /\ skipped' = skipped + (toCommit - applied)

\* After the loop: lastApplied moves, the file is written, the lock is released.
ApplyDone ==
    /\ ApplyEnds
    /\ UNCHANGED <<logLen, commitIndex>>
    /\ Persist
    /\ lock' = Free
    /\ received' = FALSE
    /\ toCommit' = 0
    /\ applied' = 0
    /\ UNCHANGED <<clientVars, offer, ones, late, crashes, torn>>

\* All entries of the amount are applied.
ApplyAll ==
    /\ lock = InApply
    /\ applied = toCommit
    /\ ApplyDone
    /\ UNCHANGED <<kv, failures>>

\* The request for the next entry returns an error, before the store has performed the
\* operation or after.  The first entry of a log is a no-op, which makes no request; any
\* other may be an operation.
RequestFails ==
    /\ lock = InApply
    /\ NextEntry > 0
    /\ applied < toCommit
    /\ NextEntry < logLen
    /\ failures < MaxFailures
    /\ failures' = failures + 1
    /\ kv' \in {kv, StoreHasSeen}

\* It ends the loop, and what is left of the amount is given up.
ApplyFails == RequestFails /\ ApplyDone

-----------------------------------------------------------------------------
\* Mutant of BootOffer: the commits that are pending are not announced again.
BootOfferNothing(file) == 0

\* What ConnectToPeerReplicas announces, given the file.
BootOffer(file) ==
    IF file.commitIndex > file.lastApplied THEN file.commitIndex - file.lastApplied ELSE 0

\* The process ends.  The next one reads the file and announces the commits that are
\* pending before it takes any message; the key-value store has its own file.
Reboot(file) ==
    /\ crashes < MaxCrashes
    /\ crashes' = crashes + 1
    /\ leading' = FALSE
    /\ passed' = FALSE
    /\ noop' = FALSE
    /\ writes' = 0
    /\ orphans' = 0
    /\ logLen' = file.logLen
    /\ commitIndex' = file.commitIndex
    /\ lastApplied' = file.lastApplied
    /\ disk' = file
    /\ offer' = BootOffer(file)
    /\ lock' = IF BootOffer(file) > 0 THEN InConnect ELSE Free
    /\ ones' = 0
    /\ received' = FALSE
    /\ toCommit' = 0
    /\ applied' = 0
    /\ skipped' = 0
    /\ UNCHANGED late

\* A crash between two saves.
Crash == Reboot(disk) /\ UNCHANGED <<kv, failures, torn>>

\* A crash inside a save, after os.Create has emptied the file and before Encode has
\* written it: of a handler that takes the free lock, of AppendEntries once its amount is
\* received, or of ApplyToStateMachine after its loop.
CrashInSave ==
    /\ \/ /\ \/ lock = Free
             \/ lock = InAppendEntries /\ ~ received
             \/ lock = InApply /\ applied = toCommit
          /\ UNCHANGED <<kv, failures>>
       \/ RequestFails
    /\ Reboot(NoFile)
    /\ torn' = TRUE

\* ApplyToStateMachine finds no entry where the commit index promised one: the slice
\* expression panics, or the first empty entry in the spare capacity of the slice does.
Panics ==
    /\ received
    /\ \/ lock = Free /\ (toCommit < 0 \/ lastApplied + toCommit >= logLen)
       \/ lock = InApply /\ applied < toCommit /\ NextEntry >= logLen
    /\ Crash

Next ==
    \/ ToLeader \/ WriteRequestPasses \/ WriteCommand \/ StepDown
    \/ CommitNoOp \/ CommitWrite \/ CommitOrphan \/ WriteFails
    \/ \E len \in 0 .. MaxLog : AppendEntries(len)
    \/ \E len \in 0 .. MaxLog, leaderCommit \in 0 .. MaxLog : AppendEntriesCommit(len, leaderCommit)
    \/ ReceiveFromHolder \/ ReceiveOne \/ TakeLock
    \/ ApplyEntry \/ ApplyAll \/ ApplyFails
    \/ Crash \/ CrashInSave \/ Panics

Spec == Init /\ [][Next]_vars

\* The goroutine ApplyToStateMachine runs when it can: senders on a channel and waiters
\* for a sync.RWMutex are served in turn, and a request is answered or fails.  Nothing
\* makes verdicts, messages or requests come.
Fairness ==
    /\ SF_vars(ReceiveFromHolder)
    /\ SF_vars(ReceiveOne)
    /\ SF_vars(TakeLock)
    /\ WF_vars(ApplyEntry \/ ApplyFails)
    /\ WF_vars(ApplyAll)

FairSpec == Spec /\ Fairness

-----------------------------------------------------------------------------
\* Every variable holds what the code's types allow.
TypeOK ==
    /\ leading \in BOOLEAN
    /\ passed \in BOOLEAN
    /\ noop \in BOOLEAN
    /\ writes \in Nat
    /\ orphans \in Nat
    /\ logLen \in Nat
    /\ commitIndex \in Index
    /\ lastApplied \in Index
    /\ disk \in [logLen : Nat, commitIndex : Index, lastApplied : Index]
    /\ lock \in {Free, InAppendEntries, InConnect, InApply}
    /\ offer \in Int
    /\ ones \in Nat
    /\ received \in BOOLEAN
    /\ toCommit \in Int
    /\ applied \in Nat
    /\ kv \in Index
    /\ skipped \in Nat
    /\ late \in BOOLEAN
    /\ failures \in Nat
    /\ crashes \in Nat
    /\ torn \in BOOLEAN

\* Every commit is announced once and only once: what is not applied is on its way on
\* commits_ready, in the hands of ApplyToStateMachine, or was given up by this process.
CommitsAccounted == commitIndex = lastApplied + offer + ones + toCommit + skipped

\* The commit index stays inside the log, with room for the entries that wait for a
\* verdict, unless an entry of an earlier leadership is committed after all.
OnlyOrphansOverrun == ~ late => commitIndex + Pending < logLen

\* An entry that the key-value store has seen is in the file, and the file says that it
\* is committed: a crash between two saves cannot take it back.  One inside a save can, and
\* again an orphan is an exception.
AppliedIsRecorded == ~ late /\ ~ torn => kv <= disk.commitIndex /\ kv < disk.logLen

\* The key-value store sees the entries in order and without a gap, through failed
\* requests, crashes and amounts that come in any order.
AppliedInOrder == [][kv' # kv => kv' = kv + 1]_vars

\* As long as there is no crash, the key-value store is at the entry that the replica is
\* at, or one ahead when a request failed after the store had performed it: no other entry
\* is performed twice.
AppliedOnce ==
    crashes = 0 =>
        /\ kv <= lastApplied + applied + 1
        /\ failures = 0 => kv = lastApplied + applied

\* What is committed gets applied, unless a crash takes the commit back before it is saved,
\* a failed request drops the rest of an amount, an orphan was committed, or AppendEntries
\* and ApplyToStateMachine wait for each other: one to receive, the other for the lock.
CommittedIsAppliedOrStuck ==
    \A i \in 0 .. MaxLog - 1 :
        commitIndex >= i ~> \/ lastApplied >= i
                            \/ commitIndex < i
                            \/ skipped > 0
                            \/ late
                            \/ received /\ lock = InAppendEntries

-----------------------------------------------------------------------------
\* The inductive invariant.

\* Only a holder of the lock that is at commits_ready offers anything, and only a
\* goroutine that received an amount applies.
Channel ==
    /\ lock \in {Free, InApply} => offer = 0
    /\ ~ received => toCommit = 0
    /\ lock = InApply => received /\ applied <= toCommit
    /\ lock # InApply => applied = 0

\* The file is behind the node only in what WriteCommand appended, and in a commit that
\* AppendEntries has not announced yet.
DiskIsCurrent ==
    /\ disk.lastApplied = lastApplied
    /\ disk.logLen <= logLen
    /\ lock # InAppendEntries => disk.commitIndex = commitIndex
    /\ ~ late => disk.commitIndex < disk.logLen /\ disk.commitIndex <= commitIndex

\* Amounts are negative only after an overrun.
AmountsNatural == ~ late => offer >= 0 /\ toCommit >= 0

\* The key-value store has seen at least what was applied since lastApplied.
KVFollows == lastApplied + applied <= kv

\* What was applied is in the log and committed, for the node and for the file.
AppliedInLog ==
    /\ lastApplied + applied < logLen
    /\ lastApplied + applied <= commitIndex
    /\ lastApplied < disk.logLen
    /\ lastApplied <= disk.commitIndex

\* Entries of this leadership wait for a verdict only while it lasts.
LeaderWrites == ~ leading => ~ noop /\ writes = 0

IInv ==
    /\ TypeOK
    /\ Channel
    /\ DiskIsCurrent
    /\ LeaderWrites
    /\ AppliedInLog
    /\ AmountsNatural
    /\ CommitsAccounted
    /\ OnlyOrphansOverrun
    /\ AppliedIsRecorded
    /\ KVFollows
    /\ AppliedOnce
=============================================================================
