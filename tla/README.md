# A TLA+ development for the replicated key-value store

The repository is a replicated key-value store in Go on its own implementation of Raft. Each
replica is one process with a gRPC server for its peers, an HTTP server for clients and a
local HTTP key-value store; all of its goroutines share one `RaftNode` under one
`sync.RWMutex` (`raft_node_mutex`) and talk over unbuffered channels.

This directory holds specifications of the core of that program, the configurations that
check them with TLC, and proofs of their main properties for TLAPS. `PROJECT.json` maps each
definition to the lines it stands for.

## 1. Inventory

| Part | State it keeps | Operations | What makes it correct |
|---|---|---|---|
| `AppendEntries` (rpcs.go) | `log`, `commitIndex` | compare, overwrite or append, commit; answer to an earlier term | the loops do what they are meant to for every log; late copies undo nothing; no write outside the slice |
| Election timer (election.go, states.go) | timer goroutines, `stopElectiontimer`, `electionResetEvent`, the lock | run out, reset, stop, start | one timer per replica that does not lead, none for a leader; silence leads to elections; nobody waits forever |
| Election (election.go, rpcs.go, states.go) | `currentTerm`, `votedFor`, `state`, `received_votes`, votes in flight | `RunElectionTimer`, `StartElection`, `RequestVote`, `ToLeader`, heartbeats, step-down, restart | a leader has a majority of its term, so that no two share one; one vote per term, through crashes between saves |
| Write quorum (send_AEs.go) | `successes`, `failures`, `successful_write`, `nextIndex`, `matchIndex` | one goroutine per peer, retries | at most one verdict; success means that a majority has the entries; somebody is told |
| Commits and applying (raft_node.go, states.go, client.go, rpcs.go) | `commitIndex`, `lastApplied`, `commits_ready` | announce, receive, apply, save | each commit announced once, applied in order, recorded before it is applied |
| Replication (send_AEs.go, rpcs.go, states.go, client.go, storage.go) | every replica's `log`, `commitIndex`, `nextIndex` and file; messages and answers on their way | `WriteCommand`, `ToLeader`, `HeartBeats`, the goroutines and retries of `LeaderSendAEs`, `AppendEntries`, crash and restart | logs agree where they share an entry; committed prefixes agree; what a client was told of stays |
| Client commands (client.go, raft_server.go) | `trackMessage`, `latestClient`, the goroutine of each request | the four handlers, `WriteCommand`, `ReadCommand`, `StaleReadCheck` | a read sees every write answered before it; a refused repetition was replicated; a PUT finds its key; everybody is answered |
| Persistence (storage.go) | the gob file | `PersistToStorage`, `RestoreFromStorage` | what a crash must not lose is in the file; the file is there |
| Key-value store (kv_store/) | 101 linked lists, `db_temp`, its own file | POST, PUT, DELETE, GET, recover | a map; the same map after a restart |
| Boot and shutdown (initial_setup.go, utils.go, main.go) | contexts, servers, `shutdown_chan` | start in order, cancel, wait for four messages | pending commits are announced before any message arrives; shutdown ends |

How they interact. A vote or an `AppendEntries` of a later term makes a replica a follower
(`ToFollower`), which resets or starts its timer. The timer makes it a candidate; a majority
of votes makes it a leader (`ToLeader`), which sends a no-op through `LeaderSendAEs` and
then runs `HeartBeats`. A client's write goes through `WriteCommand` and `LeaderSendAEs`;
the verdict that comes back on `successful_write` moves `commitIndex` and puts 1 on
`commits_ready`. A follower's commits come with `AppendEntries`, which puts the difference
there. `ApplyToStateMachine` receives amounts and makes that many requests to the key-value
store, which saves itself to a file of its own before it answers. A client's read goes
through `ReadCommand`, which waits until everything committed is applied, confirms the
leadership with a heartbeat and asks the key-value store.

What is hard about it. Goroutines outlive what they were started for: votes and verdicts
arrive after the election or the leadership they belong to, and code reads the node after
releasing the lock under which it checked it. Three unbuffered channels are written with the
lock held, and their receivers take the same lock. Messages are lost, late, repeated;
crashes come between a change and its save. `hazards` in `PROJECT.json` lists each such
place with the properties that watch it; those without one have a note.

## 2. The modules

| Module | Models | Level |
|---|---|---|
| `AppendEntriesLog` | operators: the up-to-date test, the consistency check, the merge, the commit rule | pure functions, indices as in the code (from 0, -1 for none) |
| `AppendEntriesLoop` | one run of the handler, a step of each loop at a time | a step is one iteration |
| `ElectionTimer` | one replica's timers, channels and lock | a step is what happens between two blocking points |
| `Election` | all replicas, terms, votes, logs as terms, files | a step is one critical section, or one access without the lock |
| `LeaderSendAEs` | one call with its goroutines | a step is an RPC outcome, an atomic add, a channel operation |
| `ApplyCommits` | one replica's indices, `commits_ready`, lock, file and key-value store | a step is what happens between two blocking points |
| `Replication` | all replicas: logs, files, `nextIndex`, calls of `LeaderSendAEs`, messages | a step is one critical section; an election is one step |
| `ClientCommands` | the requests to one leader, `commits_ready` and `ApplyToStateMachine` | a step is what happens between two releases of the lock |
| `KvMap` | the abstract key-value store: a map that may crash | a step is one request, save or crash |
| `KvStore` | the hash table of linked lists, the handlers, the file | a step is one critical section, a save being three |

The `...Proofs` modules hold the theorems (section 4); `MC...` modules give TLC symmetry
sets, the hash function of the store and the range of logs and messages.

`Election` uses `AppendEntriesLog` for the handler `AppendEntriesLoop` has step by step:
`LoopsMerge` and `StaleAnswer` are the statements that the loops compute its operators, so
the operators are the abstract specification of the loops. (`FollowerCommit` is one
expression in the code and in both modules; what it does to the replicas is the matter of
`CommittedAgree`.) `Replication` uses the same operators for all replicas, and takes as one
step what `Election` has in parts. `ApplyCommits` and `Replication` each keep one side of a
commit, and `ClientCommands` the side of the client; its store is the map that `KvStore`
implements (`IsMap`, an instance of `KvMap` under a refinement mapping). `ElectionTimer`
opens up what `Election` takes as one step (that a replica which does not lead may time out,
and a leader may not: `LeaderNeverCampaigns`). `ApplyCommits` takes verdicts as they may
come, late ones included; `LeaderSendAEs` says what they mean.

### AppendEntriesLoop

`msg` and `before` are the message and the log the handler starts with: any, over `Term`,
`Log` and `Commit`, that a follower may hold. `PrevFound`/`PrevMissing` are the test at
rpcs.go:120 (and :69), `Compare` one round of the loop at :125 (or :73), `CompareEnds` the
answer at :86 and the step to the second loop, `Write` one round of the loop at :139,
`WriteEnds` the commit at :159.

### ElectionTimer

`waiting[c]` and `fired[c]` count the goroutines of `RunElectionTimer` under context `c`: in
the outer `select`, or past the timeout and in front of `GetLock`. `c` is `Master`, or
`Call` for a timer that `LeaderSendAE` started under the context of its RPC; that context
lasts 20 ms, less than the 500 ms a timer takes at least, so it is always over when the
timer runs out. `resets` counts the goroutines of `ToFollower` at `electionResetEvent <-
true`. `lock` says who holds `raft_node_mutex` while blocked: `AppendEntries` at
rpcs.go:115, `ToLeader` at states.go:53, or for ever a timer that returned at
election.go:36. It may also be a timer on its way from election.go:35 to `ToCandidate`
(`FiredProceeds`, `ToCandidate`): whatever else starts with the mutex has to wait, but
`Cancel` takes no lock and may come in between, so that an election may start after shutdown
has begun. `Message` are the messages that a silence is without, and `Stuck` names the ways
in which a timer or a handler may wait or hold the mutex for ever.

### Election

An action per critical section: `ElectionTimeout` (`ToCandidate` with `StartElection`),
`SendRequestVote` (the read of the arguments in a vote goroutine, whenever it gets to run),
`RequestVote`, `DropAnswer`/`KeepWaiting`/`ToLeader` (what a vote goroutine does with its
answer), `HeartBeatCheck` and `HeartBeatSend` (the check under the lock, and the message
built without it), `RefuseAppend`/`AppendEntries`, `StepDown` (`LeaderSendAE` learning of a
later term), `Restart` and `TornSave`. The last is a crash in `PersistToStorage` between
`os.Create`, which empties the file (storage.go:31), and `Encode` (:41). `HasData` takes the
empty file for none, so the replica starts like a new one, with its term, vote and log lost
(`NoFile`, counted in `torn`). Encoding may also leave a part of the file; then
`RestoreFromStorage` ends every later start at once, and the replica is one that takes no
more steps, which the models have anyway. A vote goroutine carries `round`, the election
whose `received_votes` it adds to; after a crash of its process it is `Orphan` and its
answer is dropped. A lost message is one never delivered; appends may be delivered again.
Client writes are not in this module but in `Replication`. `counted` is a history variable.

### LeaderSendAEs

Each peer's goroutine is `starting`, `writing` its `PrevLogIndex`, `PrevLogTerm` and
`Entries` into the message that all goroutines of the call share (send_AEs.go:124-135, under
a lock that is a read lock, and at :135 under none), waiting for gRPC to be `encoding` it,
`calling`, has a `success` or `failure` to count, has a verdict to tell, or is done. `mixed`
says that two have written at the same time. A peer is `astray` when what was encoded for it
may be about other entries: the writes were mixed, another goroutine has not finished its
own (`MayBeMixed`), or the entries, which are pointers into the log, were overwritten since
the node was `deposed`. `Matched` peers, those a success may come of, have the entries or
are astray; so `SuccessIsReplicated` promises a majority of these together, and
`MCFalseSuccess` shows that those who have the entries need not be one. `Store` is the
peer's handler, which may also run after the caller gave up. `Peer` are the peers with a
client: all of them in the program, fewer when a test partitions the cluster.

### ApplyCommits

Entries are indices. `noop` and `writes` are this leadership's entries without a verdict;
`orphans` those whose leadership is over (or which a PUT or DELETE appended after losing it,
since client.go:67-78 gives the lock up and does not check again). `CommitOne` is the
increment, save and announcement at states.go:98-102 and client.go:108-113. `offer` is what
a goroutine that holds the lock sends on `commits_ready` (`AppendEntries`, or
`ConnectToPeerReplicas` at boot), `ones` the goroutines that send 1 without it. `received`,
`toCommit`, `applied` are `ApplyToStateMachine`; `kv` is the highest entry that the
key-value store has performed; a request that fails (`RequestFails`) may do so before the
store has performed it or after (raft_node.go:219-227 see only the error). `Crash` may come
at any point, `CrashInSave` inside a save, as `TornSave` does; `Panics` is the crash at the
slice expression raft_node.go:202 or the empty entry behind it. `skipped`, `late` and `torn`
are history variables.

### Replication

`Election` is one election: who is asked, who votes (`Grants`, the test of the logs in
`RequestVote`, and `MayVote`: a replica that is in the term already may have its vote left)
and the no-op of `ToLeader`, all saved; it may also end without a leader. From four replicas
on a candidate may win with fewer votes than a majority (`MayMiscount`, as
`MCElectionNoMajority` shows), which is a "minority leader". A call of `LeaderSendAEs`
(`calls`) starts a goroutine per peer (`starts`) that reads `nextIndex` and the log when it
gets to run (`Send`), by which time its replica may have been deposed. It does so into the
message that the call's goroutines share: until gRPC has encoded it, each of `prevLogIndex`,
`prevLogTerm` and `entries` may become what another goroutine wrote, or what has overwritten
the entries in the log (`Rewritten`, a "shared message"; `shared` is what the goroutines
wrote). `LeaderSendAE` reads `PrevLogIndex` of that message again after a refusal
(`ReadAgain`, send_AEs.go:47), and may find another goroutine's.
`AppendEntries`/`AppendEntriesStale` are the handler, `Answered` and `Retry` what
`LeaderSendAE` does with an answer, `GiveUp` a call that ended without one: its message was
lost, or the answer. `Returns` counts to the write quorum, `Commit` is the increment and
save that follow it, `RetryNoOp` the loop of `ToLeader`. `WriteCommand` does not save; so a
`Crash` may take its entry, which `disk` shows; `CrashInSave` takes everything (a "torn
save"). `Panics` is a slice below the log's first entry. Messages of a crashed process still
arrive.

`odd` is a history variable that names what has happened of the things that the argument of
the Raft paper rules out and this code does not: besides the three quoted so far, a follower
appends (`client.go:67` gives up the lock and does not check again) or sends
(`send_AEs.go:193`, and `client.go:128`), an overwritten entry leaves its tail behind
(`rpcs.go:151`), a verdict is taken after its leadership (`client.go:108`), a refusal of an
earlier leadership's call is tried again in a later leadership of the same replica
(`send_AEs.go:41`), or its no-op is sent again (`states.go:90`), a refusal is of a message
that was not made with the present `nextIndex` (`send_AEs.go:43`). All but the last are
`Broken`, and the properties of logs are promised until then and not after: what comes of
them is for the list in section 3. The last one excuses `NextIndexInLog` only.

### ClientCommands

`req` is the goroutine of each request: where it is (`at`), and what it remembers. `Handler`
is the check of raft_server.go; `WriteCommandWaits` and `ReadCommandWaits` leave the loops
at client.go:23 and :128, `WriteCommandChecks` is the section from :33, `ReadCommandReads`
the answer to the heartbeat and the request to the store, for a GET or for the lookup of a
PUT or DELETE, which `WriteCommandAppends` follows. `Succeeds`, `Fails` and `Announces` are
what comes after the verdict, on the no-op of `ToLeader` (task 0), too. `Applies` and
`ApplyHalts` are `ApplyToStateMachine`, which receives a 1 for each success; the request at
which it halts may have been performed. The replica leads from the start, with up to
`MaxInherited` entries of earlier leaders in its log, and may stop leading. Entries remember
their verdict, whether their client was told, and `lastApplied` at the time of the lookup;
all of this is history.

### KvMap and KvStore

`KvStore` has the lists, `db_temp` (what a save writes) and the file, which a save truncates
(`Persist`), starts (`EncodeType`) and completes (`EncodeMap`); a crash may come in between,
after which the file is empty or cannot be decoded. `InitializeStore` pushes the keys of the
file in any order, as Go's maps do. `KvMap` is what this amounts to. Its two peculiarities
are of the code: "Invalid" as a value looks like no value, so a POST adds a second node for
its key, which a DELETE may uncover; and an empty value is not there after a restart.

## 3. What is checked

Runs that pass:

| Run | Instance | Distinct states | Shows |
|---|---|---|---|
| `MCAppendEntriesLoop` | every log and message of up to 3 entries and 2 terms, commit indices from -1 to 4 | 265,026 | the loops compute the merge and the stale answer; writes are in range; a repeated or an earlier, shorter message changes nothing afterwards |
| `MCElectionTimer` | 3 elections, 3 waiting resets | 652 | one timer, or none for a leader; a replica that hears nothing any more leads or campaigns, or is in one of three deadlocks that the property names |
| `MCElectionRestart` | 3 replicas, 2 terms, 2 elections, 2 appends, 1 crash, inside a save or not | 1,364,763 | every leader has a majority of its term; but for the crash inside a save, terms never go back and votes for others stand; without one no two leaders of a term have a majority |
| `MCLeaderSendAEs` | 4 replicas, 2 calls per peer | 718,808 | one verdict, final and backed by a majority of peers that have the entries or were sent a mixed message, and the caller gets it |
| `MCApply` | 4 entries, 1 failed request, 2 crashes, inside a save or not, as leader and follower | 412,076 | every commit announced once, applied in order, and once unless a crash comes; recorded before it is applied unless a save was torn; only late verdicts take `commitIndex` out of the log; commits are applied in the end unless something that the property names stands in the way |
| `MCKvStore` | 3 keys, 2 of them in one list, 4 values with the empty one and "Invalid", lists of 3 | 28,200 | the table and its file are the map of `KvMap`; no list hides an older value |
| `MCReplication` | 3 replicas, 2 terms, logs of 2 entries and a no-op, 2 calls and 3 messages at a time, 1 heartbeat, crash, lost answer or lost election | 1,436,621 | until something in `Broken` happens, logs match, committed prefixes agree and an acknowledged entry stays; `nextIndex` stays in the log |
| `MCClientCommands` | 2 requests of any kind, an entry of an earlier leader, 1 failed request to the store | 356,533 | reads see what was answered before; refused repetitions were replicated; changes find their key; everybody is answered |

Runs that fail as they should, each a place where the code does not do what its own comments
say (`findings` in `PROJECT.json` quotes them):

| Run | Property | What happens |
|---|---|---|
| `MCTimerLeak` | `TimeoutStartsElection` | A leader deposed by an answer (send_AEs.go:36) gets a timer under that call's context. It runs out, finds the context over and returns at election.go:36 with the mutex held: the replica never does anything again. |
| `MCElectionNoMajority` | `LeaderHasMajority` | Four replicas. A vote goroutine of a candidate's first election reads the term after its second has begun; the vote it gets is of the second term but is added to the counter of the first election, which has a vote of the first term already. Three replicas cannot show this: two votes are a majority there, and the candidate's own is one. |
| `MCFalseSuccess` | `AckedIsPersisted` | r1 leads, r2 has its no-op, r3 has nothing. r1 appends a write. The goroutine for r2 writes `PrevLogIndex` 0 and the write into the message, the one for r3 writes -1 over the index, and the message goes to r2: it finds an entry of that term where the write would go (rpcs.go:122-134 compare terms), stores nothing and answers with success. The write has its quorum, and only the leader has it. |
| `MCNotPerformed` | `AnsweredIsPerformed` | Two clients write; the first write gets no quorum and its client is told so, but its entry stays. The success of the second moves `commitIndex` by one, onto the first entry: that one is performed, and the second, whose client was told of success, is not until yet another write succeeds. |

Seen in the models and not given a run of their own:

- a write may also be acknowledged without a majority, and without the shared message, when
  a leader appends it and is deposed before a goroutine of the call reads the log. The new
  leader's no-op overwrites the entry, the goroutine sends the no-op in the old term, the
  new leader answers that it has it (rpcs.go:69-88), and the old write has its quorum. "late
  verdict" covers it;
- a timer that runs out while `AppendEntries` (rpcs.go:115) or `ToLeader` (states.go:53) is
  about to write its channel waits for the mutex they hold, and they for the timer. With the
  lock that a timer keeps (`MCTimerLeak`) these are the deadlocks in `Stuck`, which
  `SilenceBringsElections` names. The comment at election.go:26-30 takes for granted that
  the channel can be written before the timer has the lock; only the goroutines of
  `ToFollower` can do that;
- `HeartBeats` passes its check, the replica is deposed and moves to its successor's term,
  and the message is built with that term. It reaches the successor, a leader without a
  timer, which waits at rpcs.go:115 with the mutex held (`HeartBeatSend` in `Election`, a
  "heartbeat of a follower" in `Replication`);
- `AppendEntries` sends at rpcs.go:181 with the mutex held while `ApplyToStateMachine` has
  received an earlier amount and waits for the mutex at raft_node.go:197. Neither goes on:
  the last disjunct of `CommittedIsAppliedOrStuck`;
- a success for an entry of a lost leadership increments `commitIndex` after a new leader's
  message already covered it. The index passes the log's end; the next amount makes
  `ApplyToStateMachine` panic, and the amount announced at the next start does so again.
  This is what `OnlyOrphansOverrun` excepts;
- `LeaderSendAE` tries a refusal again whenever its replica leads, with the current term and
  `commitIndex` but only the entries of its call. A leads terms 1 and 2; a message of term 2
  is refused; C leads term 3 and appends an entry that nobody else gets; A leads term 4 and
  commits. Then it learns of the old refusal, and its next message ends before the entries
  of term 4: C finds nothing to overwrite, keeps its entry behind them and commits it
  (rpcs.go:173). This needs four terms, so the run does not get there. The proof did: the
  invariant could not be kept through `Retry` until it was excepted ("late retry");
- two calls whose messages are refused decrement the same `nextIndex` twice
  (send_AEs.go:43); it may go below 0, and the next goroutine for that peer panics
  (`Panics`, and the exception in `NextIndexInLog`). A refusal of a message with
  `PrevLogIndex` -1, which only a deposed and re-elected leader can get, panics, too;
- `commitIndex++` for the no-op of a new leader commits an entry it inherited, if there is
  one: `commitIndex` lags behind for good, by the number of inherited and of failed entries,
  and what clients are told of is performed only when as many later requests succeed. A
  refused repetition of it, too, was replicated and may never be performed
  (`RepeatedIsReplicated`). `ReadSeesAnswered` says what is left: reads are fresh up to the
  first entry whose request was not answered with success;
- a PUT or DELETE whose lookup fails, other than with "no value", goes on all the same
  (client.go:71), on a replica that has stopped leading, too;
- a request that repeats one still in flight, or after another client's, is not refused;
- a candidate that hears of its term's leader clears `votedFor` in that term (states.go:17,
  from rpcs.go:109). The lost vote is for itself, and `VoteForOtherStands` says that no
  other vote can get lost;
- a peer without a client counts neither as success nor as failure (send_AEs.go:108), so a
  partition in the tests may leave the caller waiting. `NoSilentEnd`, which is proved, has
  the condition, and the run of `CallerIsTold` a client for every peer;
- a failure is told for an entry that a majority stored when answers are lost; clients of
  client.go:116 are told that it "could not be replicated";
- `AppendEntries` keeps the tail behind an overwritten entry (rpcs.go:151) and commits up to
  the end of the log rather than of the message (rpcs.go:173); `MergedLog` and
  `FollowerCommit` are what it does, not what the paper of the comment at :58 does;
- after a failed request the rest of an amount is given up and never announced again
  (raft_node.go:289), which keeps `commitIndex` and `lastApplied` apart until a restart and
  every client in the loops of client.go:23 and :128 (`halted` in `RequestsAnswered`); after
  a crash between applying and saving, entries are applied again, and after a request that
  failed although it was performed the same entry is, if there is a restart (`AppliedOnce`
  holds up to the first crash);
- after a crash inside a save the replica votes again in a term in which it has voted, and
  has none of the entries that it was counted for: `TermNeverDecreases` and
  `VoteForOtherStands` except that step, `MajorityElectionSafety`, `AppliedIsRecorded` and
  (as a "torn save") the properties of logs all that follows it.

### Bounds

Every bound is a constant that appears in the guards of the actions it limits: logs up to
`MaxLog`, `MaxTerm`, `MaxElections`, `MaxAppends`, `MaxRestarts`, `MaxResets`, `MaxTries`,
`MaxFailures`, `MaxCrashes`, `MaxNodes`, `MaxRequests`, `MaxInherited`; `MaxExtras` is for
heartbeats, crashes, lost answers and lost elections of `Replication` together, while
messages get lost freely. They are large enough for what the properties are about: two
candidates in a term with the votes of either late, a log that conflicts in the middle and
goes on behind the message, two amounts in flight while a third is offered, a crash while an
amount is half applied and another after the restart, a second leader with a conflicting
entry at the first one's index, a walk of `nextIndex` back to the start, a collision and a
second node for a key, a lookup that another request overtakes. A third election, so that
two candidates meet in a term after an earlier one, does not fit into `MCElectionRestart`;
there only the theorem speaks. `MCReplication` has the constraint `Bounded`: of a state in
which `Broken` is not empty, or of any later one, only `TypeOK` and `NextIndexInLog` say
anything (and both are theorems), so these are generated but not continued, nor are states
with more than `MaxUnderWay` goroutines, messages and answers on their way.

`CHECK_DEADLOCK FALSE` is in every configuration: with its bounds used up, or with nobody
sending anything, each of the modelled parts may stop, and in the code the deadlocks above
are states of that kind. Replicas are a symmetry set only in runs without liveness
properties.

### Fairness

- `ElectionTimer`: timers run out (`time.After`), a ready receiver receives, and a timer
  that waits for the lock gets it when it is free again and again, since `sync.RWMutex` does
  not starve a writer. A timer past its checks goes on to `ToCandidate`. Nothing makes votes
  or messages come.
- `LeaderSendAEs`: every call ends, in an answer or at its deadline (20 ms for a peer), and
  the goroutines go on: to write the message and after an answer they need the mutex, which
  is assumed to become free. (The deadlocks above are those in which it does not.) No
  fairness for answers to be successes.
- `ApplyCommits`: strong fairness for receiving from either kind of sender and for taking
  the lock, since Go serves the senders on a channel in turn and the mutex does not starve;
  weak fairness for the loop, since a request to the local store answers or fails. None for
  verdicts, messages or requests.
- `ClientCommands`: while any goroutine of a request or `ApplyToStateMachine` can go on, one
  does. The loops look again every 20 ms, every verdict comes (`CallerIsTold`), and
  `ApplyToStateMachine` serves its channel. Requests need not come.

## 4. What is proved

Each `...Proofs` module holds the theorems on the module it extends, for every value of the
constants that satisfies the module's named assumption: all bounds are arbitrary naturals,
`Replica` any finite set, `N` any cluster of two or more (nobody is elected in a cluster of
one: no answer ever arrives), `Peer` any set of fewer peers than that, `Key` any finite set
for `KvStore` and any set for `ClientCommands`, `Hash` any function of it.

Each has an inductive invariant (`IInv`, but for `Replication`) and proves that it holds at
first and after each action; `TypeCorrect` and the theorems on single properties follow from
it. The runs check these properties; that `IInv` holds is left to the proof.

- `AppendEntriesLoopProofs`: `LoopsMerge` alone speaks of the last state only. `IInv` adds
  what each loop has done by the time it is at `logIndex`: no mismatch below it in the first
  loop (`Matched`); in the second, a mismatch at or before it (`MismatchSeen`) and the merge
  up to it (`MergedSoFar`). Lemmas say that the merge is a log, that its entries are the
  message's where written and the old ones elsewhere, and that merging a prefix of the
  message again changes nothing.
- `ElectionTimerProofs`: `OneTimer` is inductive once `CandidateWins` says that only a
  candidate is ever about to become leader. `LeaderNeverCampaigns` follows since a leader
  has no timer to run out.
- `ElectionProofs`: `MajorityElectionSafety` rests on `OneVotePerTerm`: votes that are
  counted or may yet be (`LiveVotes`) of one voter and term are for one candidate. That
  holds since the voter remembers such a vote until a later term (`LiveVotesRemembered`),
  through a crash because of `DiskIsCurrent`, unless it comes inside a save (`NoTornSave`);
  and candidates and leaders have voted for themselves (`VotedForSelf`), which is why
  clearing one's own vote does no harm. Two majorities of a finite set meet
  (`FiniteSetTheorems`). `NoNewerAnswer`, needed since the code's vote goroutine would step
  down on it, shows that branch to be unreachable: `RequestVote` answers with the
  candidate's own term. `SmallClusterMajority` is `LeaderHasMajority` for at most three
  replicas. A candidate's counter may hold votes of its earlier elections, but the vote it
  wins with is for its present term, and with its own that is a majority of three
  (`TwoAreMajority`). A majority of four needs a third vote, and `MCElectionNoMajority`
  shows a leader without it.
- `LeaderSendAEsProofs`: the counters are exact (`CountersExact`), successes are of peers
  that have the entries or went astray (`SuccessesMatched`), and a threshold is reached just
  when its verdict is on its way or told (`VerdictOnThreshold`); the two thresholds together
  exceed what `N` replicas can give, so there is one verdict.
- `ApplyCommitsProofs`: `CommitsAccounted` is an equation over all places where a commit can
  be; `OnlyOrphansOverrun` needs it together with what the file says (`DiskIsCurrent`) to
  survive a crash, and `AmountsNatural` since an overrun can make amounts negative. A crash
  inside a save ends what `DiskIsCurrent` and `AppliedIsRecorded` say. `NoReplay` follows
  from `AppliedOnce` being in the invariant: up to the first crash the store is at the entry
  the replica is at, or has performed the one whose request failed.
- `ClientCommandsProofs`: `commitIndex` counts successes and `lastApplied` counts answers,
  and neither says of which entries, so the invariant counts entries. `CommitsCounted`: as
  many entries have a success as are committed. `AnswersCounted`: as many were answered as
  were applied, have failed to be applied, or are being applied. `EntriesOfTasks`: tasks
  that wait have an entry each, and it has no other verdict than theirs. `ReadsSeeAnswers`
  follows since a read waits for the two to be equal, and a prefix of answered entries
  cannot be longer than the committed one. For `RepeatedAreReplicated` `TrackedReplicated`
  says that `trackMessage` holds the operation of an entry with a success; if all entries
  before it have one, too, it is committed since successes are counted (`PrefixCommitted`).
  For `KeysFound` `EntriesKeepKeys` says that a key that was found stays until a DELETE of
  it is applied, and the DELETEs that lie between are those that `KeyKept` excludes.
- `KvStoreProofs`: `StoreIsMap` is the refinement `Spec => IsMap`. It needs to know that
  what a search finds is what the next save writes (`TempFollows`), what the file holds in
  each phase of a save (`FileFollows`), and that behind a list's first node for a key there
  is only "Invalid" (`OnlyInvalidHidden`), which is what a DELETE may bring back. Lemmas say
  what a search finds after `Push`, `Put` and `remove`, and in a list of the file's keys.
  Every step of `KvStore` is then a step of `KvMap` or leaves the map alone.
- `ReplicationProofs` is the argument of the Raft paper for what this code does, for any
  number of replicas, calls, terms, entries and messages, and with files that lag behind
  logs. From four replicas on the code itself may make a leader without a majority: that is
  in `Broken`, and the theorems then promise nothing.
  - `TypeCorrect` and `NextIndexStaysInLog` follow from `Shapes`: what calls, goroutines,
    messages and answers refer to is there. A goroutine's `upper` is in the log of its
    process, which only a restart cuts, and a restart ends the process's calls.
  - `LogsMatch` speaks of the set K of all logs that there have been and E of all terms with
    a leader (`Past`). What a message carries is the end of a log of K (`Carried`); a
    leader's log is the longest of K with an entry of its term (`LeaderLog`), so an append
    makes no second entry of a position and term; a term with a leader is known to a
    majority (`Known`), so nobody else is elected in it. K is closed under what
    `AppendEntries` makes of a log (`MergeInHistory`) as long as no tail is kept behind an
    overwritten entry.
  - `AckedEntriesStay` and `CommitsAgree` add the set Acc of points <<replica, position,
    term>> where a replica has saved an entry in the term of the entry (`Present`). A
    position and term is `Blocked` when a majority is past the term without it: no quorum
    can come of it any more. What is not blocked is in every log of K that has an entry of a
    later term (`Complete`) and in the file of everyone who has saved it (`Points`). The two
    depend on each other: an election gives a log of a new term, and its voters have what is
    not blocked (`VotedIsComplete`); an overwriting message carries such a log, and
    therefore removes only what is blocked (`LogKeeps`). What remains is what makes verdicts
    true in this code, which never says what an answer is an answer to: a message carries a
    log at least as long as its call's `upper` and of a log of its term (`MsgOK`), a success
    vouches for the point at `upper` (`AnswerOK`), each peer is counted once (`OneEach`,
    `Counted`), no two calls of a leadership are for the same entry (`Fresh`), `nextIndex`
    is behind an entry of the leader's term only when the peer has saved it (`NextOK`), and
    `commitIndex`, which is incremented and not assigned, never exceeds the entries
    inherited and those acknowledged in this term (`CountsOK`); nothing is committed that is
    not at or before an acknowledged entry (`CommitsOK`).

  All of this is under `Sound`, that nothing in `Broken` has happened; `"stale refusal"` is
  allowed. A "shared message", a "torn save" and a "minority leader" are steps that end it
  (`RewrittenIsBroken`, `CrashInSaveIsBroken`): without the first, a message is what one
  goroutine read in one step. There are such K, E and Acc in each state, so they are no
  variables. The proof needs one leader for a term and gets it from votes taken in one step;
  that the parts of an election amount to this is `MajorityElectionSafety` of `Election`,
  and, for three replicas, `LeaderHasMajority`.

Every invariant and every action property of a passing run is a theorem (`LeaderHasMajority`
for the number of replicas for which it is true). Only model-checked: the liveness
properties `SilenceBringsElections`, `CallerIsTold`, `CommittedIsAppliedOrStuck` and
`RequestsAnswered` (the prover does not do liveness under fairness).

## 5. What is not modelled, and the plan

Not modelled: log output, the parsing and wording of HTTP, the generated gRPC code (the
network is modelled where it is used), the test harness, the order in which goroutines and
servers start, and the int32 width of terms and indices, which no run of the program gets
near. `matchIndex` is written and never read; `leaderAddress` is only printed. A follower's
copy of `trackMessage` and `latestClient` (rpcs.go:163-169) is left out: `ClientCommands` is
about a single leadership. What else is missing:

- of the message that the goroutines of a call share, single fields may be anyone's, but a
  slice header that is itself torn by the data race (its pointer of one write, its length of
  another) is not modelled;
- a file that was written in part is only a replica that takes no more steps;
- `LeaderSendAEs` takes it that the mutex becomes free: the deadlocks that keep it are in
  `ElectionTimer` and `ApplyCommits`, each module having those of its own channels.

The plan, in order of importance:

1. `Shutdown`: four messages, four timeouts, and goroutines that may be waiting.
2. The bookkeeping for repeated requests across a change of leaders.

Proofs to add are those of the modules that these bring.
