-------------------------- MODULE AppendEntriesLoop --------------------------
(***************************************************************************)
(* The body of AppendEntries (raft/rpcs.go) as the code runs it: the check *)
(* of the previous entry, the loop that looks for the first mismatch, the  *)
(* loop that writes, the commit rule, and the branch that answers a        *)
(* message of an earlier term.  Module AppendEntriesLog says in one        *)
(* definition each what these loops compute; here they take their steps.   *)
(*                                                                         *)
(* The handler holds the node's mutex throughout, so nothing else happens  *)
(* between two steps.                                                      *)
(***************************************************************************)
EXTENDS AppendEntriesLog

CONSTANTS
    Term,     \* the terms of entries
    Log,      \* the logs that replicas and messages may have
    Commit    \* the values of LeaderCommit

ASSUME LoopAssumption ==
    /\ Term \subseteq Nat
    /\ Log \subseteq Seq([term : Term])
    /\ Commit \subseteq Int

VARIABLES
    msg,          \* in, the message; "stale" when its term is an earlier one
    before,       \* node.log when the handler starts
    log,          \* node.log
    commitIndex,  \* node.commitIndex
    logIndex,     \* the code's logIndex
    entryIndex,   \* the code's entryIndex
    success,      \* the answer
    pc            \* where the handler is

vars == <<msg, before, log, commitIndex, logIndex, entryIndex, success, pc>>

-----------------------------------------------------------------------------
Entry == [term : Term]

Message == [stale : BOOLEAN, prevLogIndex : {n \in Int : n >= -1}, prevLogTerm : Int,
            entries : Seq(Entry), leaderCommit : Int]

\* Any log, however terms rise and fall in it: entries are overwritten in place.
Init ==
    /\ log \in Log
    /\ before = log
    /\ commitIndex \in -1 .. Len(log) - 1
    /\ \E stale \in BOOLEAN, prev \in -1 .. Len(log), term \in Term,
          entries \in Log, commit \in Commit :
          msg = [stale |-> stale, prevLogIndex |-> prev, prevLogTerm |-> term,
                 entries |-> entries, leaderCommit |-> commit]
    /\ logIndex = 0
    /\ entryIndex = 0
    /\ success = FALSE
    /\ pc = "check"

HasPrev == HasPrevEntry(before, msg.prevLogIndex, msg.prevLogTerm)

\* The entry at PrevLogIndex is there: the first loop starts.
PrevFound ==
    /\ pc = "check"
    /\ HasPrevEntry(log, msg.prevLogIndex, msg.prevLogTerm)
    /\ logIndex' = msg.prevLogIndex + 1
    /\ entryIndex' = 0
    /\ pc' = "compare"
    /\ UNCHANGED <<msg, before, log, commitIndex, success>>

\* It is not: the answer is FALSE.
PrevMissing ==
    /\ pc = "check"
    /\ ~ HasPrevEntry(log, msg.prevLogIndex, msg.prevLogTerm)
    /\ success' = FALSE
    /\ pc' = "done"
    /\ UNCHANGED <<msg, before, log, commitIndex, logIndex, entryIndex>>

\* Mutant of Same: the comparison is one position off.
SameNext ==
    /\ entryIndex < Len(msg.entries)
    /\ logIndex + 1 < Len(log)
    /\ log[logIndex + 2].term = msg.entries[entryIndex + 1].term

\* Both indices are in range and the terms agree.
Same ==
    /\ entryIndex < Len(msg.entries)
    /\ logIndex < Len(log)
    /\ log[logIndex + 1].term = msg.entries[entryIndex + 1].term

\* Mutants of Compare: an index is advanced in the loop's header and in its body.
CompareSkipsEntry ==
    /\ pc = "compare"
    /\ Same
    /\ logIndex' = logIndex + 1
    /\ entryIndex' = entryIndex + 2
    /\ UNCHANGED <<msg, before, log, commitIndex, success, pc>>

CompareSkipsLog ==
    /\ pc = "compare"
    /\ Same
    /\ logIndex' = logIndex + 2
    /\ entryIndex' = entryIndex + 1
    /\ UNCHANGED <<msg, before, log, commitIndex, success, pc>>

\* The first loop goes on: both indices are in range and the terms agree.
Compare ==
    /\ pc = "compare"
    /\ Same
    /\ logIndex' = logIndex + 1
    /\ entryIndex' = entryIndex + 1
    /\ UNCHANGED <<msg, before, log, commitIndex, success, pc>>

\* The first loop ends: the writing starts, or the answer to an earlier term is given.
CompareEnds ==
    /\ pc = "compare"
    /\ ~ Same
    /\ IF msg.stale
       THEN /\ success' = (entryIndex = Len(msg.entries))
            /\ pc' = "done"
       ELSE /\ success' = success
            /\ pc' = "write"
    /\ UNCHANGED <<msg, before, log, commitIndex, logIndex, entryIndex>>

\* The second loop appends an entry or overwrites one.
Write ==
    /\ pc = "write"
    /\ entryIndex < Len(msg.entries)
    /\ log' = IF logIndex = Len(log)
              THEN Append(log, msg.entries[entryIndex + 1])
              ELSE [log EXCEPT ![logIndex + 1] = msg.entries[entryIndex + 1]]
    /\ logIndex' = logIndex + 1
    /\ entryIndex' = entryIndex + 1
    /\ UNCHANGED <<msg, before, commitIndex, success, pc>>

\* The commit index that a message ahead of the node's leads to.
LastCommitted ==
    IF msg.leaderCommit < Len(log) THEN msg.leaderCommit ELSE Len(log) - 1

\* The second loop ends; the commit index follows the leader's.
WriteEnds ==
    /\ pc = "write"
    /\ entryIndex = Len(msg.entries)
    /\ commitIndex' = IF msg.leaderCommit > commitIndex THEN LastCommitted ELSE commitIndex
    /\ success' = TRUE
    /\ pc' = "done"
    /\ UNCHANGED <<msg, before, log, logIndex, entryIndex>>

Next == PrevFound \/ PrevMissing \/ Compare \/ CompareEnds \/ Write \/ WriteEnds

Spec == Init /\ [][Next]_vars

-----------------------------------------------------------------------------
\* Every variable holds what the code's types allow.
TypeOK ==
    /\ msg \in Message
    /\ before \in Seq(Entry)
    /\ log \in Seq(Entry)
    /\ commitIndex \in Int
    /\ logIndex \in Nat
    /\ entryIndex \in 0 .. Len(msg.entries)
    /\ success \in BOOLEAN
    /\ pc \in {"check", "compare", "write", "done"}

\* The log the two loops leave is the merge of AppendEntriesLog, and a message of an
\* earlier term or without its previous entry leaves the log alone.
LoopsMerge ==
    pc = "done" =>
        log = IF HasPrev /\ ~ msg.stale
              THEN MergedLog(before, msg.prevLogIndex, msg.entries)
              ELSE before

\* The answer to an earlier term is TRUE just when nothing of the message is missing.
StaleAnswer ==
    pc = "done" /\ msg.stale =>
        success = (HasPrev /\ AlreadyReplicated(before, msg.prevLogIndex, msg.entries))

\* The second loop writes inside the log or right at its end, so it cannot panic.
WriteInRange == pc = "write" => logIndex <= Len(log)

\* A message delivered again, or an earlier one with fewer of its entries that arrives
\* late, finds nothing to change.
LateCopiesChangeNothing ==
    pc = "done" /\ success /\ ~ msg.stale =>
        \A n \in 0 .. Len(msg.entries) :
            MergedLog(log, msg.prevLogIndex, SubSeq(msg.entries, 1, n)) = log

-----------------------------------------------------------------------------
\* The inductive invariant: what each loop has done by the time it is at logIndex.

\* Both indices move together from the start of the message.
InStep == logIndex = msg.prevLogIndex + 1 + entryIndex /\ logIndex <= Len(log)

\* The first loop has met no mismatch yet.
Matched ==
    \A p \in msg.prevLogIndex + 2 .. logIndex :
        ~ Mismatch(before, msg.prevLogIndex, msg.entries, p)

\* What the second loop still has to write starts at or after a mismatch.
MismatchSeen ==
    entryIndex < Len(msg.entries) =>
        \E q \in msg.prevLogIndex + 2 .. logIndex + 1 :
            Mismatch(before, msg.prevLogIndex, msg.entries, q)

\* The log so far is the merge, up to logIndex.
MergedSoFar ==
    /\ Len(log) = IF logIndex > Len(before) THEN logIndex ELSE Len(before)
    /\ \A p \in 1 .. Len(log) :
          log[p] = IF /\ p <= logIndex
                      /\ p \in Written(before, msg.prevLogIndex, msg.entries)
                   THEN msg.entries[p - msg.prevLogIndex - 1]
                   ELSE before[p]

IInv ==
    /\ TypeOK
    /\ pc \in {"check", "compare"} => log = before
    /\ success => pc = "done" /\ HasPrev
    /\ pc \in {"compare", "write"} => HasPrev /\ InStep
    /\ pc = "compare" => Matched
    /\ pc = "write" => ~ msg.stale /\ MismatchSeen /\ MergedSoFar
    /\ LoopsMerge
    /\ StaleAnswer
=============================================================================
