-------------------------- MODULE AppendEntriesLog --------------------------
(***************************************************************************)
(* What the two RPC handlers of raft/rpcs.go compute from logs, without    *)
(* state: the up-to-date test of RequestVote, and the consistency check,   *)
(* the log merge and the commit rule of AppendEntries.                     *)
(*                                                                         *)
(* A log is a sequence of records with at least a field "term".  Indices   *)
(* are the code's own, from 0, with -1 for "before the first entry", so    *)
(* the entry the code calls node.log[i] is log[i + 1] here.                *)
(***************************************************************************)
EXTENDS Integers, Sequences

\* The pair (latestLogIndex, latestLogTerm) of a replica; (-1, -1) for an empty log.
LatestLogIndex(log) == Len(log) - 1

LatestLogTerm(log) == IF log = <<>> THEN -1 ELSE log[Len(log)].term

\* A candidate whose log ends at (index, term) is at least as up to date as log.
AtLeastAsUpToDate(index, term, log) ==
    \/ term > LatestLogTerm(log)
    \/ term = LatestLogTerm(log) /\ index >= LatestLogIndex(log)

\* The message follows on from log: at prevLogIndex, unless that is before the first
\* entry, log has an entry of term prevLogTerm.
HasPrevEntry(log, prevLogIndex, prevLogTerm) ==
    prevLogIndex # -1 => /\ prevLogIndex < Len(log)
                         /\ log[prevLogIndex + 1].term = prevLogTerm

\* The positions of the log that the entries of a message are for.
Covered(prevLogIndex, entries) ==
    prevLogIndex + 2 .. prevLogIndex + 1 + Len(entries)

\* Position p of the log is missing, or its term is not the message's.
Mismatch(log, prevLogIndex, entries, p) ==
    \/ p > Len(log)
    \/ log[p].term # entries[p - prevLogIndex - 1].term

\* The stale-term branch answers TRUE exactly when nothing of the message is missing.
AlreadyReplicated(log, prevLogIndex, entries) ==
    \A p \in Covered(prevLogIndex, entries) : ~ Mismatch(log, prevLogIndex, entries, p)

\* From the first mismatch on, every entry of the message is written.
Written(log, prevLogIndex, entries) ==
    {p \in Covered(prevLogIndex, entries) :
        \E q \in prevLogIndex + 2 .. p : Mismatch(log, prevLogIndex, entries, q)}

\* The log after the two loops: appended to or overwritten in place, never cut.
MergedLog(log, prevLogIndex, entries) ==
    LET end == prevLogIndex + 1 + Len(entries)
        written == Written(log, prevLogIndex, entries)
    IN  [p \in 1 .. (IF end > Len(log) THEN end ELSE Len(log)) |->
            IF p \in written THEN entries[p - prevLogIndex - 1] ELSE log[p]]

\* The follower's commitIndex after a message, given its merged log.
FollowerCommit(commitIndex, leaderCommit, log) ==
    IF leaderCommit <= commitIndex THEN commitIndex
    ELSE IF leaderCommit < Len(log) THEN leaderCommit
    ELSE Len(log) - 1
=============================================================================
