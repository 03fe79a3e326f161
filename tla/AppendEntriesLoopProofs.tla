----------------------- MODULE AppendEntriesLoopProofs -----------------------
(***************************************************************************)
(* For every log and message, of any length and with any terms, the loops  *)
(* of AppendEntries leave the merge that AppendEntriesLog defines, and the *)
(* commit index and the answer that go with it.                            *)
(***************************************************************************)
EXTENDS AppendEntriesLoop, SequenceTheorems, TLAPS

\* The merge is a log: what was missing is contiguous with what was there.
LEMMA MergedLogIsLog ==
    ASSUME NEW S, NEW old \in Seq(S), NEW entries \in Seq(S),
           NEW prev \in Int, prev >= -1, prev < Len(old)
    PROVE  /\ MergedLog(old, prev, entries) \in Seq(S)
           /\ Len(MergedLog(old, prev, entries)) =
                IF prev + 1 + Len(entries) > Len(old) THEN prev + 1 + Len(entries) ELSE Len(old)
<1> DEFINE end == prev + 1 + Len(entries)
           len == IF end > Len(old) THEN end ELSE Len(old)
           value(p) == IF p \in Written(old, prev, entries)
                       THEN entries[p - prev - 1] ELSE old[p]
<1>1. len \in Nat
  OBVIOUS
<1>2. ASSUME NEW p \in 1 .. len PROVE value(p) \in S
  <2>1. CASE p \in Written(old, prev, entries)
    <3>1. p - prev - 1 \in 1 .. Len(entries)
      BY <2>1 DEF Written, Covered
    <3> QED
      BY <2>1, <3>1, ElementOfSeq
  <2>2. CASE p \notin Written(old, prev, entries)
    <3>1. p <= Len(old)
      <4> SUFFICES ASSUME p > Len(old) PROVE FALSE
        OBVIOUS
      <4>1. p \in prev + 2 .. end
        BY <1>2
      <4>2. Mismatch(old, prev, entries, p)
        BY DEF Mismatch
      <4> QED
        BY <2>2, <4>1, <4>2 DEF Written, Covered
    <3> QED
      BY <2>2, <3>1, ElementOfSeq
  <2> QED
    BY <2>1, <2>2
<1>3. MergedLog(old, prev, entries) = [p \in 1 .. len |-> value(p)]
  BY DEF MergedLog
<1> HIDE DEF value, len
<1>4. MergedLog(old, prev, entries) \in [1 .. len -> S]
  BY <1>2, <1>3
<1>5. MergedLog(old, prev, entries) \in Seq(S)
  BY <1>1, <1>4, SeqDef
<1>6. Len(MergedLog(old, prev, entries)) = len
  BY <1>1, <1>4, <1>5, LenProperties
<1> QED
  BY <1>5, <1>6 DEF len

\* Each entry of the merge is the message's where that was written and the old one
\* elsewhere; a position the message covers but did not write already had its term.
LEMMA MergedLogEntries ==
    ASSUME NEW S, NEW old \in Seq(S), NEW entries \in Seq(S),
           NEW prev \in Int, prev >= -1, prev < Len(old),
           NEW p \in 1 .. Len(MergedLog(old, prev, entries))
    PROVE  /\ MergedLog(old, prev, entries)[p] = IF p \in Written(old, prev, entries)
                                                 THEN entries[p - prev - 1] ELSE old[p]
           /\ p \in Covered(prev, entries) =>
                MergedLog(old, prev, entries)[p].term = entries[p - prev - 1].term
<1>1. p \in 1 .. IF prev + 1 + Len(entries) > Len(old) THEN prev + 1 + Len(entries) ELSE Len(old)
  BY MergedLogIsLog
<1>2. MergedLog(old, prev, entries)[p] = IF p \in Written(old, prev, entries)
                                         THEN entries[p - prev - 1] ELSE old[p]
  BY <1>1 DEF MergedLog
<1>3. ASSUME p \in Covered(prev, entries), p \notin Written(old, prev, entries)
      PROVE  old[p].term = entries[p - prev - 1].term
  <2>1. p \in prev + 2 .. p
    BY <1>3 DEF Covered
  <2>2. ~ Mismatch(old, prev, entries, p)
    BY <1>3, <2>1 DEF Written
  <2> QED
    BY <2>2 DEF Mismatch
<1> QED
  BY <1>2, <1>3

\* A message delivered again, or an earlier one with only the first n of its entries that
\* arrives late, leaves the log as it is.
LEMMA MergedLogAgain ==
    ASSUME NEW S, NEW old \in Seq(S), NEW entries \in Seq(S),
           NEW prev \in Int, prev >= -1, prev < Len(old), NEW n \in 0 .. Len(entries)
    PROVE  MergedLog(MergedLog(old, prev, entries), prev, SubSeq(entries, 1, n)) =
              MergedLog(old, prev, entries)
<1> DEFINE new == MergedLog(old, prev, entries)
           first == SubSeq(entries, 1, n)
<1>1. /\ new \in Seq(S)
      /\ Len(new) \in Nat
      /\ Len(new) >= prev + 1 + Len(entries)
      /\ prev < Len(new)
  BY MergedLogIsLog, LenProperties
<1>2. /\ first \in Seq(S)
      /\ Len(first) = n
      /\ \A k \in 1 .. n : first[k] = entries[k]
  BY SubSeqProperties, LenProperties
<1>3. ASSUME NEW p \in Covered(prev, first) PROVE ~ Mismatch(new, prev, first, p)
  <2>1. /\ p \in 1 .. Len(new)
        /\ p \in Covered(prev, entries)
        /\ p - prev - 1 \in 1 .. n
    BY <1>1, <1>2 DEF Covered
  <2>2. new[p].term = entries[p - prev - 1].term
    BY <2>1, MergedLogEntries
  <2> QED
    BY <1>2, <2>1, <2>2 DEF Mismatch
<1>4. Written(new, prev, first) = {}
  <2> SUFFICES ASSUME NEW p \in Written(new, prev, first) PROVE FALSE
    OBVIOUS
  <2>1. p \in Covered(prev, first)
    BY DEF Written
  <2>2. PICK q \in prev + 2 .. p : Mismatch(new, prev, first, q)
    BY DEF Written
  <2>3. q \in Covered(prev, first)
    BY <2>1, <1>2 DEF Covered
  <2> QED
    BY <1>3, <2>2, <2>3
<1> HIDE DEF new, first
<1>5. MergedLog(new, prev, first) \in Seq(S) /\ Len(MergedLog(new, prev, first)) = Len(new)
  BY <1>1, <1>2, MergedLogIsLog
<1>6. \A p \in 1 .. Len(new) : MergedLog(new, prev, first)[p] = new[p]
  BY <1>1, <1>2, <1>4, <1>5, MergedLogEntries
<1>7. MergedLog(new, prev, first) = new
  BY <1>1, <1>5, <1>6, SeqEqual
<1> QED
  BY <1>7 DEF new, first
-----------------------------------------------------------------------------
LEMMA InitIInv == Init => IInv
<1> SUFFICES ASSUME Init PROVE IInv
  OBVIOUS
<1>1. TypeOK
  <2>1. PICK stale \in BOOLEAN, prev \in -1 .. Len(log), term \in Term,
             entries \in Log, commit \in Commit :
          msg = [stale |-> stale, prevLogIndex |-> prev, prevLogTerm |-> term,
                 entries |-> entries, leaderCommit |-> commit]
    BY DEF Init
  <2>2. log \in Seq(Entry) /\ entries \in Seq(Entry)
    BY LoopAssumption DEF Init, Entry
  <2>3. Len(log) \in Nat /\ Len(entries) \in Nat
    BY <2>2, LenProperties
  <2>4. msg \in Message
    BY <2>1, <2>2, <2>3, LoopAssumption DEF Message
  <2>5. msg.entries = entries
    BY <2>1
  <2>6. /\ logIndex \in Nat /\ entryIndex \in 0 .. Len(msg.entries)
        /\ commitIndex \in Int
    BY <2>3, <2>5 DEF Init
  <2> QED
    BY <2>2, <2>4, <2>6 DEF Init, TypeOK
<1>2. log = before
  BY DEF Init
<1> QED
  BY <1>1, <1>2 DEF Init, IInv, LoopsMerge, StaleAnswer

\* What the types say of the two logs and of the indices.
LEMMA Lengths ==
    ASSUME TypeOK
    PROVE  /\ Len(log) \in Nat
           /\ Len(before) \in Nat
           /\ Len(msg.entries) \in Nat
           /\ msg.entries \in Seq(Entry)
           /\ msg.prevLogIndex \in Int /\ msg.prevLogIndex >= -1
           /\ HasPrev => msg.prevLogIndex < Len(before)
BY LenProperties DEF TypeOK, Message, HasPrev, HasPrevEntry

\* In step, entryIndex is where the message has the entry for logIndex.
LEMMA EntryAt ==
    ASSUME NEW prev \in Int, NEW n \in Nat, NEW i, i = prev + 1 + n
    PROVE  (i + 1) - prev - 1 = n + 1
OBVIOUS

\* So the test of the first loop is the test for a mismatch.
LEMMA MismatchAt ==
    ASSUME NEW prev \in Int, NEW n \in Nat, NEW i, i = prev + 1 + n,
           NEW l, NEW es
    PROVE  Mismatch(l, prev, es, i + 1) <=> i + 1 > Len(l) \/ l[i + 1].term # es[n + 1].term
<1>1. (i + 1) - prev - 1 = n + 1
  BY EntryAt
<1> QED
  BY <1>1, Zenon DEF Mismatch

\* Once the second loop is through, the log is the merge.
LEMMA WrittenAll ==
    ASSUME TypeOK, HasPrev, InStep, MergedSoFar, entryIndex = Len(msg.entries)
    PROVE  log = MergedLog(before, msg.prevLogIndex, msg.entries)
<1> DEFINE new == MergedLog(before, msg.prevLogIndex, msg.entries)
<1>1. before \in Seq(Entry) /\ log \in Seq(Entry)
  BY DEF TypeOK
<1>2. /\ new \in Seq(Entry)
      /\ Len(new) = IF msg.prevLogIndex + 1 + Len(msg.entries) > Len(before)
                    THEN msg.prevLogIndex + 1 + Len(msg.entries) ELSE Len(before)
  BY <1>1, Lengths, MergedLogIsLog
<1>3. Len(log) = Len(new)
  BY <1>2 DEF InStep, MergedSoFar
<1>4. ASSUME NEW p \in 1 .. Len(log) PROVE log[p] = new[p]
  <2>1. new[p] = IF p \in Written(before, msg.prevLogIndex, msg.entries)
                 THEN msg.entries[p - msg.prevLogIndex - 1] ELSE before[p]
    BY <1>1, <1>3, Lengths, MergedLogEntries
  <2>2. p \in Written(before, msg.prevLogIndex, msg.entries) => p <= logIndex
    BY Lengths DEF Written, Covered, InStep, TypeOK
  <2> QED
    BY <2>1, <2>2 DEF MergedSoFar
<1> QED
  BY <1>1, <1>2, <1>3, <1>4, SeqEqual

\* Every step keeps the invariant.
LEMMA NextIInv == IInv /\ [Next]_vars => IInv'
<1> SUFFICES ASSUME IInv, [Next]_vars PROVE IInv'
  OBVIOUS
<1>a. TypeOK /\ msg.entries \in Seq(Entry)
  BY Lengths DEF IInv
<1>0. /\ Len(log) \in Nat /\ Len(before) \in Nat /\ Len(msg.entries) \in Nat
      /\ logIndex \in Nat /\ entryIndex \in Nat /\ entryIndex <= Len(msg.entries)
      /\ msg.prevLogIndex \in Int /\ msg.prevLogIndex >= -1
      /\ HasPrev => msg.prevLogIndex < Len(before)
  BY Lengths DEF IInv, TypeOK
<1> DEFINE P == msg.prevLogIndex
           L == Len(msg.entries)
<1>b. P \in Int /\ P >= -1 /\ L \in Nat /\ logIndex \in Nat /\ entryIndex \in Nat
  BY <1>0
<1>c. P = msg.prevLogIndex /\ L = Len(msg.entries)
  OBVIOUS
<1> HIDE DEF P, L
<1>1. CASE PrevFound
  <2>1. /\ log = before /\ log' = before /\ before' = before
        /\ msg' = msg /\ HasPrev /\ HasPrev'
        /\ logIndex' = msg.prevLogIndex + 1 /\ entryIndex' = 0
        /\ pc' = "compare" /\ commitIndex' = commitIndex /\ success' = FALSE
    BY <1>1, <1>a DEF PrevFound, IInv, HasPrev, TypeOK
  <2>2. TypeOK'
    <3>1. logIndex' \in Nat /\ entryIndex' \in 0 .. Len(msg.entries)
      BY <2>1, <1>0
    <3> QED
      BY <2>1, <3>1, <1>a DEF TypeOK
  <2>3. InStep' /\ Matched'
    BY <2>1, <1>0 DEF InStep, Matched
  <2> QED
    BY <2>1, <2>2, <2>3 DEF IInv, LoopsMerge, StaleAnswer
<1>2. CASE PrevMissing
  <2>1. /\ ~ HasPrev' /\ ~ HasPrev /\ log' = before' /\ success' = FALSE /\ pc' = "done"
        /\ msg' = msg
    BY <1>2 DEF PrevMissing, IInv, HasPrev
  <2>2. TypeOK'
    BY <1>2, <1>0, <1>a DEF TypeOK, PrevMissing
  <2> QED
    BY <2>1, <2>2 DEF IInv, LoopsMerge, StaleAnswer
<1>3. CASE Compare
  <2>1. /\ pc = "compare" /\ pc' = "compare" /\ log' = log /\ log = before /\ before' = before
        /\ msg' = msg /\ HasPrev /\ HasPrev' /\ success' = success
    BY <1>3 DEF Compare, IInv, HasPrev
  <2>2. commitIndex' = commitIndex
    BY <1>3 DEF Compare, IInv
  <2>3. /\ logIndex = msg.prevLogIndex + 1 + entryIndex
        /\ logIndex' = logIndex + 1 /\ entryIndex' = entryIndex + 1
        /\ entryIndex < Len(msg.entries) /\ logIndex < Len(log)
    BY <1>3 DEF Compare, Same, IInv, InStep
  <2>4. TypeOK'
    <3>1. logIndex' \in Nat /\ entryIndex' \in 0 .. Len(msg'.entries)
      BY <2>1, <2>3, <1>0
    <3> QED
      BY <2>1, <2>2, <3>1, <1>a DEF TypeOK
  <2>5. /\ logIndex' = msg.prevLogIndex + 1 + entryIndex'
        /\ logIndex' <= Len(log)
    BY <2>3, <1>0
  <2>6. InStep'
    BY <2>1, <2>5 DEF InStep
  <2>7. ~ Mismatch(before, msg.prevLogIndex, msg.entries, logIndex + 1)
    <3>1. log[logIndex + 1].term = msg.entries[entryIndex + 1].term
      BY <1>3 DEF Compare, Same
    <3>2. ~ logIndex + 1 > Len(before)
      BY <2>1, <2>3, <1>0
    <3>3. before[logIndex + 1].term = msg.entries[entryIndex + 1].term
      BY <2>1, <3>1, Zenon
    <3>4. Mismatch(before, msg.prevLogIndex, msg.entries, logIndex + 1)
             <=> \/ logIndex + 1 > Len(before)
                 \/ before[logIndex + 1].term # msg.entries[entryIndex + 1].term
      <4>1. /\ msg.prevLogIndex \in Int /\ entryIndex \in Nat
            /\ logIndex = msg.prevLogIndex + 1 + entryIndex
        BY <2>3, <1>0
      <4> QED
        BY <4>1, MismatchAt
    <3> QED
      BY <3>2, <3>3, <3>4, Zenon
  <2>8. Matched'
    <3>1. Matched
      BY <2>1 DEF IInv
    <3> SUFFICES ASSUME NEW p \in msg.prevLogIndex + 2 .. logIndex + 1
                 PROVE  ~ Mismatch(before, msg.prevLogIndex, msg.entries, p)
      BY <2>1, <2>3 DEF Matched
    <3>2. CASE p = logIndex + 1
      BY <2>7, <3>2
    <3>3. CASE p # logIndex + 1
      BY <3>1, <3>3, <1>0 DEF Matched
    <3> QED
      BY <3>2, <3>3
  <2> QED
    BY <2>1, <2>2, <2>4, <2>6, <2>8 DEF IInv, LoopsMerge, StaleAnswer
<1>4. CASE CompareEnds
  <2>1. /\ pc = "compare" /\ log' = log /\ log = before /\ before' = before
        /\ msg' = msg /\ HasPrev /\ HasPrev' /\ success = FALSE
    BY <1>4 DEF CompareEnds, IInv, HasPrev
  <2>2. commitIndex' = commitIndex
    BY <1>4 DEF CompareEnds, IInv
  <2>3. /\ logIndex = msg.prevLogIndex + 1 + entryIndex /\ logIndex <= Len(log)
        /\ logIndex' = logIndex /\ entryIndex' = entryIndex
    BY <1>4, <1>0 DEF CompareEnds, IInv, InStep
  <2>4. Matched
    BY <2>1 DEF IInv
  <2>5. TypeOK'
    BY <2>1, <2>2, <2>3, <1>4, <1>0, <1>a DEF TypeOK, CompareEnds
  <2>6. ASSUME entryIndex < Len(msg.entries)
        PROVE  Mismatch(before, msg.prevLogIndex, msg.entries, logIndex + 1)
    <3>1. ~ (logIndex < Len(log) /\ log[logIndex + 1].term = msg.entries[entryIndex + 1].term)
      BY <2>6, <1>4 DEF CompareEnds, Same
    <3>2. CASE logIndex < Len(log)
      BY <2>1, <2>3, <3>1, <3>2, <1>0, MismatchAt, Zenon
    <3>3. CASE ~ logIndex < Len(log)
      <4>1. logIndex + 1 > Len(before)
        BY <2>1, <3>3, <1>0
      <4> QED
        BY <4>1 DEF Mismatch
    <3> QED
      BY <3>2, <3>3
  <2>7. CASE msg.stale
    <3>1. pc' = "done" /\ success' = (entryIndex = Len(msg.entries))
      BY <2>7, <1>4 DEF CompareEnds
    <3>2. (entryIndex = Len(msg.entries)) =
             AlreadyReplicated(before, msg.prevLogIndex, msg.entries)
      <4>1. ASSUME entryIndex = Len(msg.entries), NEW p \in Covered(msg.prevLogIndex, msg.entries)
            PROVE  ~ Mismatch(before, msg.prevLogIndex, msg.entries, p)
        <5>1. p \in msg.prevLogIndex + 2 .. logIndex
          BY <2>3, <4>1 DEF Covered
        <5> QED
          BY <2>4, <5>1 DEF Matched
      <4>2. ASSUME entryIndex # Len(msg.entries)
            PROVE  ~ AlreadyReplicated(before, msg.prevLogIndex, msg.entries)
        <5>1. entryIndex < Len(msg.entries)
          BY <4>2, <1>0
        <5>2. logIndex + 1 \in msg.prevLogIndex + 2 .. msg.prevLogIndex + 1 + Len(msg.entries)
          <6>1. logIndex = P + 1 + entryIndex /\ entryIndex < L
            BY <2>3, <5>1, <1>c, Zenon
          <6>2. logIndex + 1 \in P + 2 .. P + 1 + L
            BY <6>1, <1>b
          <6> QED
            BY <6>2, <1>c, Zenon
        <5> QED
          BY <2>6, <5>1, <5>2 DEF AlreadyReplicated, Covered
      <4> QED
        BY <4>1, <4>2 DEF AlreadyReplicated
    <3> QED
      BY <2>1, <2>2, <2>5, <2>7, <3>1, <3>2
      DEF IInv, LoopsMerge, StaleAnswer
  <2>8. CASE ~ msg.stale
    <3>1. pc' = "write" /\ success' = FALSE
      BY <2>1, <2>8, <1>4 DEF CompareEnds
    <3>2. MismatchSeen'
      <4> SUFFICES ASSUME entryIndex < Len(msg.entries)
                   PROVE  \E q \in msg.prevLogIndex + 2 .. logIndex + 1 :
                             Mismatch(before, msg.prevLogIndex, msg.entries, q)
        BY <2>1, <2>3 DEF MismatchSeen
      <4>1. logIndex + 1 \in msg.prevLogIndex + 2 .. logIndex + 1
        BY <2>3, <1>0
      <4> QED
        BY <2>6, <4>1
    <3>3. ASSUME NEW p \in 1 .. Len(log), p <= logIndex
          PROVE  p \notin Written(before, msg.prevLogIndex, msg.entries)
      BY <2>4, <3>3, <1>0 DEF Written, Covered, Matched
    <3>4. MergedSoFar'
      BY <2>1, <2>3, <3>3, <1>0 DEF MergedSoFar
    <3>5. InStep'
      BY <2>1, <2>3 DEF InStep
    <3> QED
      BY <2>1, <2>2, <2>5, <2>8, <3>1, <3>2, <3>4, <3>5
      DEF IInv, LoopsMerge, StaleAnswer
  <2> QED
    BY <2>7, <2>8
<1>5. CASE Write
  <2> DEFINE e == msg.entries[entryIndex + 1]
  <2>1. /\ pc = "write" /\ pc' = "write" /\ before' = before /\ msg' = msg
        /\ ~ msg.stale /\ HasPrev /\ HasPrev' /\ success' = success
    BY <1>5 DEF Write, IInv, HasPrev
  <2>2. commitIndex' = commitIndex
    BY <1>5 DEF Write, IInv
  <2>3. /\ logIndex = msg.prevLogIndex + 1 + entryIndex /\ logIndex <= Len(log)
        /\ logIndex' = logIndex + 1 /\ entryIndex' = entryIndex + 1
        /\ entryIndex < Len(msg.entries)
    BY <1>5, <1>0 DEF Write, IInv, InStep
  <2>3a. /\ logIndex + 1 \in Nat
         /\ entryIndex + 1 \in 0 .. L
         /\ logIndex + 1 = P + 1 + (entryIndex + 1)
         /\ logIndex + 1 \in P + 2 .. P + 1 + L
    <3>1. logIndex = P + 1 + entryIndex /\ entryIndex < L
      BY <2>3, <1>c, Zenon
    <3> QED
      BY <3>1, <1>b
  <2>4. log \in Seq(Entry) /\ e \in Entry
    BY <2>3, <1>0, <1>a, ElementOfSeq DEF TypeOK
  <2>5. log' = IF logIndex = Len(log) THEN Append(log, e)
               ELSE [log EXCEPT ![logIndex + 1] = e]
    BY <1>5 DEF Write
  <2> HIDE DEF e
  <2>6. /\ log' \in Seq(Entry)
        /\ Len(log') = IF logIndex = Len(log) THEN Len(log) + 1 ELSE Len(log)
        /\ \A p \in 1 .. Len(log') : log'[p] = IF p = logIndex + 1 THEN e ELSE log[p]
    <3>1. CASE logIndex = Len(log)
      BY <2>4, <2>5, <3>1, <1>0, AppendProperties
    <3>2. CASE logIndex # Len(log)
      <4>1. logIndex + 1 \in 1 .. Len(log)
        BY <2>3, <3>2, <1>0
      <4> QED
        BY <2>4, <2>5, <3>2, <4>1, ExceptSeq
    <3> QED
      BY <3>1, <3>2
  <2>6a. Len(log') = IF logIndex = Len(log) THEN Len(log) + 1 ELSE Len(log)
    BY <2>6
  <2>6b. /\ logIndex' \in Nat /\ entryIndex' \in 0 .. Len(msg.entries)
         /\ logIndex' = msg.prevLogIndex + 1 + entryIndex'
    BY <2>3, <2>3a, <1>c, Zenon
  <2>6c. logIndex' = logIndex + 1 /\ logIndex <= Len(log) /\ logIndex' <= Len(log')
    <3>1. logIndex' = logIndex + 1 /\ logIndex <= Len(log)
      BY <2>3
    <3> QED
      BY <3>1, <2>6a, <1>0
  <2>7. TypeOK'
    BY <2>1, <2>2, <2>6, <2>6b, <1>a DEF TypeOK
  <2>8. InStep'
    BY <2>1, <2>6b, <2>6c DEF InStep
  <2>9. MismatchSeen /\ MergedSoFar
    BY <2>1 DEF IInv
  <2>10. PICK q \in msg.prevLogIndex + 2 .. logIndex + 1 :
            Mismatch(before, msg.prevLogIndex, msg.entries, q)
    BY <2>3, <2>9 DEF MismatchSeen
  <2>11. logIndex + 1 \in Written(before, msg.prevLogIndex, msg.entries)
    BY <2>3a, <2>10, <1>c, Zenon DEF Written, Covered
  <2>12. MismatchSeen'
    <3>1. q \in msg'.prevLogIndex + 2 .. logIndex' + 1
      BY <2>1, <2>3, <2>10, <1>0
    <3> QED
      BY <2>1, <2>10, <3>1 DEF MismatchSeen
  <2>13. Len(log') = IF logIndex' > Len(before) THEN logIndex' ELSE Len(before)
    <3>1. Len(log) = IF logIndex > Len(before) THEN logIndex ELSE Len(before)
      BY <2>9 DEF MergedSoFar
    <3> QED
      BY <3>1, <2>6a, <2>6c, <1>0
  <2>14. ASSUME NEW p \in 1 .. Len(log')
         PROVE  log'[p] = IF p <= logIndex' /\ p \in Written(before, msg.prevLogIndex, msg.entries)
                          THEN msg.entries[p - msg.prevLogIndex - 1] ELSE before[p]
    <3>1. CASE p = logIndex + 1
      <4>2. log'[p] = msg.entries[p - msg.prevLogIndex - 1]
        <5>1. log'[p] = e
          BY <2>6, <3>1
        <5>2. p - msg.prevLogIndex - 1 = entryIndex + 1
          BY <2>3, <3>1, <1>0, EntryAt, Zenon
        <5> QED
          BY <5>1, <5>2, Zenon DEF e
      <4>3. p <= logIndex'
        BY <2>6c, <3>1, <1>0
      <4> QED
        BY <2>11, <3>1, <4>2, <4>3
    <3>2. CASE p # logIndex + 1
      <4>1. p \in 1 .. Len(log) /\ log'[p] = log[p]
        BY <2>6, <2>6c, <3>2, <1>0
      <4>2. p <= logIndex' <=> p <= logIndex
        BY <2>6c, <3>2, <1>0
      <4> QED
        BY <2>9, <4>1, <4>2 DEF MergedSoFar
    <3> QED
      BY <3>1, <3>2
  <2>15. MergedSoFar'
    BY <2>1, <2>13, <2>14 DEF MergedSoFar
  <2> QED
    BY <2>1, <2>2, <2>7, <2>8, <2>12, <2>15
    DEF IInv, LoopsMerge, StaleAnswer
<1>6. CASE WriteEnds
  <2>1. /\ before' = before /\ msg' = msg /\ log' = log /\ pc' = "done" /\ success' = TRUE
        /\ ~ msg.stale /\ HasPrev /\ HasPrev' /\ InStep /\ MergedSoFar
        /\ entryIndex = Len(msg.entries)
        /\ commitIndex' = IF msg.leaderCommit > commitIndex THEN LastCommitted ELSE commitIndex
    BY <1>6 DEF WriteEnds, IInv, HasPrev
  <2>2. log = MergedLog(before, msg.prevLogIndex, msg.entries)
    BY <2>1, <1>0, <1>a, WrittenAll
  <2>3. TypeOK'
    BY <2>1, <1>6, <1>0, <1>a DEF TypeOK, WriteEnds, LastCommitted, Message
  <2> QED
    BY <2>1, <2>2, <2>3 DEF IInv, LoopsMerge, StaleAnswer
<1>7. CASE UNCHANGED vars
  BY <1>7 DEF vars, IInv, TypeOK, HasPrev, InStep, Matched, MismatchSeen, MergedSoFar,
              LoopsMerge, StaleAnswer
<1> QED
  BY <1>1, <1>2, <1>3, <1>4, <1>5, <1>6, <1>7 DEF Next

\* The types, and what each loop has done by the time it is at logIndex (rpcs.go).
THEOREM Invariance == Spec => []IInv
BY InitIInv, NextIInv, PTL DEF Spec

\* The loops of AppendEntries keep the types of the log, of its indices and of the message.
THEOREM TypeCorrect == Spec => []TypeOK
<1>1. IInv => TypeOK
  BY DEF IInv
<1> QED
  BY <1>1, Invariance, PTL

\* The loops of AppendEntries compute the merge.
THEOREM LoopsComputeMerge == Spec => []LoopsMerge
<1>1. IInv => LoopsMerge
  BY DEF IInv
<1> QED
  BY <1>1, Invariance, PTL

\* A message of an earlier term is answered by whether the log has all of it.
THEOREM StaleAnswered == Spec => []StaleAnswer
<1>1. IInv => StaleAnswer
  BY DEF IInv
<1> QED
  BY <1>1, Invariance, PTL

\* The second loop never indexes past the end of the log.
THEOREM NoPanic == Spec => []WriteInRange
<1>1. IInv => WriteInRange
  BY DEF IInv, InStep, WriteInRange
<1> QED
  BY <1>1, Invariance, PTL

\* A duplicate of the message, or a late one with fewer entries, changes nothing.
THEOREM LateCopies == Spec => []LateCopiesChangeNothing
<1>1. IInv => LateCopiesChangeNothing
  <2> SUFFICES ASSUME IInv, pc = "done", success, ~ msg.stale,
                      NEW n \in 0 .. Len(msg.entries)
               PROVE  MergedLog(log, msg.prevLogIndex, SubSeq(msg.entries, 1, n)) = log
    BY DEF LateCopiesChangeNothing
  <2>1. TypeOK /\ before \in Seq(Entry)
    BY DEF IInv, TypeOK
  <2>2. HasPrev
    BY DEF IInv
  <2>3. log = MergedLog(before, msg.prevLogIndex, msg.entries)
    BY <2>2 DEF IInv, LoopsMerge
  <2> QED
    BY <2>1, <2>2, <2>3, Lengths, MergedLogAgain
<1> QED
  BY <1>1, Invariance, PTL
=============================================================================
