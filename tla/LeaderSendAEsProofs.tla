------------------------ MODULE LeaderSendAEsProofs ------------------------
(***************************************************************************)
(* For a cluster of any size and any set of reachable peers, the two       *)
(* thresholds of LeaderSendAEs give the caller one verdict at most;        *)
(* success means that a majority has the entries, but for messages gone    *)
(* astray, failure that no write quorum can be reached any more, and with  *)
(* a client for every peer one of the two always comes.                    *)
(***************************************************************************)
EXTENDS LeaderSendAEs, FiniteSetTheorems, TLAPS

\* The first state satisfies the invariant: only the leader is counted.
LEMMA InitIInv == Init => IInv
<1> SUFFICES ASSUME Init PROVE IInv
  OBVIOUS
<1>1. Succeeded = {} /\ Failed = {} /\ Tellers = {}
  BY DEF Init, Succeeded, Failed, Tellers
<1>2. TypeOK
  <2>1. mixed \in BOOLEAN /\ leading \in BOOLEAN /\ deposed \in BOOLEAN
    BY DEF Init
  <2>2. pc \in [Peer -> {"starting"}] /\ tries \in [Peer -> 1 .. MaxTries]
    BY QuorumAssumption DEF Init
  <2> QED
    BY <2>1, <2>2, QuorumAssumption DEF Init, TypeOK, None, Success, Failure
<1>3. CountersExact
  BY <1>1, FS_EmptySet DEF Init, CountersExact
<1>4. SuccessesMatched /\ OneVerdict
  BY <1>1 DEF Init, SuccessesMatched, OneVerdict, Success
<1>5. VerdictOnThreshold
  <2>1. WriteQuorum > 1 /\ WriteFailure > 0
    BY QuorumAssumption DEF WriteQuorum, WriteFailure
  <2> QED
    BY <2>1, QuorumAssumption DEF Init, VerdictOnThreshold, None, Success, Failure, WriteQuorum,
       WriteFailure
<1> QED
  BY <1>2, <1>3, <1>4, <1>5 DEF IInv

\* Two disjoint sets of peers have fewer than N members together.
LEMMA FewerThanN ==
    ASSUME NEW S, NEW T, S \subseteq Peer, T \subseteq Peer, S \cap T = {}
    PROVE  /\ IsFiniteSet(S) /\ IsFiniteSet(T)
           /\ Cardinality(S) \in Nat /\ Cardinality(T) \in Nat
           /\ Cardinality(S \cup T) = Cardinality(S) + Cardinality(T)
           /\ Cardinality(S) + Cardinality(T) < N
<1>1. S \cup T \subseteq Peer
  OBVIOUS
<1>2. /\ IsFiniteSet(S) /\ IsFiniteSet(T) /\ IsFiniteSet(S \cup T)
      /\ Cardinality(S \cup T) <= Cardinality(Peer)
  BY <1>1, QuorumAssumption, FS_Subset
<1>3. /\ Cardinality(S) \in Nat /\ Cardinality(T) \in Nat
      /\ Cardinality(S \cup T) \in Nat /\ Cardinality(Peer) \in Nat
  BY <1>2, QuorumAssumption, FS_CardinalityType
<1>4. Cardinality(S \cup T) = Cardinality(S) + Cardinality(T) - Cardinality(S \cap T)
  BY <1>2, FS_Union
<1>5. Cardinality(S \cap T) = 0
  BY FS_EmptySet
<1> QED
  BY <1>2, <1>3, <1>4, <1>5, QuorumAssumption

\* The thresholds of the two verdicts cannot both be reached: together they need more
\* than the leader and its peers.
LEMMA Thresholds ==
    /\ WriteQuorum \in Nat /\ WriteFailure \in Nat
    /\ WriteQuorum + WriteFailure = N + 1
    /\ 2 * WriteQuorum > N
BY QuorumAssumption DEF WriteQuorum, WriteFailure

\* Every step keeps the types.
LEMMA StepTypeOK == TypeOK /\ [Next]_vars => TypeOK'
<1> SUFFICES ASSUME TypeOK, [Next]_vars PROVE TypeOK'
  OBVIOUS
<1> USE DEF TypeOK, Success, Failure, None, nodeVars, countVars
<1>12. ASSUME NEW p \in Peer, BeginMessage(p) \/ EndMessage(p) PROVE TypeOK'
  BY <1>12 DEF BeginMessage, EndMessage
<1>13. ASSUME NEW p \in Peer, Encode(p) PROVE TypeOK'
  BY <1>13 DEF Encode
<1>14. CASE ToLeader
  BY <1>14 DEF ToLeader
<1>1. ASSUME NEW p \in Peer, Store(p) PROVE TypeOK'
  BY <1>1 DEF Store
<1>2. ASSUME NEW p \in Peer, CallFails(p) PROVE TypeOK'
  BY <1>2 DEF CallFails
<1>3. ASSUME NEW p \in Peer, Accepted(p) PROVE TypeOK'
  <2>1. leading' \in BOOLEAN /\ deposed' \in BOOLEAN
    BY <1>3 DEF Accepted
  <2> QED
    BY <1>3, <2>1 DEF Accepted
<1>4. ASSUME NEW p \in Peer, Refused(p) PROVE TypeOK'
  BY <1>4 DEF Refused
<1>5. ASSUME NEW p \in Peer, Retry(p) PROVE TypeOK'
  BY <1>5, QuorumAssumption DEF Retry
<1>6. ASSUME NEW p \in Peer, CountSuccess(p) PROVE TypeOK'
  BY <1>6 DEF CountSuccess
<1>7. ASSUME NEW p \in Peer, CountFailure(p) PROVE TypeOK'
  BY <1>7 DEF CountFailure
<1>8. ASSUME NEW p \in Peer, TellSuccess(p) PROVE TypeOK'
  BY <1>8 DEF TellSuccess
<1>9. ASSUME NEW p \in Peer, TellFailure(p) PROVE TypeOK'
  BY <1>9 DEF TellFailure
<1>10. CASE Deposed
  BY <1>10 DEF Deposed
<1>11. CASE UNCHANGED vars
  BY <1>11 DEF vars
<1> QED
  BY <1>1, <1>2, <1>3, <1>4, <1>5, <1>6, <1>7, <1>8, <1>9, <1>10, <1>11, <1>12, <1>13, <1>14
  DEF Next

\* So not both are reached.
LEMMA OneThreshold ==
    ASSUME NEW S, NEW T, S \subseteq Peer, T \subseteq Peer, S \cap T = {}
    PROVE  ~ (1 + Cardinality(S) >= WriteQuorum /\ Cardinality(T) >= WriteFailure)
<1>1. /\ Cardinality(S) \in Nat /\ Cardinality(T) \in Nat
      /\ Cardinality(S) + Cardinality(T) < N
  BY FewerThanN
<1> QED
  BY <1>1, Thresholds, QuorumAssumption

\* The counters count the goroutines that are past them.
LEMMA StepCountersExact == TypeOK /\ CountersExact /\ [Next]_vars => CountersExact'
<1> SUFFICES ASSUME TypeOK, CountersExact, [Next]_vars PROVE CountersExact'
  OBVIOUS
<1>0. /\ IsFiniteSet(Succeeded) /\ IsFiniteSet(Failed)
      /\ Cardinality(Succeeded) \in Nat /\ Cardinality(Failed) \in Nat
  <2>1. Succeeded \subseteq Peer /\ Failed \subseteq Peer /\ Succeeded \cap Failed = {}
    BY DEF Succeeded, Failed
  <2> QED
    BY <2>1, FewerThanN
<1>1. ASSUME NEW p \in Peer, CountSuccess(p) PROVE CountersExact'
  <2>1. /\ p \notin Succeeded /\ Succeeded' = Succeeded \cup {p} /\ Failed' = Failed
        /\ successes' = successes + 1 /\ failures' = failures
    BY <1>1 DEF CountSuccess, Succeeded, Failed, TypeOK, Success
  <2>2. Cardinality(Succeeded') = Cardinality(Succeeded) + 1
    BY <1>0, <2>1, FS_AddElement
  <2> QED
    BY <1>0, <2>1, <2>2 DEF CountersExact
<1>2. ASSUME NEW p \in Peer, CountFailure(p) PROVE CountersExact'
  <2>1. /\ p \notin Failed /\ Failed' = Failed \cup {p} /\ Succeeded' = Succeeded
        /\ failures' = failures + 1 /\ successes' = successes
    BY <1>2 DEF CountFailure, Succeeded, Failed, TypeOK, Failure
  <2>2. Cardinality(Failed') = Cardinality(Failed) + 1
    BY <1>0, <2>1, FS_AddElement
  <2> QED
    BY <1>0, <2>1, <2>2 DEF CountersExact
<1>3. ASSUME Succeeded' = Succeeded, Failed' = Failed, UNCHANGED <<successes, failures>>
      PROVE  CountersExact'
  BY <1>3 DEF CountersExact
<1> USE DEF Succeeded, Failed, TypeOK, Success, Failure, nodeVars, countVars
<1>4. ASSUME NEW p \in Peer, CallFails(p) \/ Accepted(p) \/ Refused(p) PROVE CountersExact'
  BY <1>3, <1>4 DEF CallFails, Accepted, Refused
<1>5. ASSUME NEW p \in Peer, TellSuccess(p) \/ TellFailure(p) PROVE CountersExact'
  BY <1>3, <1>5 DEF TellSuccess, TellFailure
<1>6. ASSUME NEW p \in Peer, Store(p) \/ Retry(p) PROVE CountersExact'
  BY <1>3, <1>6 DEF Store, Retry
<1>7. CASE Deposed \/ ToLeader \/ UNCHANGED vars
  BY <1>3, <1>7 DEF Deposed, ToLeader, vars
<1>8. ASSUME NEW p \in Peer, BeginMessage(p) \/ EndMessage(p) \/ Encode(p) PROVE CountersExact'
  BY <1>3, <1>8 DEF BeginMessage, EndMessage, Encode
<1> QED
  BY <1>1, <1>2, <1>4, <1>5, <1>6, <1>7, <1>8 DEF Next

\* A success is of a peer that has what it was sent.
LEMMA StepSuccessesMatched == TypeOK /\ SuccessesMatched /\ [Next]_vars => SuccessesMatched'
<1> SUFFICES ASSUME TypeOK, SuccessesMatched, [Next]_vars PROVE SuccessesMatched'
  OBVIOUS
<1> USE DEF TypeOK, SuccessesMatched, Matched, Success, Failure, nodeVars, countVars
<1>1. ASSUME NEW p \in Peer, Store(p) \/ Retry(p) PROVE SuccessesMatched'
  BY <1>1 DEF Store, Retry
<1>2. ASSUME NEW p \in Peer, CallFails(p) \/ Accepted(p) \/ Refused(p) PROVE SuccessesMatched'
  BY <1>2 DEF CallFails, Accepted, Refused
<1>3. ASSUME NEW p \in Peer, CountSuccess(p) \/ CountFailure(p) PROVE SuccessesMatched'
  BY <1>3 DEF CountSuccess, CountFailure
<1>4. ASSUME NEW p \in Peer, TellSuccess(p) \/ TellFailure(p) PROVE SuccessesMatched'
  BY <1>4 DEF TellSuccess, TellFailure
<1>5. CASE Deposed \/ ToLeader \/ UNCHANGED vars
  BY <1>5 DEF Deposed, ToLeader, vars
<1>6. ASSUME NEW p \in Peer, BeginMessage(p) \/ EndMessage(p) \/ Encode(p) PROVE SuccessesMatched'
  BY <1>6 DEF BeginMessage, EndMessage, Encode
<1> QED
  BY <1>1, <1>2, <1>3, <1>4, <1>5, <1>6 DEF Next

\* A goroutine has a verdict, or the caller has received it, from the moment a counter
\* reaches its threshold; by then the other counter's cannot be reached.
LEMMA StepVerdict ==
    ASSUME IInv, CountersExact', TypeOK', [Next]_vars,
           ~ (successes' >= WriteQuorum /\ failures' >= WriteFailure)
    PROVE  VerdictOnThreshold' /\ OneVerdict'
<1> USE DEF IInv, TypeOK, VerdictOnThreshold, OneVerdict, Tellers, Success, Failure, None,
            nodeVars, countVars
<1>0. WriteQuorum \in Nat /\ WriteFailure \in Nat
  BY Thresholds
<1>1. ASSUME NEW p \in Peer, CountSuccess(p) PROVE VerdictOnThreshold' /\ OneVerdict'
  <2>1. CASE successes + 1 = WriteQuorum
    BY <1>0, <1>1, <2>1 DEF CountSuccess, SuccessVerdict
  <2>2. CASE successes + 1 # WriteQuorum
    BY <1>0, <1>1, <2>2 DEF CountSuccess, SuccessVerdict
  <2> QED
    BY <2>1, <2>2
<1>2. ASSUME NEW p \in Peer, CountFailure(p) PROVE VerdictOnThreshold' /\ OneVerdict'
  <2>1. CASE failures + 1 = WriteFailure
    BY <1>0, <1>2, <2>1 DEF CountFailure, FailureVerdict
  <2>2. CASE failures + 1 # WriteFailure
    BY <1>0, <1>2, <2>2 DEF CountFailure, FailureVerdict
  <2> QED
    BY <2>1, <2>2
<1>3. ASSUME NEW p \in Peer, TellSuccess(p) PROVE VerdictOnThreshold' /\ OneVerdict'
  <2>1. OneVerdict'
    BY <1>3 DEF TellSuccess
  <2>2. VerdictOnThreshold'
    BY <1>0, <1>3 DEF TellSuccess
  <2> QED
    BY <2>1, <2>2
<1>4. ASSUME NEW p \in Peer, TellFailure(p) PROVE VerdictOnThreshold' /\ OneVerdict'
  <2>1. OneVerdict'
    BY <1>4 DEF TellFailure
  <2>2. VerdictOnThreshold'
    BY <1>0, <1>4 DEF TellFailure
  <2> QED
    BY <2>1, <2>2
<1>5. ASSUME NEW p \in Peer, CallFails(p) \/ Accepted(p) \/ Refused(p)
      PROVE  VerdictOnThreshold' /\ OneVerdict'
  <2>1. /\ UNCHANGED <<successes, failures, verdict>> /\ pc[p] = "calling"
        /\ pc' = [pc EXCEPT ![p] = Success] \/ pc' = [pc EXCEPT ![p] = Failure]
    BY <1>5 DEF CallFails, Accepted, Refused
  <2>2. Tellers' = Tellers /\ \A q \in Peer : /\ pc'[q] = "tellSuccess" <=> pc[q] = "tellSuccess"
                                            /\ pc'[q] = "tellFailure" <=> pc[q] = "tellFailure"
    BY <2>1
  <2>3. OneVerdict'
    BY <2>1, <2>2
  <2>4. VerdictOnThreshold'
    BY <2>1, <2>2
  <2> QED
    BY <2>3, <2>4
<1>6. ASSUME NEW p \in Peer, Store(p) \/ Retry(p) PROVE VerdictOnThreshold' /\ OneVerdict'
  BY <1>6 DEF Store, Retry
<1>7. CASE Deposed \/ ToLeader \/ UNCHANGED vars
  BY <1>7 DEF Deposed, ToLeader, vars
<1>8. ASSUME NEW p \in Peer, BeginMessage(p) \/ EndMessage(p) \/ Encode(p)
      PROVE  VerdictOnThreshold' /\ OneVerdict'
  <2>1. /\ UNCHANGED <<successes, failures, verdict>>
        /\ pc[p] \in {"starting", "writing", "encoding"}
        /\ \/ pc' = [pc EXCEPT ![p] = "writing"]
           \/ pc' = [pc EXCEPT ![p] = "encoding"]
           \/ pc' = [pc EXCEPT ![p] = "calling"]
    BY <1>8 DEF BeginMessage, EndMessage, Encode
  <2>2. Tellers' = Tellers /\ \A q \in Peer : /\ pc'[q] = "tellSuccess" <=> pc[q] = "tellSuccess"
                                            /\ pc'[q] = "tellFailure" <=> pc[q] = "tellFailure"
    BY <2>1
  <2>3. OneVerdict'
    BY <2>1, <2>2
  <2>4. VerdictOnThreshold'
    BY <2>1, <2>2
  <2> QED
    BY <2>3, <2>4
<1> QED
  BY <1>1, <1>2, <1>3, <1>4, <1>5, <1>6, <1>7, <1>8 DEF Next

\* Every step keeps the invariant.
LEMMA NextIInv == IInv /\ [Next]_vars => IInv'
<1> SUFFICES ASSUME IInv, [Next]_vars PROVE IInv'
  OBVIOUS
<1>1. TypeOK' /\ CountersExact' /\ SuccessesMatched'
  BY StepTypeOK, StepCountersExact, StepSuccessesMatched DEF IInv
<1>2. ~ (successes' >= WriteQuorum /\ failures' >= WriteFailure)
  <2>1. Succeeded' \subseteq Peer /\ Failed' \subseteq Peer /\ Succeeded' \cap Failed' = {}
    BY DEF Succeeded, Failed
  <2>2. successes' = 1 + Cardinality(Succeeded') /\ failures' = Cardinality(Failed')
    BY <1>1 DEF CountersExact
  <2> QED
    BY <2>1, <2>2, OneThreshold
<1> QED
  BY <1>1, <1>2, StepVerdict DEF IInv

-----------------------------------------------------------------------------
\* The counters are exact and a verdict goes with its threshold, in every cluster.
THEOREM Invariance == Spec => []IInv
BY InitIInv, NextIInv, PTL DEF Spec

\* Type correctness of one call of LeaderSendAEs: no goroutine calls more than MaxTries times.
THEOREM TypeCorrect == Spec => []TypeOK
<1>1. IInv => TypeOK
  BY DEF IInv
<1> QED
  BY <1>1, Invariance, PTL

\* LeaderSendAEs gives its caller one verdict at most, and leaves no goroutine waiting to
\* hand over another.
THEOREM AtMostOneVerdict == Spec => []OneVerdict
<1>1. IInv => OneVerdict
  BY DEF IInv
<1> QED
  BY <1>1, Invariance, PTL

\* What WriteCommand and ToLeader commit on: after a success the leader, the peers that have
\* the entries and those whose message went astray are a majority.
THEOREM SuccessNeedsMajority == Spec => []SuccessIsReplicated
<1>1. IInv => SuccessIsReplicated
  <2> DEFINE M == stored \cup astray
  <2> SUFFICES ASSUME IInv, verdict = Success PROVE 2 * (1 + Cardinality(M)) > N
    BY DEF SuccessIsReplicated
  <2>1. successes >= WriteQuorum /\ successes = 1 + Cardinality(Succeeded)
    BY DEF IInv, VerdictOnThreshold, CountersExact
  <2>2. Succeeded \subseteq M /\ M \subseteq Peer
    BY DEF IInv, TypeOK, Succeeded, SuccessesMatched, Matched
  <2> HIDE DEF M
  <2>3. IsFiniteSet(M)
    BY <2>2, QuorumAssumption, FS_Subset
  <2>4. Cardinality(Succeeded) <= Cardinality(M)
    BY <2>2, <2>3, FS_Subset
  <2>5. Cardinality(Succeeded) \in Nat /\ Cardinality(M) \in Nat
    BY <2>2, <2>3, FS_Subset, FS_CardinalityType
  <2> QED
    BY <2>1, <2>4, <2>5, Thresholds, QuorumAssumption
<1> QED
  BY <1>1, Invariance, PTL

\* After a failure the write quorum is out of reach.
THEOREM FailureStands == Spec => []FailureIsFinal
<1>1. IInv => FailureIsFinal
  BY Thresholds, QuorumAssumption
  DEF IInv, TypeOK, VerdictOnThreshold, FailureIsFinal, WriteQuorum
<1> QED
  BY <1>1, Invariance, PTL

\* With a client for every peer, one of the two thresholds is reached in the end.
THEOREM SomeVerdict == Spec => []NoSilentEnd
<1>1. IInv => NoSilentEnd
  <2> SUFFICES ASSUME IInv, Cardinality(Peer) = N - 1,
                      \A p \in Peer : pc[p] \in {"doneSuccess", "doneFailure"},
                      verdict = None
               PROVE  FALSE
    BY DEF NoSilentEnd
  <2>1. /\ Succeeded \subseteq Peer /\ Failed \subseteq Peer /\ Succeeded \cap Failed = {}
        /\ Succeeded \cup Failed = Peer
    BY DEF Succeeded, Failed
  <2>2. /\ Cardinality(Succeeded) \in Nat /\ Cardinality(Failed) \in Nat
        /\ Cardinality(Succeeded) + Cardinality(Failed) = N - 1
    BY <2>1, FewerThanN
  <2>3. ~ successes >= WriteQuorum /\ ~ failures >= WriteFailure
    BY DEF IInv, VerdictOnThreshold, None, Success, Failure
  <2> QED
    BY <2>2, <2>3, Thresholds, QuorumAssumption DEF IInv, CountersExact
<1> QED
  BY <1>1, Invariance, PTL
=============================================================================
