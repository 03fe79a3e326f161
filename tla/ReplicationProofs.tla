------------------------- MODULE ReplicationProofs -------------------------
(***************************************************************************)
(* What holds of the logs for any number of replicas, calls, terms,        *)
(* entries, messages and crashes, in four parts: the types and nextIndex;  *)
(* that logs match; what stays of an entry of which a caller learned; and  *)
(* that what replicas take for committed agrees.                           *)
(*                                                                         *)
(* The last three speak of sets of what there has been: K of logs, E of    *)
(* terms with a leader, Acc of entries saved by a replica in their term.   *)
(* That there are such sets is the invariant, so no variable holds them.   *)
(***************************************************************************)
EXTENDS Replication, SequenceTheorems, FiniteSetTheorems, TLAPS

\* The merge is a log: what was missing is contiguous with what was there.
LEMMA MergedLogIsLog ==
    ASSUME NEW S, NEW old \in Seq(S), NEW entries \in Seq(S),
           NEW prev \in Int, prev >= -1, prev < Len(old)
    PROVE  /\ MergedLog(old, prev, entries) \in Seq(S)
           /\ Len(MergedLog(old, prev, entries)) =
                IF prev + 1 + Len(entries) > Len(old) THEN prev + 1 + Len(entries) ELSE Len(old)
<1> DEFINE end == prev + 1 + Len(entries)
           len == IF end > Len(old) THEN end ELSE Len(old)
           value(p) == IF p \in Written(old, prev, entries)
                       THEN entries[p - prev - 1] ELSE old[p]
<1>1. len \in Nat
  OBVIOUS
<1>2. ASSUME NEW p \in 1 .. len PROVE value(p) \in S
  <2>1. CASE p \in Written(old, prev, entries)
    <3>1. p - prev - 1 \in 1 .. Len(entries)
      BY <2>1 DEF Written, Covered
    <3> QED
      BY <2>1, <3>1, ElementOfSeq
  <2>2. CASE p \notin Written(old, prev, entries)
    <3>1. p <= Len(old)
      <4> SUFFICES ASSUME p > Len(old) PROVE FALSE
        OBVIOUS
      <4>1. p \in prev + 2 .. end
        BY <1>2
      <4>2. Mismatch(old, prev, entries, p)
        BY DEF Mismatch
      <4> QED
        BY <2>2, <4>1, <4>2 DEF Written, Covered
    <3> QED
      BY <2>2, <3>1, ElementOfSeq
  <2> QED
    BY <2>1, <2>2
<1>3. MergedLog(old, prev, entries) = [p \in 1 .. len |-> value(p)]
  BY DEF MergedLog
<1> HIDE DEF value, len
<1>4. MergedLog(old, prev, entries) \in [1 .. len -> S]
  BY <1>2, <1>3
<1>5. MergedLog(old, prev, entries) \in Seq(S)
  BY <1>1, <1>4, SeqDef
<1>6. Len(MergedLog(old, prev, entries)) = len
  BY <1>1, <1>4, <1>5, LenProperties
<1> QED
  BY <1>5, <1>6 DEF len

\* Each entry of the merge is the message's where that was written and the old one
\* elsewhere; a position the message covers but did not write already had its term.
LEMMA MergedLogEntries ==
    ASSUME NEW S, NEW old \in Seq(S), NEW entries \in Seq(S),
           NEW prev \in Int, prev >= -1, prev < Len(old),
           NEW p \in 1 .. Len(MergedLog(old, prev, entries))
    PROVE  /\ MergedLog(old, prev, entries)[p] = IF p \in Written(old, prev, entries)
                                                 THEN entries[p - prev - 1] ELSE old[p]
           /\ p \in Covered(prev, entries) =>
                MergedLog(old, prev, entries)[p].term = entries[p - prev - 1].term
<1>1. p \in 1 .. IF prev + 1 + Len(entries) > Len(old) THEN prev + 1 + Len(entries) ELSE Len(old)
  BY MergedLogIsLog
<1>2. MergedLog(old, prev, entries)[p] = IF p \in Written(old, prev, entries)
                                         THEN entries[p - prev - 1] ELSE old[p]
  BY <1>1 DEF MergedLog
<1>3. ASSUME p \in Covered(prev, entries), p \notin Written(old, prev, entries)
      PROVE  old[p].term = entries[p - prev - 1].term
  <2>1. p \in prev + 2 .. p
    BY <1>3 DEF Covered
  <2>2. ~ Mismatch(old, prev, entries, p)
    BY <1>3, <2>1 DEF Written
  <2> QED
    BY <2>2 DEF Mismatch
<1> QED
  BY <1>2, <1>3

-----------------------------------------------------------------------------
-----------------------------------------------------------------------------
(* The types, with the shape of what is under way. *)

CallRecord ==
    [from : Replica, entry : Entry \cup {None}, term : Term, leaderCommit : Int,
     index : Int, upper : Int, successes : Nat, verdict : {"none", "won", "told", "failed"}]

Goroutine == [call : Call, from : Replica, to : Replica]

MessageRecord ==
    [call : Call \cup {None}, first : BOOLEAN, from : Replica, to : Replica, term : Term,
     leaderCommit : Int, prevLogIndex : Int, prevLogTerm : Int, entries : Seq(Entry)]

AnswerRecord ==
    [call : Call, first : BOOLEAN, from : Replica, to : Replica, term : Term,
     success : BOOLEAN, prevLogIndex : Int]

CommitIndex == {n \in Int : n >= -1}

NodeTypes ==
    /\ currentTerm \in [Replica -> Term]
    /\ leading \in [Replica -> BOOLEAN]
    /\ log \in [Replica -> Seq(Entry)]
    /\ commitIndex \in [Replica -> CommitIndex]
    /\ nextIndex \in [Replica -> [Replica -> Int] \cup {None}]
    /\ disk \in [Replica -> [log : Seq(Entry), commitIndex : CommitIndex]]
    /\ acked \subseteq [index : Nat, entry : Entry]

\* What refers to the log of a process refers to entries that it has.
NextInLog ==
    \A i \in Replica : nextIndex[i] # None => \A j \in Replica : nextIndex[i][j] <= Len(log[i])

CallInLog(c) ==
    /\ nextIndex[calls[c].from] \in [Replica -> Int]
    /\ calls[c].upper < Len(log[calls[c].from])
    /\ calls[c].upper >= -1
    /\ calls[c].index <= calls[c].upper
    /\ calls[c].entry # None => calls[c].index >= 0
    /\ calls[c].verdict # "none" => calls[c].entry # None

CallShape(c) == calls[c] # Idle => calls[c] \in CallRecord /\ CallInLog(c)

\* A goroutine is one of a call of its replica, to a peer.  A call that failed has none left.
StartShape(g) ==
    /\ g \in Goroutine
    /\ g.to # g.from
    /\ calls[g.call].from = g.from /\ calls[g.call].verdict # "failed"

SentShape(m) ==
    /\ m \in MessageRecord
    /\ m.to # m.from
    /\ m.prevLogIndex >= -1
    /\ m.call # None => /\ calls[m.call].from = m.from /\ calls[m.call].verdict # "failed"
                        /\ m.prevLogIndex < Len(log[m.from])

AnswerShape(a) ==
    /\ a \in AnswerRecord
    /\ a.to # a.from
    /\ calls[a.call].from = a.from /\ calls[a.call].verdict # "failed"
    /\ a.prevLogIndex >= -1
    /\ a.prevLogIndex < Len(log[a.from])

FlightShapes ==
    /\ calls \in [Call -> CallRecord \cup {Idle}]
    /\ \A c \in Call : CallShape(c)
    /\ \A g \in starts : StartShape(g)
    /\ \A m \in sent : SentShape(m)
    /\ \A a \in answers : AnswerShape(a)

Shapes == NodeTypes /\ NextInLog /\ FlightShapes

\* What stands in the message of a call is of the log of its replica, too.
SharedShape ==
    /\ shared \in [Call -> SUBSET Int]
    /\ \A c \in Call : \A prev \in shared[c] :
          calls[c] # Idle /\ prev >= -1 /\ prev < Len(log[calls[c].from])

\* A candidate has voted.
VoteShape ==
    /\ votedFor \in [Replica -> Replica \cup {None}]
    /\ candidate \in [Replica -> BOOLEAN]
    /\ \A j \in Replica : candidate[j] => votedFor[j] # None

-----------------------------------------------------------------------------
\* A call is never taken for none.
LEMMA CallIsNotIdle ==
    ASSUME NEW call
    PROVE  /\ call \in CallRecord => call # Idle /\ call.from \in Replica
           /\ call = Idle => call.from \notin Replica
BY ReplicationAssumption DEF Idle, CallRecord

\* What the shapes say of the call of a goroutine.
LEMMA GoroutineCall ==
    ASSUME NEW c \in Call, CallShape(c), calls[c].from \in Replica
    PROVE  calls[c] \in CallRecord /\ calls[c] # Idle /\ CallInLog(c)
BY CallIsNotIdle DEF CallShape

\* Terms are numbers from 0.
LEMMA TermIsNat ==
    /\ \A t \in Term : t \in Nat /\ t \in Int
    /\ \A t \in Nat : t <= MaxTerm => t \in Term
BY ReplicationAssumption DEF Term

\* PersistToStorage keeps the type of the file.
LEMMA PersistTypes ==
    ASSUME NEW S \in SUBSET Replica, PersistToStorage(S),
           disk \in [Replica -> [log : Seq(Entry), commitIndex : CommitIndex]],
           log' \in [Replica -> Seq(Entry)], commitIndex' \in [Replica -> CommitIndex]
    PROVE  /\ disk' \in [Replica -> [log : Seq(Entry), commitIndex : CommitIndex]]
           /\ \A j \in Replica : disk'[j] = IF j \in S
                THEN [log |-> log'[j], commitIndex |-> commitIndex'[j]] ELSE disk[j]
BY DEF PersistToStorage, Saved

\* What a log with one more entry is.
LEMMA Appended ==
    ASSUME NEW l \in Seq(Entry), NEW e \in Entry
    PROVE  /\ Append(l, e) \in Seq(Entry)
           /\ Len(l) \in Nat
           /\ Len(Append(l, e)) = Len(l) + 1
           /\ \A p \in 1 .. Len(l) : Append(l, e)[p] = l[p]
           /\ Append(l, e)[Len(l) + 1] = e
BY AppendProperties, LenProperties

\* No log gets shorter, and a process that has led keeps nextIndex.
Longer ==
    /\ log' \in [Replica -> Seq(Entry)]
    /\ \A j \in Replica : Len(log'[j]) >= Len(log[j])
    /\ \A j \in Replica : nextIndex'[j] = nextIndex[j] \/ nextIndex'[j] \in [Replica -> Int]

\* The call may still have goroutines.
GoesOn(c) ==
    /\ calls'[c].from = calls[c].from
    /\ calls'[c].verdict = "failed" => calls[c].verdict = "failed"

\* What has its shape keeps it when no log gets shorter and its call goes on.
LEMMA ShapesStay ==
    ASSUME NodeTypes, Longer
    PROVE  /\ \A c \in Call : calls'[c] = calls[c] /\ CallShape(c) => CallShape(c)'
           /\ \A g : StartShape(g) /\ GoesOn(g.call) => StartShape(g)'
           /\ \A m : SentShape(m) /\ (m.call # None => GoesOn(m.call)) => SentShape(m)'
           /\ \A a : AnswerShape(a) /\ GoesOn(a.call) => AnswerShape(a)'
<1>1. \A j \in Replica : Len(log[j]) \in Nat /\ Len(log'[j]) \in Nat
  BY LenProperties DEF NodeTypes, Longer
<1>2. \A x \in Int, j \in Replica : x < Len(log[j]) => x < Len(log'[j])
  BY <1>1 DEF Longer
<1>3. ASSUME NEW c \in Call, calls'[c] = calls[c], CallShape(c) PROVE CallShape(c)'
  <2> SUFFICES ASSUME calls[c] # Idle PROVE CallShape(c)'
    BY <1>3 DEF CallShape
  <2>1. calls[c] \in CallRecord /\ CallInLog(c)
    BY <1>3 DEF CallShape
  <2>2. calls[c].from \in Replica /\ calls[c].upper \in Int
    BY <2>1 DEF CallRecord
  <2>3. nextIndex'[calls[c].from] \in [Replica -> Int]
    BY <2>1, <2>2 DEF CallInLog, Longer
  <2>4. calls[c].upper < Len(log'[calls[c].from])
    BY <2>1, <2>2, <1>2 DEF CallInLog
  <2>5. CallInLog(c)'
    BY <1>3, <2>1, <2>3, <2>4 DEF CallInLog
  <2> QED
    BY <1>3, <2>1, <2>5 DEF CallShape
<1>4. ASSUME NEW m, SentShape(m), m.call # None => GoesOn(m.call)
      PROVE  SentShape(m)'
  <2>1. m.prevLogIndex \in Int /\ m.from \in Replica
    BY <1>4 DEF SentShape, MessageRecord
  <2> QED
    BY <1>4, <2>1, <1>2 DEF SentShape, GoesOn
<1>5. ASSUME NEW a, AnswerShape(a), GoesOn(a.call)
      PROVE  AnswerShape(a)'
  <2>1. a.prevLogIndex \in Int /\ a.from \in Replica
    BY <1>5 DEF AnswerShape, AnswerRecord
  <2> QED
    BY <1>5, <2>1, <1>2 DEF AnswerShape, GoesOn
<1>6. ASSUME NEW g, StartShape(g), GoesOn(g.call) PROVE StartShape(g)'
  BY <1>6 DEF StartShape, GoesOn
<1> QED
  BY <1>3, <1>4, <1>5, <1>6

\* A step whose flights are those from before, or have their shapes.
LEMMA ShapesStep ==
    ASSUME FlightShapes, NodeTypes, Longer,
           calls' \in [Call -> CallRecord \cup {Idle}],
           \A c \in Call : \/ calls'[c] = calls[c]
                           \/ GoesOn(c) /\ CallShape(c)'
                           \/ /\ calls'[c] = Idle \/ CallShape(c)'
                              /\ \A g \in starts' \cup sent' \cup answers' : g.call # c
                           \/ calls[c] = Idle /\ CallShape(c)',
           \A g \in starts' : g \in starts \/ StartShape(g)',
           \A m \in sent' : m \in sent \/ SentShape(m)',
           \A a \in answers' : a \in answers \/ AnswerShape(a)'
    PROVE  FlightShapes'
<1>1. \A c \in Call : CallShape(c)'
  <2> SUFFICES ASSUME NEW c \in Call PROVE CallShape(c)'
    OBVIOUS
  <2>1. CASE calls'[c] = calls[c]
    BY <2>1, ShapesStay DEF FlightShapes
  <2>2. CASE calls'[c] = Idle
    BY <2>2 DEF CallShape
  <2> QED
    BY <2>1, <2>2
<1>2. ASSUME NEW c \in Call, NEW i \in Replica, calls[c].from = i,
             \E g \in starts' \cup sent' \cup answers' : g.call = c
      PROVE  GoesOn(c)
  <2>1. calls[c] # Idle
    BY <1>2, CallIsNotIdle
  <2> QED
    BY <1>2, <2>1 DEF GoesOn
<1>3. ASSUME NEW g \in starts' PROVE StartShape(g)'
  <2> SUFFICES ASSUME g \in starts PROVE StartShape(g)'
    OBVIOUS
  <2>1. StartShape(g) /\ g.call \in Call /\ g.from \in Replica
    BY DEF FlightShapes, StartShape, Goroutine
  <2>2. GoesOn(g.call)
    BY <2>1, <1>2 DEF StartShape
  <2> QED
    BY <2>1, <2>2, ShapesStay
<1>4. ASSUME NEW m \in sent' PROVE SentShape(m)'
  <2> SUFFICES ASSUME m \in sent PROVE SentShape(m)'
    OBVIOUS
  <2>1. SentShape(m) /\ m.call \in Call \cup {None} /\ m.from \in Replica
    BY DEF FlightShapes, SentShape, MessageRecord
  <2>2. m.call # None => GoesOn(m.call)
    BY <2>1, <1>2 DEF SentShape
  <2> QED
    BY <2>1, <2>2, ShapesStay
<1>5. ASSUME NEW a \in answers' PROVE AnswerShape(a)'
  <2> SUFFICES ASSUME a \in answers PROVE AnswerShape(a)'
    OBVIOUS
  <2>1. AnswerShape(a) /\ a.call \in Call /\ a.from \in Replica
    BY DEF FlightShapes, AnswerShape, AnswerRecord
  <2>2. GoesOn(a.call)
    BY <2>1, <1>2 DEF AnswerShape
  <2> QED
    BY <2>1, <2>2, ShapesStay
<1> QED
  BY <1>1, <1>3, <1>4, <1>5 DEF FlightShapes

\* LeaderSendAEs starts goroutines of a call that has its shape.
LEMMA LeaderSendAEsShapes ==
    ASSUME FlightShapes, NodeTypes, Longer, NEW i \in Replica, NEW c \in Call,
           NEW entry \in Entry \cup {None}, NEW leaderCommit \in Int,
           LeaderSendAEs(i, c, entry, leaderCommit),
           currentTerm'[i] \in Term, nextIndex'[i] \in [Replica -> Int],
           entry # None => Len(log'[i]) >= 1,
           sent' = sent, answers' = answers
    PROVE  FlightShapes'
<1> DEFINE call == [from |-> i, entry |-> entry, term |-> currentTerm'[i],
                    leaderCommit |-> leaderCommit, index |-> Len(log'[i]) - 1,
                    upper |-> Len(log'[i]) - 1, successes |-> 1, verdict |-> "none"]
<1>1. /\ calls[c] = Idle
      /\ calls' = [calls EXCEPT ![c] = call]
      /\ starts' = starts \cup {[call |-> c, from |-> i, to |-> j] : j \in Replica \ {i}}
  BY DEF LeaderSendAEs, Peers
<1>2. Len(log'[i]) \in Nat
  BY LenProperties DEF Longer
<1>3. call \in CallRecord
  BY <1>2 DEF CallRecord
<1>4. calls' \in [Call -> CallRecord \cup {Idle}]
  BY <1>1, <1>3 DEF FlightShapes
<1>5. calls'[c] = call /\ call.from = i /\ call.verdict = "none"
  BY <1>1 DEF FlightShapes
<1>6. CallInLog(c)'
  BY <1>2, <1>5 DEF CallInLog
<1> HIDE DEF call
<1>7. CallShape(c)'
  BY <1>3, <1>5, <1>6 DEF CallShape
<1>8. \A g \in starts' : g \in starts \/ StartShape(g)'
  BY <1>1, <1>5 DEF StartShape, Goroutine
<1>9. \A d \in Call : calls'[d] = calls[d] \/ (calls[d] = Idle /\ CallShape(d)')
  BY <1>1, <1>7 DEF FlightShapes
<1> QED
  BY <1>4, <1>8, <1>9, ShapesStep

\* What Returns makes of the call of a goroutine that has ended: it is over, or the same
\* but for its successes and its verdict.
LEMMA ReturnsCall ==
    ASSUME FlightShapes, NEW c \in Call, calls[c] \in CallRecord, NEW success \in BOOLEAN,
           Returns(c, success)
    PROVE  /\ calls' = [calls EXCEPT ![c] = calls'[c]]
           /\ \/ calls'[c] = Idle /\ Over(c)
              \/ /\ calls'[c] \in CallRecord
                 /\ calls'[c].from = calls[c].from
                 /\ calls'[c].entry = calls[c].entry
                 /\ calls'[c].term = calls[c].term
                 /\ calls'[c].leaderCommit = calls[c].leaderCommit
                 /\ calls'[c].index = calls[c].index
                 /\ calls'[c].upper = calls[c].upper
                 /\ calls'[c].verdict # "none" => calls[c].verdict # "none" \/ calls[c].entry # None
                 /\ calls'[c].verdict = "failed" => calls[c].verdict = "failed" \/ Over(c)
<1> DEFINE counts == success /\ calls[c].verdict = "none" /\ calls[c].entry # None
           n == calls[c].successes + IF counts THEN 1 ELSE 0
           verdict == IF counts /\ WriteQuorum(n) THEN "won" ELSE calls[c].verdict
           call == [calls[c] EXCEPT !.successes = n, !.verdict = verdict]
<1>1. calls' = [calls EXCEPT ![c] = Settled(c, call)]
  BY DEF Returns
<1>2. calls'[c] = Settled(c, call)
  BY <1>1 DEF FlightShapes
<1>3. n \in Nat /\ verdict \in {"none", "won", "told", "failed"}
  BY DEF CallRecord
<1>4. /\ call \in CallRecord
      /\ call.from = calls[c].from /\ call.entry = calls[c].entry
      /\ call.term = calls[c].term /\ call.leaderCommit = calls[c].leaderCommit
      /\ call.index = calls[c].index /\ call.upper = calls[c].upper
      /\ call.verdict = verdict
  BY <1>3 DEF CallRecord
<1>5. /\ verdict # "none" => calls[c].verdict # "none" \/ calls[c].entry # None
      /\ verdict = "failed" => calls[c].verdict = "failed"
  OBVIOUS
<1> HIDE DEF call, verdict
<1>6. CASE calls'[c] = call
  BY <1>1, <1>2, <1>4, <1>5, <1>6
<1>7. CASE calls'[c] = Idle /\ Over(c)
  BY <1>1, <1>2, <1>7
<1>8. CASE calls'[c] = [call EXCEPT !.verdict = "failed"] /\ call.entry # None /\ Over(c)
  <2> DEFINE failed == [call EXCEPT !.verdict = "failed"]
  <2>1. /\ failed \in CallRecord
        /\ failed.from = call.from /\ failed.entry = call.entry /\ failed.term = call.term
        /\ failed.leaderCommit = call.leaderCommit /\ failed.index = call.index
        /\ failed.upper = call.upper
    BY <1>4 DEF CallRecord
  <2> HIDE DEF failed
  <2> QED
    BY <1>1, <1>2, <1>4, <1>8, <2>1 DEF failed
<1> QED
  BY <1>2, <1>6, <1>7, <1>8 DEF Settled

\* When the logs of a step do not get shorter and calls and messages are those from before,
\* up to goroutines that are gone, the shapes stay.
LEMMA ShapesSame ==
    ASSUME FlightShapes, NodeTypes, Longer, calls' = calls,
           starts' \subseteq starts, sent' \subseteq sent, answers' \subseteq answers
    PROVE  FlightShapes'
<1>1. calls' \in [Call -> CallRecord \cup {Idle}]
  BY DEF FlightShapes
<1> QED
  BY <1>1, ShapesStep

\* nextIndex stays within a log that does not get shorter.
LEMMA NextStays ==
    ASSUME NodeTypes, NextInLog, Longer, NEW i \in Replica, nextIndex'[i] = nextIndex[i],
           nextIndex'[i] # None, NEW j \in Replica
    PROVE  nextIndex'[i][j] <= Len(log'[i])
<1>1. Len(log[i]) \in Nat /\ Len(log'[i]) \in Nat
  BY LenProperties DEF NodeTypes, Longer
<1>2. nextIndex[i][j] \in Int
  BY DEF NodeTypes
<1> QED
  BY <1>1, <1>2 DEF NextInLog, Longer

\* Elections keep the shapes.
LEMMA ElectionShapes ==
    ASSUME Shapes, NEW i \in Replica, NEW c \in Call, NEW asked \in SUBSET Peers(i),
           NEW wins \in BOOLEAN, Election(i, asked, wins, c)
    PROVE  Shapes'
<1> DEFINE t == currentTerm[i] + 1
           reached == {i} \cup {j \in asked : currentTerm[j] < t}
           saved == reached \cup {j \in {i} \cup asked : MayVote(j, t) /\ Grants(j, i)}
           entry == [term |-> t, by |-> i, operation |-> NoOp]
<1>1. /\ saved \subseteq Replica
      /\ currentTerm' = [j \in Replica |-> IF j \in reached THEN t ELSE currentTerm[j]]
      /\ leading' \in [Replica -> BOOLEAN]
      /\ commitIndex' = commitIndex /\ sent' = sent /\ answers' = answers /\ acked' = acked
      /\ PersistToStorage(saved)
      /\ t <= MaxTerm
  BY DEF Election, Peers, Shapes, NodeTypes
<1>2. t \in Term /\ entry \in Entry
  <2>1. currentTerm[i] \in Nat
    BY TermIsNat DEF Shapes, NodeTypes
  <2>2. t \in Term
    BY <1>1, <2>1, TermIsNat
  <2> QED
    BY <2>2 DEF Entry
<1>3. currentTerm' \in [Replica -> Term]
  BY <1>1, <1>2 DEF Shapes, NodeTypes
<1>4. \/ /\ nextIndex' = [nextIndex EXCEPT ![i] = [j \in Replica |-> Len(log[i])]]
         /\ log' = [log EXCEPT ![i] = Append(log[i], entry)]
         /\ LeaderSendAEs(i, c, entry, commitIndex[i])
      \/ UNCHANGED <<nextIndex, log, calls, starts>>
  BY DEF Election
<1> HIDE DEF reached, saved, t, entry
<1>5. CASE UNCHANGED <<nextIndex, log, calls, starts>>
  <2>1. Longer
    BY <1>5, LenProperties DEF Longer, Shapes, NodeTypes
  <2>2. NodeTypes'
    BY <1>1, <1>3, <1>5, PersistTypes DEF Shapes, NodeTypes
  <2>3. NextInLog'
    BY <1>5 DEF Shapes, NextInLog
  <2> QED
    BY <1>1, <1>5, <2>1, <2>2, <2>3, ShapesSame DEF Shapes
<1>6. CASE /\ nextIndex' = [nextIndex EXCEPT ![i] = [j \in Replica |-> Len(log[i])]]
           /\ log' = [log EXCEPT ![i] = Append(log[i], entry)]
           /\ LeaderSendAEs(i, c, entry, commitIndex[i])
  <2>1. /\ log[i] \in Seq(Entry)
        /\ \A j \in Replica : Len(log[j]) \in Nat
    BY LenProperties DEF Shapes, NodeTypes
  <2>2. /\ log' \in [Replica -> Seq(Entry)]
        /\ Len(log'[i]) = Len(log[i]) + 1
        /\ \A j \in Replica : Len(log'[j]) >= Len(log[j])
    BY <1>2, <1>6, <2>1, Appended DEF Shapes, NodeTypes
  <2>3. /\ nextIndex' \in [Replica -> [Replica -> Int] \cup {None}]
        /\ nextIndex'[i] = [j \in Replica |-> Len(log[i])]
        /\ \A j \in Replica : j # i => nextIndex'[j] = nextIndex[j]
    BY <1>6, <2>1 DEF Shapes, NodeTypes
  <2>4. Longer
    BY <2>1, <2>2, <2>3 DEF Longer
  <2>5. NodeTypes'
    BY <1>1, <1>3, <2>2, <2>3, PersistTypes DEF Shapes, NodeTypes
  <2>6. ASSUME NEW k \in Replica, nextIndex'[k] # None, NEW j \in Replica
        PROVE  nextIndex'[k][j] <= Len(log'[k])
    <3>1. CASE k = i
      BY <3>1, <2>1, <2>2, <2>3
    <3>2. CASE k # i
      BY <3>2, <2>3, <2>4, <2>6, NextStays DEF Shapes
    <3> QED
      BY <3>1, <3>2
  <2>7. FlightShapes'
    <3>1. currentTerm'[i] \in Term /\ nextIndex'[i] \in [Replica -> Int] /\ Len(log'[i]) >= 1
      BY <1>3, <2>1, <2>2, <2>3
    <3>2. commitIndex[i] \in Int
      BY DEF Shapes, NodeTypes, CommitIndex
    <3> QED
      BY <1>1, <1>2, <1>6, <2>4, <3>1, <3>2, LeaderSendAEsShapes DEF Shapes
  <2> QED
    BY <2>5, <2>6, <2>7 DEF Shapes, NextInLog
<1> QED
  BY <1>4, <1>5, <1>6

\* WriteCommand and the heartbeats keep the shapes.
LEMMA WriteShapes ==
    ASSUME Shapes, NEW i \in Replica, NEW c \in Call, WriteCommand(i, c)
    PROVE  Shapes'
<1> DEFINE entry == [term |-> currentTerm[i], by |-> i, operation |-> Write]
<1>1. /\ nextIndex[i] \in [Replica -> Int]
      /\ log' = [log EXCEPT ![i] = Append(log[i], entry)]
      /\ UNCHANGED <<currentTerm, leading, commitIndex, nextIndex, disk, sent, answers, acked>>
      /\ LeaderSendAEs(i, c, entry, commitIndex[i])
  BY DEF WriteCommand, Shapes, NodeTypes, electionVars
<1>2. entry \in Entry /\ currentTerm'[i] \in Term /\ commitIndex[i] \in Int
  BY <1>1 DEF Shapes, NodeTypes, Entry, CommitIndex
<1> HIDE DEF entry
<1>3. /\ log[i] \in Seq(Entry)
      /\ \A j \in Replica : Len(log[j]) \in Nat
  BY LenProperties DEF Shapes, NodeTypes
<1>4. /\ log' \in [Replica -> Seq(Entry)]
      /\ Len(log'[i]) = Len(log[i]) + 1
      /\ \A j \in Replica : Len(log'[j]) >= Len(log[j])
  BY <1>1, <1>2, <1>3, Appended DEF Shapes, NodeTypes
<1>5. Longer
  BY <1>1, <1>4 DEF Longer
<1>6. NodeTypes'
  BY <1>1, <1>4 DEF Shapes, NodeTypes
<1>7. NextInLog'
  BY <1>1, <1>5, NextStays DEF Shapes, NextInLog
<1>8. FlightShapes'
  BY <1>1, <1>2, <1>3, <1>4, <1>5, LeaderSendAEsShapes DEF Shapes
<1> QED
  BY <1>6, <1>7, <1>8 DEF Shapes

LEMMA HeartBeatShapes ==
    ASSUME Shapes, NEW i \in Replica, NEW c \in Call, HeartBeat(i, c)
    PROVE  Shapes'
<1>1. /\ nextIndex[i] \in [Replica -> Int]
      /\ UNCHANGED <<nodeVars, sent, answers, acked>>
      /\ LeaderSendAEs(i, c, None, commitIndex[i])
  BY DEF HeartBeat, Shapes, NodeTypes
<1>2. Longer
  BY <1>1, LenProperties DEF Longer, Shapes, NodeTypes, nodeVars, electionVars
<1>3. NodeTypes' /\ NextInLog'
  BY <1>1 DEF Shapes, NodeTypes, NextInLog, nodeVars, electionVars
<1>4. currentTerm'[i] \in Term /\ commitIndex[i] \in Int /\ nextIndex'[i] \in [Replica -> Int]
  BY <1>1 DEF Shapes, NodeTypes, CommitIndex, nodeVars, electionVars
<1>5. FlightShapes'
  BY <1>1, <1>2, <1>4, LeaderSendAEsShapes DEF Shapes
<1> QED
  BY <1>3, <1>5 DEF Shapes

\* A message about what follows an entry of the log is one.
LEMMA MessageShape ==
    ASSUME Shapes, NEW c \in Call, calls[c] \in CallRecord, NEW i \in Replica,
           calls[c].from = i, calls[c].verdict # "failed", NEW j \in Replica,
           j # i, NEW term \in Term, NEW leaderCommit \in Int,
           NEW prev \in Int, prev >= -1, prev < Len(log[i]), NEW first \in BOOLEAN
    PROVE  SentShape(Message(c, first, i, j, term, leaderCommit, prev))
<1> DEFINE m == Message(c, first, i, j, term, leaderCommit, prev)
<1>1. i \in Replica /\ log[i] \in Seq(Entry) /\ Len(log[i]) \in Nat /\ calls[c].upper \in Int
  BY LenProperties DEF CallRecord, Shapes, NodeTypes
<1>2. calls[c].upper < Len(log[i])
  BY CallIsNotIdle DEF Shapes, FlightShapes, CallShape, CallInLog
<1>3. \A p \in 1 .. Len(log[i]) : log[i][p] \in Entry
  BY <1>1, ElementOfSeq
<1>4. m.entries \in Seq(Entry)
  <2>1. \A p \in prev + 2 .. calls[c].upper + 1 : log[i][p] \in Entry
    BY <1>1, <1>2, <1>3
  <2> QED
    BY <1>1, <2>1, SubSeqProperties DEF Message, FirstSent
<1>5. m.prevLogTerm \in Int
  <2>1. ASSUME prev # -1 PROVE log[i][prev + 1].term \in Int
    <3>1. log[i][prev + 1] \in Entry
      BY <1>1, <1>3, <2>1
    <3> QED
      BY <3>1, TermIsNat DEF Entry
  <2>2. m.prevLogTerm = IF prev = -1 THEN -1 ELSE log[i][prev + 1].term
    BY DEF Message
  <2> HIDE DEF m
  <2> QED
    BY <2>1, <2>2
<1>6. /\ m.call = c /\ m.first = first /\ m.from = i /\ m.to = j /\ m.term = term
      /\ m.leaderCommit = leaderCommit /\ m.prevLogIndex = prev
      /\ m = [call |-> m.call, first |-> m.first, from |-> m.from, to |-> m.to, term |-> m.term,
              leaderCommit |-> m.leaderCommit, prevLogIndex |-> m.prevLogIndex,
              prevLogTerm |-> m.prevLogTerm, entries |-> m.entries]
  BY DEF Message
<1> HIDE DEF m
<1>7. m \in MessageRecord
  BY <1>1, <1>4, <1>5, <1>6 DEF MessageRecord
<1> QED
  BY <1>6, <1>7 DEF SentShape, m

\* Send and Retry make messages and leave the logs alone.
LEMMA SendShapes ==
    ASSUME Shapes, NEW g \in starts, Send(g)
    PROVE  Shapes'
<1> DEFINE i == g.from
           m == Message(g.call, TRUE, i, g.to, calls[g.call].term, calls[g.call].leaderCommit,
                        nextIndex[i][g.to] - 1)
<1>1. /\ nextIndex[i][g.to] - 1 >= -1
      /\ starts' = starts \ {g}
      /\ sent' = sent \cup {m}
      /\ UNCHANGED <<currentTerm, leading, log, commitIndex, nextIndex, disk>>
      /\ UNCHANGED <<calls, answers, acked>>
  BY DEF Send, nodeVars, electionVars
<1>2. /\ g.call \in Call /\ i \in Replica /\ g.to \in Replica /\ g.to # i
      /\ calls[g.call].from = i /\ calls[g.call].verdict # "failed"
  BY DEF Shapes, FlightShapes, StartShape, Goroutine
<1>3. calls[g.call] \in CallRecord /\ nextIndex[i] \in [Replica -> Int]
  BY <1>2, GoroutineCall DEF Shapes, FlightShapes, CallInLog
<1>4. nextIndex[i] # None => nextIndex[i][g.to] <= Len(log[i])
  BY <1>2 DEF Shapes, NextInLog
<1>5. nextIndex[i][g.to] - 1 \in Int /\ nextIndex[i][g.to] - 1 >= -1 /\ Len(log[i]) \in Nat
  BY <1>1, <1>2, <1>3, LenProperties DEF Shapes, NodeTypes
<1>6. SentShape(m)
  <2>1. nextIndex[i][g.to] <= Len(log[i])
    BY <1>2, <1>3, ReplicationAssumption DEF Shapes, NextInLog
  <2>2. calls[g.call].term \in Term /\ calls[g.call].leaderCommit \in Int
    BY <1>3 DEF CallRecord
  <2> DEFINE first == TRUE
  <2>3. first \in BOOLEAN
    OBVIOUS
  <2>4. m = Message(g.call, first, i, g.to, calls[g.call].term, calls[g.call].leaderCommit,
                    nextIndex[i][g.to] - 1)
    OBVIOUS
  <2> HIDE DEF m, first
  <2> QED
    BY <1>2, <1>3, <1>5, <2>1, <2>2, <2>3, <2>4, MessageShape
<1>7. NodeTypes' /\ NextInLog' /\ Longer
  BY <1>1, LenProperties DEF Shapes, NodeTypes, NextInLog, Longer
<1>8. ASSUME NEW x, x = m PROVE SentShape(x)'
  <2>1. SentShape(x)
    BY <1>6, <1>8
  <2> QED
    BY <1>1, <2>1 DEF SentShape
<1> HIDE DEF m
<1>9. FlightShapes'
  <2>1. calls' \in [Call -> CallRecord \cup {Idle}]
    BY <1>1 DEF Shapes, FlightShapes
  <2> QED
    BY <1>1, <1>7, <1>8, <2>1, ShapesStep DEF Shapes
<1> QED
  BY <1>7, <1>9 DEF Shapes

LEMMA RetryShapes ==
    ASSUME Shapes, SharedShape, NEW a \in answers, NEW prev \in ReadAgain(a), Retry(a, prev)
    PROVE  Shapes'
<1> DEFINE i == a.from
           m == Message(a.call, FALSE, i, a.to, currentTerm[i], commitIndex[i], prev - 1)
<1>1. /\ prev >= 0
      /\ answers' = answers \ {a}
      /\ nextIndex' = [nextIndex EXCEPT ![i][a.to] = @ - 1]
      /\ sent' = sent \cup {m}
      /\ UNCHANGED <<currentTerm, leading, log, commitIndex, disk, calls, starts, acked>>
  BY DEF Retry, electionVars
<1>2. /\ a \in AnswerRecord /\ calls[a.call].from = i /\ calls[a.call].verdict # "failed"
      /\ a.to # i /\ a.prevLogIndex < Len(log[i])
      /\ a.call \in Call /\ i \in Replica /\ a.to \in Replica /\ a.prevLogIndex \in Int
  BY DEF Shapes, FlightShapes, AnswerShape, AnswerRecord
<1>3. calls[a.call] \in CallRecord /\ nextIndex[i] \in [Replica -> Int]
  BY <1>2, GoroutineCall DEF Shapes, FlightShapes, CallInLog
<1>0. prev \in Int /\ prev < Len(log[i])
  BY <1>2 DEF ReadAgain, SharedShape
<1>4. SentShape(m)
  <2>1. currentTerm[i] \in Term /\ commitIndex[i] \in Int /\ Len(log[i]) \in Nat
    BY <1>2, LenProperties DEF Shapes, NodeTypes, CommitIndex
  <2>2. prev - 1 \in Int /\ prev - 1 >= -1 /\ prev - 1 < Len(log[i])
    BY <1>0, <1>1, <2>1
  <2> HIDE DEF m
  <2> QED
    BY <1>2, <1>3, <2>1, <2>2, MessageShape DEF m
<1>5. /\ nextIndex' \in [Replica -> [Replica -> Int] \cup {None}]
      /\ \A j \in Replica : j # i => nextIndex'[j] = nextIndex[j]
      /\ \A k \in Replica : nextIndex'[i][k] = nextIndex[i][k] - IF k = a.to THEN 1 ELSE 0
      /\ nextIndex'[i] \in [Replica -> Int]
  BY <1>1, <1>2, <1>3 DEF Shapes, NodeTypes
<1>6. NodeTypes' /\ Longer
  BY <1>1, <1>5, LenProperties DEF Shapes, NodeTypes, Longer
<1>7. NextInLog'
  <2>1. ASSUME NEW k \in Replica PROVE nextIndex'[i][k] <= Len(log'[i])
    <3>1. nextIndex[i][k] \in Int /\ nextIndex[i][k] <= Len(log[i]) /\ Len(log[i]) \in Nat
      BY <1>2, <1>3, ReplicationAssumption, LenProperties DEF Shapes, NextInLog, NodeTypes
    <3> QED
      BY <1>1, <1>5, <3>1
  <2> QED
    BY <1>1, <1>5, <2>1 DEF Shapes, NextInLog
<1>8. ASSUME NEW x, x = m PROVE SentShape(x)'
  <2>1. SentShape(x)
    BY <1>4, <1>8
  <2> QED
    BY <1>1, <2>1 DEF SentShape
<1> HIDE DEF m
<1>9. FlightShapes'
  <2>1. calls' \in [Call -> CallRecord \cup {Idle}]
    BY <1>1 DEF Shapes, FlightShapes
  <2> QED
    BY <1>1, <1>6, <1>8, <2>1, ShapesStep DEF Shapes
<1> QED
  BY <1>6, <1>7, <1>9 DEF Shapes

\* What a follower answers is an answer.
LEMMA AnsweredShape ==
    ASSUME Shapes, NEW m \in sent, NEW term \in Term, NEW success \in BOOLEAN,
           NEW a \in Answer(m, term, success)
    PROVE  AnswerShape(a)
<1>1. /\ m.call # None
      /\ a = [call |-> m.call, first |-> m.first /\ ~ success, from |-> m.from, to |-> m.to,
              term |-> term, success |-> success,
              prevLogIndex |-> IF success THEN -1 ELSE m.prevLogIndex]
  BY DEF Answer
<1>2. SentShape(m) /\ m \in MessageRecord
  BY DEF Shapes, FlightShapes, SentShape
<1>3. m.from \in Replica /\ Len(log[m.from]) \in Nat
  BY <1>2, LenProperties DEF MessageRecord, Shapes, NodeTypes
<1>4. a \in AnswerRecord
  BY <1>1, <1>2 DEF MessageRecord, AnswerRecord
<1> QED
  BY <1>1, <1>2, <1>3, <1>4 DEF AnswerShape, SentShape

\* AppendEntries keeps the shapes, of the log too.
LEMMA AppendEntriesStaleShapes ==
    ASSUME Shapes, NEW m \in sent, AppendEntriesStale(m)
    PROVE  Shapes'
<1>1. /\ sent' = sent \ {m}
      /\ UNCHANGED <<currentTerm, leading, log, commitIndex, nextIndex, disk>>
      /\ UNCHANGED <<calls, starts, acked>>
  BY DEF AppendEntriesStale, nodeVars, electionVars
<1>2. PICK success \in BOOLEAN : answers' = answers \cup Answer(m, currentTerm[m.to], success)
  BY DEF AppendEntriesStale
<1>3. currentTerm[m.to] \in Term
  BY DEF Shapes, FlightShapes, SentShape, MessageRecord, NodeTypes
<1>4. NodeTypes' /\ NextInLog' /\ Longer
  BY <1>1, LenProperties DEF Shapes, NodeTypes, NextInLog, Longer
<1>5. ASSUME NEW a \in Answer(m, currentTerm[m.to], success) PROVE AnswerShape(a)'
  <2>1. AnswerShape(a)
    BY <1>3, <1>5, AnsweredShape
  <2> QED
    BY <1>1, <2>1 DEF AnswerShape
<1>6. FlightShapes'
  <2>1. calls' \in [Call -> CallRecord \cup {Idle}]
    BY <1>1 DEF Shapes, FlightShapes
  <2> QED
    BY <1>1, <1>2, <1>4, <1>5, <2>1, ShapesStep DEF Shapes
<1> QED
  BY <1>4, <1>6 DEF Shapes

\* A message that follows on from a log merges with it to a log that is not shorter.
LEMMA MergedShape ==
    ASSUME Shapes, NEW m \in sent, Matches(m)
    PROVE  LET merged == MergedLog(log[m.to], m.prevLogIndex, m.entries)
           IN  /\ log[m.to] \in Seq(Entry) /\ m.entries \in Seq(Entry)
               /\ Len(log[m.to]) \in Nat /\ Len(m.entries) \in Nat /\ Len(merged) \in Nat
               /\ m.prevLogIndex \in Int
               /\ m.prevLogIndex >= -1 /\ m.prevLogIndex < Len(log[m.to])
               /\ merged \in Seq(Entry)
               /\ Len(merged) = IF m.prevLogIndex + 1 + Len(m.entries) > Len(log[m.to])
                                THEN m.prevLogIndex + 1 + Len(m.entries) ELSE Len(log[m.to])
<1> DEFINE merged == MergedLog(log[m.to], m.prevLogIndex, m.entries)
<1>1. /\ log[m.to] \in Seq(Entry) /\ m.entries \in Seq(Entry)
      /\ m.prevLogIndex \in Int /\ m.prevLogIndex >= -1
  BY DEF Shapes, FlightShapes, SentShape, MessageRecord, NodeTypes
<1>2. Len(log[m.to]) \in Nat /\ Len(m.entries) \in Nat
  BY <1>1, LenProperties
<1>3. m.prevLogIndex < Len(log[m.to])
  BY <1>1, <1>2 DEF Matches, HasPrevEntry
<1>4. /\ merged \in Seq(Entry)
      /\ Len(merged) = IF m.prevLogIndex + 1 + Len(m.entries) > Len(log[m.to])
                       THEN m.prevLogIndex + 1 + Len(m.entries) ELSE Len(log[m.to])
  BY <1>1, <1>3, MergedLogIsLog
<1> QED
  BY <1>1, <1>2, <1>3, <1>4, LenProperties

\* What AppendEntries makes of the node.
LEMMA AppendEntriesNode ==
    ASSUME Shapes, NEW m \in sent, AppendEntries(m)
    PROVE  /\ m.to \in Replica /\ m.term \in Term /\ m.term >= currentTerm[m.to]
           /\ m.term > currentTerm[m.to] \/ ~ leading[m.to]
           /\ currentTerm' = [currentTerm EXCEPT ![m.to] = m.term]
           /\ leading' = [leading EXCEPT ![m.to] = FALSE]
           /\ log' = [log EXCEPT ![m.to] =
                        IF Matches(m) THEN MergedLog(log[m.to], m.prevLogIndex, m.entries)
                        ELSE log[m.to]]
           /\ commitIndex' = [commitIndex EXCEPT ![m.to] =
                IF Matches(m)
                THEN FollowerCommit(commitIndex[m.to], m.leaderCommit,
                                    MergedLog(log[m.to], m.prevLogIndex, m.entries))
                ELSE commitIndex[m.to]]
           /\ nextIndex' = nextIndex
           /\ Longer
           /\ NodeTypes'
           /\ \A j \in Replica : disk'[j] =
                 IF j = m.to /\ (m.term > currentTerm[m.to] \/ candidate[m.to] \/ Matches(m))
                 THEN [log |-> log'[j], commitIndex |-> commitIndex'[j]] ELSE disk[j]
<1> DEFINE j == m.to
           merged == MergedLog(log[j], m.prevLogIndex, m.entries)
           commit == FollowerCommit(commitIndex[j], m.leaderCommit, merged)
<1>1. j \in Replica /\ m.term \in Term /\ m.leaderCommit \in Int
  BY DEF Shapes, FlightShapes, SentShape, MessageRecord
<1>2. /\ currentTerm' = [currentTerm EXCEPT ![j] = m.term]
      /\ leading' = [leading EXCEPT ![j] = FALSE]
      /\ m.term >= currentTerm[j]
      /\ m.term > currentTerm[j] \/ ~ leading[j]
      /\ PersistToStorage(IF m.term > currentTerm[j] \/ candidate[j] \/ Matches(m)
                          THEN {j} ELSE {})
      /\ UNCHANGED <<nextIndex, acked>>
  <2>1. currentTerm[j] \in Nat /\ m.term \in Nat
    BY <1>1, TermIsNat DEF Shapes, NodeTypes
  <2> QED
    BY <2>1 DEF AppendEntries
<1>3. /\ log' = [log EXCEPT ![j] = IF Matches(m) THEN merged ELSE log[j]]
      /\ commitIndex' = [commitIndex EXCEPT ![j] = IF Matches(m) THEN commit ELSE commitIndex[j]]
  <2>1. CASE Matches(m)
    BY <2>1 DEF AppendEntries
  <2>2. CASE ~ Matches(m)
    BY <2>2 DEF AppendEntries, Shapes, NodeTypes
  <2> QED
    BY <2>1, <2>2
<1>4. ASSUME Matches(m)
      PROVE  /\ merged \in Seq(Entry) /\ Len(merged) >= Len(log[j]) /\ commit \in CommitIndex
  <2>1. /\ merged \in Seq(Entry) /\ Len(merged) \in Nat /\ Len(merged) >= Len(log[j])
    BY <1>4, MergedShape
  <2>2. commitIndex[j] \in Int /\ commitIndex[j] >= -1
    BY <1>1 DEF Shapes, NodeTypes, CommitIndex
  <2> QED
    BY <1>1, <2>1, <2>2 DEF FollowerCommit, CommitIndex
<1> HIDE DEF merged, commit
<1>5. log' \in [Replica -> Seq(Entry)] /\ commitIndex' \in [Replica -> CommitIndex]
  BY <1>1, <1>3, <1>4 DEF Shapes, NodeTypes
<1>6. Longer
  <2>1. \A k \in Replica : Len(log[k]) \in Nat
    BY LenProperties DEF Shapes, NodeTypes
  <2>2. \A k \in Replica : Len(log'[k]) >= Len(log[k])
    BY <1>1, <1>3, <1>4, <2>1 DEF Shapes, NodeTypes
  <2> QED
    BY <1>2, <1>5, <2>2 DEF Longer
<1>7. /\ disk' \in [Replica -> [log : Seq(Entry), commitIndex : CommitIndex]]
      /\ \A k \in Replica : disk'[k] =
            IF k = j /\ (m.term > currentTerm[j] \/ candidate[j] \/ Matches(m))
            THEN [log |-> log'[k], commitIndex |-> commitIndex'[k]] ELSE disk[k]
  <2> DEFINE S == IF m.term > currentTerm[j] \/ candidate[j] \/ Matches(m) THEN {j} ELSE {}
  <2>1. S \in SUBSET Replica /\ PersistToStorage(S)
    BY <1>1, <1>2
  <2>2. \A k \in Replica : k \in S <=>
            k = j /\ (m.term > currentTerm[j] \/ candidate[j] \/ Matches(m))
    OBVIOUS
  <2> HIDE DEF S
  <2> QED
    BY <1>5, <2>1, <2>2, PersistTypes DEF Shapes, NodeTypes
<1>8. NodeTypes'
  BY <1>1, <1>2, <1>5, <1>7 DEF Shapes, NodeTypes
<1> QED
  BY <1>1, <1>2, <1>3, <1>6, <1>7, <1>8 DEF merged, commit

LEMMA AppendEntriesShapes ==
    ASSUME Shapes, NEW m \in sent, AppendEntries(m)
    PROVE  Shapes'
<1>1. /\ sent' = sent \ {m}
      /\ UNCHANGED <<calls, starts>>
      /\ answers' = answers \cup Answer(m, m.term, Matches(m))
  BY DEF AppendEntries
<1>2. NodeTypes' /\ Longer /\ nextIndex' = nextIndex /\ m.term \in Term
  BY AppendEntriesNode
<1>3. NextInLog'
  BY <1>2, NextStays DEF Shapes, NextInLog
<1>4. ASSUME NEW a \in Answer(m, m.term, Matches(m)) PROVE AnswerShape(a)'
  <2>1. Matches(m) \in BOOLEAN
    BY DEF Matches, HasPrevEntry
  <2>2. AnswerShape(a)
    BY <1>2, <1>4, <2>1, AnsweredShape
  <2>3. GoesOn(a.call)
    BY <1>1 DEF GoesOn
  <2> QED
    BY <1>2, <2>2, <2>3, ShapesStay DEF Shapes
<1>5. FlightShapes'
  <2>1. calls' \in [Call -> CallRecord \cup {Idle}]
    BY <1>1 DEF Shapes, FlightShapes
  <2> QED
    BY <1>1, <1>2, <1>4, <2>1, ShapesStep DEF Shapes
<1> QED
  BY <1>2, <1>3, <1>5 DEF Shapes

\* A call that goes on with the same fields keeps its shape.
LEMMA CallGoesOn ==
    ASSUME Shapes, Longer, NEW c \in Call, calls[c] \in CallRecord, calls'[c] \in CallRecord,
           calls'[c].from = calls[c].from, calls'[c].index = calls[c].index,
           calls'[c].entry = calls[c].entry, calls'[c].upper = calls[c].upper,
           calls'[c].verdict # "none" => calls[c].verdict # "none" \/ calls[c].entry # None
    PROVE  CallShape(c)'
<1>1. CallInLog(c) /\ calls[c].from \in Replica /\ calls[c].upper \in Int
  BY CallIsNotIdle DEF Shapes, FlightShapes, CallShape, CallRecord
<1>2. nextIndex'[calls[c].from] \in [Replica -> Int]
  BY <1>1 DEF CallInLog, Longer
<1>3. calls[c].upper < Len(log'[calls[c].from])
  <2>1. Len(log[calls[c].from]) \in Nat /\ Len(log'[calls[c].from]) \in Nat
    BY <1>1, LenProperties DEF Shapes, NodeTypes, Longer
  <2> QED
    BY <1>1, <2>1 DEF CallInLog, Longer
<1>4. CallInLog(c)'
  BY <1>1, <1>2, <1>3 DEF CallInLog
<1> QED
  BY <1>4 DEF CallShape

\* The shapes after a step that does no more to what is under way than end a goroutine.
LEMMA ReturnsShapes ==
    ASSUME Shapes, Longer, NEW c \in Call, calls[c] \in CallRecord, NEW success \in BOOLEAN,
           Returns(c, success),
           starts' \subseteq starts, sent' \subseteq sent, answers' \subseteq answers
    PROVE  FlightShapes'
<1>1. /\ calls' = [calls EXCEPT ![c] = calls'[c]]
      /\ \/ calls'[c] = Idle /\ Over(c)
         \/ GoesOn(c) /\ CallShape(c)'
         \/ Over(c) /\ CallShape(c)'
  BY ReturnsCall, CallGoesOn DEF Shapes, GoesOn
<1>2. calls' \in [Call -> CallRecord \cup {Idle}]
  BY <1>1, ReturnsCall DEF Shapes, FlightShapes
<1>3. \A d \in Call : d # c => calls'[d] = calls[d]
  BY <1>1 DEF Shapes, FlightShapes
<1>4. Over(c) => \A g \in starts' \cup sent' \cup answers' : g.call # c
  BY DEF Over
<1> QED
  BY <1>1, <1>2, <1>3, <1>4, ShapesStep DEF Shapes

\* The end of a goroutine, a verdict and another try of the no-op keep the shapes.
LEMMA GiveUpShapes ==
    ASSUME Shapes, NEW m \in sent \cup answers, GiveUp(m)
    PROVE  Shapes'
<1>1. /\ m.call # None
      /\ starts' = starts /\ sent' \subseteq sent /\ answers' \subseteq answers
      /\ Returns(m.call, FALSE)
      /\ UNCHANGED <<currentTerm, leading, log, commitIndex, nextIndex, disk, acked>>
  BY DEF GiveUp, nodeVars, electionVars
<1>2. m.call \in Call /\ calls[m.call].from \in Replica
  BY <1>1 DEF Shapes, FlightShapes, SentShape, AnswerShape, MessageRecord, AnswerRecord
<1>3. calls[m.call] \in CallRecord
  BY <1>2, GoroutineCall DEF Shapes, FlightShapes
<1>4. NodeTypes' /\ NextInLog' /\ Longer
  BY <1>1, LenProperties DEF Shapes, NodeTypes, NextInLog, Longer
<1>5. FlightShapes'
  BY <1>1, <1>2, <1>3, <1>4, ReturnsShapes
<1> QED
  BY <1>4, <1>5 DEF Shapes

\* What Answered does to the node: it takes note of a later term, or of a success.
LEMMA AnsweredNode ==
    ASSUME Shapes, NEW a \in answers, Answered(a)
    PROVE  /\ a.from \in Replica /\ a.to \in Replica /\ a.call \in Call
           /\ calls[a.call] \in CallRecord
           /\ UNCHANGED <<log, commitIndex>>
           /\ \/ UNCHANGED <<currentTerm, leading, disk>>
              \/ /\ a.term > currentTerm[a.from]
                 /\ currentTerm' = [currentTerm EXCEPT ![a.from] = a.term]
                 /\ leading' = [leading EXCEPT ![a.from] = FALSE]
                 /\ \A j \in Replica : disk'[j] =
                       IF j = a.from THEN [log |-> log[j], commitIndex |-> commitIndex[j]]
                       ELSE disk[j]
           /\ \/ nextIndex' = nextIndex
              \/ /\ a.success /\ a.term <= currentTerm[a.from]
                 /\ nextIndex' = [nextIndex EXCEPT ![a.from][a.to] = calls[a.call].upper + 1]
           /\ nextIndex \in [Replica -> [Replica -> Int] \cup {None}]
           /\ nextIndex[a.from] \in [Replica -> Int]
           /\ Longer
           /\ NodeTypes'
<1> DEFINE i == a.from
<1>1. /\ a \in AnswerRecord /\ i \in Replica /\ a.to \in Replica /\ a.call \in Call
      /\ calls[a.call].from = i /\ a.term \in Term /\ a.success \in BOOLEAN
  BY DEF Shapes, FlightShapes, AnswerShape, AnswerRecord
<1>2. /\ calls[a.call] \in CallRecord /\ nextIndex[i] \in [Replica -> Int]
      /\ calls[a.call].upper \in Int
  BY <1>1, GoroutineCall DEF Shapes, FlightShapes, CallInLog, CallRecord
<1>3. UNCHANGED <<log, commitIndex, acked>>
  BY DEF Answered, StepDown
<1>4. \/ UNCHANGED <<currentTerm, leading, disk>>
      \/ a.term > currentTerm[i] /\ StepDown(i, a.term)
  BY DEF Answered, electionVars
<1>5. \/ nextIndex' = nextIndex
      \/ /\ a.success /\ a.term <= currentTerm[i]
         /\ nextIndex' = [nextIndex EXCEPT ![i][a.to] = calls[a.call].upper + 1]
  BY DEF Answered, NextAfter
<1>6. /\ nextIndex' \in [Replica -> [Replica -> Int] \cup {None}]
      /\ nextIndex'[i] \in [Replica -> Int]
      /\ \A j \in Replica : j # i => nextIndex'[j] = nextIndex[j]
  <2> DEFINE next == [nextIndex[i] EXCEPT ![a.to] = calls[a.call].upper + 1]
  <2>1. next \in [Replica -> Int]
    BY <1>1, <1>2
  <2>2. nextIndex \in [Replica -> [Replica -> Int] \cup {None}]
    BY DEF Shapes, NodeTypes
  <2>3. nextIndex' = nextIndex \/ nextIndex' = [nextIndex EXCEPT ![i] = next]
    BY <1>5
  <2> HIDE DEF next
  <2> QED
    BY <1>1, <1>2, <2>1, <2>2, <2>3
<1>7. Longer
  BY <1>1, <1>3, <1>6, LenProperties DEF Longer, Shapes, NodeTypes
<1>8. CASE a.term > currentTerm[i] /\ StepDown(i, a.term)
  <2>1. /\ currentTerm' = [currentTerm EXCEPT ![i] = a.term]
        /\ leading' = [leading EXCEPT ![i] = FALSE]
        /\ PersistToStorage({i})
    BY <1>8 DEF StepDown
  <2>2. /\ disk' \in [Replica -> [log : Seq(Entry), commitIndex : CommitIndex]]
        /\ \A j \in Replica : disk'[j] =
              IF j \in {i} THEN [log |-> log'[j], commitIndex |-> commitIndex'[j]] ELSE disk[j]
    <3>1. /\ {i} \in SUBSET Replica
          /\ disk \in [Replica -> [log : Seq(Entry), commitIndex : CommitIndex]]
          /\ log' \in [Replica -> Seq(Entry)] /\ commitIndex' \in [Replica -> CommitIndex]
      BY <1>1, <1>3 DEF Shapes, NodeTypes
    <3> QED
      BY <2>1, <3>1, PersistTypes
  <2>3. NodeTypes'
    BY <1>1, <1>3, <1>6, <2>1, <2>2 DEF Shapes, NodeTypes
  <2> QED
    BY <1>1, <1>2, <1>3, <1>5, <1>7, <1>8, <2>1, <2>2, <2>3 DEF Shapes, NodeTypes
<1>9. CASE UNCHANGED <<currentTerm, leading, disk>>
  <2>1. NodeTypes'
    BY <1>3, <1>6, <1>9 DEF Shapes, NodeTypes
  <2> QED
    BY <1>1, <1>2, <1>3, <1>5, <1>7, <1>9, <2>1 DEF Shapes, NodeTypes
<1> QED
  BY <1>4, <1>8, <1>9

LEMMA AnsweredShapes ==
    ASSUME Shapes, NEW a \in answers, Answered(a)
    PROVE  Shapes'
<1> DEFINE i == a.from
<1>1. /\ i \in Replica /\ a.to \in Replica /\ a.call \in Call /\ calls[a.call] \in CallRecord
      /\ calls[a.call].from = i
      /\ log' = log /\ Longer /\ NodeTypes'
      /\ nextIndex[i] \in [Replica -> Int]
      /\ \/ nextIndex' = nextIndex
         \/ nextIndex' = [nextIndex EXCEPT ![i][a.to] = calls[a.call].upper + 1]
  BY AnsweredNode DEF Shapes, FlightShapes, AnswerShape
<1>2. /\ starts' = starts /\ sent' = sent /\ answers' \subseteq answers
      /\ Returns(a.call, a.success) /\ a.success \in BOOLEAN
  BY DEF Answered, Shapes, FlightShapes, AnswerShape, AnswerRecord
<1>3. FlightShapes'
  BY <1>1, <1>2, ReturnsShapes
<1>4. calls[a.call].upper + 1 <= Len(log[i])
  <2>1. CallInLog(a.call) /\ calls[a.call].upper \in Int /\ Len(log[i]) \in Nat
    BY <1>1, GoroutineCall, LenProperties DEF Shapes, FlightShapes, CallRecord, NodeTypes
  <2> QED
    BY <1>1, <2>1 DEF CallInLog
<1>5. NextInLog'
  <2> SUFFICES ASSUME NEW k \in Replica, nextIndex'[k] # None, NEW j \in Replica
               PROVE  nextIndex'[k][j] <= Len(log'[k])
    BY DEF NextInLog
  <2>1. CASE nextIndex'[k] = nextIndex[k]
    BY <1>1, <2>1, NextStays DEF Shapes
  <2>2. CASE k = i /\ nextIndex' = [nextIndex EXCEPT ![i][a.to] = calls[a.call].upper + 1]
    <3>1. nextIndex[i][j] <= Len(log[i])
      BY <1>1, ReplicationAssumption DEF Shapes, NextInLog
    <3>2. nextIndex'[i][j] = IF j = a.to THEN calls[a.call].upper + 1 ELSE nextIndex[i][j]
      BY <1>1, <2>2 DEF Shapes, NodeTypes
    <3> QED
      BY <1>1, <1>4, <2>2, <3>1, <3>2
  <2> QED
    BY <1>1, <2>1, <2>2 DEF Shapes, NodeTypes
<1> QED
  BY <1>1, <1>3, <1>5 DEF Shapes

LEMMA CommitShapes ==
    ASSUME Shapes, NEW c \in Call, Commit(c)
    PROVE  Shapes'
<1> DEFINE i == calls[c].from
           told == [calls[c] EXCEPT !.verdict = "told"]
<1>1. /\ calls[c] \in CallRecord /\ CallInLog(c)
      /\ calls[c].verdict = "won"
      /\ commitIndex' = [commitIndex EXCEPT ![i] = @ + 1]
      /\ UNCHANGED <<currentTerm, leading, log, nextIndex, starts, sent, answers>>
      /\ PersistToStorage({i})
      /\ acked' = acked \cup {[index |-> calls[c].index, entry |-> calls[c].entry]}
  BY DEF Commit, Shapes, FlightShapes, CallShape, electionVars
<1>2. i \in Replica /\ calls[c].entry # None /\ calls[c].index >= 0 /\ calls[c].index \in Int
  BY <1>1 DEF CallRecord, CallInLog
<1>3. commitIndex' \in [Replica -> CommitIndex] /\ log' \in [Replica -> Seq(Entry)]
  BY <1>1, <1>2 DEF Shapes, NodeTypes, CommitIndex
<1>4. disk' \in [Replica -> [log : Seq(Entry), commitIndex : CommitIndex]]
  <2>1. {i} \in SUBSET Replica
    BY <1>2
  <2> QED
    BY <1>1, <1>3, <2>1, PersistTypes DEF Shapes, NodeTypes
<1>5. acked' \subseteq [index : Nat, entry : Entry]
  <2>1. calls[c].index \in Nat /\ calls[c].entry \in Entry
    BY <1>1, <1>2 DEF CallRecord
  <2> QED
    BY <1>1, <2>1 DEF Shapes, NodeTypes
<1>6. NodeTypes' /\ NextInLog' /\ Longer
  BY <1>1, <1>3, <1>4, <1>5, LenProperties DEF Shapes, NodeTypes, NextInLog, Longer
<1>7. /\ told \in CallRecord
      /\ told.from = i /\ told.entry = calls[c].entry /\ told.index = calls[c].index
      /\ told.upper = calls[c].upper /\ told.verdict = "told"
  BY <1>1 DEF CallRecord
<1>8. calls' = [calls EXCEPT ![c] = Settled(c, told)]
  BY DEF Commit
<1> HIDE DEF told
<1>9. calls'[c] = Settled(c, told)
  BY <1>8 DEF Shapes, FlightShapes
<1>10. \/ calls'[c] = told
       \/ calls'[c] = Idle /\ Over(c)
  BY <1>7, <1>9 DEF Settled
<1>11. calls'[c] = told => CallShape(c)'
  BY <1>1, <1>2, <1>6, <1>7, CallGoesOn
<1>12. FlightShapes'
  <2>1. calls' \in [Call -> CallRecord \cup {Idle}]
    BY <1>7, <1>8, <1>9, <1>10 DEF Shapes, FlightShapes
  <2>2. \A d \in Call : d # c => calls'[d] = calls[d]
    BY <1>8 DEF Shapes, FlightShapes
  <2>3. Over(c) => \A g \in starts' \cup sent' \cup answers' : g.call # c
    BY DEF Over
  <2> QED
    BY <1>1, <1>6, <1>7, <1>10, <1>11, <2>1, <2>2, <2>3, ShapesStep DEF Shapes, GoesOn
<1> QED
  BY <1>6, <1>12 DEF Shapes

LEMMA RetryNoOpShapes ==
    ASSUME Shapes, NEW c \in Call, RetryNoOp(c)
    PROVE  Shapes'
<1> DEFINE i == calls[c].from
           again == [calls[c] EXCEPT !.verdict = "none", !.successes = 1,
                                     !.upper = Len(log[i]) - 1]
<1>1. /\ calls[c] \in CallRecord /\ CallInLog(c)
      /\ UNCHANGED <<currentTerm, leading, log, commitIndex, nextIndex, disk>>
      /\ UNCHANGED <<sent, answers, acked>>
      /\ \/ /\ calls' = [calls EXCEPT ![c] = again]
            /\ starts' = starts \cup {[call |-> c, from |-> i, to |-> j] : j \in Replica \ {i}}
         \/ calls' = [calls EXCEPT ![c] = Idle] /\ starts' = starts
  BY DEF RetryNoOp, Shapes, FlightShapes, CallShape, nodeVars, electionVars, Peers
<1>2. NodeTypes' /\ NextInLog' /\ Longer
  BY <1>1, LenProperties DEF Shapes, NodeTypes, NextInLog, Longer
<1>3. i \in Replica /\ Len(log[i]) \in Nat /\ calls[c].index \in Int /\ calls[c].upper \in Int
  BY <1>1, LenProperties DEF CallRecord, Shapes, NodeTypes
<1>0. \A g \in starts \cup sent \cup answers : g.call # c
  <2>1. calls[c].verdict = "failed"
    BY DEF RetryNoOp
  <2>2. c # None
    BY ReplicationAssumption
  <2> QED
    BY <2>1, <2>2 DEF Shapes, FlightShapes, StartShape, SentShape, AnswerShape
<1>4. /\ again \in CallRecord /\ again.from = i /\ again.entry = calls[c].entry
      /\ again.index = calls[c].index /\ again.upper = Len(log[i]) - 1
      /\ again.verdict = "none"
  <2> DEFINE fresh == [calls[c] EXCEPT !.verdict = "none", !.successes = 1]
  <2>1. /\ fresh \in CallRecord /\ fresh.from = i /\ fresh.entry = calls[c].entry
        /\ fresh.index = calls[c].index /\ fresh.verdict = "none"
    BY <1>1 DEF CallRecord
  <2>2. again = [fresh EXCEPT !.upper = Len(log[i]) - 1]
    OBVIOUS
  <2> HIDE DEF fresh, again
  <2> QED
    BY <1>3, <2>1, <2>2 DEF CallRecord
<1> HIDE DEF again
<1>5. CASE /\ calls' = [calls EXCEPT ![c] = again]
           /\ starts' = starts \cup {[call |-> c, from |-> i, to |-> j] : j \in Replica \ {i}}
  <2>1. calls'[c] = again /\ \A d \in Call : d # c => calls'[d] = calls[d]
    BY <1>5 DEF Shapes, FlightShapes
  <2>2. CallInLog(c)'
    BY <1>1, <1>3, <1>4, <2>1 DEF CallInLog
  <2>3. CallShape(c)'
    BY <1>4, <2>1, <2>2 DEF CallShape
  <2>4. calls' \in [Call -> CallRecord \cup {Idle}]
    BY <1>4, <1>5 DEF Shapes, FlightShapes
  <2>5. \A g \in starts' : g \in starts \/ StartShape(g)'
    BY <1>3, <1>4, <1>5, <2>1 DEF StartShape, Goroutine
  <2>6. GoesOn(c)
    BY <1>4, <2>1 DEF GoesOn
  <2>7. FlightShapes'
    BY <1>1, <1>2, <2>1, <2>3, <2>4, <2>5, <2>6, ShapesStep DEF Shapes
  <2> QED
    BY <1>2, <2>7 DEF Shapes
<1>6. CASE calls' = [calls EXCEPT ![c] = Idle] /\ starts' = starts
  <2>1. calls'[c] = Idle /\ \A d \in Call : d # c => calls'[d] = calls[d]
    BY <1>6 DEF Shapes, FlightShapes
  <2>2. calls' \in [Call -> CallRecord \cup {Idle}]
    BY <1>6 DEF Shapes, FlightShapes
  <2>3. FlightShapes'
    BY <1>0, <1>1, <1>2, <1>6, <2>1, <2>2, ShapesStep DEF Shapes
  <2> QED
    BY <1>2, <2>3 DEF Shapes
<1> QED
  BY <1>1, <1>5, <1>6

\* A restart of a process: what it had under way is gone, and its log is the file's.
LEMMA RestartShapes ==
    ASSUME Shapes, NEW i \in Replica, NEW file, Restart(i, file),
           file.log \in Seq(Entry), file.commitIndex \in CommitIndex,
           currentTerm' \in [Replica -> Term],
           disk' \in [Replica -> [log : Seq(Entry), commitIndex : CommitIndex]]
    PROVE  Shapes'
<1>1. /\ leading' = [leading EXCEPT ![i] = FALSE]
      /\ log' = [log EXCEPT ![i] = file.log]
      /\ commitIndex' = [commitIndex EXCEPT ![i] = file.commitIndex]
      /\ nextIndex' = [nextIndex EXCEPT ![i] = None]
      /\ calls' = [c \in Call |-> IF calls[c].from = i THEN Idle ELSE calls[c]]
      /\ starts' = {g \in starts : g.from # i}
      /\ sent' = {IF m.from = i THEN [m EXCEPT !.call = None] ELSE m : m \in sent}
      /\ answers' = {a \in answers : a.from # i}
      /\ acked' = acked
  BY DEF Restart
<1>2. NodeTypes'
  BY <1>1 DEF Shapes, NodeTypes
<1>3. \A j \in Replica : j # i => log'[j] = log[j] /\ nextIndex'[j] = nextIndex[j]
  BY <1>1 DEF Shapes, NodeTypes
<1>4. NextInLog'
  <2>1. nextIndex'[i] = None
    BY <1>1 DEF Shapes, NodeTypes
  <2> QED
    BY <1>3, <2>1 DEF Shapes, NextInLog
<1>5. \A c \in Call : calls'[c] = IF calls[c].from = i THEN Idle ELSE calls[c]
  BY <1>1
<1>6. ASSUME NEW c \in Call PROVE CallShape(c)'
  <2> SUFFICES ASSUME calls'[c] # Idle PROVE CallShape(c)'
    BY DEF CallShape
  <2>1. calls[c].from # i /\ calls'[c] = calls[c]
    BY <1>5
  <2>2. calls[c] \in CallRecord /\ CallInLog(c) /\ calls[c].from \in Replica
    BY <2>1, CallIsNotIdle DEF Shapes, FlightShapes, CallShape
  <2>3. log'[calls[c].from] = log[calls[c].from] /\ nextIndex'[calls[c].from] = nextIndex[calls[c].from]
    BY <1>3, <2>1, <2>2
  <2> QED
    BY <2>1, <2>2, <2>3 DEF CallShape, CallInLog
<1>7. ASSUME NEW g \in starts' PROVE StartShape(g)'
  <2>1. StartShape(g) /\ g.from # i /\ g.call \in Call
    BY <1>1 DEF Shapes, FlightShapes, StartShape, Goroutine
  <2> QED
    BY <1>5, <2>1 DEF StartShape
<1>8. ASSUME NEW a \in answers' PROVE AnswerShape(a)'
  <2>1. AnswerShape(a) /\ a.from # i /\ a.call \in Call /\ a.from \in Replica
    BY <1>1 DEF Shapes, FlightShapes, AnswerShape, AnswerRecord
  <2>2. calls'[a.call] = calls[a.call] /\ log'[a.from] = log[a.from]
    BY <1>3, <1>5, <2>1 DEF AnswerShape
  <2> QED
    BY <2>1, <2>2 DEF AnswerShape
<1>9. ASSUME NEW x \in sent' PROVE SentShape(x)'
  <2>1. PICK m \in sent : x = IF m.from = i THEN [m EXCEPT !.call = None] ELSE m
    BY <1>1
  <2>2. SentShape(m) /\ m \in MessageRecord
    BY DEF Shapes, FlightShapes, SentShape
  <2>3. CASE m.from = i
    <3>1. /\ x \in MessageRecord /\ x.call = None /\ x.to = m.to /\ x.from = m.from
          /\ x.prevLogIndex = m.prevLogIndex
      BY <2>1, <2>2, <2>3 DEF MessageRecord
    <3> QED
      BY <2>2, <3>1 DEF SentShape
  <2>4. CASE m.from # i
    <3>1. m.call \in Call \cup {None} /\ m.from \in Replica
      BY <2>2 DEF MessageRecord
    <3>2. log'[m.from] = log[m.from] /\ (m.call # None => calls'[m.call] = calls[m.call])
      BY <1>3, <1>5, <2>2, <2>4, <3>1 DEF SentShape
    <3> QED
      BY <2>1, <2>2, <2>4, <3>2 DEF SentShape
  <2> QED
    BY <2>3, <2>4
<1>10. calls' \in [Call -> CallRecord \cup {Idle}]
  BY <1>1 DEF Shapes, FlightShapes
<1>11. FlightShapes'
  BY <1>6, <1>7, <1>8, <1>9, <1>10 DEF FlightShapes
<1> QED
  BY <1>2, <1>4, <1>11 DEF Shapes

LEMMA RebootShapes ==
    ASSUME Shapes, NEW i \in Replica, Reboot(i)
    PROVE  Shapes'
<1>1. disk[i].log \in Seq(Entry) /\ disk[i].commitIndex \in CommitIndex
  BY DEF Shapes, NodeTypes
<1>2. /\ Restart(i, disk[i])
      /\ currentTerm' \in [Replica -> Term]
      /\ disk' \in [Replica -> [log : Seq(Entry), commitIndex : CommitIndex]]
  BY DEF Reboot, Shapes, NodeTypes
<1> QED
  BY <1>1, <1>2, RestartShapes

LEMMA CrashInSaveShapes ==
    ASSUME Shapes, NEW i \in Replica, CrashInSave(i)
    PROVE  Shapes'
<1>1. /\ NoFile \in [log : Seq(Entry), commitIndex : CommitIndex]
      /\ NoFile.log \in Seq(Entry) /\ NoFile.commitIndex \in CommitIndex
      /\ 0 \in Term
  BY ReplicationAssumption DEF NoFile, CommitIndex, Term
<1>2. /\ Restart(i, NoFile)
      /\ currentTerm' \in [Replica -> Term]
      /\ disk' \in [Replica -> [log : Seq(Entry), commitIndex : CommitIndex]]
  BY <1>1 DEF CrashInSave, Shapes, NodeTypes
<1> QED
  BY <1>1, <1>2, RestartShapes

\* A message whose parts are those of others still has its shape.
LEMMA RewrittenShapes ==
    ASSUME Shapes, SharedShape, NEW m \in sent, Rewritten(m)
    PROVE  Shapes'
<1> DEFINE Other(prev) == Message(m.call, m.first, m.from, m.to, m.term, m.leaderCommit, prev)
<1>1. /\ m.call # None
      /\ UNCHANGED <<currentTerm, leading, log, commitIndex, nextIndex, disk>>
      /\ UNCHANGED <<calls, starts, answers, acked>>
  BY DEF Rewritten, nodeVars, electionVars
<1> DEFINE Made(index, term, entries) ==
              [m EXCEPT !.prevLogIndex = index, !.prevLogTerm = term, !.entries = entries]
<1>0. PICK prev \in {m.prevLogIndex} \cup (IF m.first THEN shared[m.call] ELSE {}) :
        \E index \in {m.prevLogIndex, prev} :
        \E term \in {m.prevLogTerm} \cup (IF m.first THEN {Other(prev).prevLogTerm} ELSE {}) :
        \E entries \in {m.entries, Other(prev).entries} :
            Made(index, term, entries) # m /\ sent' = (sent \ {m}) \cup {Made(index, term, entries)}
  BY Zenon DEF Rewritten
<1>2. PICK index \in {m.prevLogIndex, prev},
           term \in {m.prevLogTerm, Other(prev).prevLogTerm},
           entries \in {m.entries, Other(prev).entries} :
        sent' = (sent \ {m}) \cup {Made(index, term, entries)}
  BY <1>0
<1>3. /\ SentShape(m) /\ m \in MessageRecord /\ m.call \in Call /\ m.from \in Replica
      /\ m.to \in Replica /\ m.first \in BOOLEAN /\ m.term \in Term /\ m.leaderCommit \in Int
      /\ m.to # m.from /\ calls[m.call].from = m.from /\ calls[m.call].verdict # "failed"
      /\ m.prevLogIndex \in Int /\ m.prevLogIndex >= -1 /\ m.prevLogIndex < Len(log[m.from])
  BY <1>1 DEF Shapes, FlightShapes, SentShape, MessageRecord
<1>4. prev \in Int /\ prev >= -1 /\ prev < Len(log[m.from])
  BY <1>3 DEF SharedShape
<1>5. calls[m.call] \in CallRecord
  BY <1>3, GoroutineCall DEF Shapes, FlightShapes
<1>6. SentShape(Other(prev))
  BY <1>3, <1>4, <1>5, MessageShape
<1> HIDE DEF Other
<1>7. /\ Other(prev).prevLogTerm \in Int /\ Other(prev).entries \in Seq(Entry)
  BY <1>6 DEF SentShape, MessageRecord
<1>8. term \in Int /\ index \in Int /\ entries \in Seq(Entry)
      /\ index >= -1 /\ index < Len(log[m.from])
  BY <1>3, <1>4, <1>7 DEF MessageRecord
<1> DEFINE x == Made(index, term, entries)
<1>9. /\ x \in MessageRecord /\ x.call = m.call /\ x.from = m.from /\ x.to = m.to
      /\ x.prevLogIndex = index
  BY <1>3, <1>8 DEF MessageRecord
<1>10. sent' = (sent \ {m}) \cup {x}
  BY <1>2
<1> HIDE DEF x, Made
<1>11. SentShape(x)
  BY <1>3, <1>8, <1>9 DEF SentShape
<1>12. NodeTypes' /\ NextInLog'
  BY <1>1 DEF Shapes, NodeTypes, NextInLog
<1>13. calls' \in [Call -> CallRecord \cup {Idle}] /\ \A c \in Call : CallShape(c)'
  BY <1>1 DEF Shapes, FlightShapes, CallShape, CallInLog
<1>14. \A y \in sent' : SentShape(y)'
  <2> SUFFICES ASSUME NEW y \in sent' PROVE SentShape(y)'
    OBVIOUS
  <2>1. SentShape(y)
    BY <1>10, <1>11 DEF Shapes, FlightShapes
  <2> QED
    BY <1>1, <2>1 DEF SentShape
<1>15. (\A g \in starts' : StartShape(g)') /\ (\A a \in answers' : AnswerShape(a)')
  BY <1>1 DEF Shapes, FlightShapes, StartShape, AnswerShape
<1> QED
  BY <1>12, <1>13, <1>14, <1>15 DEF Shapes, FlightShapes

\* Every step keeps the shapes.
LEMMA StepShapes == Shapes /\ SharedShape /\ [Next]_vars => Shapes'
<1> SUFFICES ASSUME Shapes, SharedShape, [Next]_vars PROVE Shapes'
  OBVIOUS
<1>1. CASE UNCHANGED vars
  <2>1. UNCHANGED <<currentTerm, leading, log, commitIndex, nextIndex, disk>>
    BY <1>1 DEF vars, nodeVars, electionVars
  <2>2. UNCHANGED <<calls, starts, sent, answers, acked>>
    BY <1>1 DEF vars, callVars
  <2> QED
    BY <2>1, <2>2 DEF Shapes, NodeTypes, NextInLog, FlightShapes, CallShape, CallInLog,
       StartShape, SentShape, AnswerShape
<1>2. ASSUME NEW i \in Replica, NEW c \in Call, NEW asked \in SUBSET Peers(i),
             NEW wins \in BOOLEAN, Election(i, asked, wins, c)
      PROVE  Shapes'
  BY <1>2, ElectionShapes
<1>3. ASSUME NEW i \in Replica, NEW c \in Call, WriteCommand(i, c) \/ HeartBeat(i, c) PROVE Shapes'
  BY <1>3, WriteShapes, HeartBeatShapes
<1>4. ASSUME NEW i \in Replica, Crash(i) \/ CrashInSave(i) \/ Panics(i) PROVE Shapes'
  BY <1>4, RebootShapes, CrashInSaveShapes DEF Crash, Panics
<1>5. ASSUME NEW g \in starts, Send(g) PROVE Shapes'
  BY <1>5, SendShapes
<1>6. ASSUME NEW m \in sent, Rewritten(m) \/ AppendEntriesStale(m) \/ AppendEntries(m)
      PROVE  Shapes'
  BY <1>6, RewrittenShapes, AppendEntriesStaleShapes, AppendEntriesShapes
<1>7. ASSUME NEW m \in sent \cup answers, GiveUp(m) PROVE Shapes'
  BY <1>7, GiveUpShapes
<1>8. ASSUME NEW a \in answers, Answered(a) \/ \E prev \in ReadAgain(a) : Retry(a, prev)
      PROVE  Shapes'
  BY <1>8, AnsweredShapes, RetryShapes
<1>9. ASSUME NEW c \in Call, Commit(c) \/ RetryNoOp(c) PROVE Shapes'
  BY <1>9, CommitShapes, RetryNoOpShapes
<1> QED
  BY <1>1, <1>2, <1>3, <1>4, <1>5, <1>6, <1>7, <1>8, <1>9 DEF Next

\* What stands in the message of a call stays of a log that does not get shorter.
LEMMA SharedStays ==
    ASSUME Shapes, Shapes', SharedShape,
           shared' \in [Call -> SUBSET Int], \A c \in Call : shared'[c] \subseteq shared[c],
           \A c \in Call : shared'[c] # {} /\ calls[c] # Idle =>
              /\ calls'[c] # Idle /\ calls'[c].from = calls[c].from
              /\ Len(log'[calls[c].from]) >= Len(log[calls[c].from])
    PROVE  SharedShape'
<1> SUFFICES ASSUME NEW c \in Call, NEW prev \in shared'[c]
             PROVE  /\ calls'[c] # Idle /\ prev >= -1
                    /\ prev < Len(log'[calls'[c].from])
  BY DEF SharedShape
<1>1. calls[c] # Idle /\ prev \in Int /\ prev >= -1 /\ prev < Len(log[calls[c].from])
  BY DEF SharedShape
<1>2. /\ calls'[c] # Idle /\ calls'[c].from = calls[c].from
      /\ Len(log'[calls[c].from]) >= Len(log[calls[c].from])
  BY <1>1
<1>3. calls[c].from \in Replica
  BY <1>1, CallIsNotIdle DEF Shapes, FlightShapes
<1>4. Len(log[calls[c].from]) \in Nat /\ Len(log'[calls[c].from]) \in Nat
  BY <1>3, LenProperties DEF Shapes, NodeTypes
<1> QED
  BY <1>1, <1>2, <1>4

LEMMA ForgetShape ==
    ASSUME Shapes, Shapes', SharedShape, Forget,
           \A c \in Call : calls[c] # Idle /\ calls'[c] # Idle =>
              /\ calls'[c].from = calls[c].from
              /\ Len(log'[calls[c].from]) >= Len(log[calls[c].from])
    PROVE  SharedShape'
<1>1. \A c \in Call : shared'[c] =
         IF \E g \in starts' \cup {m \in sent' \cup answers' : m.first} : g.call = c
         THEN shared[c] ELSE {}
  BY DEF Forget
<1>2. ASSUME NEW c \in Call, NEW g \in starts' \cup sent' \cup answers', g.call = c
      PROVE  calls'[c] # Idle
  <2>1. c # None
    BY ReplicationAssumption
  <2>2. g.from \in Replica /\ calls'[c].from = g.from
    BY <1>2, <2>1 DEF Shapes, FlightShapes, StartShape, SentShape, AnswerShape,
       Goroutine, MessageRecord, AnswerRecord
  <2> QED
    BY <2>2, CallIsNotIdle
<1>3. \A c \in Call : shared'[c] # {} => calls'[c] # Idle
  BY <1>1, <1>2
<1>4. shared' \in [Call -> SUBSET Int] /\ \A c \in Call : shared'[c] \subseteq shared[c]
  BY <1>1 DEF Forget, SharedShape
<1> QED
  BY <1>3, <1>4, SharedStays

\* Every step keeps the shape of what is shared.
LEMMA StepSharedShape == Shapes /\ SharedShape /\ [Next]_vars => SharedShape'
<1> SUFFICES ASSUME Shapes, SharedShape, [Next]_vars PROVE SharedShape'
  OBVIOUS
<1>0. Shapes' /\ \A j \in Replica : Len(log[j]) \in Nat /\ Len(log'[j]) \in Nat
  BY StepShapes, LenProperties DEF Shapes, NodeTypes
<1>01. \A c \in Call : calls[c] # Idle => calls[c].from \in Replica
  BY CallIsNotIdle DEF Shapes, FlightShapes
<1>02. ASSUME shared' = shared, \A j \in Replica : Len(log'[j]) >= Len(log[j]),
              \A c \in Call : calls[c] # Idle => calls'[c] = calls[c]
       PROVE  SharedShape'
  BY <1>0, <1>01, <1>02, SharedStays DEF SharedShape
<1>03. ASSUME Forget, \A j \in Replica : Len(log'[j]) >= Len(log[j]),
              \A c \in Call : calls'[c] = Idle \/ calls'[c].from = calls[c].from
       PROVE  SharedShape'
  BY <1>0, <1>01, <1>03, ForgetShape
<1>1. CASE UNCHANGED vars
  BY <1>0, <1>02, <1>1 DEF vars, nodeVars, callVars
<1>04. ASSUME NEW i \in Replica, NEW c \in Call, NEW entry, NEW leaderCommit,
              LeaderSendAEs(i, c, entry, leaderCommit), shared' = shared,
              \A j \in Replica : Len(log'[j]) >= Len(log[j])
       PROVE  SharedShape'
  <2>1. \A d \in Call : calls[d] # Idle => calls'[d] = calls[d]
    BY <1>04 DEF LeaderSendAEs, Shapes, FlightShapes
  <2> QED
    BY <1>02, <1>04, <2>1
<1>05. ASSUME NEW i \in Replica, NEW e, log' = [log EXCEPT ![i] = Append(@, e)], e \in Entry
       PROVE  \A j \in Replica : Len(log'[j]) >= Len(log[j])
  BY <1>0, <1>05, Appended DEF Shapes, NodeTypes
<1>2. ASSUME NEW i \in Replica, NEW c \in Call, NEW asked \in SUBSET Peers(i),
             NEW wins \in BOOLEAN, Election(i, asked, wins, c)
      PROVE  SharedShape'
  <2> DEFINE noOp == [term |-> currentTerm[i] + 1, by |-> i, operation |-> NoOp]
  <2>1. /\ currentTerm[i] + 1 <= MaxTerm /\ shared' = shared
        /\ \/ log' = [log EXCEPT ![i] = Append(@, noOp)] /\ LeaderSendAEs(i, c, noOp, commitIndex[i])
           \/ UNCHANGED <<log, calls>>
    BY <1>2 DEF Election
  <2>2. currentTerm[i] \in Nat
    BY TermIsNat DEF Shapes, NodeTypes
  <2>3. noOp \in Entry
    BY <2>1, <2>2, TermIsNat DEF Entry
  <2> HIDE DEF noOp
  <2>4. CASE log' = [log EXCEPT ![i] = Append(@, noOp)] /\ LeaderSendAEs(i, c, noOp, commitIndex[i])
    BY <1>04, <1>05, <2>1, <2>3, <2>4
  <2>5. CASE UNCHANGED <<log, calls>>
    BY <1>0, <1>02, <2>1, <2>5
  <2> QED
    BY <2>1, <2>4, <2>5
<1>3. ASSUME NEW i \in Replica, NEW c \in Call, WriteCommand(i, c) PROVE SharedShape'
  <2> DEFINE entry == [term |-> currentTerm[i], by |-> i, operation |-> Write]
  <2>1. /\ log' = [log EXCEPT ![i] = Append(@, entry)] /\ shared' = shared
        /\ LeaderSendAEs(i, c, entry, commitIndex[i])
    BY <1>3 DEF WriteCommand
  <2>2. entry \in Entry
    BY DEF Entry, Shapes, NodeTypes
  <2> HIDE DEF entry
  <2> QED
    BY <1>04, <1>05, <2>1, <2>2
<1>4. ASSUME NEW i \in Replica, NEW c \in Call, HeartBeat(i, c) PROVE SharedShape'
  <2>1. log' = log /\ shared' = shared /\ LeaderSendAEs(i, c, None, commitIndex[i])
    BY <1>4 DEF HeartBeat, nodeVars
  <2> QED
    BY <1>0, <1>04, <2>1
<1>5. ASSUME NEW i \in Replica, NEW file, Restart(i, file) PROVE SharedShape'
  <2>1. /\ Forget
        /\ \A c \in Call : calls'[c] = IF calls[c].from = i THEN Idle ELSE calls[c]
        /\ \A j \in Replica : j # i => log'[j] = log[j]
    BY <1>5 DEF Restart, Shapes, NodeTypes
  <2>2. \A c \in Call : calls[c] # Idle /\ calls'[c] # Idle =>
           /\ calls'[c].from = calls[c].from
           /\ Len(log'[calls[c].from]) >= Len(log[calls[c].from])
    BY <1>0, <1>01, <2>1
  <2> QED
    BY <1>0, <2>1, <2>2, ForgetShape
<1>6. ASSUME NEW i \in Replica, Crash(i) \/ CrashInSave(i) \/ Panics(i) PROVE SharedShape'
  BY <1>5, <1>6 DEF Crash, CrashInSave, Panics, Reboot
<1>7. ASSUME NEW g \in starts, Send(g) PROVE SharedShape'
  <2> DEFINE prev == nextIndex[g.from][g.to] - 1
  <2>1. /\ prev >= -1 /\ shared' = [shared EXCEPT ![g.call] = @ \cup {prev}]
        /\ UNCHANGED <<log, calls, nextIndex>>
    BY <1>7 DEF Send, nodeVars
  <2>2. g.call \in Call /\ g.from \in Replica /\ g.to \in Replica /\ calls[g.call].from = g.from
    BY DEF Shapes, FlightShapes, StartShape, Goroutine
  <2>3. calls[g.call] # Idle /\ nextIndex[g.from] \in [Replica -> Int]
    BY <2>2, GoroutineCall DEF Shapes, FlightShapes, CallInLog
  <2>4. nextIndex[g.from][g.to] \in Int /\ nextIndex[g.from][g.to] <= Len(log[g.from])
    BY <2>2, <2>3, ReplicationAssumption DEF Shapes, NextInLog
  <2>5. prev \in Int /\ prev < Len(log[g.from])
    BY <1>0, <2>2, <2>4
  <2> HIDE DEF prev
  <2>6. ASSUME NEW c \in Call, NEW p \in shared'[c]
        PROVE  p \in shared[c] \/ (p = prev /\ c = g.call)
    BY <2>1, <2>2, <2>6 DEF SharedShape
  <2>7. shared' \in [Call -> SUBSET Int]
    BY <2>1, <2>2, <2>5 DEF SharedShape
  <2> QED
    BY <2>1, <2>2, <2>3, <2>5, <2>6, <2>7 DEF SharedShape
<1>8. ASSUME NEW m \in sent, Rewritten(m) \/ AppendEntriesStale(m) \/ AppendEntries(m)
      PROVE  SharedShape'
  <2>1. CASE Rewritten(m)
    <3>1. UNCHANGED <<log, calls, shared>>
      BY <2>1 DEF Rewritten, nodeVars
    <3> QED
      BY <1>0, <1>02, <3>1
  <2>2. CASE AppendEntriesStale(m)
    BY <1>0, <1>03, <2>2 DEF AppendEntriesStale, nodeVars
  <2>3. CASE AppendEntries(m)
    <3>1. Longer
      BY <2>3, AppendEntriesNode
    <3>2. Forget /\ calls' = calls
      BY <2>3 DEF AppendEntries
    <3> QED
      BY <1>03, <3>1, <3>2 DEF Longer
  <2> QED
    BY <1>8, <2>1, <2>2, <2>3
<1>9. ASSUME NEW c \in Call, calls[c] \in CallRecord, NEW success \in BOOLEAN,
             Returns(c, success), Forget, log' = log
      PROVE  SharedShape'
  <2>1. /\ calls' = [calls EXCEPT ![c] = calls'[c]]
        /\ calls'[c] = Idle \/ calls'[c].from = calls[c].from
    BY <1>9, ReturnsCall DEF Shapes
  <2>2. \A d \in Call : d # c => calls'[d] = calls[d]
    BY <2>1 DEF Shapes, FlightShapes
  <2> QED
    BY <1>0, <1>03, <1>9, <2>1, <2>2
<1>10. ASSUME NEW m \in sent \cup answers, GiveUp(m) PROVE SharedShape'
  <2>1. m.call # None /\ Returns(m.call, FALSE) /\ Forget /\ log' = log
    BY <1>10 DEF GiveUp, nodeVars
  <2>2. m.call \in Call /\ calls[m.call].from \in Replica
    BY <2>1 DEF Shapes, FlightShapes, SentShape, AnswerShape, MessageRecord, AnswerRecord
  <2> QED
    BY <1>9, <2>1, <2>2, GoroutineCall DEF Shapes, FlightShapes
<1>11. ASSUME NEW a \in answers, Answered(a) PROVE SharedShape'
  <2>1. a.call \in Call /\ calls[a.call] \in CallRecord /\ log' = log
    BY <1>11, AnsweredNode
  <2>2. Returns(a.call, a.success) /\ Forget /\ a.success \in BOOLEAN
    BY <1>11 DEF Answered, Shapes, FlightShapes, AnswerShape, AnswerRecord
  <2> QED
    BY <1>9, <2>1, <2>2
<1>12. ASSUME NEW a \in answers, NEW prev, Retry(a, prev) PROVE SharedShape'
  <2>1. Forget /\ UNCHANGED <<log, calls>>
    BY <1>12 DEF Retry
  <2> QED
    BY <1>0, <1>03, <2>1
<1>13. ASSUME NEW c \in Call, Commit(c) PROVE SharedShape'
  <2> DEFINE told == [calls[c] EXCEPT !.verdict = "told"]
  <2>1. /\ calls[c] \in CallRecord /\ calls' = [calls EXCEPT ![c] = Settled(c, told)]
        /\ log' = log /\ Forget
    BY <1>13 DEF Commit, Shapes, FlightShapes, CallShape
  <2>2. told.from = calls[c].from /\ told.verdict = "told"
    BY <2>1 DEF CallRecord
  <2> HIDE DEF told
  <2>3. Settled(c, told) = told \/ Settled(c, told) = Idle
    BY <2>2 DEF Settled
  <2>4. \A d \in Call : calls'[d] = IF d = c THEN Settled(c, told) ELSE calls[d]
    BY <2>1 DEF Shapes, FlightShapes
  <2> QED
    BY <1>0, <1>03, <2>1, <2>2, <2>3, <2>4
<1>14. ASSUME NEW c \in Call, RetryNoOp(c) PROVE SharedShape'
  <2>1. log' = log /\ \A d \in Call : d # c => calls'[d] = calls[d]
    BY <1>14 DEF RetryNoOp, nodeVars, Shapes, FlightShapes
  <2>2. /\ shared' \in [Call -> SUBSET Int]
        /\ \A d \in Call : shared'[d] \subseteq shared[d] /\ (d = c => shared'[d] = {})
    BY <1>14 DEF RetryNoOp, SharedShape
  <2> QED
    BY <1>0, <1>01, <2>1, <2>2, SharedStays
<1> QED
  BY <1>1, <1>2, <1>3, <1>4, <1>6, <1>7, <1>8, <1>10, <1>11, <1>12, <1>13, <1>14 DEF Next

LEMMA InitShapes == Init => Shapes /\ SharedShape
<1> SUFFICES ASSUME Init PROVE Shapes /\ SharedShape
  OBVIOUS
<1>1. << >> \in Seq(Entry) /\ 0 \in Term /\ -1 \in CommitIndex
  BY ReplicationAssumption DEF Term, CommitIndex
<1>2. NodeTypes
  BY <1>1 DEF Init, NoFile, NodeTypes
<1>3. NextInLog
  BY DEF Init, NextInLog
<1>4. FlightShapes
  BY DEF Init, FlightShapes, CallShape
<1>5. SharedShape
  BY DEF Init, SharedShape
<1> QED
  BY <1>2, <1>3, <1>4, <1>5 DEF Shapes

LEMMA ShapesInvariant == Spec => [](Shapes /\ SharedShape)
BY InitShapes, StepShapes, StepSharedShape, PTL DEF Spec

\* A replica's log is as up to date as itself.
LEMMA GrantsItself == ASSUME Shapes, NEW i \in Replica PROVE Grants(i, i)
<1>1. log[i] \in Seq(Entry) /\ Len(log[i]) \in Nat
  BY LenProperties DEF Shapes, NodeTypes
<1> QED
  BY <1>1 DEF Grants, AtLeastAsUpToDate, LatestLogIndex

\* Every step keeps the shape of votes.
LEMMA StepVoteShape == Shapes /\ VoteShape /\ [Next]_vars => VoteShape'
<1> SUFFICES ASSUME Shapes, VoteShape, [Next]_vars PROVE VoteShape'
  OBVIOUS
<1>0. ASSUME UNCHANGED <<votedFor, candidate>> PROVE VoteShape'
  BY <1>0 DEF VoteShape
<1>1. CASE UNCHANGED vars
  BY <1>0, <1>1 DEF vars, nodeVars, electionVars
<1>2. ASSUME NEW i \in Replica, NEW c \in Call, NEW asked \in SUBSET Peers(i),
             NEW wins \in BOOLEAN, Election(i, asked, wins, c)
      PROVE  VoteShape'
  <2> DEFINE t == currentTerm[i] + 1
             reached == {i} \cup {j \in asked : currentTerm[j] < t}
             voters == {j \in {i} \cup asked : MayVote(j, t) /\ Grants(j, i)}
  <2>1. /\ votedFor' = [j \in Replica |-> IF j \in voters THEN i
                                         ELSE IF j \in reached THEN None ELSE votedFor[j]]
        /\ candidate' = [j \in Replica |-> IF j \in reached THEN ~ wins /\ j = i
                                          ELSE candidate[j]]
    BY <1>2 DEF Election
  <2>2. i \in voters
    <3>1. currentTerm[i] \in Nat
      BY TermIsNat DEF Shapes, NodeTypes
    <3> QED
      BY <3>1, GrantsItself DEF MayVote
  <2> HIDE DEF voters, reached
  <2> QED
    BY <2>1, <2>2, ReplicationAssumption DEF VoteShape
<1>3. ASSUME NEW i \in Replica, NEW c \in Call, WriteCommand(i, c) \/ HeartBeat(i, c)
      PROVE  VoteShape'
  BY <1>0, <1>3 DEF WriteCommand, HeartBeat, nodeVars, electionVars
<1>4. ASSUME NEW i \in Replica, NEW file, Restart(i, file),
             votedFor' = votedFor \/ votedFor' = [votedFor EXCEPT ![i] = None]
      PROVE  VoteShape'
  <2>1. candidate' = [candidate EXCEPT ![i] = FALSE]
    BY <1>4 DEF Restart
  <2> QED
    BY <1>4, <2>1 DEF VoteShape
<1>5. ASSUME NEW i \in Replica, Crash(i) \/ CrashInSave(i) \/ Panics(i) PROVE VoteShape'
  <2>1. /\ \E file : Restart(i, file)
        /\ votedFor' = votedFor \/ votedFor' = [votedFor EXCEPT ![i] = None]
    BY <1>5 DEF Crash, CrashInSave, Panics, Reboot
  <2> QED
    BY <1>4, <2>1
<1>6. ASSUME NEW g \in starts, Send(g) PROVE VoteShape'
  BY <1>0, <1>6 DEF Send, nodeVars, electionVars
<1>7. ASSUME NEW m \in sent, Rewritten(m) \/ AppendEntriesStale(m) PROVE VoteShape'
  <2>1. CASE Rewritten(m)
    <3>1. UNCHANGED <<votedFor, candidate>>
      BY <2>1 DEF Rewritten, nodeVars, electionVars
    <3> QED
      BY <1>0, <3>1
  <2>2. CASE AppendEntriesStale(m)
    BY <1>0, <2>2 DEF AppendEntriesStale, nodeVars, electionVars
  <2> QED
    BY <1>7, <2>1, <2>2
<1>8. ASSUME NEW m \in sent, AppendEntries(m) PROVE VoteShape'
  <2>1. /\ candidate' = [candidate EXCEPT ![m.to] = FALSE]
        /\ \/ votedFor' = [votedFor EXCEPT ![m.to] = None]
           \/ votedFor' = [votedFor EXCEPT ![m.to] = votedFor[m.to]]
    BY <1>8 DEF AppendEntries
  <2>2. m.to \in Replica
    BY DEF Shapes, FlightShapes, SentShape, MessageRecord
  <2> QED
    BY <2>1, <2>2 DEF VoteShape
<1>9. ASSUME NEW m \in sent \cup answers, GiveUp(m) PROVE VoteShape'
  BY <1>0, <1>9 DEF GiveUp, nodeVars, electionVars
<1>10. ASSUME NEW a \in answers, Answered(a) PROVE VoteShape'
  <2>1. \/ UNCHANGED <<votedFor, candidate>>
        \/ /\ candidate' = [candidate EXCEPT ![a.from] = FALSE]
           /\ votedFor' = [votedFor EXCEPT ![a.from] = None]
    BY <1>10 DEF Answered, StepDown, electionVars
  <2>2. a.from \in Replica
    BY <1>10, AnsweredNode
  <2> QED
    BY <1>0, <2>1, <2>2 DEF VoteShape
<1>11. ASSUME NEW a \in answers, NEW prev, Retry(a, prev) PROVE VoteShape'
  <2>1. UNCHANGED <<votedFor, candidate>>
    BY <1>11 DEF Retry, electionVars
  <2> QED
    BY <1>0, <2>1
<1>12. ASSUME NEW c \in Call, Commit(c) \/ RetryNoOp(c) PROVE VoteShape'
  <2>1. UNCHANGED <<votedFor, candidate>>
    BY <1>12 DEF Commit, RetryNoOp, nodeVars, electionVars
  <2> QED
    BY <1>0, <2>1
<1> QED
  BY <1>1, <1>2, <1>3, <1>5, <1>6, <1>7, <1>8, <1>9, <1>10, <1>11, <1>12 DEF Next

LEMMA VoteInvariant == Spec => []VoteShape
<1>1. Init => VoteShape
  BY DEF Init, VoteShape
<1> QED
  BY <1>1, ShapesInvariant, StepVoteShape, PTL DEF Spec

\* Every variable holds what the code's types allow, whatever happens.
THEOREM TypeCorrect == Spec => []TypeOK
<1>1. Shapes /\ SharedShape /\ VoteShape => TypeOK
  <2> SUFFICES ASSUME Shapes, SharedShape, VoteShape PROVE TypeOK
    OBVIOUS
  <2>1. /\ currentTerm \in [Replica -> Term] /\ leading \in [Replica -> BOOLEAN]
        /\ log \in [Replica -> Seq(Entry)]
        /\ commitIndex \in [Replica -> {n \in Int : n >= -1}]
        /\ nextIndex \in [Replica -> [Replica -> Int] \cup {None}]
        /\ disk \in [Replica -> [log : Seq(Entry), commitIndex : {n \in Int : n >= -1}]]
        /\ acked \subseteq [index : Nat, entry : Entry]
    BY DEF Shapes, NodeTypes, CommitIndex
  <2>2. \A g \in starts \cup answers : g.call \in Call /\ calls[g.call].from = g.from
    BY DEF Shapes, FlightShapes, StartShape, AnswerShape, Goroutine, AnswerRecord
  <2>3. \A m \in sent : m.entries \in Seq(Entry) /\ m.prevLogIndex >= -1
    BY DEF Shapes, FlightShapes, SentShape, MessageRecord
  <2>4. \A c \in Call : calls[c] = Idle \/ calls[c].upper < Len(log[calls[c].from])
    BY DEF Shapes, FlightShapes, CallShape, CallInLog
  <2>5. \A c \in Call : \A prev \in shared[c] : prev >= -1
    BY DEF SharedShape
  <2>6. votedFor \in [Replica -> Replica \cup {None}] /\ candidate \in [Replica -> BOOLEAN]
    BY DEF VoteShape
  <2> QED
    BY <2>1, <2>2, <2>3, <2>4, <2>5, <2>6 DEF TypeOK
<1> QED
  BY <1>1, ShapesInvariant, VoteInvariant, PTL

-----------------------------------------------------------------------------
(* nextIndex *)

\* What the code did that breaks an invariant is not forgotten.
LEMMA OddGrows == [Next]_vars => odd \subseteq odd'
<1> SUFFICES ASSUME [Next]_vars PROVE odd \subseteq odd'
  OBVIOUS
<1>1. CASE UNCHANGED vars
  BY <1>1 DEF vars
<1>2. ASSUME NEW i \in Replica, NEW c \in Call, NEW asked \in SUBSET Peers(i),
             NEW wins \in BOOLEAN, Election(i, asked, wins, c)
      PROVE  odd \subseteq odd'
  BY <1>2 DEF Election
<1>3. ASSUME NEW i \in Replica, NEW c \in Call, WriteCommand(i, c) \/ HeartBeat(i, c)
      PROVE  odd \subseteq odd'
  BY <1>3 DEF WriteCommand, HeartBeat
<1>4. ASSUME NEW i \in Replica, Crash(i) \/ CrashInSave(i) \/ Panics(i) PROVE odd \subseteq odd'
  BY <1>4 DEF Crash, CrashInSave, Panics, Reboot
<1>5. ASSUME NEW g \in starts, Send(g) PROVE odd' = odd
  BY <1>5 DEF Send
<1>6. ASSUME NEW m \in sent, Rewritten(m) \/ AppendEntriesStale(m) \/ AppendEntries(m)
      PROVE  odd \subseteq odd'
  BY <1>6 DEF Rewritten, AppendEntriesStale, AppendEntries
<1>7. ASSUME NEW m \in sent \cup answers, GiveUp(m) PROVE odd' = odd
  BY <1>7 DEF GiveUp
<1>8. ASSUME NEW a \in answers, Answered(a) \/ \E prev \in ReadAgain(a) : Retry(a, prev)
      PROVE  odd \subseteq odd'
  BY <1>8 DEF Answered, Retry
<1>9. ASSUME NEW c \in Call, Commit(c) \/ RetryNoOp(c) PROVE odd \subseteq odd'
  BY <1>9 DEF Commit, RetryNoOp
<1> QED
  BY <1>1, <1>2, <1>3, <1>4, <1>5, <1>6, <1>7, <1>8, <1>9 DEF Next

\* nextIndex is not negative, before anybody took a refusal for another message's.
RefusalsFit == "stale refusal" \notin odd

NextNotNegative ==
    RefusalsFit =>
        \A i \in Replica : nextIndex[i] # None => \A j \in Replica : nextIndex[i][j] >= 0

LEMMA StepNextNotNegative == Shapes /\ SharedShape /\ NextNotNegative /\ [Next]_vars => NextNotNegative'
<1> SUFFICES ASSUME Shapes, SharedShape, NextNotNegative, [Next]_vars, RefusalsFit',
                    NEW i \in Replica, nextIndex'[i] # None, NEW j \in Replica
             PROVE  nextIndex'[i][j] >= 0
  BY DEF NextNotNegative
<1>1. nextIndex[i] # None => nextIndex[i][j] >= 0
  BY OddGrows DEF NextNotNegative, RefusalsFit
<1>2. nextIndex \in [Replica -> [Replica -> Int] \cup {None}]
  BY DEF Shapes, NodeTypes
<1>3. CASE nextIndex' = nextIndex
  BY <1>1, <1>3
<1>4. ASSUME NEW k \in Replica, NEW c \in Call, NEW asked \in SUBSET Peers(k),
             NEW wins \in BOOLEAN, Election(k, asked, wins, c)
      PROVE  nextIndex'[i][j] >= 0
  <2>1. \/ nextIndex' = nextIndex
        \/ nextIndex' = [nextIndex EXCEPT ![k] = [h \in Replica |-> Len(log[k])]]
    BY <1>4 DEF Election
  <2>2. Len(log[k]) \in Nat
    BY LenProperties DEF Shapes, NodeTypes
  <2>3. CASE nextIndex' = [nextIndex EXCEPT ![k] = [h \in Replica |-> Len(log[k])]] /\ i = k
    <3>1. nextIndex'[i] = [h \in Replica |-> Len(log[k])]
      BY <1>2, <2>3
    <3>2. nextIndex'[i][j] = Len(log[k])
      BY <3>1
    <3> QED
      BY <2>2, <3>2
  <2>4. CASE nextIndex'[i] = nextIndex[i]
    BY <1>1, <2>4
  <2> QED
    BY <1>2, <2>1, <2>3, <2>4
<1>5. ASSUME NEW k \in Replica, NEW file, Restart(k, file) PROVE nextIndex'[i][j] >= 0
  <2>1. nextIndex' = [nextIndex EXCEPT ![k] = None]
    BY <1>5 DEF Restart
  <2> QED
    BY <1>1, <1>2, <2>1
<1>6. ASSUME NEW a \in answers, Answered(a) PROVE nextIndex'[i][j] >= 0
  <2>1. /\ a.from \in Replica /\ a.to \in Replica /\ a.call \in Call
        /\ calls[a.call] \in CallRecord /\ nextIndex[a.from] \in [Replica -> Int]
        /\ \/ nextIndex' = nextIndex
           \/ nextIndex' = [nextIndex EXCEPT ![a.from][a.to] = calls[a.call].upper + 1]
    BY <1>6, AnsweredNode
  <2>2. calls[a.call].upper \in Int /\ calls[a.call].upper + 1 >= 0
    <3>1. calls[a.call].upper \in Int /\ CallInLog(a.call)
      BY <2>1, CallIsNotIdle DEF Shapes, FlightShapes, CallShape, CallRecord
    <3>2. calls[a.call].upper >= -1
      BY <3>1 DEF CallInLog
    <3> QED
      BY <3>1, <3>2
  <2>3. nextIndex[a.from] # None
    BY <2>1, ReplicationAssumption
  <2>4. CASE nextIndex' = [nextIndex EXCEPT ![a.from][a.to] = calls[a.call].upper + 1] /\ i = a.from
    <3>1. nextIndex'[i][j] = IF j = a.to THEN calls[a.call].upper + 1 ELSE nextIndex[i][j]
      BY <1>2, <2>1, <2>4
    <3> QED
      BY <1>1, <2>2, <2>3, <2>4, <3>1
  <2>5. CASE nextIndex'[i] = nextIndex[i]
    BY <1>1, <2>5
  <2> QED
    BY <1>2, <2>1, <2>4, <2>5
<1>7. ASSUME NEW a \in answers, NEW prev, Retry(a, prev) PROVE nextIndex'[i][j] >= 0
  <2>1. /\ a \in AnswerRecord /\ a.from \in Replica /\ a.to \in Replica
        /\ prev >= 0
        /\ nextIndex' = [nextIndex EXCEPT ![a.from][a.to] = @ - 1]
        /\ nextIndex[a.from][a.to] = prev + 1
    BY <1>7 DEF Retry, RefusalsFit, Shapes, FlightShapes, AnswerShape, AnswerRecord
  <2>2. nextIndex[a.from] \in [Replica -> Int]
    <3>1. a.call \in Call /\ calls[a.call].from = a.from
      BY DEF Shapes, FlightShapes, AnswerShape, AnswerRecord
    <3> QED
      BY <2>1, <3>1, GoroutineCall DEF Shapes, FlightShapes, CallInLog
  <2>3. CASE i = a.from
    <3>1. nextIndex'[i][j] = IF j = a.to THEN nextIndex[i][j] - 1 ELSE nextIndex[i][j]
      BY <1>2, <2>1, <2>2, <2>3
    <3>2. nextIndex[i][j] >= 0 /\ nextIndex[i][j] \in Int
      <4>1. nextIndex[i] # None
        BY <2>2, <2>3, ReplicationAssumption
      <4> QED
        BY <1>1, <2>2, <2>3, <4>1
    <3>3. j = a.to => nextIndex[i][j] = prev + 1
      BY <2>1, <2>3
    <3>4. prev \in Int
      <4>1. prev \in ReadAgain(a) /\ a.call \in Call /\ a.prevLogIndex \in Int
        BY <1>7, <2>1 DEF Retry, AnswerRecord
      <4> QED
        BY <4>1 DEF ReadAgain, SharedShape
    <3> QED
      BY <2>1, <3>1, <3>2, <3>3, <3>4
  <2>4. CASE i # a.from
    BY <1>1, <1>2, <2>1, <2>4
  <2> QED
    BY <2>3, <2>4
<1>8. \/ nextIndex' = nextIndex
      \/ \E k \in Replica, c \in Call : \E asked \in SUBSET Peers(k), wins \in BOOLEAN :
            Election(k, asked, wins, c)
      \/ \E k \in Replica : Crash(k) \/ CrashInSave(k) \/ Panics(k)
      \/ \E a \in answers : Answered(a) \/ \E prev \in ReadAgain(a) : Retry(a, prev)
  <2>1. ASSUME NEW k \in Replica, NEW c \in Call, WriteCommand(k, c) \/ HeartBeat(k, c)
        PROVE  nextIndex' = nextIndex
    BY <2>1 DEF WriteCommand, HeartBeat, nodeVars
  <2>2. ASSUME NEW g \in starts, Send(g) PROVE nextIndex' = nextIndex
    BY <2>2 DEF Send, nodeVars
  <2>3. ASSUME NEW m \in sent, Rewritten(m) \/ AppendEntriesStale(m) \/ AppendEntries(m)
        PROVE  nextIndex' = nextIndex
    BY <2>3 DEF Rewritten, AppendEntriesStale, AppendEntries, nodeVars
  <2>4. ASSUME NEW m \in sent \cup answers, GiveUp(m) PROVE nextIndex' = nextIndex
    BY <2>4 DEF GiveUp, nodeVars
  <2>5. ASSUME NEW c \in Call, Commit(c) \/ RetryNoOp(c) PROVE nextIndex' = nextIndex
    BY <2>5 DEF Commit, RetryNoOp, nodeVars
  <2>6. CASE UNCHANGED vars
    BY <2>6 DEF vars, nodeVars
  <2> QED
    BY <2>1, <2>2, <2>3, <2>4, <2>5, <2>6 DEF Next
<1>9. ASSUME NEW k \in Replica, Crash(k) \/ CrashInSave(k) \/ Panics(k) PROVE nextIndex'[i][j] >= 0
  <2>1. \E file : Restart(k, file)
    BY <1>9 DEF Crash, CrashInSave, Panics, Reboot
  <2> QED
    BY <1>5, <2>1
<1> QED
  BY <1>3, <1>4, <1>6, <1>7, <1>8, <1>9

\* nextIndex is an index of the log or the one after its end, as long as every refusal is
\* taken for the message that nextIndex stands for.
THEOREM NextIndexStaysInLog == Spec => []NextIndexInLog
<1>1. Init => NextNotNegative
  BY DEF Init, NextNotNegative
<1>2. Shapes /\ NextNotNegative => NextIndexInLog
  <2> SUFFICES ASSUME Shapes, NextNotNegative, RefusalsFit,
                      NEW i \in Replica, nextIndex[i] # None, NEW j \in Peers(i)
               PROVE  nextIndex[i][j] \in 0 .. Len(log[i])
    BY DEF NextIndexInLog, RefusalsFit
  <2>1. j \in Replica
    BY DEF Peers
  <2>2. nextIndex[i] \in [Replica -> Int] /\ nextIndex[i][j] \in Int /\ Len(log[i]) \in Nat
    BY <2>1, LenProperties DEF Shapes, NodeTypes
  <2>3. nextIndex[i][j] >= 0 /\ nextIndex[i][j] <= Len(log[i])
    BY <2>1 DEF Shapes, NextInLog, NextNotNegative
  <2> QED
    BY <2>2, <2>3
<1> QED
  BY <1>1, <1>2, ShapesInvariant, StepNextNotNegative, PTL DEF Spec

-----------------------------------------------------------------------------
(* That logs match.  K is the set of the logs that there have been, and E   *)
(* that of the terms with a leader so far.                                  *)

\* What the code did broke nothing that the argument relies on.
Sound == Broken = {}

Agree(k1, k2, n) == \A r \in 1 .. n : k1[r] = k2[r]

Majority(M) == 2 * Cardinality(M) > Cardinality(Replica)

\* The log and all before it are known, terms do not fall, and an entry of a term stands
\* for all before it.
History(K, E) ==
    /\ K \in SUBSET Seq(Entry) /\ E \in SUBSET Term
    /\ \A k \in K : \A n \in 0 .. Len(k) : SubSeq(k, 1, n) \in K
    /\ \A k \in K : \A p \in 1 .. Len(k) : k[p].term \in E
    /\ \A k \in K : \A p, q \in 1 .. Len(k) : p <= q => k[p].term <= k[q].term
    /\ \A k1, k2 \in K : \A p \in 1 .. Len(k1), q \in 1 .. Len(k2) :
          p <= q /\ k1[p].term = k2[q].term => Agree(k1, k2, p)

Held(K) == \A i \in Replica : log[i] \in K /\ disk[i].log \in K

\* The replica has voted for l in the term, or gone on from it.
HasVoted(j, l, term) ==
    \/ currentTerm[j] > term
    \/ currentTerm[j] = term /\ votedFor[j] = l /\ ~ candidate[j]

\* A majority has voted for the leader of each term.
Known(E) ==
    \A T \in E : \E M \in SUBSET Replica, l \in Replica :
        Majority(M) /\ \A j \in M : HasVoted(j, l, T)

\* No log of K has more entries of term t than log l, or others.
Longest(K, l, t) ==
    \A k \in K : \A q \in 1 .. Len(k) : k[q].term = t => q <= Len(l) /\ Agree(k, l, q)

\* The log of a leader is the longest that there has been with an entry of its term.
LeaderLog(K, E) ==
    \A i \in Replica : leading[i] =>
        /\ currentTerm[i] \in E
        /\ Len(log[i]) >= 1 /\ log[i][Len(log[i])].term = currentTerm[i]
        /\ Longest(K, log[i], currentTerm[i])

OneLeader ==
    \A i, j \in Replica : leading[i] /\ leading[j] /\ currentTerm[i] = currentTerm[j] => i = j

\* The message is about the log k from its prevLogIndex on.
Carries(m, k) ==
    /\ Len(k) = m.prevLogIndex + 1 + Len(m.entries)
    /\ \A p \in 1 .. Len(m.entries) : m.entries[p] = k[m.prevLogIndex + 1 + p]
    /\ m.prevLogIndex # -1 => m.prevLogTerm = k[m.prevLogIndex + 1].term

Carried(K) == \A m \in sent : \E k \in K : Carries(m, k)

Past(K, E) ==
    History(K, E) /\ Held(K) /\ Known(E) /\ LeaderLog(K, E) /\ OneLeader /\ Carried(K)

-----------------------------------------------------------------------------
\* Two majorities meet.
LEMMA MajoritiesMeet ==
    ASSUME NEW M1 \in SUBSET Replica, NEW M2 \in SUBSET Replica, Majority(M1), Majority(M2)
    PROVE  \E j \in Replica : j \in M1 /\ j \in M2
<1> SUFFICES ASSUME M1 \cap M2 = {} PROVE FALSE
  OBVIOUS
<1>1. IsFiniteSet(Replica) /\ IsFiniteSet(M1) /\ IsFiniteSet(M2)
  BY ReplicationAssumption, FS_Subset
<1>2. Cardinality(M1 \cup M2) = Cardinality(M1) + Cardinality(M2) - Cardinality(M1 \cap M2)
  BY <1>1, FS_Union
<1>3. Cardinality(M1 \cap M2) = 0
  BY FS_EmptySet
<1>4. Cardinality(M1 \cup M2) <= Cardinality(Replica)
  BY <1>1, FS_Subset
<1>5. /\ Cardinality(M1) \in Nat /\ Cardinality(M2) \in Nat /\ Cardinality(Replica) \in Nat
      /\ Cardinality(M1 \cup M2) \in Nat
  BY <1>1, FS_CardinalityType, FS_Union
<1> QED
  BY <1>2, <1>3, <1>4, <1>5 DEF Majority

LEMMA HistoryEntries ==
    ASSUME NEW K, NEW E, History(K, E), NEW k \in K
    PROVE  /\ k \in Seq(Entry) /\ Len(k) \in Nat
           /\ \A p \in 1 .. Len(k) : k[p] \in Entry /\ k[p].term \in Nat
<1>1. k \in Seq(Entry)
  BY DEF History
<1>2. Len(k) \in Nat /\ \A p \in 1 .. Len(k) : k[p] \in Entry
  BY <1>1, LenProperties, ElementOfSeq
<1>3. \A p \in 1 .. Len(k) : k[p].term \in Nat
  BY <1>2, TermIsNat DEF Entry
<1> QED
  BY <1>1, <1>2, <1>3

\* A history goes on with an entry for a log, of a term at least that of all before it,
\* when no other log has entries of that term that this one lacks.
LEMMA HistoryGrows ==
    ASSUME NEW K, NEW E, History(K, E), NEW l \in K, NEW e \in Entry,
           NEW E2 \in SUBSET Term, E \subseteq E2, e.term \in E2,
           \A p \in 1 .. Len(l) : l[p].term <= e.term, Longest(K, l, e.term)
    PROVE  History(K \cup {Append(l, e)}, E2)
<1> DEFINE new == Append(l, e)
           N == Len(l) + 1
<1>1. /\ l \in Seq(Entry) /\ Len(l) \in Nat /\ new \in Seq(Entry) /\ Len(new) = N
      /\ \A p \in 1 .. Len(l) : new[p] = l[p]
      /\ new[N] = e
  BY HistoryEntries, Appended
<1>2. /\ \A p \in 1 .. Len(l) : l[p].term \in Nat
      /\ e.term \in Nat
  BY HistoryEntries, TermIsNat DEF Entry
<1>3. \A p \in 1 .. N : p = N \/ p \in 1 .. Len(l)
  BY <1>1
<1>4. ASSUME NEW n \in 0 .. N PROVE SubSeq(new, 1, n) \in K \cup {new}
  <2>1. n \in Int /\ \A p \in 1 .. n : new[p] \in Entry
    BY <1>1, ElementOfSeq
  <2>2. /\ SubSeq(new, 1, n) \in Seq(Entry)
        /\ Len(SubSeq(new, 1, n)) = n
        /\ \A p \in 1 .. n : SubSeq(new, 1, n)[p] = new[p]
    BY <1>1, <2>1, SubSeqProperties
  <2>3. CASE n = N
    <3>1. SubSeq(new, 1, n) = new
      BY <1>1, <2>2, <2>3, SeqEqual
    <3> QED
      BY <3>1
  <2>4. CASE n \in 0 .. Len(l)
    <3>1. \A p \in 1 .. n : l[p] \in Entry
      BY <1>1, <2>4, ElementOfSeq
    <3>2. /\ SubSeq(l, 1, n) \in Seq(Entry)
          /\ Len(SubSeq(l, 1, n)) = n
          /\ \A p \in 1 .. n : SubSeq(l, 1, n)[p] = l[p]
      BY <1>1, <2>4, <3>1, SubSeqProperties
    <3>3. \A p \in 1 .. n : p \in 1 .. Len(l)
      BY <1>1, <2>4
    <3>4. SubSeq(new, 1, n) = SubSeq(l, 1, n)
      BY <1>1, <2>2, <3>2, <3>3, SeqEqual
    <3>5. SubSeq(l, 1, n) \in K
      BY <2>4 DEF History
    <3> QED
      BY <3>4, <3>5
  <2>5. n = N \/ n \in 0 .. Len(l)
    BY <1>1
  <2> QED
    BY <2>3, <2>4, <2>5
<1>5. \A p \in 1 .. N : new[p].term \in E2
  BY <1>1, <1>3 DEF History
<1>6. \A p, q \in 1 .. N : p <= q => new[p].term <= new[q].term
  <2> SUFFICES ASSUME NEW p \in 1 .. N, NEW q \in 1 .. N, p <= q
               PROVE  new[p].term <= new[q].term
    OBVIOUS
  <2>1. CASE q = N
    <3>1. new[q].term = e.term
      BY <1>1, <2>1
    <3>2. p = N \/ new[p].term = l[p].term
      BY <1>1, <1>3
    <3> QED
      BY <1>1, <1>2, <1>3, <2>1, <3>1, <3>2
  <2>2. CASE q \in 1 .. Len(l)
    <3>1. p \in 1 .. Len(l)
      BY <1>1, <2>2
    <3> QED
      BY <1>1, <2>2, <3>1 DEF History
  <2> QED
    BY <1>3, <2>1, <2>2
<1> HIDE DEF new, N
<1>7. ASSUME NEW k1 \in K \cup {new}, NEW k2 \in K \cup {new},
             NEW p \in 1 .. Len(k1), NEW q \in 1 .. Len(k2),
             p <= q, k1[p].term = k2[q].term
      PROVE  Agree(k1, k2, p)
  <2>0. Len(l) \in Nat /\ Len(new) = Len(l) + 1 /\ N = Len(l) + 1
    BY <1>1 DEF N
  <2>1. CASE k1 = new /\ p = N
    <3>1. k1[p].term = e.term
      BY <1>1, <2>1
    <3>2. CASE k2 = new
      BY <2>1, <3>2 DEF Agree
    <3>3. CASE k2 \in K
      <4>1. q <= Len(l)
        BY <2>1, <3>1, <3>3, <1>7 DEF Longest
      <4> QED
        BY <1>7, <2>0, <2>1, <4>1
    <3> QED
      BY <3>2, <3>3
  <2>2. CASE k1 = new /\ p \in 1 .. Len(l)
    <3>1. l[p].term = k2[q].term /\ \A r \in 1 .. p : k1[r] = l[r]
      BY <1>1, <1>7, <2>2
    <3>2. CASE k2 \in K
      <4>1. Agree(l, k2, p)
        BY <1>7, <2>2, <3>1, <3>2 DEF History
      <4> QED
        BY <3>1, <4>1 DEF Agree
    <3>3. CASE k2 = new
      BY <2>2, <3>3 DEF Agree
    <3> QED
      BY <3>2, <3>3
  <2>3. CASE k1 \in K /\ k2 = new /\ q = N
    <3>1. k1[p].term = e.term
      BY <1>1, <1>7, <2>3
    <3>2. p <= Len(l) /\ Agree(k1, l, p)
      BY <2>3, <3>1 DEF Longest
    <3> QED
      BY <1>1, <2>0, <2>3, <3>2 DEF Agree
  <2>4. CASE k1 \in K /\ k2 = new /\ q \in 1 .. Len(l)
    <3>1. k1[p].term = l[q].term /\ \A r \in 1 .. p : k2[r] = l[r]
      BY <1>1, <1>7, <2>4
    <3>2. Agree(k1, l, p)
      BY <1>7, <2>4, <3>1 DEF History
    <3> QED
      BY <3>1, <3>2 DEF Agree
  <2>5. CASE k1 \in K /\ k2 \in K
    BY <1>7, <2>5 DEF History
  <2>6. /\ k1 = new => p = N \/ p \in 1 .. Len(l)
        /\ k2 = new => q = N \/ q \in 1 .. Len(l)
    BY <2>0
  <2> QED
    BY <2>1, <2>2, <2>3, <2>4, <2>5, <2>6
<1>8. /\ K \cup {new} \in SUBSET Seq(Entry)
      /\ \A k \in K \cup {new} : \A n \in 0 .. Len(k) : SubSeq(k, 1, n) \in K \cup {new}
      /\ \A k \in K \cup {new} : \A p \in 1 .. Len(k) : k[p].term \in E2
      /\ \A k \in K \cup {new} : \A p, q \in 1 .. Len(k) : p <= q => k[p].term <= k[q].term
  BY <1>1, <1>4, <1>5, <1>6 DEF History
<1> QED
  BY <1>7, <1>8 DEF History, new

\* Entries that are not written, or that reach to the end of what they are written to.
KeepsNoTail(l, prev, entries) ==
    \/ Written(l, prev, entries) = {}
    \/ prev + 1 + Len(entries) >= Len(MergedLog(l, prev, entries))

\* A message about a log of the history, which follows on from another one and does not
\* leave entries behind those it writes, merges to one of the two, with the first as prefix.
LEMMA MergeInHistory ==
    ASSUME NEW K, NEW E, History(K, E), NEW l \in K, NEW k \in K,
           NEW entries \in Seq(Entry), NEW prev \in Int, prev >= -1,
           Len(k) = prev + 1 + Len(entries),
           \A p \in 1 .. Len(entries) : entries[p] = k[prev + 1 + p],
           prev # -1 => prev < Len(l) /\ l[prev + 1].term = k[prev + 1].term,
           KeepsNoTail(l, prev, entries)
    PROVE  LET merged == MergedLog(l, prev, entries)
           IN  /\ merged = l \/ merged = k
               /\ Len(merged) >= Len(k) /\ Len(merged) >= Len(l)
               /\ Agree(k, merged, Len(k))
<1> DEFINE merged == MergedLog(l, prev, entries)
           written == Written(l, prev, entries)
<1>1. /\ l \in Seq(Entry) /\ Len(l) \in Nat /\ k \in Seq(Entry) /\ Len(k) \in Nat
      /\ Len(entries) \in Nat
  BY HistoryEntries, LenProperties
<1>2. prev # -1 => prev + 1 \in 1 .. Len(l)
  BY <1>1
<1>3. prev < Len(l)
  BY <1>1, <1>2
<1>4. /\ merged \in Seq(Entry)
      /\ Len(merged) = IF Len(k) > Len(l) THEN Len(k) ELSE Len(l)
      /\ Len(merged) \in Nat
      /\ \A p \in 1 .. Len(merged) :
            /\ merged[p] = IF p \in written THEN entries[p - prev - 1] ELSE l[p]
            /\ p \in prev + 2 .. Len(k) => merged[p].term = entries[p - prev - 1].term
  BY <1>1, <1>3, MergedLogIsLog, MergedLogEntries, LenProperties DEF Covered
<1>5. \A p \in prev + 2 .. Len(k) : entries[p - prev - 1] = k[p]
  <2> SUFFICES ASSUME NEW p \in prev + 2 .. Len(k) PROVE entries[p - prev - 1] = k[p]
    OBVIOUS
  <2>1. p - prev - 1 \in 1 .. Len(entries) /\ prev + 1 + (p - prev - 1) = p
    BY <1>1
  <2> QED
    BY <2>1
<1>6. \A p \in written : p \in prev + 2 .. Len(k)
  BY <1>1 DEF Written, Covered
<1> HIDE DEF written, merged
<1>7. prev # -1 => Agree(l, k, prev + 1)
  <2> SUFFICES ASSUME prev # -1 PROVE Agree(l, k, prev + 1)
    OBVIOUS
  <2>1. prev + 1 \in 1 .. Len(l) /\ prev + 1 \in 1 .. Len(k) /\ prev + 1 <= prev + 1
    BY <1>1, <1>2
  <2> QED
    BY <1>2, <2>1 DEF History
<1>8. ASSUME NEW p \in 1 .. Len(k) PROVE merged[p] = k[p]
  <2>0. p \in 1 .. Len(merged)
    BY <1>1, <1>4
  <2>1. CASE p <= prev + 1
    <3>1. prev # -1 /\ p \in 1 .. prev + 1 /\ p \notin written
      BY <1>1, <1>6, <2>1
    <3> QED
      BY <1>4, <1>7, <2>0, <3>1 DEF Agree
  <2>2. CASE p \in written
    BY <1>4, <1>5, <1>6, <2>0, <2>2
  <2>3. CASE p > prev + 1 /\ p \notin written
    <3>1. p \in prev + 2 .. Len(k)
      BY <1>1, <2>3
    <3>2. merged[p] = l[p] /\ l[p].term = k[p].term
      BY <1>4, <1>5, <2>0, <2>3, <3>1
    <3>3. p \in 1 .. Len(l)
      <4> SUFFICES ASSUME p > Len(l) PROVE FALSE
        BY <1>1
      <4>1. Mismatch(l, prev, entries, p) /\ p \in prev + 2 .. p
        BY <1>1, <3>1 DEF Mismatch
      <4> QED
        BY <1>1, <2>3, <3>1, <4>1 DEF written, Written, Covered
    <3>4. p <= p
      BY <1>1
    <3>5. Agree(l, k, p)
      BY <3>2, <3>3, <3>4 DEF History
    <3>6. p \in 1 .. p
      BY <1>1
    <3>7. l[p] = k[p]
      BY <3>5, <3>6 DEF Agree
    <3> QED
      BY <3>2, <3>7
  <2> QED
    BY <1>1, <2>1, <2>2, <2>3
<1>9. merged = l \/ merged = k
  <2>1. CASE written = {}
    <3>1. Len(k) <= Len(l)
      <4> SUFFICES ASSUME Len(k) > Len(l) PROVE FALSE
        BY <1>1
      <4>1. Len(k) \in prev + 2 .. Len(k) /\ Mismatch(l, prev, entries, Len(k))
        BY <1>1, <1>3 DEF Mismatch
      <4> QED
        BY <1>1, <2>1, <4>1 DEF written, Written, Covered
    <3>2. Len(merged) = Len(l) /\ \A p \in 1 .. Len(l) : merged[p] = l[p]
      BY <1>1, <1>4, <2>1, <3>1
    <3> QED
      BY <1>1, <1>4, <3>2, SeqEqual
  <2>2. CASE Len(k) >= Len(merged)
    <3>1. Len(merged) >= Len(k) /\ Len(merged) \in Nat
      BY <1>1, <1>4
    <3>2. Len(merged) = Len(k)
      BY <1>1, <2>2, <3>1
    <3> QED
      BY <1>1, <1>4, <1>8, <3>2, SeqEqual
  <2> QED
    BY <1>1, <2>1, <2>2 DEF KeepsNoTail, written, merged
<1>10. Len(merged) >= Len(k) /\ Len(merged) >= Len(l)
  BY <1>1, <1>4
<1> QED
  BY <1>8, <1>9, <1>10 DEF Agree, merged

\* A message made from a log of the history is about a prefix of it.
LEMMA MessageCarries ==
    ASSUME Shapes, NEW K, NEW E, History(K, E), Held(K), NEW c \in Call, calls[c] \in CallRecord,
           NEW i \in Replica, calls[c].from = i, NEW first, NEW j, NEW term, NEW leaderCommit,
           NEW prev \in Int, prev >= -1, prev < Len(log[i])
    PROVE  LET n == IF prev > calls[c].upper THEN prev + 1 ELSE calls[c].upper + 1
           IN  /\ n \in 0 .. Len(log[i])
               /\ SubSeq(log[i], 1, n) \in K
               /\ Len(SubSeq(log[i], 1, n)) = n
               /\ Agree(SubSeq(log[i], 1, n), log[i], n)
               /\ Carries(Message(c, first, i, j, term, leaderCommit, prev), SubSeq(log[i], 1, n))
<1> DEFINE upper == calls[c].upper
           n == IF prev > upper THEN prev + 1 ELSE upper + 1
           k == SubSeq(log[i], 1, n)
           entries == SubSeq(log[i], prev + 2, upper + 1)
           m == Message(c, first, i, j, term, leaderCommit, prev)
<1>1. /\ log[i] \in Seq(Entry) /\ log[i] \in K /\ Len(log[i]) \in Nat /\ upper \in Int
      /\ upper >= -1 /\ upper < Len(log[i])
  <2>1. CallInLog(c) /\ calls[c].upper \in Int
    BY CallIsNotIdle DEF Shapes, FlightShapes, CallShape, CallRecord
  <2>2. log[i] \in Seq(Entry) /\ log[i] \in K /\ Len(log[i]) \in Nat
    BY LenProperties DEF Shapes, NodeTypes, Held
  <2> QED
    BY <2>1, <2>2 DEF CallInLog
<1>2. n \in 0 .. Len(log[i])
  BY <1>1
<1>3. \A p \in 1 .. Len(log[i]) : log[i][p] \in Entry
  BY <1>1, ElementOfSeq
<1>4. k \in K
  BY <1>1, <1>2 DEF History
<1>5. Len(k) = n /\ \A p \in 1 .. n : k[p] = log[i][p]
  <2>1. n \in Int /\ \A p \in 1 .. n : log[i][p] \in Entry
    BY <1>1, <1>2, <1>3
  <2> HIDE DEF n
  <2>2. /\ Len(SubSeq(log[i], 1, n)) = IF 1 <= n THEN n - 1 + 1 ELSE 0
        /\ \A p \in 1 .. n - 1 + 1 : SubSeq(log[i], 1, n)[p] = log[i][1 + p - 1]
    BY <2>1, SubSeqProperties
  <2> QED
    BY <1>1, <1>2, <2>1, <2>2
<1>6. /\ Len(entries) = IF prev <= upper - 1 THEN upper - prev ELSE 0
      /\ \A p \in 1 .. Len(entries) : entries[p] = log[i][prev + 1 + p]
  <2>1. \A p \in prev + 2 .. upper + 1 : log[i][p] \in Entry
    BY <1>1, <1>3
  <2>2. /\ Len(entries) = IF prev + 2 <= upper + 1 THEN (upper + 1) - (prev + 2) + 1 ELSE 0
        /\ \A p \in 1 .. (upper + 1) - (prev + 2) + 1 : entries[p] = log[i][prev + 2 + p - 1]
    BY <1>1, <2>1, SubSeqProperties
  <2> HIDE DEF entries, upper, n, k, m
  <2>3. Len(entries) = IF prev <= upper - 1 THEN upper - prev ELSE 0
    BY <1>1, <2>2
  <2>4. ASSUME NEW p \in 1 .. Len(entries) PROVE entries[p] = log[i][prev + 1 + p]
    <3>1. p \in 1 .. (upper + 1) - (prev + 2) + 1 /\ prev + 2 + p - 1 = prev + 1 + p
      BY <1>1, <2>3
    <3> QED
      BY <2>2, <3>1
  <2> QED
    BY <2>3, <2>4
<1>7. /\ m.prevLogIndex = prev /\ m.entries = entries
      /\ m.prevLogTerm = IF prev = -1 THEN -1 ELSE log[i][prev + 1].term
  BY DEF Message, FirstSent
<1> HIDE DEF k, entries, m, upper
<1>8. Carries(m, k)
  <2>1. Len(k) = prev + 1 + Len(entries)
    BY <1>1, <1>5, <1>6
  <2>2. \A p \in 1 .. Len(entries) : entries[p] = k[prev + 1 + p]
    <3> SUFFICES ASSUME NEW p \in 1 .. Len(entries) PROVE entries[p] = k[prev + 1 + p]
      OBVIOUS
    <3>1. prev + 1 + p \in 1 .. n
      BY <1>1, <1>6
    <3> QED
      BY <1>5, <1>6, <3>1
  <2>3. prev # -1 => prev + 1 \in 1 .. n
    BY <1>1
  <2> QED
    BY <1>5, <1>7, <2>1, <2>2, <2>3 DEF Carries
<1> QED
  BY <1>2, <1>4, <1>5, <1>8 DEF Agree, k, m, upper

-----------------------------------------------------------------------------
\* A step that makes no leader and no log that was not there.
Calm(K) ==
    /\ \A j \in Replica : currentTerm'[j] >= currentTerm[j]
    /\ \A j \in Replica : leading'[j] =>
          leading[j] /\ currentTerm'[j] = currentTerm[j] /\ log'[j] = log[j]
    /\ \A j \in Replica : log'[j] \in K /\ disk'[j].log \in K
    /\ \A m \in sent' : \E k \in K : Carries(m, k)

\* The logs and the terms with a leader after a step.
Logs(K, K2) == K2 = K \cup {log'[i] : i \in Replica}

Terms(E, E2) == E2 = E \cup {currentTerm'[i] : i \in {j \in Replica : leading'[j]}}

\* A vote that is not for the replica itself stays as long as the term.
VotesStay ==
    \A j \in Replica :
        /\ currentTerm'[j] >= currentTerm[j]
        /\ currentTerm'[j] = currentTerm[j] /\ ~ candidate[j] /\ votedFor[j] # None =>
              votedFor'[j] = votedFor[j] /\ ~ candidate'[j]

LEMMA KnownStays ==
    ASSUME Shapes, Shapes', NEW E \in SUBSET Term, Known(E), VotesStay
    PROVE  Known(E)'
<1> SUFFICES ASSUME NEW T \in E
             PROVE  \E M \in SUBSET Replica, l \in Replica :
                        Majority(M) /\ \A j \in M : HasVoted(j, l, T)'
  BY DEF Known, Majority
<1>1. PICK M \in SUBSET Replica, l \in Replica : Majority(M) /\ \A j \in M : HasVoted(j, l, T)
  BY DEF Known
<1>2. T \in Nat /\ l # None
  BY TermIsNat, ReplicationAssumption
<1>3. \A j \in Replica : currentTerm[j] \in Nat /\ currentTerm'[j] \in Nat
  BY TermIsNat DEF Shapes, NodeTypes
<1>4. ASSUME NEW j \in M PROVE HasVoted(j, l, T)'
  <2>1. j \in Replica /\ HasVoted(j, l, T) /\ currentTerm'[j] >= currentTerm[j]
    BY <1>1 DEF VotesStay
  <2>2. CASE currentTerm'[j] > T
    BY <2>2 DEF HasVoted
  <2>3. CASE currentTerm'[j] <= T
    <3>1. currentTerm'[j] = currentTerm[j] /\ currentTerm[j] = T
      BY <1>2, <1>3, <2>1, <2>3 DEF HasVoted
    <3>2. votedFor[j] = l /\ ~ candidate[j]
      BY <1>2, <2>1, <3>1 DEF HasVoted
    <3> QED
      BY <1>2, <2>1, <3>1, <3>2 DEF HasVoted, VotesStay
  <2> QED
    BY <1>2, <1>3, <2>1, <2>2, <2>3
<1> QED
  BY <1>1, <1>4

LEMMA CalmKeeps ==
    ASSUME Shapes, Shapes', NEW K, NEW E, NEW K2, NEW E2, Logs(K, K2), Terms(E, E2),
           Past(K, E), Calm(K), VotesStay
    PROVE  K2 = K /\ E2 = E /\ Past(K2, E2)'
<1>1. K2 = K
  BY DEF Logs, Calm
<1>2. E2 = E
  BY DEF Terms, Calm, Past, LeaderLog
<1>3. \A j \in Replica : currentTerm[j] \in Nat /\ currentTerm'[j] \in Nat
  BY TermIsNat DEF Shapes, NodeTypes
<1>4. History(K, E)' /\ Held(K)' /\ Carried(K)'
  BY DEF Calm, Past, History, Held, Carried
<1>5. Known(E)'
  BY KnownStays DEF Past, History
<1>6. LeaderLog(K, E)'
  BY DEF Calm, Past, LeaderLog
<1>7. OneLeader'
  BY DEF Calm, Past, OneLeader
<1> QED
  BY <1>1, <1>2, <1>4, <1>5, <1>6, <1>7 DEF Past

\* An election with a leader or without.
ElectionOf(i, asked, c) == \E wins \in BOOLEAN : Election(i, asked, wins, c)

\* What an election of a term makes of the replicas that it reaches, and of those that save.
Elects(i, c, t, reached, saved) ==
    LET entry == [term |-> t, by |-> i, operation |-> NoOp]
    IN  /\ i \in reached /\ reached \subseteq saved
        /\ \A j \in reached : currentTerm[j] < t
        /\ \A j \in Replica : currentTerm'[j] = IF j \in reached THEN t ELSE currentTerm[j]
        /\ \A j \in Replica : disk'[j] =
              IF j \in saved THEN [log |-> log'[j], commitIndex |-> commitIndex[j]] ELSE disk[j]
        /\ \/ /\ \A j \in Replica : leading'[j] = (j \notin reached /\ leading[j])
              /\ UNCHANGED <<nextIndex, log, calls, starts>>
           \/ /\ \A j \in Replica : leading'[j] = IF j \in reached THEN j = i ELSE leading[j]
              /\ nextIndex' = [nextIndex EXCEPT ![i] = [j \in Replica |-> Len(log[i])]]
              /\ log' = [log EXCEPT ![i] = Append(log[i], entry)]
              /\ LeaderSendAEs(i, c, entry, commitIndex[i])
              /\ \E M \in SUBSET saved :
                    /\ Majority(M)
                    /\ \A j \in M : /\ MayVote(j, t) /\ Grants(j, i)
                                    /\ currentTerm'[j] = t /\ votedFor'[j] = i /\ ~ candidate'[j]

LEMMA ElectionNode ==
    ASSUME Shapes, VoteShape, NEW i \in Replica, NEW c \in Call, NEW asked \in SUBSET Peers(i),
           ElectionOf(i, asked, c), Sound'
    PROVE  /\ ~ leading[i] /\ currentTerm[i] + 1 \in Term
           /\ UNCHANGED <<commitIndex, sent, answers, acked>>
           /\ \E reached, saved \in SUBSET Replica :
                Elects(i, c, currentTerm[i] + 1, reached, saved)
<1> DEFINE t == currentTerm[i] + 1
           reached == {i} \cup {j \in asked : currentTerm[j] < t}
           voters == {j \in {i} \cup asked : MayVote(j, t) /\ Grants(j, i)}
           entry == [term |-> t, by |-> i, operation |-> NoOp]
<1>0. PICK wins \in BOOLEAN : Election(i, asked, wins, c)
  BY DEF ElectionOf
<1>1. /\ ~ leading[i] /\ t <= MaxTerm
      /\ wins => Majority(voters)
      /\ currentTerm' = [j \in Replica |-> IF j \in reached THEN t ELSE currentTerm[j]]
      /\ votedFor' = [j \in Replica |-> IF j \in voters THEN i
                                       ELSE IF j \in reached THEN None ELSE votedFor[j]]
      /\ leading' = [j \in Replica |-> IF j \in reached THEN wins /\ j = i ELSE leading[j]]
      /\ candidate' = [j \in Replica |-> IF j \in reached THEN ~ wins /\ j = i ELSE candidate[j]]
      /\ commitIndex' = commitIndex
      /\ PersistToStorage(reached \cup voters)
      /\ UNCHANGED <<sent, answers, acked>>
      /\ \/ wins /\ nextIndex' = [nextIndex EXCEPT ![i] = [j \in Replica |-> Len(log[i])]]
                 /\ log' = [log EXCEPT ![i] = Append(log[i], entry)]
                 /\ LeaderSendAEs(i, c, entry, commitIndex[i])
         \/ ~ wins /\ UNCHANGED <<nextIndex, log, calls, starts>>
  BY <1>0 DEF Election, Sound, Broken, Majority
<1>2. currentTerm[i] \in Nat
  BY TermIsNat DEF Shapes, NodeTypes
<1>3. t \in Term /\ t \in Nat
  BY <1>1, <1>2, TermIsNat
<1>4. reached \in SUBSET Replica /\ i \in reached /\ \A j \in reached : currentTerm[j] < t
  BY <1>2 DEF Peers
<1>5. /\ log' \in [Replica -> Seq(Entry)] /\ commitIndex' \in [Replica -> CommitIndex]
      /\ disk \in [Replica -> [log : Seq(Entry), commitIndex : CommitIndex]]
      /\ leading \in [Replica -> BOOLEAN]
  <2>1. Shapes'
    BY <1>0, ElectionShapes
  <2> QED
    BY <1>1, <2>1 DEF Shapes, NodeTypes
<1>6. /\ voters \in SUBSET Replica /\ \A j \in voters : MayVote(j, t) /\ Grants(j, i)
      /\ \A j \in voters : j \notin reached => currentTerm[j] = t /\ votedFor[j] = None
  <2>1. \A j \in voters : MayVote(j, t) /\ Grants(j, i) /\ j \in {i} \cup asked
    OBVIOUS
  <2> QED
    BY <2>1 DEF Peers, MayVote
<1> DEFINE saved == reached \cup voters
<1> HIDE DEF reached, voters, entry
<1>7. saved \in SUBSET Replica /\ reached \subseteq saved /\ voters \in SUBSET saved
  BY <1>4, <1>6
<1>71. PersistToStorage(saved)
  BY <1>1
<1> HIDE DEF saved
<1>8. \A j \in Replica : disk'[j] =
         IF j \in saved THEN [log |-> log'[j], commitIndex |-> commitIndex[j]] ELSE disk[j]
  BY <1>1, <1>5, <1>7, <1>71, PersistTypes
<1>9. \A j \in Replica : currentTerm'[j] = IF j \in reached THEN t ELSE currentTerm[j]
  BY <1>1
<1>10. ASSUME wins PROVE Elects(i, c, t, reached, saved)
  <2>1. \A j \in Replica : leading'[j] = IF j \in reached THEN j = i ELSE leading[j]
    BY <1>1, <1>10
  <2>2. ASSUME NEW j \in voters
        PROVE  currentTerm'[j] = t /\ votedFor'[j] = i /\ ~ candidate'[j]
    <3>1. j \in Replica /\ currentTerm'[j] = t /\ votedFor'[j] = i
      BY <1>1, <1>6
    <3> QED
      BY <1>1, <1>6, <1>10, <3>1 DEF VoteShape
  <2> QED
    BY <1>1, <1>4, <1>6, <1>7, <1>8, <1>9, <1>10, <2>1, <2>2 DEF Elects, entry
<1>11. ASSUME ~ wins PROVE Elects(i, c, t, reached, saved)
  <2>1. \A j \in Replica : leading'[j] = (j \notin reached /\ leading[j])
    BY <1>1, <1>5, <1>11
  <2> QED
    BY <1>1, <1>4, <1>7, <1>8, <1>9, <1>11, <2>1 DEF Elects
<1>12. Elects(i, c, t, reached, saved)
  BY <1>10, <1>11
<1> QED
  BY <1>1, <1>3, <1>4, <1>7, <1>12

\* A majority that grants its votes has not been in the term, so no log has it.
LEMMA TermIsNew ==
    ASSUME Shapes, NEW K, NEW E, Past(K, E), NEW t \in Term, NEW M \in SUBSET Replica,
           Majority(M), \A j \in M : MayVote(j, t)
    PROVE  /\ \A T \in E : T < t
           /\ \A k \in K : \A p \in 1 .. Len(k) : k[p].term < t
<1>1. ASSUME NEW T \in E PROVE T < t
  <2>1. PICK M2 \in SUBSET Replica, l \in Replica :
            Majority(M2) /\ \A j \in M2 : HasVoted(j, l, T)
    BY DEF Past, Known
  <2>2. PICK j \in Replica : j \in M /\ j \in M2
    BY <2>1, MajoritiesMeet
  <2>3. currentTerm[j] \in Nat /\ T \in Nat /\ t \in Nat
    BY TermIsNat DEF Past, History, Shapes, NodeTypes
  <2> QED
    BY <2>1, <2>2, <2>3, ReplicationAssumption DEF HasVoted, MayVote
<1> QED
  BY <1>1 DEF Past, History

\* Elections keep what there is of the past.
LEMMA ElectionPast ==
    ASSUME Shapes, Shapes', VoteShape, NEW K, NEW E, NEW K2, NEW E2, Logs(K, K2), Terms(E, E2),
           Past(K, E), NEW i \in Replica, NEW c \in Call, NEW asked \in SUBSET Peers(i),
           ElectionOf(i, asked, c), Sound', VotesStay
    PROVE  Past(K2, E2)'
<1> DEFINE t == currentTerm[i] + 1
           entry == [term |-> t, by |-> i, operation |-> NoOp]
<1>01. PICK reached \in SUBSET Replica, saved \in SUBSET Replica : Elects(i, c, t, reached, saved)
  BY ElectionNode
<1>1. /\ i \in reached
      /\ \A j \in reached : currentTerm[j] < t
      /\ \A j \in Replica : currentTerm'[j] = IF j \in reached THEN t ELSE currentTerm[j]
      /\ \A j \in Replica : disk'[j] =
            IF j \in saved THEN [log |-> log'[j], commitIndex |-> commitIndex[j]] ELSE disk[j]
      /\ \/ /\ \A j \in Replica : leading'[j] = (j \notin reached /\ leading[j])
            /\ UNCHANGED <<nextIndex, log, calls, starts>>
         \/ /\ \A j \in Replica : leading'[j] = IF j \in reached THEN j = i ELSE leading[j]
            /\ log' = [log EXCEPT ![i] = Append(log[i], entry)]
            /\ \E M \in SUBSET Replica :
                  /\ Majority(M)
                  /\ \A j \in M : MayVote(j, t)
                  /\ \A j \in M : currentTerm'[j] = t /\ votedFor'[j] = i /\ ~ candidate'[j]
  BY <1>01 DEF Elects
<1>2. ~ leading[i] /\ t \in Term /\ sent' = sent
  BY ElectionNode
<1>3. entry \in Entry /\ entry.term = t
  BY <1>2 DEF Entry
<1> HIDE DEF t, entry
<1>4. /\ \A j \in Replica : currentTerm[j] \in Nat /\ currentTerm'[j] \in Nat
      /\ t \in Nat
  BY <1>2, TermIsNat DEF Shapes, NodeTypes
<1>5. \A j \in Replica : currentTerm'[j] >= currentTerm[j]
  BY <1>1, <1>4
<1>0. \A j \in Replica : disk'[j].log = log'[j] \/ disk'[j].log = disk[j].log
  <2> SUFFICES ASSUME NEW j \in Replica
               PROVE  disk'[j].log = log'[j] \/ disk'[j].log = disk[j].log
    OBVIOUS
  <2>1. disk'[j] = [log |-> log'[j], commitIndex |-> commitIndex[j]] \/ disk'[j] = disk[j]
    BY <1>1
  <2> QED
    BY <2>1
<1>6. CASE /\ \A j \in Replica : leading'[j] = (j \notin reached /\ leading[j])
           /\ log' = log
  <2>1. \A j \in Replica : leading'[j] => leading[j] /\ currentTerm'[j] = currentTerm[j]
    BY <1>1, <1>6
  <2>2. \A j \in Replica : log'[j] \in K /\ disk'[j].log \in K
    <3>1. \A j \in Replica : log[j] \in K /\ disk[j].log \in K
      BY DEF Past, Held
    <3> QED
      BY <1>0, <1>6, <3>1
  <2>3. Calm(K)
    BY <1>2, <1>5, <1>6, <2>1, <2>2 DEF Calm, Past, Carried
  <2> QED
    BY <2>3, CalmKeeps
<1>7. ASSUME \A j \in Replica : leading'[j] = IF j \in reached THEN j = i ELSE leading[j],
             log' = [log EXCEPT ![i] = Append(log[i], entry)],
             NEW M \in SUBSET Replica, Majority(M), \A j \in M : MayVote(j, t),
             \A j \in M : currentTerm'[j] = t /\ votedFor'[j] = i /\ ~ candidate'[j]
      PROVE  Past(K2, E2)'
  <2>1. /\ log[i] \in K /\ History(K, E)
        /\ log[i] \in Seq(Entry) /\ Len(log[i]) \in Nat
        /\ \A p \in 1 .. Len(log[i]) : log[i][p].term \in Nat
    BY HistoryEntries DEF Past, Held
  <2>2. /\ log'[i] = Append(log[i], entry)
        /\ \A j \in Replica : j # i => log'[j] = log[j]
        /\ Len(log'[i]) = Len(log[i]) + 1
        /\ log'[i][Len(log[i]) + 1] = entry
    BY <1>3, <1>7, <2>1, Appended DEF Shapes, NodeTypes
  <2>3. K2 = K \cup {Append(log[i], entry)}
    BY <2>2 DEF Logs, Past, Held
  <2>4. E2 = E \cup {t}
    <3>1. \A j \in Replica : leading'[j] => currentTerm'[j] = t \/ currentTerm'[j] \in E
      BY <1>1, <1>7 DEF Past, LeaderLog
    <3>2. leading'[i] /\ currentTerm'[i] = t
      BY <1>1, <1>7
    <3> QED
      BY <3>1, <3>2 DEF Terms
  <2>5. /\ \A T \in E : T < t
        /\ \A k \in K : \A p \in 1 .. Len(k) : k[p].term < t
    BY <1>1, <1>2, <1>7, TermIsNew
  <2>6. \A k \in K : \A q \in 1 .. Len(k) : k[q].term # t /\ k[q].term \in Nat
    BY <1>4, <2>1, <2>5, HistoryEntries
  <2>7. History(K2, E2)
    <3>1. E2 \in SUBSET Term /\ E \subseteq E2 /\ entry.term \in E2
      BY <1>2, <1>3, <2>1, <2>4 DEF History
    <3>2. \A p \in 1 .. Len(log[i]) : log[i][p].term <= entry.term
      BY <1>3, <1>4, <2>1, <2>5
    <3>3. Longest(K, log[i], entry.term)
      BY <1>3, <2>6 DEF Longest
    <3>4. History(K \cup {Append(log[i], entry)}, E2)
      BY <1>3, <2>1, <3>1, <3>2, <3>3, HistoryGrows
    <3> QED
      BY <2>3, <3>4
  <2>8. \A j \in Replica : log'[j] \in K2 /\ disk'[j].log \in K2
    <3>1. \A j \in Replica : log[j] \in K /\ disk[j].log \in K
      BY DEF Past, Held
    <3>2. \A j \in Replica : log'[j] \in K2
      BY <2>2, <2>3, <3>1
    <3> QED
      BY <1>0, <2>3, <3>1, <3>2
  <2>9. \A T \in E2 : \E Q \in SUBSET Replica, l \in Replica :
            Majority(Q) /\ \A j \in Q : HasVoted(j, l, T)'
    <3>1. ASSUME NEW T \in E
          PROVE  \E Q \in SUBSET Replica, l \in Replica :
                    Majority(Q) /\ \A j \in Q : HasVoted(j, l, T)'
      <4>1. Known(E)' /\ E' = E
        BY <2>1, KnownStays DEF Past, History
      <4> QED
        BY <4>1 DEF Known, Majority
    <3>2. ASSUME NEW T, T = t, NEW j \in M PROVE HasVoted(j, i, T)'
      BY <1>7, <3>2 DEF HasVoted
    <3> QED
      BY <1>7, <2>4, <3>1, <3>2
  <2>10. ASSUME NEW j \in Replica, leading'[j]
         PROVE  /\ currentTerm'[j] \in E2
                /\ Len(log'[j]) >= 1 /\ log'[j][Len(log'[j])].term = currentTerm'[j]
                /\ Longest(K2, log'[j], currentTerm'[j])
    <3>1. CASE j = i
      <4>1. currentTerm'[j] = t
        BY <1>1, <3>1
      <4>2. \A k \in K2 : \A q \in 1 .. Len(k) : k[q].term = t => k = log'[i]
        BY <2>2, <2>3, <2>6
      <4>3. Len(log'[i]) >= 1 /\ Len(log'[i]) \in Nat
        BY <2>1, <2>2
      <4>4. Longest(K2, log'[i], t)
        BY <4>2, <4>3 DEF Agree, Longest
      <4>5. log'[i][Len(log'[i])].term = t
        BY <1>3, <2>2
      <4> QED
        BY <2>4, <3>1, <4>1, <4>3, <4>4, <4>5
    <3>2. CASE j # i
      <4>1. leading[j] /\ currentTerm'[j] = currentTerm[j] /\ log'[j] = log[j]
        BY <1>1, <1>7, <2>2, <2>10, <3>2
      <4>2. /\ currentTerm[j] \in E
            /\ Len(log[j]) >= 1 /\ log[j][Len(log[j])].term = currentTerm[j]
            /\ \A k \in K : \A q \in 1 .. Len(k) : k[q].term = currentTerm[j] =>
                  q <= Len(log[j]) /\ Agree(k, log[j], q)
        BY <4>1 DEF Past, LeaderLog, Longest
      <4>3. currentTerm[j] # t
        BY <1>4, <2>5, <4>2
      <4>4. ASSUME NEW q \in 1 .. Len(log'[i]), log'[i][q].term = currentTerm[j]
            PROVE  q <= Len(log[j]) /\ Agree(log'[i], log[j], q)
        <5>1. q \in 1 .. Len(log[i]) /\ log'[i][q] = log[i][q]
          <6>1. q # Len(log[i]) + 1
            BY <1>3, <2>2, <4>3, <4>4
          <6>2. q \in 1 .. Len(log[i])
            BY <2>1, <2>2, <6>1
          <6> QED
            BY <1>3, <2>1, <2>2, <6>2, Appended
        <5>2. q <= Len(log[j]) /\ Agree(log[i], log[j], q)
          BY <2>1, <4>2, <4>4, <5>1
        <5>3. \A r \in 1 .. q : r \in 1 .. Len(log[i]) /\ log'[i][r] = log[i][r]
          BY <1>3, <2>1, <2>2, <5>1, Appended
        <5> QED
          BY <5>2, <5>3 DEF Agree
      <4> QED
        BY <2>2, <2>3, <2>4, <4>1, <4>2, <4>4 DEF Longest
    <3> QED
      BY <3>1, <3>2
  <2>11. \A j, k \in Replica : leading'[j] /\ leading'[k] /\ currentTerm'[j] = currentTerm'[k] => j = k
    <3>1. \A j \in Replica : leading'[j] /\ j # i =>
              leading[j] /\ currentTerm'[j] = currentTerm[j] /\ currentTerm[j] < t
      BY <1>1, <1>7, <2>5 DEF Past, LeaderLog
    <3>2. currentTerm'[i] = t
      BY <1>1
    <3> QED
      BY <1>4, <3>1, <3>2 DEF Past, OneLeader
  <2>12. \A m \in sent' : \E k \in K2 : Carries(m, k)
    BY <1>2, <2>3 DEF Past, Carried
  <2> QED
    BY <2>7, <2>8, <2>9, <2>10, <2>11, <2>12
    DEF Past, Held, Known, LeaderLog, OneLeader, Carried, History, Majority
<1> QED
  BY <1>1, <1>6, <1>7

\* So do the writes of a leader.
LEMMA WritePast ==
    ASSUME Shapes, Shapes', NEW K, NEW E, NEW K2, NEW E2, Logs(K, K2), Terms(E, E2), Past(K, E),
           NEW i \in Replica, NEW c \in Call, WriteCommand(i, c), leading[i]
    PROVE  Past(K2, E2)'
<1> DEFINE t == currentTerm[i]
           entry == [term |-> t, by |-> i, operation |-> Write]
<1>1. /\ log' = [log EXCEPT ![i] = Append(log[i], entry)]
      /\ UNCHANGED <<currentTerm, votedFor, candidate, leading, disk, sent>>
  BY DEF WriteCommand, electionVars
<1>2. entry \in Entry /\ entry.term = t /\ t \in Term /\ t \in Nat
  BY TermIsNat DEF Shapes, NodeTypes, Entry
<1> HIDE DEF t, entry
<1>3. /\ log[i] \in K /\ History(K, E) /\ t \in E
      /\ log[i] \in Seq(Entry) /\ Len(log[i]) \in Nat
      /\ \A p \in 1 .. Len(log[i]) : log[i][p].term \in Nat
      /\ Len(log[i]) >= 1 /\ log[i][Len(log[i])].term = t
      /\ Longest(K, log[i], t)
  BY HistoryEntries DEF Past, Held, LeaderLog, t
<1>4. /\ log'[i] = Append(log[i], entry)
      /\ \A j \in Replica : j # i => log'[j] = log[j]
      /\ Len(log'[i]) = Len(log[i]) + 1
      /\ log'[i][Len(log[i]) + 1] = entry
      /\ \A p \in 1 .. Len(log[i]) : log'[i][p] = log[i][p]
  BY <1>1, <1>2, <1>3, Appended DEF Shapes, NodeTypes
<1>5. K2 = K \cup {Append(log[i], entry)}
  BY <1>4 DEF Logs, Past, Held
<1>6. E2 = E
  BY <1>1 DEF Terms, Past, LeaderLog
<1>7. History(K2, E)
  <2>1. \A p \in 1 .. Len(log[i]) : p <= Len(log[i]) /\ Len(log[i]) \in 1 .. Len(log[i])
    BY <1>3
  <2>2. \A p \in 1 .. Len(log[i]) : log[i][p].term <= log[i][Len(log[i])].term
    BY <1>3, <2>1 DEF History
  <2>3. \A p \in 1 .. Len(log[i]) : log[i][p].term <= entry.term
    BY <1>2, <1>3, <2>2
  <2>4. E \in SUBSET Term /\ E \subseteq E /\ entry.term \in E /\ Longest(K, log[i], entry.term)
    BY <1>2, <1>3 DEF History
  <2>5. History(K \cup {Append(log[i], entry)}, E)
    BY <1>2, <1>3, <2>3, <2>4, HistoryGrows
  <2> QED
    BY <1>5, <2>5
<1>8. ASSUME NEW j \in Replica, leading[j]
      PROVE  /\ currentTerm[j] \in E
             /\ Len(log'[j]) >= 1 /\ log'[j][Len(log'[j])].term = currentTerm[j]
             /\ Longest(K2, log'[j], currentTerm[j])
  <2>1. /\ currentTerm[j] \in E
        /\ Len(log[j]) >= 1 /\ log[j][Len(log[j])].term = currentTerm[j]
        /\ Longest(K, log[j], currentTerm[j])
    BY <1>8 DEF Past, LeaderLog
  <2>2. CASE j = i
    <3>1. currentTerm[j] = t /\ Len(log'[i]) >= 1 /\ log'[i][Len(log'[i])].term = t
      BY <1>2, <1>3, <1>4, <2>2 DEF t
    <3>2. ASSUME NEW k \in K2, NEW q \in 1 .. Len(k), k[q].term = t
          PROVE  q <= Len(log'[i]) /\ Agree(k, log'[i], q)
      <4>1. CASE k \in K
        <5>1. q <= Len(log[i]) /\ Agree(k, log[i], q) /\ q \in Nat
          BY <1>3, <3>2, <4>1 DEF Longest
        <5>2. \A r \in 1 .. q : r \in 1 .. Len(log[i])
          BY <1>3, <5>1
        <5>3. Agree(k, log'[i], q)
          BY <1>4, <5>1, <5>2 DEF Agree
        <5>4. q <= Len(log'[i])
          BY <1>3, <1>4, <5>1
        <5> QED
          BY <5>3, <5>4
      <4>2. CASE k = log'[i]
        BY <4>2 DEF Agree
      <4> QED
        BY <1>4, <1>5, <4>1, <4>2
    <3> QED
      BY <2>1, <2>2, <3>1, <3>2 DEF Longest
  <2>3. CASE j # i
    <3>1. currentTerm[j] # t
      BY <1>8, <2>3 DEF Past, OneLeader, t
    <3>2. ASSUME NEW q \in 1 .. Len(log'[i]), log'[i][q].term = currentTerm[j]
          PROVE  q <= Len(log[j]) /\ Agree(log'[i], log[j], q)
      <4>1. q # Len(log[i]) + 1
        BY <1>2, <1>4, <3>1, <3>2
      <4>2. q \in 1 .. Len(log[i])
        BY <1>3, <1>4, <4>1
      <4>3. log[i][q].term = currentTerm[j]
        BY <1>4, <3>2, <4>2
      <4>4. q <= Len(log[j]) /\ Agree(log[i], log[j], q)
        BY <1>3, <2>1, <4>2, <4>3 DEF Longest
      <4>5. \A r \in 1 .. q : r \in 1 .. Len(log[i])
        BY <1>3, <4>2
      <4> QED
        BY <1>4, <4>4, <4>5 DEF Agree
    <3>3. \A k \in K2 : k \in K \/ k = log'[i]
      BY <1>4, <1>5
    <3> QED
      BY <1>4, <2>1, <2>3, <3>2, <3>3 DEF Longest
  <2> QED
    BY <2>2, <2>3
<1>9. \A j \in Replica : log'[j] \in K2 /\ disk'[j].log \in K2
  <2>1. \A j \in Replica : log[j] \in K /\ disk[j].log \in K
    BY DEF Past, Held
  <2> QED
    BY <1>1, <1>4, <1>5, <2>1
<1>10. \A m \in sent' : \E k \in K2 : Carries(m, k)
  BY <1>1, <1>5 DEF Past, Carried
<1>11. Known(E)' /\ OneLeader'
  BY <1>1 DEF Past, Known, HasVoted, OneLeader, Majority
<1> QED
  BY <1>1, <1>6, <1>7, <1>8, <1>9, <1>10, <1>11 DEF Past, Held, LeaderLog, Carried, History

\* A step that leaves the logs alone but for saving some is calm.
LEMMA QuietIsCalm ==
    ASSUME Shapes, NEW K, NEW E, Past(K, E), log' = log, sent' \subseteq sent,
           \A j \in Replica : disk'[j].log = disk[j].log \/ disk'[j].log = log[j],
           \A j \in Replica : \/ currentTerm'[j] = currentTerm[j] /\ leading'[j] = leading[j]
                              \/ currentTerm'[j] >= currentTerm[j] /\ ~ leading'[j]
    PROVE  Calm(K)
<1>1. \A j \in Replica : currentTerm[j] \in Nat
  BY TermIsNat DEF Shapes, NodeTypes
<1>2. \A j \in Replica : currentTerm'[j] >= currentTerm[j]
  BY <1>1
<1>3. \A j \in Replica : log[j] \in K /\ disk[j].log \in K
  BY DEF Past, Held
<1> QED
  BY <1>2, <1>3 DEF Calm, Past, Carried

\* AppendEntries makes no log that was not there, unless it keeps a tail.
LEMMA AppendEntriesMerges ==
    ASSUME Shapes, NEW K, NEW E, Past(K, E), NEW m \in sent, AppendEntries(m), Sound',
           Matches(m), NEW k \in K, Carries(m, k)
    PROVE  LET merged == MergedLog(log[m.to], m.prevLogIndex, m.entries)
           IN  /\ merged = log[m.to] \/ merged = k
               /\ Len(merged) >= Len(k) /\ Len(merged) >= Len(log[m.to])
               /\ Agree(k, merged, Len(k))
<1> DEFINE prev == m.prevLogIndex
           entries == m.entries
           merged == MergedLog(log[m.to], prev, entries)
           l == log[m.to]
<1>1. /\ m.to \in Replica /\ entries \in Seq(Entry) /\ prev \in Int /\ prev >= -1
      /\ l \in K /\ History(K, E)
      /\ Len(entries) \in Nat /\ Len(merged) \in Nat
  BY MergedShape DEF Shapes, FlightShapes, SentShape, MessageRecord, Past, Held
<1>2. ~ KeepsTail(m, merged)
  BY DEF AppendEntries, Sound, Broken
<1>3. KeepsNoTail(l, prev, entries)
  BY <1>1, <1>2 DEF KeepsTail, KeepsNoTail
<1>4. prev # -1 => prev < Len(l) /\ l[prev + 1].term = k[prev + 1].term
  BY DEF Matches, HasPrevEntry, Carries
<1>5. /\ Len(k) = prev + 1 + Len(entries)
      /\ \A p \in 1 .. Len(entries) : entries[p] = k[prev + 1 + p]
  BY DEF Carries
<1> HIDE DEF prev, entries, l
<1>6. LET x == MergedLog(l, prev, entries)
      IN  /\ x = l \/ x = k
          /\ Len(x) >= Len(k) /\ Len(x) >= Len(l)
          /\ Agree(k, x, Len(k))
  BY <1>1, <1>3, <1>4, <1>5, MergeInHistory
<1> QED
  BY <1>6 DEF prev, entries, l

LEMMA AppendEntriesCalm ==
    ASSUME Shapes, NEW K, NEW E, Past(K, E), NEW m \in sent, AppendEntries(m), Sound'
    PROVE  Calm(K)
<1> DEFINE merged == MergedLog(log[m.to], m.prevLogIndex, m.entries)
<1>1. /\ m.to \in Replica /\ m.term \in Term /\ m.term >= currentTerm[m.to]
      /\ currentTerm' = [currentTerm EXCEPT ![m.to] = m.term]
      /\ leading' = [leading EXCEPT ![m.to] = FALSE]
      /\ log' = [log EXCEPT ![m.to] = IF Matches(m) THEN merged ELSE log[m.to]]
      /\ \A j \in Replica : disk'[j] =
            IF j = m.to /\ (m.term > currentTerm[m.to] \/ candidate[m.to] \/ Matches(m))
            THEN [log |-> log'[j], commitIndex |-> commitIndex'[j]] ELSE disk[j]
  BY AppendEntriesNode
<1>2. \A j \in Replica : log[j] \in K /\ disk[j].log \in K
  BY DEF Past, Held
<1>3. Matches(m) => merged \in K
  BY <1>2, <1>1, AppendEntriesMerges DEF Past, Carried
<1> HIDE DEF merged
<1>4. \A j \in Replica : log'[j] \in K
  BY <1>1, <1>2, <1>3 DEF Shapes, NodeTypes
<1>5. \A j \in Replica : disk'[j].log \in K
  <2> SUFFICES ASSUME NEW j \in Replica PROVE disk'[j].log \in K
    OBVIOUS
  <2>1. disk'[j] = [log |-> log'[j], commitIndex |-> commitIndex'[j]] \/ disk'[j] = disk[j]
    BY <1>1
  <2> QED
    BY <1>2, <1>4, <2>1
<1>6. \A j \in Replica : currentTerm'[j] >= currentTerm[j]
  <2>1. \A j \in Replica : currentTerm[j] \in Nat
    BY TermIsNat DEF Shapes, NodeTypes
  <2> QED
    BY <1>1, <2>1 DEF Shapes, NodeTypes
<1>7. \A j \in Replica : leading'[j] =>
          leading[j] /\ currentTerm'[j] = currentTerm[j] /\ log'[j] = log[j]
  BY <1>1 DEF Shapes, NodeTypes
<1>8. \A x \in sent' : \E k \in K : Carries(x, k)
  BY DEF AppendEntries, Past, Carried
<1> QED
  BY <1>4, <1>5, <1>6, <1>7, <1>8 DEF Calm

\* Send and Retry send what is in a log.
LEMMA SendCalm ==
    ASSUME Shapes, NEW K, NEW E, Past(K, E), NEW g \in starts, Send(g)
    PROVE  Calm(K)
<1> DEFINE i == g.from
           m == Message(g.call, TRUE, i, g.to, calls[g.call].term, calls[g.call].leaderCommit,
                        nextIndex[i][g.to] - 1)
<1>1. /\ nextIndex[i][g.to] - 1 >= -1
      /\ sent' = sent \cup {m}
      /\ UNCHANGED <<currentTerm, leading, log, disk>>
  BY DEF Send, nodeVars, electionVars
<1>2. /\ g.call \in Call /\ i \in Replica /\ g.to \in Replica /\ calls[g.call].from = i
  BY DEF Shapes, FlightShapes, StartShape, Goroutine
<1>3. calls[g.call] \in CallRecord /\ nextIndex[i] \in [Replica -> Int]
  BY <1>2, GoroutineCall DEF Shapes, FlightShapes, CallInLog
<1>4. /\ nextIndex[i][g.to] - 1 \in Int /\ nextIndex[i][g.to] - 1 >= -1
      /\ nextIndex[i][g.to] - 1 < Len(log[i])
  <2>1. nextIndex[i][g.to] <= Len(log[i])
    BY <1>2, <1>3, ReplicationAssumption DEF Shapes, NextInLog
  <2>2. nextIndex[i][g.to] \in Int /\ Len(log[i]) \in Nat
    BY <1>2, <1>3, LenProperties DEF Shapes, NodeTypes
  <2> QED
    BY <1>1, <2>1, <2>2
<1>5. \E k \in K : Carries(m, k)
  BY <1>2, <1>3, <1>4, MessageCarries DEF Past
<1> HIDE DEF m
<1>6. \A x \in sent' : \E k \in K : Carries(x, k)
  BY <1>1, <1>5 DEF Past, Carried
<1>7. \A j \in Replica : currentTerm'[j] >= currentTerm[j]
  BY <1>1, TermIsNat DEF Shapes, NodeTypes
<1> QED
  BY <1>1, <1>6, <1>7 DEF Calm, Past, Held

\* As long as the code breaks nothing, nobody tries again with another's PrevLogIndex.
LEMMA RetryIsOwn ==
    ASSUME NEW a, NEW prev, Retry(a, prev), Sound'
    PROVE  prev = a.prevLogIndex
BY DEF Retry, Sound, Broken

LEMMA RetryCalm ==
    ASSUME Shapes, NEW K, NEW E, Past(K, E), NEW a \in answers, NEW prev, Retry(a, prev), Sound'
    PROVE  Calm(K)
<1> DEFINE i == a.from
           m == Message(a.call, FALSE, i, a.to, currentTerm[i], commitIndex[i], a.prevLogIndex - 1)
<1>0. prev = a.prevLogIndex
  BY RetryIsOwn
<1>1. /\ a.prevLogIndex >= 0
      /\ sent' = sent \cup {m}
      /\ UNCHANGED <<currentTerm, leading, log, disk>>
  BY <1>0 DEF Retry, electionVars
<1>2. /\ calls[a.call].from = i /\ a.prevLogIndex < Len(log[i])
      /\ a.call \in Call /\ i \in Replica /\ a.prevLogIndex \in Int
  BY DEF Shapes, FlightShapes, AnswerShape, AnswerRecord
<1>3. calls[a.call] \in CallRecord
  BY <1>2, GoroutineCall DEF Shapes, FlightShapes
<1>4. a.prevLogIndex - 1 \in Int /\ a.prevLogIndex - 1 >= -1 /\ a.prevLogIndex - 1 < Len(log[i])
  <2>1. Len(log[i]) \in Nat
    BY <1>2, LenProperties DEF Shapes, NodeTypes
  <2> QED
    BY <1>1, <1>2, <2>1
<1>5. \E k \in K : Carries(m, k)
  BY <1>2, <1>3, <1>4, MessageCarries DEF Past
<1> HIDE DEF m
<1>6. \A x \in sent' : \E k \in K : Carries(x, k)
  BY <1>1, <1>5 DEF Past, Carried
<1>7. \A j \in Replica : currentTerm'[j] >= currentTerm[j]
  BY <1>1, TermIsNat DEF Shapes, NodeTypes
<1> QED
  BY <1>1, <1>6, <1>7 DEF Calm, Past, Held

LEMMA AnsweredCalm ==
    ASSUME Shapes, NEW K, NEW E, Past(K, E), NEW a \in answers, Answered(a)
    PROVE  Calm(K)
<1>1. /\ a.from \in Replica /\ log' = log /\ sent' = sent
      /\ \/ UNCHANGED <<currentTerm, leading, disk>>
         \/ /\ a.term > currentTerm[a.from]
            /\ currentTerm' = [currentTerm EXCEPT ![a.from] = a.term]
            /\ leading' = [leading EXCEPT ![a.from] = FALSE]
            /\ \A j \in Replica : disk'[j] =
                  IF j = a.from THEN [log |-> log[j], commitIndex |-> commitIndex[j]] ELSE disk[j]
  BY AnsweredNode DEF Answered
<1>2. a.term \in Nat /\ \A j \in Replica : currentTerm[j] \in Nat
  BY TermIsNat DEF Shapes, FlightShapes, AnswerShape, AnswerRecord, NodeTypes
<1>3. \A j \in Replica : disk'[j].log = disk[j].log \/ disk'[j].log = log[j]
  <2> SUFFICES ASSUME NEW j \in Replica
               PROVE  disk'[j].log = disk[j].log \/ disk'[j].log = log[j]
    OBVIOUS
  <2>1. disk'[j] = [log |-> log[j], commitIndex |-> commitIndex[j]] \/ disk'[j] = disk[j]
    BY <1>1
  <2> QED
    BY <2>1
<1>4. \A j \in Replica : \/ currentTerm'[j] = currentTerm[j] /\ leading'[j] = leading[j]
                         \/ currentTerm'[j] >= currentTerm[j] /\ ~ leading'[j]
  BY <1>1, <1>2 DEF Shapes, NodeTypes
<1> QED
  BY <1>1, <1>3, <1>4, QuietIsCalm

LEMMA CommitCalm ==
    ASSUME Shapes, NEW K, NEW E, Past(K, E), NEW c \in Call, Commit(c)
    PROVE  Calm(K)
<1> DEFINE i == calls[c].from
<1>1. /\ UNCHANGED <<currentTerm, leading, log, sent>>
      /\ PersistToStorage({i})
      /\ calls[c] \in CallRecord
  BY DEF Commit, Shapes, FlightShapes, electionVars
<1>2. /\ {i} \in SUBSET Replica
      /\ log' \in [Replica -> Seq(Entry)] /\ commitIndex' \in [Replica -> CommitIndex]
      /\ disk \in [Replica -> [log : Seq(Entry), commitIndex : CommitIndex]]
  BY <1>1, CommitShapes DEF CallRecord, Shapes, NodeTypes
<1>3. \A j \in Replica : disk'[j] = IF j \in {i}
         THEN [log |-> log'[j], commitIndex |-> commitIndex'[j]] ELSE disk[j]
  BY <1>1, <1>2, PersistTypes
<1>4. \A j \in Replica : disk'[j].log = disk[j].log \/ disk'[j].log = log[j]
  <2> SUFFICES ASSUME NEW j \in Replica
               PROVE  disk'[j].log = disk[j].log \/ disk'[j].log = log[j]
    OBVIOUS
  <2>1. disk'[j] = [log |-> log'[j], commitIndex |-> commitIndex'[j]] \/ disk'[j] = disk[j]
    BY <1>3
  <2> QED
    BY <1>1, <2>1
<1> QED
  BY <1>1, <1>4, QuietIsCalm

LEMMA RebootCalm ==
    ASSUME Shapes, NEW K, NEW E, Past(K, E), NEW i \in Replica, Reboot(i)
    PROVE  Calm(K)
<1>1. /\ leading' = [leading EXCEPT ![i] = FALSE]
      /\ log' = [log EXCEPT ![i] = disk[i].log]
      /\ sent' = {IF m.from = i THEN [m EXCEPT !.call = None] ELSE m : m \in sent}
      /\ UNCHANGED <<currentTerm, disk>>
  BY DEF Reboot, Restart
<1>2. \A j \in Replica : log[j] \in K /\ disk[j].log \in K
  BY DEF Past, Held
<1>3. \A j \in Replica : log'[j] \in K
  BY <1>1, <1>2 DEF Shapes, NodeTypes
<1>4. ASSUME NEW x \in sent' PROVE \E k \in K : Carries(x, k)
  <2>1. PICK m \in sent : x = IF m.from = i THEN [m EXCEPT !.call = None] ELSE m
    BY <1>1
  <2>2. PICK k \in K : Carries(m, k)
    BY DEF Past, Carried
  <2>3. m \in MessageRecord
    BY DEF Shapes, FlightShapes, SentShape
  <2>4. /\ x.prevLogIndex = m.prevLogIndex /\ x.prevLogTerm = m.prevLogTerm
        /\ x.entries = m.entries
    BY <2>1, <2>3 DEF MessageRecord
  <2> QED
    BY <2>2, <2>4 DEF Carries
<1>5. \A j \in Replica : currentTerm'[j] >= currentTerm[j]
  BY <1>1, TermIsNat DEF Shapes, NodeTypes
<1>6. \A j \in Replica : leading'[j] =>
          leading[j] /\ currentTerm'[j] = currentTerm[j] /\ log'[j] = log[j]
  BY <1>1 DEF Shapes, NodeTypes
<1> QED
  BY <1>1, <1>2, <1>3, <1>4, <1>5, <1>6 DEF Calm

\* A message that was rewritten, and a save that was torn, are of what the argument excludes.
LEMMA RewrittenIsBroken == ASSUME NEW m, Rewritten(m), Sound' PROVE FALSE
<1>1. "shared message" \in odd'
  BY DEF Rewritten
<1> QED
  BY <1>1 DEF Sound, Broken

LEMMA CrashInSaveIsBroken == ASSUME NEW i, CrashInSave(i), Sound' PROVE FALSE
<1>1. "torn save" \in odd'
  BY DEF CrashInSave
<1> QED
  BY <1>1 DEF Sound, Broken

\* As long as the code breaks nothing, no step takes a vote back.
LEMMA StepVotesStay ==
    ASSUME Shapes, VoteShape, [Next]_vars, Sound'
    PROVE  VotesStay
<1>0. \A j \in Replica : currentTerm[j] \in Nat
  BY TermIsNat DEF Shapes, NodeTypes
<1>1. ASSUME UNCHANGED <<currentTerm, votedFor, candidate>> PROVE VotesStay
  BY <1>0, <1>1 DEF VotesStay
<1>2. CASE UNCHANGED vars
  BY <1>1, <1>2 DEF vars, nodeVars, electionVars
<1>3. ASSUME NEW i \in Replica, NEW c \in Call, NEW asked \in SUBSET Peers(i),
             NEW wins \in BOOLEAN, Election(i, asked, wins, c)
      PROVE  VotesStay
  <2> DEFINE t == currentTerm[i] + 1
             reached == {i} \cup {j \in asked : currentTerm[j] < t}
             voters == {j \in {i} \cup asked : MayVote(j, t) /\ Grants(j, i)}
  <2>1. /\ currentTerm' = [j \in Replica |-> IF j \in reached THEN t ELSE currentTerm[j]]
        /\ votedFor' = [j \in Replica |-> IF j \in voters THEN i
                                         ELSE IF j \in reached THEN None ELSE votedFor[j]]
        /\ candidate' = [j \in Replica |-> IF j \in reached THEN ~ wins /\ j = i
                                          ELSE candidate[j]]
    BY <1>3 DEF Election
  <2>2. \A j \in reached : currentTerm[j] < t
    BY <1>0
  <2>3. \A j \in voters : currentTerm[j] < t \/ votedFor[j] = None
    BY DEF MayVote
  <2>4. \A j \in voters : j \notin reached => ~ (currentTerm[j] < t)
    BY DEF Peers
  <2>5. t \in Nat
    BY <1>0
  <2> HIDE DEF reached, voters, t
  <2> SUFFICES ASSUME NEW j \in Replica
               PROVE  /\ currentTerm'[j] >= currentTerm[j]
                      /\ currentTerm'[j] = currentTerm[j] /\ ~ candidate[j] /\ votedFor[j] # None
                            => votedFor'[j] = votedFor[j] /\ ~ candidate'[j]
    BY DEF VotesStay
  <2>6. CASE j \in reached
    <3>1. currentTerm'[j] = t /\ currentTerm[j] < t
      BY <2>1, <2>2, <2>6
    <3> QED
      BY <1>0, <2>5, <3>1
  <2>7. CASE j \notin reached
    <3>1. currentTerm'[j] = currentTerm[j] /\ candidate'[j] = candidate[j]
      BY <2>1, <2>7
    <3>2. j \notin voters \/ votedFor[j] = None
      BY <2>3, <2>4, <2>7
    <3>3. j \notin voters => votedFor'[j] = votedFor[j]
      BY <2>1, <2>7
    <3> QED
      BY <1>0, <3>1, <3>2, <3>3
  <2> QED
    BY <2>6, <2>7
<1>4. ASSUME NEW i \in Replica, NEW c \in Call, WriteCommand(i, c) \/ HeartBeat(i, c)
      PROVE  VotesStay
  BY <1>1, <1>4 DEF WriteCommand, HeartBeat, nodeVars, electionVars
<1>5. ASSUME NEW i \in Replica, Crash(i) \/ CrashInSave(i) \/ Panics(i) PROVE VotesStay
  <2>1. ~ CrashInSave(i)
    BY CrashInSaveIsBroken
  <2>2. UNCHANGED <<currentTerm, votedFor>> /\ candidate' = [candidate EXCEPT ![i] = FALSE]
    BY <1>5, <2>1 DEF Crash, Panics, Reboot, Restart
  <2> QED
    BY <1>0, <2>2 DEF VotesStay, VoteShape
<1>6. ASSUME NEW g \in starts, Send(g) PROVE VotesStay
  BY <1>1, <1>6 DEF Send, nodeVars, electionVars
<1>7. ASSUME NEW m \in sent, Rewritten(m) \/ AppendEntriesStale(m) PROVE VotesStay
  <2>1. ~ Rewritten(m)
    BY RewrittenIsBroken
  <2>2. AppendEntriesStale(m)
    BY <1>7, <2>1
  <2> QED
    BY <1>1, <2>2 DEF AppendEntriesStale, nodeVars, electionVars
<1>8. ASSUME NEW m \in sent, AppendEntries(m) PROVE VotesStay
  <2>1. m.to \in Replica /\ m.term \in Nat /\ m.term >= currentTerm[m.to]
    BY <1>8, AppendEntriesNode, TermIsNat
  <2>2. /\ currentTerm' = [currentTerm EXCEPT ![m.to] = m.term]
        /\ candidate' = [candidate EXCEPT ![m.to] = FALSE]
        /\ \/ /\ m.term > currentTerm[m.to] \/ candidate[m.to]
              /\ votedFor' = [votedFor EXCEPT ![m.to] = None]
           \/ votedFor' = [votedFor EXCEPT ![m.to] = votedFor[m.to]]
    BY <1>8 DEF AppendEntries
  <2>3. currentTerm \in [Replica -> Term]
    BY DEF Shapes, NodeTypes
  <2>4. \A j \in Replica : j # m.to =>
           currentTerm'[j] = currentTerm[j] /\ candidate'[j] = candidate[j] /\ votedFor'[j] = votedFor[j]
    BY <2>1, <2>2, <2>3 DEF VoteShape
  <2>5. /\ currentTerm'[m.to] = m.term /\ ~ candidate'[m.to]
        /\ m.term > currentTerm[m.to] \/ candidate[m.to] \/ votedFor'[m.to] = votedFor[m.to]
    BY <2>1, <2>2, <2>3 DEF VoteShape
  <2> QED
    BY <1>0, <2>1, <2>4, <2>5 DEF VotesStay
<1>9. ASSUME NEW m \in sent \cup answers, GiveUp(m) PROVE VotesStay
  BY <1>1, <1>9 DEF GiveUp, nodeVars, electionVars
<1>10. ASSUME NEW a \in answers, Answered(a) PROVE VotesStay
  <2>1. \/ UNCHANGED <<currentTerm, votedFor, candidate>>
        \/ /\ a.term > currentTerm[a.from]
           /\ currentTerm' = [currentTerm EXCEPT ![a.from] = a.term]
           /\ candidate' = [candidate EXCEPT ![a.from] = FALSE]
           /\ votedFor' = [votedFor EXCEPT ![a.from] = None]
    BY <1>10 DEF Answered, StepDown, electionVars
  <2>2. a.from \in Replica /\ a.term \in Nat /\ currentTerm \in [Replica -> Term]
    BY TermIsNat DEF Shapes, FlightShapes, AnswerShape, AnswerRecord, NodeTypes
  <2> QED
    BY <1>0, <1>1, <2>1, <2>2 DEF VotesStay, VoteShape
<1>11. ASSUME NEW a \in answers, NEW prev, Retry(a, prev) PROVE VotesStay
  <2>1. UNCHANGED <<currentTerm, votedFor, candidate>>
    BY <1>11 DEF Retry, electionVars
  <2> QED
    BY <1>1, <2>1
<1>12. ASSUME NEW c \in Call, Commit(c) \/ RetryNoOp(c) PROVE VotesStay
  <2>1. UNCHANGED <<currentTerm, votedFor, candidate>>
    BY <1>12 DEF Commit, RetryNoOp, nodeVars, electionVars
  <2> QED
    BY <1>1, <2>1
<1> QED
  BY <1>2, <1>3, <1>4, <1>5, <1>6, <1>7, <1>8, <1>9, <1>10, <1>11, <1>12 DEF Next

\* So does every step, as long as the code breaks nothing.
LEMMA StepPast ==
    ASSUME Shapes, Shapes', VoteShape, [Next]_vars, Sound',
           NEW K, NEW E, NEW K2, NEW E2, Logs(K, K2), Terms(E, E2), Past(K, E)
    PROVE  Past(K2, E2)'
<1>0. VotesStay
  BY StepVotesStay
<1>1. ASSUME Calm(K) PROVE Past(K2, E2)'
  BY <1>0, <1>1, CalmKeeps
<1>2. ASSUME UNCHANGED <<currentTerm, leading, log, disk>>, sent' \subseteq sent
      PROVE  Past(K2, E2)'
  BY <1>1, <1>2, QuietIsCalm
<1>3. CASE UNCHANGED vars
  <2>1. UNCHANGED <<currentTerm, leading, log, disk, sent>>
    BY <1>3 DEF vars, nodeVars, electionVars, callVars
  <2> QED
    BY <1>2, <2>1
<1>4. ASSUME NEW i \in Replica, NEW c \in Call, NEW asked \in SUBSET Peers(i),
             NEW wins \in BOOLEAN, Election(i, asked, wins, c)
      PROVE  Past(K2, E2)'
  BY <1>0, <1>4, ElectionPast DEF ElectionOf
<1>5. ASSUME NEW i \in Replica, NEW c \in Call, WriteCommand(i, c) PROVE Past(K2, E2)'
  <2>1. leading[i]
    BY <1>5 DEF WriteCommand, Sound, Broken
  <2> QED
    BY <1>5, <2>1, WritePast
<1>6. ASSUME NEW i \in Replica, NEW c \in Call, HeartBeat(i, c) PROVE Past(K2, E2)'
  BY <1>2, <1>6 DEF HeartBeat, nodeVars, electionVars
<1>7. ASSUME NEW i \in Replica, Crash(i) \/ CrashInSave(i) \/ Panics(i) PROVE Past(K2, E2)'
  <2>1. Reboot(i)
    BY <1>7, CrashInSaveIsBroken DEF Crash, Panics
  <2> QED
    BY <1>1, <2>1, RebootCalm
<1>8. ASSUME NEW g \in starts, Send(g) PROVE Past(K2, E2)'
  BY <1>1, <1>8, SendCalm
<1>9. ASSUME NEW m \in sent, Rewritten(m) \/ AppendEntriesStale(m) PROVE Past(K2, E2)'
  <2>1. AppendEntriesStale(m)
    BY <1>9, RewrittenIsBroken
  <2> QED
    BY <1>2, <2>1 DEF AppendEntriesStale, nodeVars, electionVars
<1>10. ASSUME NEW m \in sent, AppendEntries(m) PROVE Past(K2, E2)'
  BY <1>1, <1>10, AppendEntriesCalm
<1>11. ASSUME NEW m \in sent \cup answers, GiveUp(m) PROVE Past(K2, E2)'
  BY <1>2, <1>11 DEF GiveUp, nodeVars, electionVars
<1>12. ASSUME NEW a \in answers, Answered(a) \/ \E prev \in ReadAgain(a) : Retry(a, prev)
       PROVE  Past(K2, E2)'
  BY <1>1, <1>12, AnsweredCalm, RetryCalm
<1>13. ASSUME NEW c \in Call, Commit(c) PROVE Past(K2, E2)'
  BY <1>1, <1>13, CommitCalm
<1>14. ASSUME NEW c \in Call, RetryNoOp(c) PROVE Past(K2, E2)'
  BY <1>2, <1>14 DEF RetryNoOp, nodeVars, electionVars
<1> QED
  BY <1>3, <1>4, <1>5, <1>6, <1>7, <1>8, <1>9, <1>10, <1>11, <1>12, <1>13, <1>14 DEF Next

\* The code breaks nothing later that it broke before.
LEMMA SoundBefore == [Next]_vars /\ Sound' => Sound
BY OddGrows DEF Sound, Broken

LEMMA InitPast == Init => Past({<< >>}, {})
<1> SUFFICES ASSUME Init PROVE Past({<< >>}, {})
  OBVIOUS
<1>1. << >> \in Seq(Entry) /\ Len(<< >>) = 0
  OBVIOUS
<1>2. \A n \in 0 .. 0 : SubSeq(<< >>, 1, n) = << >>
  OBVIOUS
<1>3. History({<< >>}, {})
  BY <1>1, <1>2 DEF History
<1> QED
  BY <1>3 DEF Init, NoFile, Past, Held, Known, LeaderLog, OneLeader, Carried

\* The past of a run in which the code broke nothing.
HasPast == Sound => \E K, E : Past(K, E)

LEMMA PastInvariant == Spec => [](Shapes /\ HasPast)
<1>1. Init => HasPast
  BY InitPast DEF HasPast
<1>2. Shapes /\ Shapes' /\ VoteShape /\ HasPast /\ [Next]_vars => HasPast'
  <2> SUFFICES ASSUME Shapes, Shapes', VoteShape, HasPast, [Next]_vars, Sound' PROVE HasPast'
    BY DEF HasPast
  <2>1. PICK K, E : Past(K, E)
    BY SoundBefore DEF HasPast
  <2>2. PICK K2, E2 : Logs(K, K2) /\ Terms(E, E2)
    BY DEF Logs, Terms
  <2>3. Past(K2, E2)'
    BY <2>1, <2>2, StepPast
  <2> QED
    BY <2>3 DEF HasPast
<1> QED
  BY <1>1, <1>2, ShapesInvariant, VoteInvariant, PTL DEF Spec

\* Two logs with an entry of the same index and term agree on it and on all before it, as
\* long as Broken is empty: no follower appends or sends, no message has the parts of
\* another or leaves entries behind the ones it writes, nothing of an earlier leadership goes
\* on in a later one, no leader is without a majority, and no crash is inside a save.
THEOREM LogsMatch == Spec => []LogMatching
<1>1. Shapes /\ HasPast => LogMatching
  <2> SUFFICES ASSUME Shapes, HasPast, Sound,
                      NEW i \in Replica, NEW j \in Replica,
                      NEW p \in DOMAIN log[i] \cap DOMAIN log[j], log[i][p].term = log[j][p].term
               PROVE  SubSeq(log[i], 1, p) = SubSeq(log[j], 1, p)
    BY DEF LogMatching, Sound
  <2>1. PICK K, E : Past(K, E)
    BY DEF HasPast
  <2>2. /\ log[i] \in Seq(Entry) /\ log[j] \in Seq(Entry)
        /\ log[i] \in K /\ log[j] \in K /\ History(K, E)
    BY <2>1 DEF Past, Held, Shapes, NodeTypes
  <2>3. /\ Len(log[i]) \in Nat /\ DOMAIN log[i] = 1 .. Len(log[i])
        /\ Len(log[j]) \in Nat /\ DOMAIN log[j] = 1 .. Len(log[j])
    BY <2>2, LenProperties
  <2>4. p \in 1 .. Len(log[i]) /\ p \in 1 .. Len(log[j]) /\ p \in Nat /\ p <= p
    BY <2>3
  <2>5. Agree(log[i], log[j], p)
    BY <2>2, <2>4 DEF History
  <2>6. ASSUME NEW l \in Seq(Entry), p \in 1 .. Len(l)
        PROVE  /\ SubSeq(l, 1, p) \in Seq(Entry) /\ Len(SubSeq(l, 1, p)) = p
               /\ \A r \in 1 .. p : SubSeq(l, 1, p)[r] = l[r]
    <3>1. Len(l) \in Nat /\ \A r \in 1 .. p : l[r] \in Entry
      BY <2>4, <2>6, LenProperties, ElementOfSeq
    <3>2. /\ SubSeq(l, 1, p) \in Seq(Entry)
          /\ Len(SubSeq(l, 1, p)) = IF 1 <= p THEN p - 1 + 1 ELSE 0
          /\ \A r \in 1 .. p - 1 + 1 : SubSeq(l, 1, p)[r] = l[1 + r - 1]
      BY <2>4, <3>1, SubSeqProperties
    <3> QED
      BY <2>4, <2>6, <3>1, <3>2
  <2> QED
    BY <2>2, <2>4, <2>5, <2>6, SeqEqual DEF Agree
<1> QED
  BY <1>1, PastInvariant, PTL

-----------------------------------------------------------------------------
(* That what is committed stays.  A point <<j, p, t>> of Acc says that      *)
(* replica j once had an entry of term t at position p of its log and of    *)
(* its file, while it was in term t.                                        *)

Has(l, p, t) == p \in 1 .. Len(l) /\ l[p].term = t

Begins(l, k) == Len(l) <= Len(k) /\ Agree(l, k, Len(l))

\* A majority is past the term without it: there will never be one with it.
Blocked(Acc, p, t) ==
    \E M \in SUBSET Replica : Majority(M) /\ \A j \in M : currentTerm[j] > t /\ <<j, p, t>> \notin Acc

\* The log is the beginning of one with an entry of term T or a later one.
Backed(K, l, T) == \E k \in K : Begins(l, k) /\ Len(k) >= 1 /\ k[Len(k)].term >= T

\* Who does not lead has saved its log.
FilesSaved == \A j \in Replica : ~ leading[j] => disk[j].log = log[j]

\* Points are kept, but for those that no majority will have; and all of them in the term
\* of the point as long as its leader leads.
Points(K, Acc) ==
    \A j \in Replica, p, t \in Nat : <<j, p, t>> \in Acc =>
        /\ currentTerm[j] >= t
        /\ \E k \in K : Has(k, p, t)
        /\ (Has(log[j], p, t) /\ Has(disk[j].log, p, t)) \/ Blocked(Acc, p, t)
        /\ \A i \in Replica : leading[i] /\ currentTerm[i] = t /\ currentTerm[j] = t =>
              Has(log[j], p, t)

\* What a majority may have is in all logs of later terms.
Complete(K, Acc) ==
    \A k, k2 \in K : \A q \in 1 .. Len(k), p \in 1 .. Len(k2) :
        k2[p].term < k[q].term => Has(k, p, k2[p].term) \/ Blocked(Acc, p, k2[p].term)

\* The points after a step.
Accepted(Acc, Acc2) ==
    \A j \in Replica, p, t \in Nat : <<j, p, t>> \in Acc2 <=>
        \/ <<j, p, t>> \in Acc
        \/ currentTerm'[j] = t /\ Has(log'[j], p, t) /\ Has(disk'[j].log, p, t)

\* A message about the log has overwritten the one of replica j.
Overwritten(K, j) ==
    /\ log'[j] \in K /\ Len(log'[j]) >= Len(log[j]) /\ Backed(K, log'[j], currentTerm'[j])
    /\ \A i \in Replica : leading[i] /\ currentTerm[i] = currentTerm'[j] => Begins(log'[j], log[i])

\* What a step may do to a replica.
Moves(K) ==
    \A j \in Replica :
        /\ currentTerm'[j] >= currentTerm[j]
        /\ leading'[j] \/ disk'[j].log = log'[j]
        /\ disk'[j].log = disk[j].log \/ disk'[j].log = log'[j]
        /\ \/ log'[j] = log[j]
           \/ leading'[j] /\ Begins(log[j], log'[j])
           \/ ~ leading'[j] /\ log'[j] = disk[j].log
           \/ ~ leading'[j] /\ Overwritten(K, j)
        /\ leading'[j] => \/ leading[j] /\ currentTerm'[j] = currentTerm[j]
                          \/ /\ currentTerm'[j] > currentTerm[j]
                             /\ \A k \in K : \A q \in 1 .. Len(k) : k[q].term < currentTerm'[j]

-----------------------------------------------------------------------------
\* There are such points after every step.
LEMMA AcceptedExists == ASSUME NEW Acc PROVE \E Acc2 : Accepted(Acc, Acc2)
<1> DEFINE Old == {<<j, p, t>> : j \in Replica, p \in Nat, t \in Nat}
           New == {x \in Old : \/ x \in Acc
                               \/ /\ currentTerm'[x[1]] = x[3]
                                  /\ Has(log'[x[1]], x[2], x[3])
                                  /\ Has(disk'[x[1]].log, x[2], x[3])}
<1>1. \A j \in Replica, p, t \in Nat :
        <<j, p, t>> \in Old /\ <<j, p, t>>[1] = j /\ <<j, p, t>>[2] = p /\ <<j, p, t>>[3] = t
  OBVIOUS
<1>2. \A j \in Replica, p, t \in Nat : <<j, p, t>> \in New <=>
        \/ <<j, p, t>> \in Acc
        \/ currentTerm'[j] = t /\ Has(log'[j], p, t) /\ Has(disk'[j].log, p, t)
  BY <1>1
<1> HIDE DEF New
<1> QED
  BY <1>2 DEF Accepted

LEMMA CurrentTermIsNat == ASSUME Shapes PROVE \A j \in Replica : currentTerm[j] \in Nat
BY TermIsNat DEF Shapes, NodeTypes

\* What is blocked stays blocked.
LEMMA BlockedStays ==
    ASSUME Shapes, Shapes', NEW K, Moves(K), NEW Acc, NEW Acc2, Accepted(Acc, Acc2),
           NEW p \in Nat, NEW t \in Nat, Blocked(Acc, p, t)
    PROVE  Blocked(Acc2, p, t)'
<1>1. PICK M \in SUBSET Replica :
        Majority(M) /\ \A j \in M : currentTerm[j] > t /\ <<j, p, t>> \notin Acc
  BY DEF Blocked
<1>2. ASSUME NEW j \in M PROVE currentTerm'[j] > t /\ <<j, p, t>> \notin Acc2
  <2>1. currentTerm[j] \in Nat /\ currentTerm'[j] \in Nat
    BY TermIsNat DEF Shapes, NodeTypes
  <2>2. currentTerm'[j] >= currentTerm[j]
    BY DEF Moves
  <2>3. currentTerm[j] > t /\ <<j, p, t>> \notin Acc
    BY <1>1
  <2>4. currentTerm'[j] > t /\ currentTerm'[j] # t
    BY <2>1, <2>2, <2>3
  <2> QED
    BY <2>3, <2>4 DEF Accepted
<1> QED
  BY <1>1, <1>2 DEF Blocked, Majority

\* A log of a term or later has all that a majority may have of it and of earlier terms,
\* as far as it goes.
LEMMA BackedAgrees ==
    ASSUME NEW K, NEW E, History(K, E), NEW Acc, Complete(K, Acc), NEW l \in Seq(Entry),
           NEW T \in Nat, Backed(K, l, T), NEW k2 \in K, NEW p \in 1 .. Len(k2),
           k2[p].term <= T, ~ Blocked(Acc, p, k2[p].term)
    PROVE  \A r \in 1 .. p : r \in 1 .. Len(l) => l[r] = k2[r]
<1>1. PICK k \in K : Begins(l, k) /\ Len(k) >= 1 /\ k[Len(k)].term >= T
  BY DEF Backed
<1>2. /\ Len(k) \in Nat /\ \A q \in 1 .. Len(k) : k[q].term \in Nat
      /\ Len(k2) \in Nat /\ \A q \in 1 .. Len(k2) : k2[q].term \in Nat
      /\ Len(l) \in Nat
  BY HistoryEntries, LenProperties
<1>3. Len(k) \in 1 .. Len(k) /\ p \in Nat /\ p >= 1 /\ p <= p
  BY <1>1, <1>2
<1>4. CASE k[Len(k)].term > k2[p].term
  <2>1. p \in 1 .. Len(k) /\ k[p].term = k2[p].term
    BY <1>3, <1>4 DEF Complete, Has
  <2>2. Agree(k, k2, p)
    BY <1>3, <2>1 DEF History
  <2> QED
    BY <1>1, <2>2 DEF Begins, Agree
<1>5. CASE k[Len(k)].term = k2[p].term /\ p <= Len(k)
  <2>1. Agree(k2, k, p)
    BY <1>3, <1>5 DEF History
  <2> QED
    BY <1>1, <2>1 DEF Begins, Agree
<1>6. CASE k[Len(k)].term = k2[p].term /\ Len(k) <= p
  <2>1. Agree(k, k2, Len(k))
    BY <1>3, <1>6 DEF History
  <2>2. \A r \in 1 .. Len(l) : r \in 1 .. Len(k)
    BY <1>1, <1>2 DEF Begins
  <2> QED
    BY <1>1, <2>1, <2>2 DEF Begins, Agree
<1>7. \/ k[Len(k)].term > k2[p].term
      \/ k[Len(k)].term = k2[p].term
  BY <1>1, <1>2, <1>3
<1>8. p <= Len(k) \/ Len(k) <= p
  BY <1>2, <1>3
<1> QED
  BY <1>4, <1>5, <1>6, <1>7, <1>8

\* The beginnings of a backed log are backed, with more logs and for earlier terms too.
LEMMA BackedStays ==
    ASSUME NEW K, NEW E, History(K, E), NEW K2, K \subseteq K2, NEW l \in Seq(Entry),
           NEW T \in Nat, Backed(K, l, T), NEW l2 \in Seq(Entry), Begins(l2, l),
           NEW T2 \in Nat, T2 <= T
    PROVE  Backed(K2, l2, T2)
<1>1. PICK k \in K : Begins(l, k) /\ Len(k) >= 1 /\ k[Len(k)].term >= T
  BY DEF Backed
<1>2. Len(k) \in Nat /\ Len(l) \in Nat /\ Len(l2) \in Nat /\ k[Len(k)].term \in Nat
  <2>1. Len(k) \in Nat /\ \A q \in 1 .. Len(k) : k[q].term \in Nat
    BY HistoryEntries
  <2>2. Len(k) \in 1 .. Len(k)
    BY <1>1, <2>1
  <2> QED
    BY <2>1, <2>2, LenProperties
<1>3. \A r \in 1 .. Len(l2) : r \in 1 .. Len(l)
  BY <1>2 DEF Begins
<1>4. Begins(l2, k)
  <2>1. Len(l2) <= Len(k)
    BY <1>1, <1>2 DEF Begins
  <2> QED
    BY <1>1, <1>3, <2>1 DEF Begins, Agree
<1>5. k[Len(k)].term >= T2
  BY <1>1, <1>2
<1> QED
  BY <1>1, <1>4, <1>5 DEF Backed

\* The terms of a backed log are not later than all others.
LEMMA BackedTerm ==
    ASSUME NEW K, NEW E, History(K, E), NEW l, NEW T \in Nat, Backed(K, l, T), NEW t \in Nat,
           \A k \in K : \A q \in 1 .. Len(k) : k[q].term < t
    PROVE  T < t
<1>1. PICK k \in K : Len(k) >= 1 /\ k[Len(k)].term >= T
  BY DEF Backed
<1>2. Len(k) \in Nat /\ \A q \in 1 .. Len(k) : k[q].term \in Nat
  BY HistoryEntries
<1>3. Len(k) \in 1 .. Len(k)
  BY <1>1, <1>2
<1> QED
  BY <1>1, <1>2, <1>3

\* The log of a leader is backed for its term.
LEMMA LeaderIsBacked ==
    ASSUME Shapes, NEW K, NEW E, Past(K, E), NEW i \in Replica, leading[i]
    PROVE  Backed(K, log[i], currentTerm[i])
<1>1. log[i] \in K /\ Len(log[i]) >= 1 /\ log[i][Len(log[i])].term = currentTerm[i]
  BY DEF Past, LeaderLog, Held
<1>2. Len(log[i]) \in Nat /\ currentTerm[i] \in Nat
  BY LenProperties, CurrentTermIsNat DEF Shapes, NodeTypes
<1>3. Begins(log[i], log[i])
  BY <1>2 DEF Begins, Agree
<1> QED
  BY <1>1, <1>2, <1>3 DEF Backed

\* What a log has that a majority may have, and the file too, it has after a step.
LEMMA LogKeeps ==
    ASSUME Shapes, Shapes', NEW K, NEW E, Past(K, E), Moves(K), NEW Acc, Complete(K, Acc),
           NEW j \in Replica, NEW p \in Nat, NEW t \in Nat, t <= currentTerm'[j],
           Has(log[j], p, t), Has(disk[j].log, p, t), ~ Blocked(Acc, p, t)
    PROVE  Has(log'[j], p, t) /\ Has(disk'[j].log, p, t)
<1> SUFFICES Has(log'[j], p, t)
  BY DEF Moves
<1>1. /\ log[j] \in Seq(Entry) /\ Len(log[j]) \in Nat /\ log[j] \in K /\ History(K, E)
      /\ log'[j] \in Seq(Entry) /\ Len(log'[j]) \in Nat /\ currentTerm'[j] \in Nat
  BY LenProperties, TermIsNat DEF Shapes, NodeTypes, Past, Held
<1>2. CASE log'[j] = log[j] \/ log'[j] = disk[j].log
  BY <1>2
<1>3. CASE Begins(log[j], log'[j])
  <2>1. p \in 1 .. Len(log[j]) /\ log[j][p].term = t
    BY DEF Has
  <2>2. p \in 1 .. Len(log'[j]) /\ log'[j][p] = log[j][p]
    BY <1>1, <1>3, <2>1 DEF Begins, Agree
  <2> QED
    BY <2>1, <2>2 DEF Has
<1>4. CASE Overwritten(K, j)
  <2>1. p \in 1 .. Len(log[j]) /\ log[j][p].term = t
    BY DEF Has
  <2>2. Len(log'[j]) >= Len(log[j]) /\ Backed(K, log'[j], currentTerm'[j])
    BY <1>4 DEF Overwritten
  <2>3. p \in 1 .. p /\ p \in 1 .. Len(log'[j])
    BY <1>1, <2>1, <2>2
  <2>4. log[j][p].term <= currentTerm'[j] /\ ~ Blocked(Acc, p, log[j][p].term)
    BY <2>1
  <2>5. \A r \in 1 .. p : r \in 1 .. Len(log'[j]) => log'[j][r] = log[j][r]
    BY <1>1, <2>1, <2>2, <2>4, BackedAgrees
  <2> QED
    BY <2>1, <2>3, <2>5 DEF Has
<1> QED
  BY <1>2, <1>3, <1>4 DEF Moves

\* The points stay.
LEMMA PointsStay ==
    ASSUME Shapes, Shapes', NEW K, NEW E, Past(K, E), NEW K2, NEW E2, Logs(K, K2), Moves(K),
           NEW Acc, NEW Acc2, Accepted(Acc, Acc2),
           FilesSaved, Points(K, Acc), Complete(K, Acc)
    PROVE  Points(K2, Acc2)'
<1> SUFFICES ASSUME NEW j \in Replica, NEW p \in Nat, NEW t \in Nat, <<j, p, t>> \in Acc2
             PROVE  /\ currentTerm'[j] >= t
                    /\ \E k \in K2 : Has(k, p, t)
                    /\ (Has(log'[j], p, t) /\ Has(disk'[j].log, p, t)) \/ Blocked(Acc2, p, t)'
                    /\ \A i \in Replica : leading'[i] /\ currentTerm'[i] = t /\ currentTerm'[j] = t =>
                          Has(log'[j], p, t)
  BY DEF Points
<1>1. CASE currentTerm'[j] = t /\ Has(log'[j], p, t) /\ Has(disk'[j].log, p, t)
  <2>1. currentTerm'[j] >= t
    BY <1>1
  <2> QED
    BY <1>1, <2>1 DEF Logs
<1>2. CASE <<j, p, t>> \in Acc
  <2>1. /\ currentTerm[j] >= t
        /\ \E k \in K : Has(k, p, t)
        /\ (Has(log[j], p, t) /\ Has(disk[j].log, p, t)) \/ Blocked(Acc, p, t)
        /\ \A i \in Replica : leading[i] /\ currentTerm[i] = t /\ currentTerm[j] = t =>
              Has(log[j], p, t)
    BY <1>2 DEF Points
  <2>2. currentTerm'[j] >= currentTerm[j] /\ currentTerm[j] \in Nat /\ currentTerm'[j] \in Nat
    BY TermIsNat DEF Moves, Shapes, NodeTypes
  <2>3. currentTerm'[j] >= t
    BY <2>1, <2>2
  <2>4. (Has(log'[j], p, t) /\ Has(disk'[j].log, p, t)) \/ Blocked(Acc2, p, t)'
    BY <2>1, <2>3, LogKeeps, BlockedStays
  <2>5. ASSUME NEW i \in Replica, leading'[i], currentTerm'[i] = t, currentTerm'[j] = t
        PROVE  Has(log'[j], p, t)
    <3>1. currentTerm[j] = t
      BY <2>1, <2>2, <2>5
    <3>2. leading[i] /\ currentTerm[i] = t
      <4>1. ~ \A k \in K : \A q \in 1 .. Len(k) : k[q].term < currentTerm'[i]
        BY <2>1, <2>5 DEF Has
      <4> QED
        BY <2>5, <4>1 DEF Moves
    <3>3. Has(log[j], p, t)
      BY <2>1, <3>1, <3>2
    <3>4. log[j] \in K /\ Len(log[j]) \in Nat /\ Len(log'[j]) \in Nat
      BY LenProperties DEF Shapes, NodeTypes, Past, Held
    <3>5. CASE log'[j] = log[j]
      BY <3>3, <3>5
    <3>6. CASE Begins(log[j], log'[j])
      BY <3>3, <3>4, <3>6 DEF Begins, Agree, Has
    <3>7. CASE ~ leading'[j] /\ log'[j] = disk[j].log
      <4>1. ~ leading[j]
        BY <2>5, <3>1, <3>2, <3>7 DEF Past, OneLeader
      <4> QED
        BY <3>3, <3>7, <4>1 DEF FilesSaved
    <3>8. CASE Overwritten(K, j)
      <4>1. Begins(log'[j], log[i]) /\ Len(log'[j]) >= Len(log[j])
        BY <2>5, <3>2, <3>8 DEF Overwritten
      <4>2. p \in 1 .. Len(log[j]) /\ log[j][p].term = t
        BY <3>3 DEF Has
      <4>3. Agree(log[j], log[i], p)
        BY <3>2, <3>4, <4>2 DEF Past, LeaderLog, Longest
      <4>4. p \in 1 .. p /\ p \in 1 .. Len(log'[j])
        BY <3>4, <4>1, <4>2
      <4> QED
        BY <4>1, <4>2, <4>3, <4>4 DEF Begins, Agree, Has
    <3> QED
      BY <3>5, <3>6, <3>7, <3>8 DEF Moves
  <2> QED
    BY <2>1, <2>3, <2>4, <2>5 DEF Logs
<1> QED
  BY <1>1, <1>2 DEF Accepted

\* A new log of a term not earlier than all of it, which has what a majority may have of
\* earlier terms, keeps the logs complete, when its last entry is the first at its place.
LEMMA CompleteStays ==
    ASSUME Shapes, Shapes', NEW K, NEW E, Past(K, E), Moves(K),
           NEW Acc, NEW Acc2, Accepted(Acc, Acc2), Complete(K, Acc),
           NEW l \in K, NEW e \in Entry,
           \A k2 \in K : \A p \in 1 .. Len(k2) : k2[p].term < e.term =>
              Has(l, p, k2[p].term) \/ Blocked(Acc2, p, k2[p].term)',
           (\E k \in K : \E q \in 1 .. Len(k) : k[q].term > e.term) =>
              Blocked(Acc2, Len(l) + 1, e.term)'
    PROVE  Complete(K \cup {Append(l, e)}, Acc2)'
<1> DEFINE new == Append(l, e)
           N == Len(l) + 1
<1>1. /\ l \in Seq(Entry) /\ Len(l) \in Nat /\ Len(new) = N
      /\ \A p \in 1 .. Len(l) : new[p] = l[p]
      /\ new[N] = e
      /\ \A p \in 1 .. Len(l) : l[p].term \in Nat
  BY HistoryEntries, Appended DEF Past
<1>2. \A p \in 1 .. N : p = N \/ p \in 1 .. Len(l)
  BY <1>1
<1>3. e.term \in Nat
  BY TermIsNat DEF Entry
<1> HIDE DEF new, N
<1>4. \A p, t : Has(l, p, t) => Has(new, p, t)
  <2>1. \A p \in 1 .. Len(l) : p \in 1 .. Len(new)
    BY <1>1 DEF N
  <2> QED
    BY <1>1, <2>1 DEF Has
<1>5. ASSUME NEW k \in K, NEW k2 \in K, NEW q \in 1 .. Len(k), NEW p \in 1 .. Len(k2),
             k2[p].term < k[q].term
      PROVE  Has(k, p, k2[p].term) \/ Blocked(Acc2, p, k2[p].term)'
  <2>1. Has(k, p, k2[p].term) \/ Blocked(Acc, p, k2[p].term)
    BY <1>5 DEF Complete
  <2>2. k2[p].term \in Nat /\ p \in Nat
    BY HistoryEntries DEF Past
  <2> QED
    BY <2>1, <2>2, BlockedStays
<1>6. ASSUME NEW k2 \in K, NEW q \in 1 .. Len(new), NEW p \in 1 .. Len(k2),
             k2[p].term < new[q].term
      PROVE  Has(new, p, k2[p].term) \/ Blocked(Acc2, p, k2[p].term)'
  <2>1. CASE q = N
    BY <1>1, <1>4, <1>6, <2>1
  <2>2. CASE q \in 1 .. Len(l)
    BY <1>1, <1>4, <1>5, <1>6, <2>2
  <2> QED
    BY <1>1, <1>2, <2>1, <2>2
<1>7. ASSUME NEW k \in K, NEW q \in 1 .. Len(k), NEW p \in 1 .. Len(new),
             new[p].term < k[q].term
      PROVE  Has(k, p, new[p].term) \/ Blocked(Acc2, p, new[p].term)'
  <2>1. CASE p = N
    <3>1. new[p] = e /\ k[q].term \in Nat
      BY <1>1, <2>1, HistoryEntries DEF Past
    <3>2. k[q].term > e.term
      BY <1>3, <1>7, <3>1
    <3>3. Blocked(Acc2, N, e.term)'
      BY <3>2 DEF N
    <3> QED
      BY <2>1, <3>1, <3>3
  <2>2. CASE p \in 1 .. Len(l)
    BY <1>1, <1>5, <1>7, <2>2
  <2> QED
    BY <1>1, <1>2, <2>1, <2>2
<1>8. ASSUME NEW q \in 1 .. Len(new), NEW p \in 1 .. Len(new), new[p].term < new[q].term
      PROVE  Has(new, p, new[p].term) \/ Blocked(Acc2, p, new[p].term)'
  BY DEF Has
<1>9. \A k, k2 \in K \cup {new} : \A q \in 1 .. Len(k), p \in 1 .. Len(k2) :
        k2[p].term < k[q].term => Has(k, p, k2[p].term) \/ Blocked(Acc2, p, k2[p].term)'
  BY <1>5, <1>6, <1>7, <1>8
<1> QED
  BY <1>9 DEF Complete, new

-----------------------------------------------------------------------------
(* What is known of the calls, the messages and the answers. *)

\* The log ends with an entry of which a caller learned, of a term up to T.
CommittedLog(k, T) ==
    \E a \in acked : a.entry.term <= T /\ Len(k) = a.index + 1 /\ k[Len(k)] = a.entry

\* n entries have been committed by term T, and the log l has them.
CommitKnown(K, n, T) == n = 0 \/ \E k \in K : CommittedLog(k, T) /\ n <= Len(k)

CommitOK(K, l, n, T) ==
    n = 0 \/ \E k \in K : CommittedLog(k, T) /\ n <= Len(k) /\ n <= Len(l) /\ Agree(l, k, n)

\* Replica j is past term T, or its log is backed for T or has no entry of t at p.
Differs(K, j, T, p, t) ==
    /\ currentTerm[j] >= T
    /\ currentTerm[j] = T => Backed(K, log[j], T) \/ ~ Has(log[j], p, t)

\* Replica j has saved an entry of the term behind the first n - 1, or at n.
Reached(Acc, j, n, t) == \E p \in Nat : p >= n /\ <<j, p, t>> \in Acc

\* What a message says is in the log of its leader and known to be committed there, but that
\* its LeaderCommit may lie behind its entries when it tries again what was refused.
MsgOK(K, Acc, m) ==
    \E k \in K :
        /\ Carries(m, k)
        /\ Backed(K, k, m.term)
        /\ \A i \in Replica : leading[i] /\ currentTerm[i] = m.term => i = m.from /\ Begins(k, log[i])
        /\ CommitKnown(K, m.leaderCommit + 1, m.term)
        /\ \/ m.leaderCommit < Len(k)
           \/ /\ Len(m.entries) >= 1
              /\ Differs(K, m.to, m.term, m.prevLogIndex + 2, k[m.prevLogIndex + 2].term)
        /\ m.call # None /\ ~ IsLate(calls[m.call]) =>
              /\ m.term = calls[m.call].term
              /\ Len(k) > calls[m.call].upper
              /\ m.prevLogIndex > calls[m.call].upper =>
                    Reached(Acc, m.to, m.prevLogIndex + 1, m.term)

\* What an answer in the term of its call says holds.
AnswerOK(K, Acc, a) ==
    LET call == calls[a.call]
    IN  ~ IsLate(call) /\ a.term <= call.term =>
            /\ a.success =>
                  /\ <<a.to, call.upper + 1, call.term>> \in Acc
                  /\ call.entry # None => <<a.to, call.index + 1, call.term>> \in Acc
            /\ ~ a.success =>
                  /\ a.prevLogIndex \in 0 .. call.upper
                  /\ Differs(K, a.to, call.term, a.prevLogIndex + 1,
                             log[a.from][a.prevLogIndex + 1].term)

\* A call is for the entries up to the last one of its term, which is committed when
\* LeaderCommit is at it.
CallOK(K, c) ==
    LET call == calls[c]
        i == call.from
    IN  /\ call.term <= currentTerm[i]
        /\ Backed(K, log[i], call.term)
        /\ call.upper >= 0
        /\ call.leaderCommit <= call.upper
        /\ CommitKnown(K, call.leaderCommit + 1, call.term)
        /\ \A j \in Replica : leading[j] /\ currentTerm[j] = call.term => j = i
        /\ leading[i] /\ currentTerm[i] # call.term => log[i][call.upper + 1].term # currentTerm[i]
        /\ ~ IsLate(call) =>
              /\ log[i][call.upper + 1].term = call.term
              /\ call.entry # None => /\ call.index >= 0
                                      /\ log[i][call.index + 1] = call.entry
                                      /\ call.entry.term = call.term

\* The successes of a call are other replicas that saved the entry, each counted once.
Counted(Acc, c) ==
    LET call == calls[c]
    IN  /\ call.verdict = "won" => WriteQuorum(call.successes)
        /\ ~ IsLate(call) /\ call.entry # None =>
              \E S \in SUBSET Peers(call.from) :
                  /\ Cardinality(S) + 1 = call.successes
                  /\ \A g \in starts \cup sent \cup answers : g.call = c => g.to \notin S
                  /\ \A j \in S : <<j, call.index + 1, call.term>> \in Acc

\* A call whose caller has not learned of it is for an entry that no other call is for, and
\* of which nobody has learned.
Fresh(c) ==
    ~ IsLate(calls[c]) /\ calls[c].entry # None =>
        /\ calls[c].verdict # "told" =>
              \A a \in acked : a.entry.term = calls[c].term => a.index # calls[c].index
        /\ \A d \in Call \ {c} :
              calls[d] # Idle /\ ~ IsLate(calls[d]) /\ calls[d].entry # None
                 /\ calls[d].from = calls[c].from => calls[d].index # calls[c].index

CallsOK(K, Acc) ==
    \A c \in Call : calls[c] # Idle => CallOK(K, c) /\ Counted(Acc, c) /\ Fresh(c)

\* A call has one goroutine for a peer.
OneEach ==
    /\ \A g \in starts, h \in sent : g.call = h.call => g.to # h.to
    /\ \A g \in starts, h \in answers : g.call = h.call => g.to # h.to
    /\ \A g \in sent, h \in answers : g.call = h.call => g.to # h.to
    /\ \A g, h \in sent : g.call # None /\ g.call = h.call /\ g.to = h.to => g = h
    /\ \A g, h \in answers : g.call = h.call /\ g.to = h.to => g = h

\* A majority has what somebody learned of.
AckedOK(K, Acc) ==
    \A a \in acked :
        /\ \E M \in SUBSET Replica :
              Majority(M) /\ \A j \in M : <<j, a.index + 1, a.entry.term>> \in Acc
        /\ \E k \in K : a.index + 1 <= Len(k) /\ k[a.index + 1] = a.entry

CommitsOK(K) ==
    \A i \in Replica :
        /\ CommitOK(K, log[i], commitIndex[i] + 1, currentTerm[i])
        /\ CommitOK(K, disk[i].log, disk[i].commitIndex + 1, currentTerm[i])

AckedIn(t) == {a.index : a \in {b \in acked : b.entry.term = t}}

\* A leader has moved its commitIndex no more often than callers learned of an entry of its
\* term, from somewhere before the first of them.
CountsOK ==
    \A i \in Replica : leading[i] =>
        \E n \in 0 .. Len(log[i]) :
            /\ \A p \in 1 .. Len(log[i]) : p <= n <=> log[i][p].term # currentTerm[i]
            /\ commitIndex[i] + 1 <= n + Cardinality(AckedIn(currentTerm[i]))

\* nextIndex is behind an entry of the leader's term only when the peer has saved it.
NextOK(Acc) ==
    \A i \in Replica : leading[i] =>
        /\ nextIndex[i] # None
        /\ \A j \in Peers(i) :
              /\ nextIndex[i][j] \in 1 .. Len(log[i])
              /\ log[i][nextIndex[i][j]].term = currentTerm[i]
              => Reached(Acc, j, nextIndex[i][j], currentTerm[i])

Present(K, Acc) ==
    /\ FilesSaved
    /\ Points(K, Acc)
    /\ Complete(K, Acc)
    /\ CallsOK(K, Acc)
    /\ OneEach
    /\ \A m \in sent : MsgOK(K, Acc, m)
    /\ \A a \in answers : AnswerOK(K, Acc, a)
    /\ AckedOK(K, Acc)
    /\ CommitsOK(K)
    /\ CountsOK
    /\ NextOK(Acc)

-----------------------------------------------------------------------------
(* What steps do to the replicas. *)

\* A step that leaves the logs alone but for saving some.
LEMMA QuietMoves ==
    ASSUME Shapes, NEW K, FilesSaved, log' = log,
           \A j \in Replica :
              \/ /\ currentTerm'[j] = currentTerm[j] /\ leading'[j] = leading[j]
                 /\ disk'[j].log = disk[j].log \/ disk'[j].log = log[j]
              \/ currentTerm'[j] >= currentTerm[j] /\ ~ leading'[j] /\ disk'[j].log = log[j]
    PROVE  Moves(K)
<1> SUFFICES ASSUME NEW j \in Replica
             PROVE  /\ currentTerm'[j] >= currentTerm[j]
                    /\ leading'[j] \/ disk'[j].log = log'[j]
                    /\ disk'[j].log = disk[j].log \/ disk'[j].log = log'[j]
                    /\ leading'[j] => leading[j] /\ currentTerm'[j] = currentTerm[j]
  BY DEF Moves
<1>1. currentTerm[j] >= currentTerm[j]
  BY CurrentTermIsNat
<1>2. leading[j] \/ disk[j].log = log[j]
  BY DEF FilesSaved
<1> QED
  BY <1>1, <1>2

LEMMA SameMoves ==
    ASSUME Shapes, NEW K, FilesSaved, UNCHANGED <<currentTerm, leading, log, disk>>
    PROVE  Moves(K)
BY QuietMoves

LEMMA ElectionMoves ==
    ASSUME Shapes, VoteShape, NEW K, NEW E, Past(K, E), FilesSaved, Sound',
           NEW i \in Replica, NEW c \in Call, NEW asked \in SUBSET Peers(i),
           ElectionOf(i, asked, c)
    PROVE  Moves(K)
<1> DEFINE t == currentTerm[i] + 1
           entry == [term |-> t, by |-> i, operation |-> NoOp]
<1>1. PICK reached, saved \in SUBSET Replica : Elects(i, c, t, reached, saved)
  BY ElectionNode
<1>11. /\ i \in reached /\ reached \subseteq saved
       /\ \A j \in reached : currentTerm[j] < t
       /\ \A j \in Replica : currentTerm'[j] = IF j \in reached THEN t ELSE currentTerm[j]
       /\ \A j \in Replica : disk'[j] =
             IF j \in saved THEN [log |-> log'[j], commitIndex |-> commitIndex[j]] ELSE disk[j]
       /\ \/ /\ \A j \in Replica : leading'[j] = (j \notin reached /\ leading[j])
             /\ log' = log
          \/ /\ \A j \in Replica : leading'[j] = IF j \in reached THEN j = i ELSE leading[j]
             /\ log' = [log EXCEPT ![i] = Append(log[i], entry)]
             /\ \E M \in SUBSET Replica : Majority(M) /\ \A j \in M : MayVote(j, t)
  BY <1>1 DEF Elects
<1>2. t \in Term /\ t \in Nat /\ entry \in Entry
  BY ElectionNode, TermIsNat DEF Entry
<1> HIDE DEF t, entry
<1>3. \A j \in Replica : currentTerm[j] \in Nat
  BY CurrentTermIsNat
<1>4. \A j \in Replica : disk'[j].log = IF j \in saved THEN log'[j] ELSE disk[j].log
  <2> SUFFICES ASSUME NEW j \in Replica
               PROVE  disk'[j].log = IF j \in saved THEN log'[j] ELSE disk[j].log
    OBVIOUS
  <2>1. disk'[j] = IF j \in saved THEN [log |-> log'[j], commitIndex |-> commitIndex[j]] ELSE disk[j]
    BY <1>11
  <2> QED
    BY <2>1
<1>5. \A j \in Replica : j \notin reached => log'[j] = log[j] /\ leading'[j] = leading[j]
  BY <1>11 DEF Shapes, NodeTypes
<1>6. \A j \in Replica : currentTerm'[j] >= currentTerm[j]
  BY <1>11, <1>2, <1>3
<1>7. \A j \in Replica : leading'[j] \/ disk'[j].log = log'[j]
  BY <1>11, <1>4, <1>5 DEF FilesSaved
<1>8. \A j \in Replica : log'[j] = log[j] \/ (leading'[j] /\ Begins(log[j], log'[j]))
  <2>1. CASE log' = log
    BY <2>1
  <2>2. CASE /\ \A j \in Replica : leading'[j] = IF j \in reached THEN j = i ELSE leading[j]
             /\ log' = [log EXCEPT ![i] = Append(log[i], entry)]
    <3>1. leading'[i]
      BY <1>11, <2>2
    <3>2. log'[i] = Append(log[i], entry) /\ log[i] \in Seq(Entry)
      BY <2>2 DEF Shapes, NodeTypes
    <3>3. Begins(log[i], log'[i])
      BY <1>2, <3>2, Appended DEF Begins, Agree
    <3> QED
      BY <2>2, <3>1, <3>3
  <2> QED
    BY <1>11, <2>1, <2>2
<1>9. ASSUME NEW j \in Replica, leading'[j]
      PROVE  \/ leading[j] /\ currentTerm'[j] = currentTerm[j]
             \/ /\ currentTerm'[j] > currentTerm[j]
                /\ \A k \in K : \A q \in 1 .. Len(k) : k[q].term < currentTerm'[j]
  <2>1. CASE j \notin reached
    BY <1>11, <1>5, <1>9, <2>1
  <2>2. CASE j \in reached
    <3>1. PICK M \in SUBSET Replica : Majority(M) /\ \A h \in M : MayVote(h, t)
      BY <1>11, <1>9, <2>2
    <3>3. \A k \in K : \A q \in 1 .. Len(k) : k[q].term < t
      BY <1>2, <3>1, TermIsNew
    <3>4. currentTerm'[j] = t /\ currentTerm[j] < t /\ currentTerm[j] \in Nat
      BY <1>11, <1>3, <2>2
    <3> QED
      BY <3>3, <3>4
  <2> QED
    BY <2>1, <2>2
<1> QED
  BY <1>4, <1>6, <1>7, <1>8, <1>9 DEF Moves

LEMMA WriteMoves ==
    ASSUME Shapes, NEW K, FilesSaved, NEW i \in Replica, NEW c \in Call, WriteCommand(i, c),
           leading[i]
    PROVE  Moves(K)
<1> DEFINE entry == [term |-> currentTerm[i], by |-> i, operation |-> Write]
<1>1. /\ log' = [log EXCEPT ![i] = Append(log[i], entry)]
      /\ UNCHANGED <<currentTerm, leading, disk>>
  BY DEF WriteCommand, electionVars
<1>2. entry \in Entry /\ log[i] \in Seq(Entry)
  BY DEF Shapes, NodeTypes, Entry
<1> HIDE DEF entry
<1>3. Begins(log[i], log'[i]) /\ \A j \in Replica : j # i => log'[j] = log[j]
  BY <1>1, <1>2, Appended DEF Begins, Agree, Shapes, NodeTypes
<1>4. \A j \in Replica : currentTerm'[j] >= currentTerm[j]
  BY <1>1, CurrentTermIsNat
<1> QED
  BY <1>1, <1>3, <1>4 DEF Moves, FilesSaved

LEMMA RebootMoves ==
    ASSUME Shapes, NEW K, FilesSaved, NEW i \in Replica, Reboot(i)
    PROVE  Moves(K)
<1>1. /\ leading' = [leading EXCEPT ![i] = FALSE]
      /\ log' = [log EXCEPT ![i] = disk[i].log]
      /\ UNCHANGED <<currentTerm, disk>>
  BY DEF Reboot, Restart
<1>2. /\ ~ leading'[i] /\ log'[i] = disk[i].log
      /\ \A j \in Replica : j # i => log'[j] = log[j] /\ leading'[j] = leading[j]
  BY <1>1 DEF Shapes, NodeTypes
<1>3. \A j \in Replica : currentTerm'[j] >= currentTerm[j]
  BY <1>1, CurrentTermIsNat
<1> QED
  BY <1>1, <1>2, <1>3 DEF Moves, FilesSaved

LEMMA AppendEntriesMoves ==
    ASSUME Shapes, NEW K, NEW E, Past(K, E), FilesSaved, NEW m \in sent, AppendEntries(m), Sound',
           NEW Acc, MsgOK(K, Acc, m)
    PROVE  Moves(K)
<1> DEFINE j == m.to
           merged == MergedLog(log[j], m.prevLogIndex, m.entries)
<1>1. /\ j \in Replica /\ m.term \in Term /\ m.term >= currentTerm[j]
      /\ m.term > currentTerm[j] \/ ~ leading[j]
      /\ currentTerm' = [currentTerm EXCEPT ![j] = m.term]
      /\ leading' = [leading EXCEPT ![j] = FALSE]
      /\ log' = [log EXCEPT ![j] = IF Matches(m) THEN merged ELSE log[j]]
      /\ \A h \in Replica : disk'[h] =
            IF h = j /\ (m.term > currentTerm[j] \/ candidate[j] \/ Matches(m))
            THEN [log |-> log'[h], commitIndex |-> commitIndex'[h]] ELSE disk[h]
  BY AppendEntriesNode
<1>2. PICK k \in K :
        /\ Carries(m, k)
        /\ Backed(K, k, m.term)
        /\ \A i \in Replica : leading[i] /\ currentTerm[i] = m.term => Begins(k, log[i])
  BY DEF MsgOK
<1>3. Matches(m) => \/ merged = log[j]
                    \/ merged = k /\ Len(merged) >= Len(log[j])
  BY <1>2, AppendEntriesMerges
<1> HIDE DEF merged, j
<1>4. \A h \in Replica : h # j =>
        /\ currentTerm'[h] = currentTerm[h] /\ leading'[h] = leading[h] /\ log'[h] = log[h]
        /\ disk'[h] = disk[h]
  BY <1>1 DEF Shapes, NodeTypes
<1>5. /\ currentTerm'[j] = m.term /\ ~ leading'[j]
      /\ log'[j] = IF Matches(m) THEN merged ELSE log[j]
  BY <1>1 DEF Shapes, NodeTypes
<1>6. disk'[j].log =
         IF m.term > currentTerm[j] \/ candidate[j] \/ Matches(m) THEN log'[j] ELSE disk[j].log
  <2>1. disk'[j] = IF m.term > currentTerm[j] \/ candidate[j] \/ Matches(m)
                   THEN [log |-> log'[j], commitIndex |-> commitIndex'[j]] ELSE disk[j]
    BY <1>1
  <2> QED
    BY <2>1
<1>7. disk'[j].log = log'[j]
  BY <1>1, <1>5, <1>6 DEF FilesSaved
<1>8. log'[j] = log[j] \/ Overwritten(K, j)
  BY <1>2, <1>3, <1>5 DEF Overwritten
<1>9. \A h \in Replica : currentTerm'[h] >= currentTerm[h]
  BY <1>1, <1>4, <1>5, CurrentTermIsNat
<1> QED
  BY <1>4, <1>5, <1>7, <1>8, <1>9 DEF Moves, FilesSaved

-----------------------------------------------------------------------------
(* What stays true whatever the step. *)

\* A step of the past and what is known in it, and the past after it.
Follows(K, E, Acc, K2, E2, Acc2) ==
    /\ Shapes /\ Shapes'
    /\ Past(K, E) /\ Past(K2, E2)'
    /\ Present(K, Acc)
    /\ K \subseteq K2
    /\ Moves(K)
    /\ Accepted(Acc, Acc2)
    /\ acked \subseteq acked'

LEMMA FollowsTypes ==
    ASSUME NEW K, NEW E, NEW Acc, NEW K2, NEW E2, NEW Acc2, Follows(K, E, Acc, K2, E2, Acc2),
           NEW j \in Replica
    PROVE  /\ log[j] \in Seq(Entry) /\ Len(log[j]) \in Nat /\ log[j] \in K
           /\ log'[j] \in Seq(Entry) /\ Len(log'[j]) \in Nat /\ log'[j] \in K2
           /\ currentTerm[j] \in Nat /\ currentTerm'[j] \in Nat
           /\ currentTerm'[j] >= currentTerm[j]
           /\ commitIndex[j] \in Int /\ commitIndex[j] + 1 \in Nat
           /\ History(K, E) /\ History(K2, E2)
<1>1. commitIndex[j] \in Int /\ commitIndex[j] >= -1
  BY DEF Follows, Shapes, NodeTypes, CommitIndex
<1>2. log'[j] \in K2 /\ History(K2, E2)
  BY DEF Follows, Past, Held, History
<1>3. commitIndex[j] + 1 \in Nat
  BY <1>1
<1>4. Shapes /\ Shapes' /\ log[j] \in K /\ History(K, E) /\ currentTerm'[j] >= currentTerm[j]
  BY DEF Follows, Past, Held, Moves
<1>5. /\ log[j] \in Seq(Entry) /\ log'[j] \in Seq(Entry)
      /\ currentTerm[j] \in Term /\ currentTerm'[j] \in Term
  BY <1>4 DEF Shapes, NodeTypes
<1> QED
  BY <1>1, <1>2, <1>3, <1>4, <1>5, LenProperties, TermIsNat

\* Points are not taken back.
LEMMA AcceptedStays ==
    ASSUME NEW K, NEW E, NEW Acc, NEW K2, NEW E2, NEW Acc2, Follows(K, E, Acc, K2, E2, Acc2)
    PROVE  /\ \A j \in Replica, p, t \in Nat : <<j, p, t>> \in Acc => <<j, p, t>> \in Acc2
           /\ \A j \in Replica, n \in Int, t \in Nat : Reached(Acc, j, n, t) => Reached(Acc2, j, n, t)
BY DEF Follows, Accepted, Reached

\* Who leads in the term of a backed log led in it before.
LEMMA LedBefore ==
    ASSUME NEW K, NEW E, NEW Acc, NEW K2, NEW E2, NEW Acc2, Follows(K, E, Acc, K2, E2, Acc2),
           NEW i \in Replica, NEW l, NEW T \in Nat, Backed(K, l, T),
           leading'[i], currentTerm'[i] = T
    PROVE  leading[i] /\ currentTerm[i] = T
<1>1. currentTerm'[i] \in Nat /\ History(K, E)
  BY FollowsTypes
<1>2. CASE \A k \in K : \A q \in 1 .. Len(k) : k[q].term < currentTerm'[i]
  <2>1. \A k \in K : \A q \in 1 .. Len(k) : k[q].term < T
    BY <1>2
  <2>2. T < T
    BY <1>1, <2>1, BackedTerm
  <2> QED
    BY <2>2
<1> QED
  BY <1>2 DEF Follows, Moves

\* The log of a leader is not cut.
LEMMA LeaderKeeps ==
    ASSUME NEW K, NEW E, NEW Acc, NEW K2, NEW E2, NEW Acc2, Follows(K, E, Acc, K2, E2, Acc2),
           NEW i \in Replica, leading'[i] \/ log'[i] = log[i]
    PROVE  /\ Begins(log[i], log'[i]) /\ Len(log[i]) <= Len(log'[i])
           /\ \A p \in 1 .. Len(log[i]) : p \in 1 .. Len(log'[i]) /\ log'[i][p] = log[i][p]
<1>1. Len(log[i]) \in Nat /\ Len(log'[i]) \in Nat
  BY FollowsTypes
<1>2. log'[i] = log[i] \/ Begins(log[i], log'[i])
  BY DEF Follows, Moves
<1> QED
  BY <1>1, <1>2 DEF Begins, Agree

LEMMA CommitKnownStays ==
    ASSUME NEW K, NEW E, NEW Acc, NEW K2, NEW E2, NEW Acc2, Follows(K, E, Acc, K2, E2, Acc2),
           NEW n, NEW T \in Nat
    PROVE  CommitKnown(K, n, T) => CommitKnown(K2, n, T)'
BY DEF Follows, CommitKnown, CommittedLog

\* A log goes on to begin like a committed one.
LEMMA CommitStays ==
    ASSUME NEW K, NEW E, NEW Acc, NEW K2, NEW E2, NEW Acc2, Follows(K, E, Acc, K2, E2, Acc2),
           NEW l \in Seq(Entry), NEW l2 \in Seq(Entry), NEW n \in Nat,
           Begins(l, l2) \/ (n <= Len(l2) /\ Agree(l, l2, n)),
           NEW T \in Nat, NEW T2 \in Nat, T <= T2, CommitOK(K, l, n, T)
    PROVE  CommitOK(K2, l2, n, T2)'
<1>1. CASE n = 0
  BY <1>1 DEF CommitOK
<1>2. CASE \E k \in K : CommittedLog(k, T) /\ n <= Len(k) /\ n <= Len(l) /\ Agree(l, k, n)
  <2>1. PICK k \in K : CommittedLog(k, T) /\ n <= Len(k) /\ n <= Len(l) /\ Agree(l, k, n)
    BY <1>2
  <2>2. Len(l) \in Nat /\ Len(l2) \in Nat
    BY LenProperties
  <2>3. \A r \in 1 .. n : r \in 1 .. Len(l)
    BY <2>1, <2>2
  <2>4. n <= Len(l2) /\ Agree(l2, k, n)
    BY <2>1, <2>2, <2>3 DEF Begins, Agree
  <2>5. k \in K2 /\ CommittedLog(k, T2)'
    <3>1. acked \subseteq [index : Nat, entry : Entry] /\ acked \subseteq acked' /\ K \subseteq K2
      BY DEF Follows, Shapes, NodeTypes
    <3>2. PICK a \in acked : a.entry.term <= T /\ Len(k) = a.index + 1 /\ k[Len(k)] = a.entry
      BY <2>1 DEF CommittedLog
    <3>3. a.entry.term \in Nat
      BY <3>1, TermIsNat DEF Entry
    <3>4. a.entry.term <= T2
      BY <3>2, <3>3
    <3> QED
      BY <3>1, <3>2, <3>4 DEF CommittedLog
  <2> QED
    BY <2>1, <2>4, <2>5 DEF CommitOK
<1> QED
  BY <1>1, <1>2 DEF CommitOK

\* Replica j, which does not lead term T, goes on to differ or to have a backed log.
LEMMA DiffersStays ==
    ASSUME NEW K, NEW E, NEW Acc, NEW K2, NEW E2, NEW Acc2, Follows(K, E, Acc, K2, E2, Acc2),
           NEW j \in Replica, NEW T \in Nat, NEW p, NEW t, Differs(K, j, T, p, t),
           ~ (leading[j] /\ currentTerm[j] = T)
    PROVE  Differs(K2, j, T, p, t)'
<1>1. /\ log[j] \in Seq(Entry) /\ log'[j] \in Seq(Entry) /\ Len(log'[j]) \in Nat
      /\ currentTerm[j] \in Nat /\ currentTerm'[j] \in Nat
      /\ currentTerm'[j] >= currentTerm[j] /\ currentTerm[j] >= T
  BY FollowsTypes DEF Differs
<1>2. currentTerm'[j] >= T /\ T <= T
  BY <1>1
<1> SUFFICES ASSUME currentTerm'[j] = T PROVE Backed(K2, log'[j], T) \/ ~ Has(log'[j], p, t)
  BY <1>2 DEF Differs
<1>3. currentTerm[j] = T
  BY <1>1
<1>4. ~ leading[j] /\ (Backed(K, log[j], T) \/ ~ Has(log[j], p, t))
  BY <1>3 DEF Differs
<1>5. /\ History(K, E) /\ K \subseteq K2 /\ Shapes' /\ Past(K2, E2)' /\ FilesSaved
  BY DEF Follows, Past, Present
<1>6. CASE log'[j] = log[j] \/ log'[j] = disk[j].log
  <2>1. log'[j] = log[j]
    BY <1>4, <1>5, <1>6 DEF FilesSaved
  <2>2. ASSUME Backed(K, log[j], T) PROVE Backed(K2, log[j], T)
    <3>1. Begins(log[j], log[j])
      BY <1>1, LenProperties DEF Begins, Agree
    <3> QED
      BY <1>1, <1>2, <1>5, <2>2, <3>1, BackedStays
  <2> QED
    BY <1>4, <2>1, <2>2
<1>7. CASE leading'[j]
  <2>1. log'[j] \in K2 /\ Len(log'[j]) >= 1 /\ log'[j][Len(log'[j])].term = currentTerm'[j]
    BY <1>5, <1>7 DEF Past, LeaderLog, Held
  <2>2. Begins(log'[j], log'[j])
    BY <1>1 DEF Begins, Agree
  <2> QED
    BY <1>1, <2>1, <2>2 DEF Backed
<1>8. CASE Overwritten(K, j)
  <2>1. Backed(K, log'[j], T)
    BY <1>8 DEF Overwritten
  <2> QED
    BY <1>5, <2>1 DEF Backed
<1> QED
  BY <1>6, <1>7, <1>8 DEF Follows, Moves

\* What a call is about is kept.
SameCall(c) ==
    /\ calls'[c].from = calls[c].from
    /\ calls'[c].entry = calls[c].entry
    /\ calls'[c].term = calls[c].term
    /\ calls'[c].leaderCommit = calls[c].leaderCommit
    /\ calls'[c].index = calls[c].index
    /\ calls'[c].upper = calls[c].upper

\* The process of the replica goes on.
Lives(K, i) == leading'[i] \/ log'[i] = log[i] \/ Overwritten(K, i)

LEMMA CallTypes ==
    ASSUME Shapes, NEW c \in Call, calls[c] # Idle
    PROVE  /\ calls[c] \in CallRecord /\ calls[c].from \in Replica
           /\ calls[c].term \in Term /\ calls[c].term \in Nat
           /\ calls[c].upper \in Int /\ calls[c].index \in Int /\ calls[c].leaderCommit \in Int
           /\ calls[c].upper < Len(log[calls[c].from])
           /\ calls[c].index <= calls[c].upper
           /\ calls[c].entry \in Entry \cup {None}
           /\ calls[c].entry # None => calls[c].index >= 0
<1>1. CallShape(c)
  BY DEF Shapes, FlightShapes
<1>2. calls[c] \in CallRecord /\ CallInLog(c)
  BY <1>1 DEF CallShape
<1> QED
  BY <1>2, TermIsNat DEF CallRecord, CallInLog

\* What is late stays late.
LEMMA NotLateBefore ==
    ASSUME NEW K, NEW E, NEW Acc, NEW K2, NEW E2, NEW Acc2, Follows(K, E, Acc, K2, E2, Acc2),
           NEW c \in Call, calls[c] # Idle, SameCall(c), ~ IsLate(calls[c])'
    PROVE  /\ ~ IsLate(calls[c])
           /\ leading[calls[c].from] /\ currentTerm[calls[c].from] = calls[c].term
           /\ leading'[calls[c].from] /\ currentTerm'[calls[c].from] = calls[c].term
<1> DEFINE i == calls[c].from
           T == calls[c].term
<1>1. i \in Replica /\ T \in Nat
  BY CallTypes DEF Follows
<1>2. leading'[i] /\ currentTerm'[i] = T
  BY DEF IsLate, SameCall
<1>3. Backed(K, log[i], T)
  BY DEF Follows, Present, CallsOK, CallOK
<1> HIDE DEF i, T
<1>4. leading[i] /\ currentTerm[i] = T
  BY <1>1, <1>2, <1>3, LedBefore
<1> QED
  BY <1>2, <1>4 DEF i, T, IsLate

LEMMA CallOKStays ==
    ASSUME NEW K, NEW E, NEW Acc, NEW K2, NEW E2, NEW Acc2, Follows(K, E, Acc, K2, E2, Acc2),
           NEW c \in Call, calls[c] # Idle, SameCall(c), Lives(K, calls[c].from)
    PROVE  CallOK(K2, c)'
<1> SUFFICES ASSUME NEW i, i = calls[c].from, NEW T, T = calls[c].term,
                    NEW u, u = calls[c].upper, NEW n, n = calls[c].leaderCommit
             PROVE  CallOK(K2, c)'
  OBVIOUS
<1>1. /\ i \in Replica /\ T \in Nat /\ u \in Int /\ u < Len(log[i]) /\ calls[c].index <= u
      /\ calls[c].index \in Int
  BY CallTypes DEF Follows
<1>2. CallOK(K, c)
  BY DEF Follows, Present, CallsOK
<1>3. /\ calls'[c].from = i /\ calls'[c].term = T /\ calls'[c].upper = u
      /\ calls'[c].leaderCommit = n
      /\ calls'[c].index = calls[c].index /\ calls'[c].entry = calls[c].entry
  BY DEF SameCall
<1>4. /\ T <= currentTerm[i] /\ Backed(K, log[i], T) /\ u >= 0
      /\ CommitKnown(K, n + 1, T)
      /\ \A j \in Replica : leading[j] /\ currentTerm[j] = T => j = i
      /\ leading[i] /\ currentTerm[i] # T => log[i][u + 1].term # currentTerm[i]
  BY <1>2 DEF CallOK
<1>5. ~ IsLate(calls[c]) =>
        /\ log[i][u + 1].term = T
        /\ calls[c].entry # None => /\ calls[c].index >= 0
                                    /\ log[i][calls[c].index + 1] = calls[c].entry
                                    /\ calls[c].entry.term = T
  BY <1>2 DEF CallOK
<1>6. ~ IsLate(calls[c])' => ~ IsLate(calls[c]) /\ leading'[i]
  BY NotLateBefore
<1>7. n <= u
  BY <1>2 DEF CallOK
<1>8. Lives(K, i)
  OBVIOUS
<1>9. /\ log[i] \in Seq(Entry) /\ Len(log[i]) \in Nat /\ log'[i] \in Seq(Entry)
      /\ currentTerm[i] \in Nat /\ currentTerm'[i] \in Nat /\ currentTerm'[i] >= currentTerm[i]
      /\ History(K, E) /\ History(K2, E2)
  BY <1>1, FollowsTypes
<1>10. T <= currentTerm'[i]
  BY <1>1, <1>4, <1>9
<1>11. Backed(K2, log'[i], T)
  <2>1. CASE log'[i] = log[i]
    <3>1. Begins(log[i], log[i]) /\ T <= T /\ K \subseteq K2
      BY <1>1, <1>9 DEF Begins, Agree, Follows
    <3> QED
      BY <1>1, <1>4, <1>9, <2>1, <3>1, BackedStays
  <2>2. CASE leading'[i]
    <3>1. log'[i] \in K2 /\ Len(log'[i]) >= 1 /\ log'[i][Len(log'[i])].term = currentTerm'[i]
      BY <1>1, <2>2 DEF Follows, Past, LeaderLog, Held
    <3>2. Begins(log'[i], log'[i])
      BY <1>9, LenProperties DEF Begins, Agree
    <3>3. log'[i][Len(log'[i])].term >= T
      BY <1>1, <1>9, <1>10, <3>1
    <3> QED
      BY <3>1, <3>2, <3>3 DEF Backed
  <2>3. CASE Overwritten(K, i)
    <3>1. Backed(K, log'[i], currentTerm'[i]) /\ K \subseteq K2
      BY <2>3 DEF Overwritten, Follows
    <3>2. Begins(log'[i], log'[i])
      BY <1>9, LenProperties DEF Begins, Agree
    <3> QED
      BY <1>1, <1>9, <1>10, <3>1, <3>2, BackedStays
  <2> QED
    BY <1>8, <2>1, <2>2, <2>3 DEF Lives
<1>12. CommitKnown(K2, n + 1, T)'
  BY <1>1, <1>4, CommitKnownStays
<1>13. \A j \in Replica : leading'[j] /\ currentTerm'[j] = T => j = i
  BY <1>1, <1>4, LedBefore
<1>14. leading'[i] => \A p \in 1 .. Len(log[i]) : log'[i][p] = log[i][p]
  BY <1>1, LeaderKeeps
<1>15. u + 1 \in 1 .. Len(log[i])
  BY <1>1, <1>4, <1>9
<1>16. leading'[i] /\ currentTerm'[i] # T => log'[i][u + 1].term # currentTerm'[i]
  <2> SUFFICES ASSUME leading'[i], currentTerm'[i] # T
               PROVE  log[i][u + 1].term # currentTerm'[i]
    BY <1>14, <1>15
  <2>1. CASE leading[i] /\ currentTerm'[i] = currentTerm[i]
    BY <1>4, <2>1
  <2>2. CASE \A k \in K : \A q \in 1 .. Len(k) : k[q].term < currentTerm'[i]
    <3>1. log[i] \in K
      BY <1>1, FollowsTypes
    <3>2. log[i][u + 1].term < currentTerm'[i] /\ log[i][u + 1].term \in Nat
      BY <1>9, <1>15, <2>2, <3>1, HistoryEntries
    <3> QED
      BY <1>9, <3>2
  <2> QED
    BY <1>1, <2>1, <2>2 DEF Follows, Moves
<1>17. ~ IsLate(calls[c])' =>
         /\ log'[i][u + 1].term = T
         /\ calls[c].entry # None => /\ calls[c].index >= 0
                                     /\ log'[i][calls[c].index + 1] = calls[c].entry
                                     /\ calls[c].entry.term = T
  <2> SUFFICES ASSUME ~ IsLate(calls[c])'
               PROVE  /\ log'[i][u + 1].term = T
                      /\ calls[c].entry # None => /\ calls[c].index >= 0
                                                  /\ log'[i][calls[c].index + 1] = calls[c].entry
                                                  /\ calls[c].entry.term = T
    OBVIOUS
  <2>1. ~ IsLate(calls[c]) /\ leading'[i]
    BY <1>6
  <2>2. calls[c].index >= 0 => calls[c].index + 1 \in 1 .. Len(log[i])
    BY <1>1, <1>9
  <2> QED
    BY <1>5, <1>14, <1>15, <2>1, <2>2
<1>18. CallOK(K2, c)' <=>
         /\ T <= currentTerm'[i]
         /\ Backed(K2, log'[i], T)
         /\ u >= 0
         /\ n <= u
         /\ CommitKnown(K2, n + 1, T)'
         /\ \A j \in Replica : leading'[j] /\ currentTerm'[j] = T => j = i
         /\ leading'[i] /\ currentTerm'[i] # T => log'[i][u + 1].term # currentTerm'[i]
         /\ ~ IsLate(calls[c])' =>
               /\ log'[i][u + 1].term = T
               /\ calls[c].entry # None => /\ calls[c].index >= 0
                                           /\ log'[i][calls[c].index + 1] = calls[c].entry
                                           /\ calls[c].entry.term = T
  BY <1>3 DEF CallOK, CommitKnown, CommittedLog
<1> QED
  BY <1>4, <1>7, <1>10, <1>11, <1>12, <1>13, <1>16, <1>17, <1>18

\* What a message says stays true.
LEMMA MsgOKStays ==
    ASSUME NEW K, NEW E, NEW Acc, NEW K2, NEW E2, NEW Acc2, Follows(K, E, Acc, K2, E2, Acc2),
           NEW m \in MessageRecord, m.to # m.from, MsgOK(K, Acc, m),
           m.call # None => calls[m.call] # Idle /\ SameCall(m.call)
    PROVE  MsgOK(K2, Acc2, m)'
<1>1. PICK k \in K :
        /\ Carries(m, k)
        /\ Backed(K, k, m.term)
        /\ \A i \in Replica : leading[i] /\ currentTerm[i] = m.term => i = m.from /\ Begins(k, log[i])
        /\ CommitKnown(K, m.leaderCommit + 1, m.term)
        /\ \/ m.leaderCommit < Len(k)
           \/ /\ Len(m.entries) >= 1
              /\ Differs(K, m.to, m.term, m.prevLogIndex + 2, k[m.prevLogIndex + 2].term)
        /\ m.call # None /\ ~ IsLate(calls[m.call]) =>
              /\ m.term = calls[m.call].term
              /\ Len(k) > calls[m.call].upper
              /\ m.prevLogIndex > calls[m.call].upper =>
                    Reached(Acc, m.to, m.prevLogIndex + 1, m.term)
  BY DEF MsgOK
<1>2. /\ m.term \in Nat /\ m.to \in Replica /\ m.from \in Replica /\ m.prevLogIndex \in Int
      /\ m.call # None => m.call \in Call
  BY TermIsNat DEF MessageRecord
<1>3. k \in K2 /\ k \in Seq(Entry) /\ Len(k) \in Nat /\ History(K, E) /\ K \subseteq K2
  BY HistoryEntries DEF Follows, Past
<1>4. Backed(K2, k, m.term)
  <2>1. Begins(k, k) /\ m.term <= m.term
    BY <1>2, <1>3 DEF Begins, Agree
  <2> QED
    BY <1>1, <1>2, <1>3, <2>1, BackedStays
<1>5. ASSUME NEW i \in Replica, leading'[i], currentTerm'[i] = m.term
      PROVE  i = m.from /\ Begins(k, log'[i])
  <2>1. leading[i] /\ currentTerm[i] = m.term
    BY <1>1, <1>2, <1>5, LedBefore
  <2>2. i = m.from /\ Begins(k, log[i])
    BY <1>1, <2>1
  <2>3. /\ Len(log[i]) <= Len(log'[i]) /\ Len(log[i]) \in Nat /\ Len(log'[i]) \in Nat
        /\ \A p \in 1 .. Len(log[i]) : log'[i][p] = log[i][p]
    BY <1>5, LeaderKeeps, FollowsTypes
  <2>4. Len(k) <= Len(log'[i]) /\ \A r \in 1 .. Len(k) : r \in 1 .. Len(log[i])
    BY <1>3, <2>2, <2>3 DEF Begins
  <2> QED
    BY <2>2, <2>3, <2>4 DEF Begins, Agree
<1>6. CommitKnown(K2, m.leaderCommit + 1, m.term)'
  BY <1>1, <1>2, CommitKnownStays
<1>7. ASSUME Len(m.entries) >= 1,
             Differs(K, m.to, m.term, m.prevLogIndex + 2, k[m.prevLogIndex + 2].term)
      PROVE  Differs(K2, m.to, m.term, m.prevLogIndex + 2, k[m.prevLogIndex + 2].term)'
  <2>1. ~ (leading[m.to] /\ currentTerm[m.to] = m.term)
    BY <1>1, <1>2
  <2> QED
    BY <1>2, <1>7, <2>1, DiffersStays
<1>8. ASSUME m.call # None, ~ IsLate(calls[m.call])'
      PROVE  /\ m.term = calls'[m.call].term
             /\ Len(k) > calls'[m.call].upper
             /\ m.prevLogIndex > calls'[m.call].upper =>
                   Reached(Acc2, m.to, m.prevLogIndex + 1, m.term)
  <2>1. ~ IsLate(calls[m.call])
    BY <1>2, <1>8, NotLateBefore
  <2>2. calls'[m.call].term = calls[m.call].term /\ calls'[m.call].upper = calls[m.call].upper
    BY <1>8 DEF SameCall
  <2>3. m.prevLogIndex + 1 \in Int
    BY <1>2
  <2> QED
    BY <1>1, <1>2, <1>8, <2>1, <2>2, <2>3, AcceptedStays
<1> QED
  BY <1>1, <1>3, <1>4, <1>5, <1>6, <1>7, <1>8 DEF MsgOK

\* What an answer says stays true.
LEMMA AnswerOKStays ==
    ASSUME NEW K, NEW E, NEW Acc, NEW K2, NEW E2, NEW Acc2, Follows(K, E, Acc, K2, E2, Acc2),
           NEW a \in answers, SameCall(a.call)
    PROVE  AnswerOK(K2, Acc2, a)'
<1> DEFINE c == a.call
<1> SUFFICES ASSUME NEW i, i = a.from, NEW T, T = calls[c].term, NEW u, u = calls[c].upper,
                    NEW n, n = calls[c].index,
                    ~ IsLate(calls[c])', a.term <= calls'[c].term
             PROVE  /\ a.success =>
                          /\ <<a.to, calls'[c].upper + 1, calls'[c].term>> \in Acc2
                          /\ calls'[c].entry # None =>
                                <<a.to, calls'[c].index + 1, calls'[c].term>> \in Acc2
                    /\ ~ a.success =>
                          /\ a.prevLogIndex \in 0 .. calls'[c].upper
                          /\ Differs(K2, a.to, calls[c].term, a.prevLogIndex + 1,
                                     log[a.from][a.prevLogIndex + 1].term)'
  BY DEF AnswerOK
<1>1. /\ c \in Call /\ i \in Replica /\ a.to \in Replica /\ a.to # i /\ a.prevLogIndex \in Int
      /\ calls[c].from = i /\ a.success \in BOOLEAN
  BY DEF Follows, Shapes, FlightShapes, AnswerShape, AnswerRecord
<1>2. calls[c] # Idle /\ T \in Nat /\ u \in Int /\ u < Len(log[i]) /\ n \in Int
      /\ (calls[c].entry # None => n >= 0)
  BY <1>1, CallTypes, CallIsNotIdle DEF Follows
<1>3. /\ calls'[c].term = T /\ calls'[c].upper = u /\ calls'[c].index = n
      /\ calls'[c].entry = calls[c].entry
  BY DEF SameCall
<1>4. /\ ~ IsLate(calls[c]) /\ leading[i] /\ currentTerm[i] = T
      /\ leading'[i]
  BY <1>1, <1>2, NotLateBefore
<1>5. a.term <= T
  BY <1>3
<1>6. AnswerOK(K, Acc, a) /\ OneLeader /\ CallOK(K, c)
  BY <1>1, <1>2 DEF Follows, Present, Past, CallsOK
<1>7. /\ a.success =>
            /\ <<a.to, u + 1, T>> \in Acc
            /\ calls[c].entry # None => <<a.to, n + 1, T>> \in Acc
      /\ ~ a.success =>
            /\ a.prevLogIndex \in 0 .. u
            /\ Differs(K, a.to, T, a.prevLogIndex + 1, log[i][a.prevLogIndex + 1].term)
  BY <1>4, <1>5, <1>6 DEF AnswerOK
<1>8. u >= 0
  BY <1>6 DEF CallOK
<1> HIDE DEF c
<1>9. a.success => /\ <<a.to, u + 1, T>> \in Acc2
                   /\ calls[c].entry # None => <<a.to, n + 1, T>> \in Acc2
  <2>1. u + 1 \in Nat /\ (calls[c].entry # None => n + 1 \in Nat)
    BY <1>2, <1>8
  <2> QED
    BY <1>1, <1>2, <1>7, <2>1, AcceptedStays
<1>10. ASSUME ~ a.success
       PROVE  Differs(K2, a.to, calls[c].term, a.prevLogIndex + 1, log[i][a.prevLogIndex + 1].term)'
  <2> SUFFICES ASSUME NEW t, t = log[i][a.prevLogIndex + 1].term
               PROVE  Differs(K2, a.to, calls[c].term, a.prevLogIndex + 1, log[i][a.prevLogIndex + 1].term)'
    OBVIOUS
  <2>1. a.prevLogIndex + 1 \in 1 .. Len(log[i]) /\ Len(log[i]) \in Nat
    BY <1>1, <1>2, <1>7, <1>10, FollowsTypes
  <2>2. log'[i][a.prevLogIndex + 1].term = t
    BY <1>1, <1>4, <2>1, LeaderKeeps
  <2>3. ~ (leading[a.to] /\ currentTerm[a.to] = T)
    BY <1>1, <1>4, <1>6 DEF OneLeader
  <2>4. Differs(K2, a.to, T, a.prevLogIndex + 1, t)'
    BY <1>1, <1>2, <1>7, <1>10, <2>3, DiffersStays
  <2> QED
    BY <1>3, <2>2, <2>4 DEF Differs
<1> QED
  BY <1>3, <1>7, <1>9, <1>10

\* A call that counts no more and has the same goroutines or fewer.
LEMMA CountedStays ==
    ASSUME NEW K, NEW E, NEW Acc, NEW K2, NEW E2, NEW Acc2, Follows(K, E, Acc, K2, E2, Acc2),
           NEW c \in Call, calls[c] # Idle, SameCall(c), calls'[c].successes = calls[c].successes,
           calls'[c].verdict = "won" => calls[c].verdict = "won",
           \A g \in starts' \cup sent' \cup answers' : g.call = c =>
              \E h \in starts \cup sent \cup answers : h.call = c /\ h.to = g.to
    PROVE  Counted(Acc2, c)'
<1>1. Counted(Acc, c)
  BY DEF Follows, Present, CallsOK
<1>2. /\ calls[c].from \in Replica /\ calls[c].term \in Nat
      /\ calls[c].entry # None => calls[c].index + 1 \in Nat
  BY CallTypes DEF Follows
<1>3. ~ IsLate(calls[c])' => ~ IsLate(calls[c])
  BY NotLateBefore
<1> SUFFICES ASSUME ~ IsLate(calls[c])', calls[c].entry # None
             PROVE  \E S \in SUBSET Peers(calls[c].from) :
                      /\ Cardinality(S) + 1 = calls[c].successes
                      /\ \A g \in starts' \cup sent' \cup answers' : g.call = c => g.to \notin S
                      /\ \A j \in S : <<j, calls[c].index + 1, calls[c].term>> \in Acc2
  BY <1>1 DEF Counted, Peers, SameCall
<1>4. PICK S \in SUBSET Peers(calls[c].from) :
        /\ Cardinality(S) + 1 = calls[c].successes
        /\ \A g \in starts \cup sent \cup answers : g.call = c => g.to \notin S
        /\ \A j \in S : <<j, calls[c].index + 1, calls[c].term>> \in Acc
  BY <1>1, <1>3 DEF Counted
<1>5. \A j \in S : <<j, calls[c].index + 1, calls[c].term>> \in Acc2
  BY <1>2, <1>4, AcceptedStays DEF Peers
<1>6. \A g \in starts' \cup sent' \cup answers' : g.call = c => g.to \notin S
  BY <1>4
<1> QED
  BY <1>4, <1>5, <1>6

LEMMA AckedOKStays ==
    ASSUME NEW K, NEW E, NEW Acc, NEW K2, NEW E2, NEW Acc2, Follows(K, E, Acc, K2, E2, Acc2),
           NEW a \in acked
    PROVE  /\ \E M \in SUBSET Replica :
                 Majority(M) /\ \A j \in M : <<j, a.index + 1, a.entry.term>> \in Acc2
           /\ \E k \in K2 : a.index + 1 <= Len(k) /\ k[a.index + 1] = a.entry
<1>1. a \in [index : Nat, entry : Entry] /\ AckedOK(K, Acc) /\ K \subseteq K2
  BY DEF Follows, Shapes, NodeTypes, Present
<1>2. a.index + 1 \in Nat /\ a.entry.term \in Nat
  BY <1>1, TermIsNat DEF Entry
<1>3. PICK M \in SUBSET Replica :
        Majority(M) /\ \A j \in M : <<j, a.index + 1, a.entry.term>> \in Acc
  BY <1>1 DEF AckedOK
<1>4. \A j \in M : <<j, a.index + 1, a.entry.term>> \in Acc2
  BY <1>2, <1>3, AcceptedStays
<1> QED
  BY <1>1, <1>3, <1>4 DEF AckedOK

\* A call goes on to be for an entry of its own.
LEMMA FreshStays ==
    ASSUME NEW K, NEW E, NEW Acc, NEW K2, NEW E2, NEW Acc2, Follows(K, E, Acc, K2, E2, Acc2),
           NEW c \in Call, calls[c] # Idle, SameCall(c),
           calls'[c].verdict # "told" => calls[c].verdict # "told",
           ~ IsLate(calls[c])' /\ calls[c].entry # None /\ calls'[c].verdict # "told" =>
              \A a \in acked' : a \in acked \/ a.entry.term # calls[c].term
                                            \/ a.index # calls[c].index,
           \A d \in Call \ {c} : \/ calls'[d] = Idle
                                 \/ calls[d] # Idle /\ SameCall(d)
                                 \/ calls'[d].from # calls[c].from
                                 \/ calls'[d].entry = None
                                 \/ calls[c].entry # None => calls'[d].index # calls[c].index
    PROVE  Fresh(c)'
<1>1. /\ calls'[c].from = calls[c].from /\ calls'[c].entry = calls[c].entry
      /\ calls'[c].term = calls[c].term /\ calls'[c].index = calls[c].index
  BY DEF SameCall
<1>2. Fresh(c)
  BY DEF Follows, Present, CallsOK
<1> SUFFICES ASSUME ~ IsLate(calls[c])', calls[c].entry # None
             PROVE  /\ calls'[c].verdict # "told" =>
                          \A a \in acked' : a.entry.term = calls[c].term => a.index # calls[c].index
                    /\ \A d \in Call \ {c} :
                          calls'[d] # Idle /\ ~ IsLate(calls[d])' /\ calls'[d].entry # None
                             /\ calls'[d].from = calls[c].from => calls'[d].index # calls[c].index
  BY <1>1 DEF Fresh
<1>3. ~ IsLate(calls[c])
  BY NotLateBefore
<1>4. ASSUME NEW d \in Call \ {c}, calls'[d] # Idle, ~ IsLate(calls[d])', calls'[d].entry # None,
             calls'[d].from = calls[c].from
      PROVE  calls'[d].index # calls[c].index
  <2>1. CASE calls[d] # Idle /\ SameCall(d)
    <3>1. ~ IsLate(calls[d])
      BY <1>4, <2>1, NotLateBefore
    <3> QED
      BY <1>2, <1>3, <1>4, <2>1, <3>1 DEF Fresh, SameCall
  <2> QED
    BY <1>4, <2>1
<1>5. ASSUME calls'[c].verdict # "told", NEW a \in acked', a.entry.term = calls[c].term
      PROVE  a.index # calls[c].index
  BY <1>2, <1>3, <1>5 DEF Fresh
<1> QED
  BY <1>4, <1>5

\* A replica goes on to lead: what it knows of its commits and of its peers.
LEMMA LeaderStays ==
    ASSUME NEW K, NEW E, NEW Acc, NEW K2, NEW E2, NEW Acc2, Follows(K, E, Acc, K2, E2, Acc2),
           NEW i \in Replica, leading[i], leading'[i], currentTerm'[i] = currentTerm[i],
           NEW n \in 0 .. Len(log[i]),
           \A p \in 1 .. Len(log[i]) : p <= n <=> log[i][p].term # currentTerm[i]
    PROVE  /\ n \in 0 .. Len(log'[i])
           /\ \A p \in 1 .. Len(log'[i]) : p <= n <=> log'[i][p].term # currentTerm'[i]
<1> DEFINE N == Len(log[i])
           N2 == Len(log'[i])
           t == currentTerm[i]
<1>1. N \in Nat /\ N2 \in Nat /\ t \in Nat /\ log'[i] \in K2 /\ History(K2, E2)
  BY FollowsTypes
<1>2. N <= N2 /\ \A p \in 1 .. N : p \in 1 .. N2 /\ log'[i][p] = log[i][p]
  BY LeaderKeeps
<1>3. N >= 1 /\ log[i][N].term = t /\ N2 >= 1 /\ log'[i][N2].term = t
  BY DEF Follows, Past, LeaderLog
<1>4. \A p, q \in 1 .. N2 : p <= q => log'[i][p].term <= log'[i][q].term
  BY <1>1 DEF History
<1>5. \A p \in 1 .. N2 : log'[i][p].term \in Nat
  BY <1>1, HistoryEntries
<1> HIDE DEF N, N2, t
<1>6. N \in 1 .. N /\ N \in 1 .. N2 /\ N2 \in 1 .. N2
  BY <1>1, <1>2, <1>3
<1>7. log'[i][N].term = t
  BY <1>2, <1>3, <1>6
<1>8. n \in 0 .. N /\ \A p \in 1 .. N : p <= n <=> log'[i][p].term # t
  BY <1>2 DEF N, t
<1>9. ASSUME NEW p \in 1 .. N2 PROVE p <= n <=> log'[i][p].term # t
  <2>1. CASE p \in 1 .. N
    BY <1>8, <2>1
  <2>2. CASE p >= N
    <3>1. log'[i][N].term <= log'[i][p].term /\ log'[i][p].term <= log'[i][N2].term
      BY <1>1, <1>4, <1>6, <1>9, <2>2
    <3>2. log'[i][p].term = t
      BY <1>1, <1>3, <1>5, <1>7, <1>9, <3>1
    <3>3. ~ (p <= n)
      BY <1>1, <1>6, <1>7, <1>8, <2>2
    <3> QED
      BY <3>2, <3>3
  <2> QED
    BY <1>1, <2>1, <2>2
<1>10. n \in 0 .. N2
  BY <1>1, <1>2, <1>8
<1> QED
  BY <1>9, <1>10 DEF N, N2, t

LEMMA CountStays ==
    ASSUME NEW K, NEW E, NEW Acc, NEW K2, NEW E2, NEW Acc2, Follows(K, E, Acc, K2, E2, Acc2),
           NEW i \in Replica, leading[i], leading'[i], currentTerm'[i] = currentTerm[i],
           commitIndex'[i] = commitIndex[i],
           \A a \in acked' : a.entry.term = currentTerm[i] => a \in acked
    PROVE  \E n \in 0 .. Len(log'[i]) :
              /\ \A p \in 1 .. Len(log'[i]) : p <= n <=> log'[i][p].term # currentTerm'[i]
              /\ commitIndex'[i] + 1 <= n + Cardinality(AckedIn(currentTerm[i])')
<1>1. PICK n \in 0 .. Len(log[i]) :
        /\ \A p \in 1 .. Len(log[i]) : p <= n <=> log[i][p].term # currentTerm[i]
        /\ commitIndex[i] + 1 <= n + Cardinality(AckedIn(currentTerm[i]))
  BY DEF Follows, Present, CountsOK
<1>2. /\ n \in 0 .. Len(log'[i])
      /\ \A p \in 1 .. Len(log'[i]) : p <= n <=> log'[i][p].term # currentTerm'[i]
  BY <1>1, LeaderStays
<1>3. AckedIn(currentTerm[i])' = AckedIn(currentTerm[i])
  BY DEF AckedIn, Follows
<1> QED
  BY <1>1, <1>2, <1>3

LEMMA NextStaysOK ==
    ASSUME NEW K, NEW E, NEW Acc, NEW K2, NEW E2, NEW Acc2, Follows(K, E, Acc, K2, E2, Acc2),
           NEW i \in Replica, leading[i], leading'[i], currentTerm'[i] = currentTerm[i],
           NEW j \in Peers(i), nextIndex'[i] # None, nextIndex'[i][j] = nextIndex[i][j],
           nextIndex'[i][j] \in 1 .. Len(log'[i]),
           log'[i][nextIndex'[i][j]].term = currentTerm'[i]
    PROVE  Reached(Acc2, j, nextIndex'[i][j], currentTerm'[i])
<1>1. nextIndex[i] # None /\ nextIndex[i][j] <= Len(log[i])
  BY DEF Follows, Present, NextOK, Shapes, NextInLog, Peers
<1>2. /\ Len(log[i]) \in Nat /\ Len(log'[i]) \in Nat /\ currentTerm[i] \in Nat
  BY FollowsTypes
<1>3. nextIndex[i][j] \in 1 .. Len(log[i]) /\ nextIndex[i][j] \in Int
  BY <1>1, <1>2
<1>4. log'[i][nextIndex[i][j]] = log[i][nextIndex[i][j]]
  BY <1>3, LeaderKeeps
<1>5. Reached(Acc, j, nextIndex[i][j], currentTerm[i])
  BY <1>3, <1>4 DEF Follows, Present, NextOK
<1> QED
  BY <1>2, <1>3, <1>5, AcceptedStays DEF Peers

\* What the files say is committed is what was saved.
LEMMA CommitsFollow ==
    ASSUME NEW K, NEW E, NEW Acc, NEW K2, NEW E2, NEW Acc2, Follows(K, E, Acc, K2, E2, Acc2),
           \A j \in Replica : CommitOK(K2, log[j], commitIndex[j] + 1, currentTerm[j])',
           \A j \in Replica : \/ disk'[j] = disk[j]
                              \/ disk'[j] = [log |-> log'[j], commitIndex |-> commitIndex'[j]]
    PROVE  CommitsOK(K2)'
<1> SUFFICES ASSUME NEW j \in Replica
             PROVE  CommitOK(K2, disk[j].log, disk[j].commitIndex + 1, currentTerm[j])'
  BY DEF CommitsOK
<1>1. CASE disk'[j] = disk[j]
  <2> SUFFICES ASSUME NEW l, l = disk[j].log, NEW n, n = disk[j].commitIndex + 1,
                      NEW T, T = currentTerm[j], NEW T2, T2 = currentTerm'[j]
               PROVE  CommitOK(K2, disk[j].log, disk[j].commitIndex + 1, currentTerm[j])'
    OBVIOUS
  <2>1. disk[j] \in [log : Seq(Entry), commitIndex : {m \in Int : m >= -1}]
    BY DEF Follows, Shapes, NodeTypes, CommitIndex
  <2>2. l \in Seq(Entry) /\ n \in Nat /\ T \in Nat /\ T2 \in Nat /\ T <= T2
    BY <2>1, FollowsTypes
  <2>3. CommitOK(K, l, n, T)
    BY DEF Follows, Present, CommitsOK
  <2>4. Begins(l, l)
    BY <2>2, LenProperties DEF Begins, Agree
  <2>5. CommitOK(K2, l, n, T2)'
    BY <2>2, <2>3, <2>4, CommitStays
  <2> QED
    BY <1>1, <2>5 DEF CommitOK, CommittedLog
<1>2. CASE disk'[j] = [log |-> log'[j], commitIndex |-> commitIndex'[j]]
  <2>1. disk'[j].log = log'[j] /\ disk'[j].commitIndex = commitIndex'[j]
    BY <1>2
  <2> QED
    BY <2>1 DEF CommitOK
<1> QED
  BY <1>1, <1>2

LEMMA CommitSame ==
    ASSUME NEW K, NEW E, NEW Acc, NEW K2, NEW E2, NEW Acc2, Follows(K, E, Acc, K2, E2, Acc2),
           NEW j \in Replica, commitIndex'[j] = commitIndex[j], Begins(log[j], log'[j])
    PROVE  CommitOK(K2, log[j], commitIndex[j] + 1, currentTerm[j])'
<1> SUFFICES ASSUME NEW l, l = log[j], NEW l2, l2 = log'[j], NEW n, n = commitIndex[j] + 1,
                    NEW T, T = currentTerm[j], NEW T2, T2 = currentTerm'[j]
             PROVE  CommitOK(K2, log[j], commitIndex[j] + 1, currentTerm[j])'
  OBVIOUS
<1>1. /\ l \in Seq(Entry) /\ l2 \in Seq(Entry) /\ n \in Nat /\ T \in Nat /\ T2 \in Nat /\ T <= T2
      /\ Begins(l, l2)
  BY FollowsTypes
<1>2. CommitOK(K, l, n, T)
  BY DEF Follows, Present, CommitsOK
<1>3. CommitOK(K2, l2, n, T2)'
  BY <1>1, <1>2, CommitStays
<1> QED
  BY <1>3 DEF CommitOK, CommittedLog

-----------------------------------------------------------------------------
(* The parts of what is known that a step does not disturb. *)

LEMMA AckedStay ==
    ASSUME NEW K, NEW E, NEW Acc, NEW K2, NEW E2, NEW Acc2, Follows(K, E, Acc, K2, E2, Acc2),
           acked' = acked
    PROVE  AckedOK(K2, Acc2)'
<1>1. \A a \in acked :
        /\ \E M \in SUBSET Replica :
              Majority(M) /\ \A j \in M : <<j, a.index + 1, a.entry.term>> \in Acc2
        /\ \E k \in K2 : a.index + 1 <= Len(k) /\ k[a.index + 1] = a.entry
  BY AckedOKStays
<1> QED
  BY <1>1 DEF AckedOK, Majority

LEMMA CountsStay ==
    ASSUME NEW K, NEW E, NEW Acc, NEW K2, NEW E2, NEW Acc2, Follows(K, E, Acc, K2, E2, Acc2),
           acked' = acked,
           \A i \in Replica : leading'[i] => /\ leading[i] /\ currentTerm'[i] = currentTerm[i]
                                             /\ commitIndex'[i] = commitIndex[i]
    PROVE  CountsOK'
<1>1. ASSUME NEW i \in Replica, leading'[i]
      PROVE  \E n \in 0 .. Len(log'[i]) :
               /\ \A p \in 1 .. Len(log'[i]) : p <= n <=> log'[i][p].term # currentTerm'[i]
               /\ commitIndex'[i] + 1 <= n + Cardinality(AckedIn(currentTerm[i])')
  BY <1>1, CountStays
<1> QED
  BY <1>1 DEF CountsOK

LEMMA NextsStay ==
    ASSUME NEW K, NEW E, NEW Acc, NEW K2, NEW E2, NEW Acc2, Follows(K, E, Acc, K2, E2, Acc2),
           \A i \in Replica : leading'[i] => /\ leading[i] /\ currentTerm'[i] = currentTerm[i]
                                             /\ nextIndex'[i] = nextIndex[i]
    PROVE  NextOK(Acc2)'
<1>1. ASSUME NEW i \in Replica, leading'[i]
      PROVE  /\ nextIndex'[i] # None
             /\ \A j \in Peers(i) :
                   /\ nextIndex'[i][j] \in 1 .. Len(log'[i])
                   /\ log'[i][nextIndex'[i][j]].term = currentTerm'[i]
                   => Reached(Acc2, j, nextIndex'[i][j], currentTerm'[i])
  <2>1. nextIndex'[i] # None
    BY <1>1 DEF Follows, Present, NextOK
  <2> QED
    BY <1>1, <2>1, NextStaysOK
<1> QED
  BY <1>1 DEF NextOK, Reached, Peers

LEMMA CommitsStay ==
    ASSUME NEW K, NEW E, NEW Acc, NEW K2, NEW E2, NEW Acc2, Follows(K, E, Acc, K2, E2, Acc2),
           \A j \in Replica : commitIndex'[j] = commitIndex[j] /\ Begins(log[j], log'[j]),
           \A j \in Replica : \/ disk'[j] = disk[j]
                              \/ disk'[j] = [log |-> log'[j], commitIndex |-> commitIndex'[j]]
    PROVE  CommitsOK(K2)'
BY CommitSame, CommitsFollow

\* All of a step that leaves the replicas alone.
LEMMA NodesStay ==
    ASSUME NEW K, NEW E, NEW Acc, NEW K2, NEW E2, NEW Acc2, Follows(K, E, Acc, K2, E2, Acc2),
           UNCHANGED <<nodeVars, acked>>
    PROVE  /\ AckedOK(K2, Acc2)' /\ CommitsOK(K2)' /\ CountsOK' /\ NextOK(Acc2)'
           /\ \A i \in Replica : Lives(K, i)
<1>1. UNCHANGED <<currentTerm, leading, log, commitIndex, nextIndex, disk, acked>>
  BY DEF nodeVars, electionVars
<1>2. \A j \in Replica : Begins(log[j], log'[j])
  BY <1>1, FollowsTypes DEF Begins, Agree
<1> QED
  BY <1>1, <1>2, AckedStay, CountsStay, NextsStay, CommitsStay DEF Lives

\* Of a call that a step leaves alone.
LEMMA CallStays ==
    ASSUME NEW K, NEW E, NEW Acc, NEW K2, NEW E2, NEW Acc2, Follows(K, E, Acc, K2, E2, Acc2),
           NEW c \in Call, calls[c] # Idle, calls'[c] = calls[c], Lives(K, calls[c].from),
           acked' = acked,
           \A g \in starts' \cup sent' \cup answers' : g.call = c =>
              \E h \in starts \cup sent \cup answers : h.call = c /\ h.to = g.to,
           \A d \in Call \ {c} : \/ calls'[d] = Idle
                                 \/ calls[d] # Idle /\ SameCall(d)
                                 \/ calls'[d].from # calls[c].from
                                 \/ calls'[d].entry = None
                                 \/ calls[c].entry # None => calls'[d].index # calls[c].index
    PROVE  CallOK(K2, c)' /\ Counted(Acc2, c)' /\ Fresh(c)'
<1>1. SameCall(c)
  BY DEF SameCall
<1> QED
  BY <1>1, CallOKStays, CountedStays, FreshStays

LEMMA CallsStay ==
    ASSUME NEW K, NEW E, NEW Acc, NEW K2, NEW E2, NEW Acc2, Follows(K, E, Acc, K2, E2, Acc2),
           calls' = calls, acked' = acked, \A i \in Replica : Lives(K, i),
           \A g \in starts' \cup sent' \cup answers' : g.call # None =>
              \E h \in starts \cup sent \cup answers : h.call = g.call /\ h.to = g.to
    PROVE  CallsOK(K2, Acc2)'
<1> SUFFICES ASSUME NEW c \in Call, calls[c] # Idle
             PROVE  CallOK(K2, c)' /\ Counted(Acc2, c)' /\ Fresh(c)'
  BY DEF CallsOK
<1>1. c # None /\ calls[c].from \in Replica
  BY ReplicationAssumption, CallTypes DEF Follows
<1>2. \A d \in Call \ {c} : calls'[d] = Idle \/ (calls[d] # Idle /\ SameCall(d))
  BY DEF SameCall
<1> QED
  BY <1>1, <1>2, CallStays

\* The call of a goroutine, a message or an answer is under way.
LEMMA UnderWay ==
    ASSUME Shapes
    PROVE  /\ \A g \in starts : g.call \in Call /\ calls[g.call] # Idle /\ g.to # g.from
                                 /\ g.to \in Replica /\ g.from \in Replica
                                 /\ calls[g.call].from = g.from
           /\ \A m \in sent : /\ m \in MessageRecord /\ m.to # m.from
                              /\ m.to \in Replica /\ m.from \in Replica
                              /\ m.call # None => /\ m.call \in Call /\ calls[m.call] # Idle
                                                  /\ calls[m.call].from = m.from
           /\ \A a \in answers : a.call \in Call /\ calls[a.call] # Idle /\ a.to # a.from
                                  /\ a.to \in Replica /\ a.from \in Replica
                                  /\ calls[a.call].from = a.from
<1>1. /\ \A g \in starts : StartShape(g)
      /\ \A m \in sent : SentShape(m)
      /\ \A a \in answers : AnswerShape(a)
  BY DEF Shapes, FlightShapes
<1>2. \A c \in Call : calls[c].from \in Replica => calls[c] # Idle
  BY CallIsNotIdle
<1> QED
  BY <1>1, <1>2 DEF StartShape, SentShape, AnswerShape, Goroutine, MessageRecord, AnswerRecord

LEMMA FlightsStay ==
    ASSUME NEW K, NEW E, NEW Acc, NEW K2, NEW E2, NEW Acc2, Follows(K, E, Acc, K2, E2, Acc2)
    PROVE  /\ \A m \in sent : (m.call # None => SameCall(m.call)) => MsgOK(K2, Acc2, m)'
           /\ \A a \in answers : SameCall(a.call) => AnswerOK(K2, Acc2, a)'
<1>1. ASSUME NEW m \in sent, m.call # None => SameCall(m.call) PROVE MsgOK(K2, Acc2, m)'
  <2>1. MsgOK(K, Acc, m) /\ Shapes
    BY DEF Follows, Present
  <2> QED
    BY <1>1, <2>1, UnderWay, MsgOKStays
<1> QED
  BY <1>1, AnswerOKStays

-----------------------------------------------------------------------------
(* Steps that begin a call. *)

\* What is known apart from the files and the points.
Told(K, Acc) ==
    /\ CallsOK(K, Acc)
    /\ OneEach
    /\ \A m \in sent : MsgOK(K, Acc, m)
    /\ \A a \in answers : AnswerOK(K, Acc, a)
    /\ AckedOK(K, Acc)
    /\ CommitsOK(K)
    /\ CountsOK
    /\ NextOK(Acc)

LEMMA LeaderSendAEsTold ==
    ASSUME NEW K, NEW E, NEW Acc, NEW K2, NEW E2, NEW Acc2, Follows(K, E, Acc, K2, E2, Acc2),
           NEW i \in Replica, NEW c \in Call, NEW entry \in Entry \cup {None},
           NEW leaderCommit \in Int, NEW t, t = currentTerm'[i],
           LeaderSendAEs(i, c, entry, leaderCommit),
           leading'[i], leaderCommit < Len(log'[i]),
           CommitKnown(K2, leaderCommit + 1, t)',
           UNCHANGED <<sent, answers, acked>>, \A j \in Replica : Lives(K, j),
           entry # None => /\ log'[i] = Append(log[i], entry)
                           /\ \A a \in acked : a.entry.term = t => a.index < Len(log[i])
    PROVE  CallsOK(K2, Acc2)' /\ OneEach'
           /\ (\A m \in sent : MsgOK(K2, Acc2, m))' /\ (\A a \in answers : AnswerOK(K2, Acc2, a))'
<1> DEFINE last == Len(log'[i]) - 1
           call == [from |-> i, entry |-> entry, term |-> t, leaderCommit |-> leaderCommit,
                    index |-> last, upper |-> last, successes |-> 1, verdict |-> "none"]
           new == {[call |-> c, from |-> i, to |-> j] : j \in Peers(i)}
<1>1. /\ calls[c] = Idle
      /\ calls' = [calls EXCEPT ![c] = call]
      /\ starts' = starts \cup new /\ sent' = sent /\ answers' = answers /\ acked' = acked
  BY DEF LeaderSendAEs
<1>2. Shapes /\ Shapes' /\ Past(K2, E2)'
  BY DEF Follows
<1>3. calls'[c] = call /\ \A d \in Call : d # c => calls'[d] = calls[d]
  BY <1>1, <1>2 DEF Shapes, FlightShapes
<1>4. /\ log[i] \in Seq(Entry) /\ Len(log[i]) \in Nat /\ log'[i] \in Seq(Entry) /\ Len(log'[i]) \in Nat
      /\ log'[i] \in K2 /\ t \in Nat /\ currentTerm'[i] \in Nat
  BY FollowsTypes
<1>5. Len(log'[i]) >= 1 /\ log'[i][Len(log'[i])].term = t
  BY <1>2 DEF Past, LeaderLog
<1>6. \A d \in Call : d # c /\ calls'[d] # Idle => calls[d] # Idle /\ SameCall(d)
  BY <1>3 DEF SameCall
<1>7. \A g \in sent \cup answers : g.call # None => g.call # c
  BY <1>1, <1>2, UnderWay
<1>8. \A g \in new : g.call = c
  OBVIOUS
<1>9. last \in Nat /\ last + 1 = Len(log'[i]) /\ leaderCommit <= last
  BY <1>4, <1>5
<1>10. entry # None => last = Len(log[i]) /\ log'[i][last + 1] = entry /\ entry.term = t
  BY <1>4, <1>5, <1>9, Appended
<1> HIDE DEF new, last
<1>11. CallOK(K2, c)'
  <2>1. /\ calls'[c].from = i /\ calls'[c].entry = entry /\ calls'[c].term = t
        /\ calls'[c].leaderCommit = leaderCommit /\ calls'[c].index = last /\ calls'[c].upper = last
    BY <1>3
  <2> HIDE DEF call
  <2>2. t <= currentTerm'[i]
    BY <1>4
  <2>3. Backed(K2, log'[i], t)
    <3>1. Begins(log'[i], log'[i]) /\ log'[i][Len(log'[i])].term >= t
      BY <1>4, <1>5 DEF Begins, Agree
    <3> QED
      BY <1>4, <1>5, <3>1 DEF Backed
  <2>4. \A j \in Replica : leading'[j] /\ currentTerm'[j] = t => j = i
    BY <1>2 DEF Past, OneLeader
  <2>5. log'[i][last + 1].term = t
    BY <1>5, <1>9
  <2>6. CommitKnown(K2, calls[c].leaderCommit + 1, calls[c].term)'
    BY <2>1 DEF CommitKnown, CommittedLog
  <2>7. last >= 0
    BY <1>9
  <2> QED
    BY <1>9, <1>10, <2>1, <2>2, <2>3, <2>4, <2>5, <2>6, <2>7 DEF CallOK
<1>12. Counted(Acc2, c)'
  <2>1. calls'[c].successes = 1 /\ calls'[c].verdict = "none"
    BY <1>3
  <2>2. {} \in SUBSET Peers(calls'[c].from) /\ Cardinality({}) + 1 = 1
    BY FS_EmptySet
  <2>3. calls'[c].verdict # "won"
    BY <2>1
  <2> QED
    BY <2>1, <2>2, <2>3 DEF Counted, Peers
<1>13. Fresh(c)'
  <2>1. calls'[c].entry = entry /\ calls'[c].term = t /\ calls'[c].index = last /\ calls'[c].from = i
    BY <1>3
  <2> SUFFICES ASSUME entry # None
               PROVE  /\ \A a \in acked' : a.entry.term = t => a.index # last
                      /\ \A d \in Call \ {c} :
                            calls'[d] # Idle /\ calls'[d].from = i => calls'[d].index # last
    BY <2>1 DEF Fresh
  <2>2. last = Len(log[i])
    BY <1>10
  <2>3. \A a \in acked : a.index \in Nat
    BY <1>2 DEF Shapes, NodeTypes
  <2>4. \A a \in acked' : a.entry.term = t => a.index # last
    BY <1>1, <1>4, <2>2, <2>3
  <2>5. ASSUME NEW d \in Call \ {c}, calls'[d] # Idle, calls'[d].from = i
        PROVE  calls'[d].index # last
    <3>1. calls[d] # Idle /\ calls'[d] = calls[d]
      BY <1>3, <2>5
    <3>2. /\ calls[d].upper < Len(log[i]) /\ calls[d].index <= calls[d].upper
          /\ calls[d].upper \in Int /\ calls[d].index \in Int
      BY <1>2, <2>5, <3>1, CallTypes
    <3> QED
      BY <1>4, <2>2, <3>1, <3>2
  <2> QED
    BY <2>4, <2>5
<1>14. ASSUME NEW d \in Call, d # c, calls'[d] # Idle
       PROVE  CallOK(K2, d)' /\ Counted(Acc2, d)' /\ Fresh(d)'
  <2>1. calls[d] # Idle /\ calls'[d] = calls[d] /\ calls[d].from \in Replica
    BY <1>2, <1>3, <1>14, CallTypes
  <2>2. \A g \in starts' \cup sent' \cup answers' : g.call = d =>
           \E h \in starts \cup sent \cup answers : h.call = d /\ h.to = g.to
    BY <1>1, <1>8, <1>14
  <2>3. \/ calls'[c].from # calls[d].from
        \/ calls'[c].entry = None
        \/ calls'[c].index # calls[d].index
    <3> SUFFICES ASSUME calls[d].from = i, entry # None PROVE last # calls[d].index
      BY <1>3
    <3>1. /\ calls[d].upper < Len(log[i]) /\ calls[d].index <= calls[d].upper
          /\ calls[d].upper \in Int /\ calls[d].index \in Int
      BY <1>2, <2>1, CallTypes
    <3> QED
      BY <1>4, <1>10, <3>1
  <2>4. \A d2 \in Call \ {d} : \/ calls'[d2] = Idle
                               \/ calls[d2] # Idle /\ SameCall(d2)
                               \/ calls'[d2].from # calls[d].from
                               \/ calls'[d2].entry = None
                               \/ calls[d].entry # None => calls'[d2].index # calls[d].index
    BY <1>6, <2>3
  <2> QED
    BY <1>1, <2>1, <2>2, <2>4, CallStays
<1>15. CallsOK(K2, Acc2)'
  BY <1>11, <1>12, <1>13, <1>14 DEF CallsOK
<1>16. OneEach'
  <2>1. OneEach
    BY DEF Follows, Present
  <2>2. \A g \in new, h \in sent \cup answers : g.call # h.call
    BY <1>7, <1>8, ReplicationAssumption
  <2> QED
    BY <1>1, <2>1, <2>2 DEF OneEach
<1>17. \A m \in sent : m.call # None => SameCall(m.call)
  BY <1>2, <1>3, <1>7, UnderWay DEF SameCall
<1>18. \A a \in answers : SameCall(a.call)
  <2>1. \A a \in answers : a.call \in Call /\ calls[a.call] # Idle
    BY <1>2, UnderWay
  <2> QED
    BY <1>1, <1>3, <2>1 DEF SameCall
<1>19. (\A m \in sent : MsgOK(K2, Acc2, m))' /\ (\A a \in answers : AnswerOK(K2, Acc2, a))'
  BY <1>1, <1>17, <1>18, FlightsStay
<1> QED
  BY <1>15, <1>16, <1>19

LEMMA CommitIsKnown ==
    ASSUME NEW K, NEW E, NEW Acc, NEW K2, NEW E2, NEW Acc2, Follows(K, E, Acc, K2, E2, Acc2),
           NEW i \in Replica, NEW n, n = commitIndex[i], NEW t, t = currentTerm'[i]
    PROVE  n \in Int /\ n < Len(log[i]) /\ CommitKnown(K2, n + 1, t)'
<1> SUFFICES ASSUME NEW l, l = log[i], NEW T, T = currentTerm[i], NEW m, m = n + 1
             PROVE  n \in Int /\ n < Len(log[i]) /\ CommitKnown(K2, m, t)'
  OBVIOUS
<1>1. /\ l \in Seq(Entry) /\ Len(l) \in Nat /\ n \in Int /\ m \in Nat
      /\ T \in Nat /\ t \in Nat /\ T <= t
  BY FollowsTypes
<1>2. CommitOK(K, l, m, T)
  BY DEF Follows, Present, CommitsOK
<1>3. m <= Len(l)
  BY <1>1, <1>2 DEF CommitOK
<1>4. Begins(l, l)
  BY <1>1 DEF Begins, Agree
<1>5. CommitOK(K2, l, m, t)'
  BY <1>1, <1>2, <1>4, CommitStays
<1>6. n < Len(l)
  BY <1>1, <1>3
<1> QED
  BY <1>1, <1>5, <1>6 DEF CommitOK, CommitKnown

LEMMA HeartBeatTold ==
    ASSUME NEW K, NEW E, NEW Acc, NEW K2, NEW E2, NEW Acc2, Follows(K, E, Acc, K2, E2, Acc2),
           NEW i \in Replica, NEW c \in Call, HeartBeat(i, c), leading[i]
    PROVE  Told(K2, Acc2)'
<1> SUFFICES ASSUME NEW n, n = commitIndex[i], NEW t, t = currentTerm'[i] PROVE Told(K2, Acc2)'
  OBVIOUS
<1>1. UNCHANGED <<nodeVars, sent, answers, acked>> /\ LeaderSendAEs(i, c, None, n)
  BY DEF HeartBeat
<1>2. leading' = leading /\ log' = log
  BY <1>1 DEF nodeVars, electionVars
<1>3. n \in Int /\ n < Len(log'[i]) /\ CommitKnown(K2, n + 1, t)'
  BY <1>2, CommitIsKnown
<1>4. /\ AckedOK(K2, Acc2)' /\ CommitsOK(K2)' /\ CountsOK' /\ NextOK(Acc2)'
      /\ \A j \in Replica : Lives(K, j)
  BY <1>1, NodesStay
<1>5. /\ CallsOK(K2, Acc2)' /\ OneEach'
      /\ (\A m \in sent : MsgOK(K2, Acc2, m))' /\ (\A a \in answers : AnswerOK(K2, Acc2, a))'
  BY <1>1, <1>2, <1>3, <1>4, LeaderSendAEsTold
<1> QED
  BY <1>4, <1>5 DEF Told

LEMMA WriteTold ==
    ASSUME NEW K, NEW E, NEW Acc, NEW K2, NEW E2, NEW Acc2, Follows(K, E, Acc, K2, E2, Acc2),
           NEW i \in Replica, NEW c \in Call, WriteCommand(i, c), leading[i]
    PROVE  Told(K2, Acc2)'
<1> SUFFICES ASSUME NEW n, n = commitIndex[i], NEW t, t = currentTerm'[i],
                    NEW entry, entry = [term |-> currentTerm[i], by |-> i, operation |-> Write]
             PROVE  Told(K2, Acc2)'
  OBVIOUS
<1>1. /\ log' = [log EXCEPT ![i] = Append(log[i], entry)]
      /\ UNCHANGED <<currentTerm, leading, commitIndex, nextIndex, disk, sent, answers, acked>>
      /\ LeaderSendAEs(i, c, entry, n)
  BY DEF WriteCommand, electionVars
<1>2. entry \in Entry
  BY DEF Follows, Shapes, NodeTypes, Entry
<1>3. log'[i] = Append(log[i], entry) /\ \A j \in Replica : j # i => log'[j] = log[j]
  BY <1>1 DEF Follows, Shapes, NodeTypes
<1>4. \A j \in Replica : leading'[j] \/ log'[j] = log[j]
  BY <1>1, <1>3
<1>5. n \in Int /\ n < Len(log'[i]) /\ CommitKnown(K2, n + 1, t)'
  <2>1. Len(log[i]) <= Len(log'[i]) /\ Len(log[i]) \in Nat /\ Len(log'[i]) \in Nat
    BY <1>4, LeaderKeeps, FollowsTypes
  <2>2. n \in Int /\ n < Len(log[i]) /\ CommitKnown(K2, n + 1, t)'
    BY CommitIsKnown
  <2> QED
    BY <2>1, <2>2
<1>6. \A a \in acked : a.entry.term = t => a.index < Len(log[i])
  <2> SUFFICES ASSUME NEW a \in acked, a.entry.term = currentTerm[i] PROVE a.index < Len(log[i])
    BY <1>1
  <2>1. PICK k \in K : a.index + 1 <= Len(k) /\ k[a.index + 1] = a.entry
    BY DEF Follows, Present, AckedOK
  <2>2. a.index \in Nat /\ Len(k) \in Nat /\ Len(log[i]) \in Nat
    BY FollowsTypes, HistoryEntries DEF Follows, Shapes, NodeTypes, Past
  <2>3. a.index + 1 \in 1 .. Len(k) /\ k[a.index + 1].term = currentTerm[i]
    BY <2>1, <2>2
  <2>4. Longest(K, log[i], currentTerm[i])
    BY DEF Follows, Past, LeaderLog
  <2>5. a.index + 1 <= Len(log[i])
    BY <2>3, <2>4 DEF Longest
  <2> QED
    BY <2>2, <2>5
<1>7. \A j \in Replica : Lives(K, j)
  BY <1>4 DEF Lives
<1>8. /\ CallsOK(K2, Acc2)' /\ OneEach'
      /\ (\A m \in sent : MsgOK(K2, Acc2, m))' /\ (\A a \in answers : AnswerOK(K2, Acc2, a))'
  <2>1. entry # None => /\ log'[i] = Append(log[i], entry)
                        /\ \A a \in acked : a.entry.term = t => a.index < Len(log[i])
    BY <1>3, <1>6
  <2>2. UNCHANGED <<sent, answers, acked>> /\ leading'[i]
    BY <1>1
  <2> QED
    BY <1>1, <1>2, <1>5, <1>7, <2>1, <2>2, LeaderSendAEsTold
<1>9. AckedOK(K2, Acc2)' /\ CountsOK' /\ NextOK(Acc2)'
  BY <1>1, AckedStay, CountsStay, NextsStay
<1>10. CommitsOK(K2)'
  <2>1. \A j \in Replica : Begins(log[j], log'[j])
    BY <1>4, LeaderKeeps
  <2> QED
    BY <1>1, <2>1, CommitsStay
<1> QED
  BY <1>8, <1>9, <1>10 DEF Told

LEMMA ElectionTold ==
    ASSUME NEW K, NEW E, NEW Acc, NEW K2, NEW E2, NEW Acc2, Follows(K, E, Acc, K2, E2, Acc2),
           VoteShape, Sound', NEW i \in Replica, NEW c \in Call, NEW asked \in SUBSET Peers(i),
           ElectionOf(i, asked, c)
    PROVE  Told(K2, Acc2)'
<1> SUFFICES ASSUME NEW n, n = commitIndex[i], NEW t, t = currentTerm[i] + 1,
                    NEW entry, entry = [term |-> t, by |-> i, operation |-> NoOp]
             PROVE  Told(K2, Acc2)'
  OBVIOUS
<1>1. Shapes /\ Past(K, E)
  BY DEF Follows
<1>2. t \in Term /\ UNCHANGED <<commitIndex, sent, answers, acked>> /\ ~ leading[i]
  BY <1>1, ElectionNode
<1>3. PICK reached, saved \in SUBSET Replica : Elects(i, c, t, reached, saved)
  BY <1>1, ElectionNode
<1>3a. /\ i \in reached
       /\ \A j \in reached : currentTerm[j] < t
       /\ \A j \in Replica : currentTerm'[j] = IF j \in reached THEN t ELSE currentTerm[j]
       /\ \A j \in Replica : disk'[j] =
             IF j \in saved THEN [log |-> log'[j], commitIndex |-> commitIndex[j]] ELSE disk[j]
       /\ \/ /\ \A j \in Replica : leading'[j] = (j \notin reached /\ leading[j])
             /\ UNCHANGED <<nextIndex, log, calls, starts>>
          \/ /\ \A j \in Replica : leading'[j] = IF j \in reached THEN j = i ELSE leading[j]
             /\ nextIndex' = [nextIndex EXCEPT ![i] = [j \in Replica |-> Len(log[i])]]
             /\ log' = [log EXCEPT ![i] = Append(log[i], entry)]
             /\ LeaderSendAEs(i, c, entry, n)
             /\ \E M \in SUBSET Replica : Majority(M) /\ \A j \in M : MayVote(j, t)
  BY <1>3 DEF Elects
<1>4. AckedOK(K2, Acc2)'
  BY <1>2, AckedStay
<1>5. \A j \in Replica : \/ disk'[j] = disk[j]
                         \/ disk'[j] = [log |-> log'[j], commitIndex |-> commitIndex'[j]]
  BY <1>2, <1>3a
<1>6. CASE /\ \A j \in Replica : leading'[j] = (j \notin reached /\ leading[j])
           /\ UNCHANGED <<nextIndex, log, calls, starts>>
  <2>1. \A j \in Replica : leading'[j] => leading[j] /\ currentTerm'[j] = currentTerm[j]
    BY <1>3a, <1>6
  <2>2. CountsOK' /\ NextOK(Acc2)'
    BY <1>2, <1>6, <2>1, CountsStay, NextsStay
  <2>3. \A j \in Replica : Begins(log[j], log'[j])
    BY <1>6, LeaderKeeps
  <2>4. CommitsOK(K2)'
    BY <1>2, <1>5, <2>3, CommitsStay
  <2>5. \A j \in Replica : Lives(K, j)
    BY <1>6 DEF Lives
  <2>6. CallsOK(K2, Acc2)'
    BY <1>2, <1>6, <2>5, CallsStay
  <2>7. (\A m \in sent : MsgOK(K2, Acc2, m))' /\ (\A a \in answers : AnswerOK(K2, Acc2, a))'
    BY <1>2, <1>6, FlightsStay DEF SameCall
  <2>8. OneEach'
    BY <1>2, <1>6 DEF Follows, Present, OneEach
  <2> QED
    BY <1>4, <2>2, <2>4, <2>6, <2>7, <2>8 DEF Told
<1>7. CASE /\ \A j \in Replica : leading'[j] = IF j \in reached THEN j = i ELSE leading[j]
           /\ nextIndex' = [nextIndex EXCEPT ![i] = [j \in Replica |-> Len(log[i])]]
           /\ log' = [log EXCEPT ![i] = Append(log[i], entry)]
           /\ LeaderSendAEs(i, c, entry, n)
           /\ \E M \in SUBSET Replica : Majority(M) /\ \A j \in M : MayVote(j, t)
  <2>1. PICK M \in SUBSET Replica : Majority(M) /\ \A j \in M : MayVote(j, t)
    BY <1>7
  <2>2. entry \in Entry /\ t \in Nat /\ t = currentTerm'[i] /\ leading'[i] /\ entry.term = t
    BY <1>2, <1>3a, <1>7, TermIsNat DEF Entry
  <2>3. log'[i] = Append(log[i], entry) /\ \A j \in Replica : j # i => log'[j] = log[j]
    BY <1>1, <1>7 DEF Shapes, NodeTypes
  <2>4. nextIndex'[i] = [j \in Replica |-> Len(log[i])]
        /\ \A j \in Replica : j # i => nextIndex'[j] = nextIndex[j]
    BY <1>1, <1>7 DEF Shapes, NodeTypes
  <2>5. \A k \in K : \A q \in 1 .. Len(k) : k[q].term < t
    BY <1>1, <1>2, <2>1, TermIsNew
  <2>6. \A j \in Replica : leading'[j] \/ log'[j] = log[j]
    BY <2>2, <2>3
  <2>7. /\ log[i] \in Seq(Entry) /\ Len(log[i]) \in Nat /\ log[i] \in K
        /\ Len(log'[i]) = Len(log[i]) + 1
        /\ \A p \in 1 .. Len(log[i]) : log'[i][p] = log[i][p]
        /\ log'[i][Len(log[i]) + 1] = entry
    BY <2>2, <2>3, FollowsTypes, Appended
  <2>8. \A p \in 1 .. Len(log[i]) : log[i][p].term \in Nat /\ log[i][p].term < t
    BY <1>1, <2>5, <2>7, HistoryEntries DEF Past
  <2>9. \A a \in acked : a.entry.term # t
    <3> SUFFICES ASSUME NEW a \in acked, a.entry.term = t PROVE FALSE
      OBVIOUS
    <3>1. PICK k \in K : a.index + 1 <= Len(k) /\ k[a.index + 1] = a.entry
      BY DEF Follows, Present, AckedOK
    <3>2. a.index \in Nat /\ Len(k) \in Nat
      BY <1>1, HistoryEntries DEF Shapes, NodeTypes, Past
    <3>3. a.index + 1 \in 1 .. Len(k)
      BY <3>1, <3>2
    <3>4. t < t
      BY <2>5, <3>1, <3>3
    <3> QED
      BY <2>2, <3>4
  <2>10. n \in Int /\ n < Len(log[i]) /\ n < Len(log'[i]) /\ CommitKnown(K2, n + 1, t)'
    <3>1. n \in Int /\ n < Len(log[i]) /\ CommitKnown(K2, n + 1, t)'
      BY <2>2, CommitIsKnown
    <3> QED
      BY <2>7, <3>1
  <2>11. \A j \in Replica : Lives(K, j)
    BY <2>6 DEF Lives
  <2>12. /\ CallsOK(K2, Acc2)' /\ OneEach'
         /\ (\A m \in sent : MsgOK(K2, Acc2, m))' /\ (\A a \in answers : AnswerOK(K2, Acc2, a))'
    <3>1. entry # None => /\ log'[i] = Append(log[i], entry)
                          /\ \A a \in acked : a.entry.term = t => a.index < Len(log[i])
      BY <2>3, <2>9
    <3>2. UNCHANGED <<sent, answers, acked>> /\ LeaderSendAEs(i, c, entry, n)
      BY <1>2, <1>7
    <3> QED
      BY <2>2, <2>10, <2>11, <3>1, <3>2, LeaderSendAEsTold
  <2>13. CommitsOK(K2)'
    <3>1. \A j \in Replica : Begins(log[j], log'[j])
      BY <2>6, LeaderKeeps
    <3> QED
      BY <1>2, <1>5, <3>1, CommitsStay
  <2>14. ASSUME NEW j \in Replica, j # i, leading'[j]
         PROVE  leading[j] /\ currentTerm'[j] = currentTerm[j] /\ nextIndex'[j] = nextIndex[j]
    BY <1>3a, <1>7, <2>4, <2>14
  <2>15. CountsOK'
    <3>1. ASSUME NEW j \in Replica, j # i, leading'[j]
          PROVE  \E m \in 0 .. Len(log'[j]) :
                   /\ \A p \in 1 .. Len(log'[j]) : p <= m <=> log'[j][p].term # currentTerm'[j]
                   /\ commitIndex'[j] + 1 <= m + Cardinality(AckedIn(currentTerm[j])')
      BY <1>2, <2>14, <3>1, CountStays
    <3>2. AckedIn(currentTerm[i])' = {}
      BY <1>2, <2>2, <2>9 DEF AckedIn
    <3>3. Cardinality(AckedIn(currentTerm[i])') = 0
      BY <3>2, FS_EmptySet
    <3>4. \A p \in 1 .. Len(log[i]) + 1 : p <= Len(log[i]) <=> log'[i][p].term # t
      <4>1. \A p \in 1 .. Len(log[i]) + 1 : p \in 1 .. Len(log[i]) \/ p = Len(log[i]) + 1
        BY <2>7
      <4>2. \A p \in 1 .. Len(log[i]) : log'[i][p].term # t
        <5>1. \A p \in 1 .. Len(log[i]) : log[i][p].term # t
          BY <2>2, <2>8
        <5> QED
          BY <2>7, <5>1
      <4>3. ~ (Len(log[i]) + 1 <= Len(log[i]))
        BY <2>7
      <4>4. \A p \in 1 .. Len(log[i]) : p <= Len(log[i])
        OBVIOUS
      <4> QED
        BY <2>2, <2>7, <4>1, <4>2, <4>3, <4>4
    <3>5. Len(log[i]) \in 0 .. Len(log'[i]) /\ commitIndex'[i] + 1 <= Len(log[i]) + 0
      BY <1>2, <2>7, <2>10
    <3>6. \A p \in 1 .. Len(log'[i]) : p <= Len(log[i]) <=> log'[i][p].term # currentTerm'[i]
      BY <2>2, <2>7, <3>4
    <3>7. \E m \in 0 .. Len(log'[i]) :
            /\ \A p \in 1 .. Len(log'[i]) : p <= m <=> log'[i][p].term # currentTerm'[i]
            /\ commitIndex'[i] + 1 <= m + Cardinality(AckedIn(currentTerm[i])')
      BY <3>3, <3>5, <3>6
    <3> QED
      BY <3>1, <3>7 DEF CountsOK
  <2>16. NextOK(Acc2)'
    <3>1. ASSUME NEW h \in Replica, leading'[h]
          PROVE  /\ nextIndex'[h] # None
                 /\ \A j \in Peers(h) :
                       /\ nextIndex'[h][j] \in 1 .. Len(log'[h])
                       /\ log'[h][nextIndex'[h][j]].term = currentTerm'[h]
                       => Reached(Acc2, j, nextIndex'[h][j], currentTerm'[h])
      <4>1. CASE h = i
        <5>1. nextIndex'[i] \in [Replica -> Int]
          BY <2>4, <2>7
        <5>2. nextIndex'[i] # None
          BY <5>1, ReplicationAssumption
        <5>3. ASSUME NEW j \in Peers(i), nextIndex'[i][j] \in 1 .. Len(log'[i]) PROVE log'[i][nextIndex'[i][j]].term # currentTerm'[i]
          <6>1. nextIndex'[i][j] = Len(log[i])
            BY <2>4 DEF Peers
          <6>2. Len(log[i]) \in 1 .. Len(log[i])
            BY <2>7, <5>3, <6>1
          <6>3. log'[i][Len(log[i])].term < t /\ log'[i][Len(log[i])].term \in Nat
            BY <2>7, <2>8, <6>2
          <6> QED
            BY <2>2, <6>1, <6>3
        <5> QED
          BY <4>1, <5>2, <5>3
      <4>2. CASE h # i
        <5>1. leading[h] /\ currentTerm'[h] = currentTerm[h] /\ nextIndex'[h] = nextIndex[h]
          BY <2>14, <3>1, <4>2
        <5>2. nextIndex'[h] # None
          BY <5>1 DEF Follows, Present, NextOK
        <5> QED
          BY <3>1, <5>1, <5>2, NextStaysOK
      <4> QED
        BY <4>1, <4>2
    <3> QED
      BY <3>1 DEF NextOK, Reached, Peers
  <2> QED
    BY <1>4, <2>12, <2>13, <2>15, <2>16 DEF Told
<1> QED
  BY <1>3a, <1>6, <1>7

-----------------------------------------------------------------------------
(* Steps that send. *)

\* n entries, more than up to index u, are not all up to index prev.
LEMMA SomeEntries ==
    ASSUME NEW prev \in Int, NEW u \in Int, NEW n \in Nat, NEW d \in Nat,
           prev < u, n > u, n = prev + 1 + d
    PROVE  d >= 1
OBVIOUS

\* A message of a call says what holds, when its LeaderCommit is at an entry that it may
\* carry, or the log of its receiver differs.
LEMMA MessageOK ==
    ASSUME Shapes, NEW K, NEW E, Past(K, E), NEW Acc,
           NEW c \in Call, calls[c] # Idle, CallOK(K, c),
           NEW i, i = calls[c].from, NEW T, T = calls[c].term, NEW u, u = calls[c].upper,
           NEW first, NEW j \in Peers(i), NEW lc \in Int, CommitKnown(K, lc + 1, T),
           NEW prev \in Int, prev >= -1, prev < Len(log[i]),
           lc <= u \/ (prev < u /\ Differs(K, j, T, prev + 2, log[i][prev + 2].term)),
           ~ IsLate(calls[c]) /\ prev > u => Reached(Acc, j, prev + 1, T),
           NEW m, m = Message(c, first, i, j, T, lc, prev)
    PROVE  MsgOK(K, Acc, m)
<1> DEFINE n == IF prev > u THEN prev + 1 ELSE u + 1
           k == SubSeq(log[i], 1, n)
<1>1. /\ calls[c] \in CallRecord /\ i \in Replica /\ T \in Nat /\ u \in Int /\ u < Len(log[i])
  BY CallTypes
<1>2. /\ History(K, E) /\ Held(K) /\ log[i] \in K
      /\ log[i] \in Seq(Entry) /\ Len(log[i]) \in Nat
  BY <1>1, LenProperties DEF Past, Held, Shapes, NodeTypes
<1>3. /\ n \in 0 .. Len(log[i]) /\ k \in K /\ Len(k) = n /\ Agree(k, log[i], n) /\ Carries(m, k)
  BY <1>1, <1>2, MessageCarries
<1>4. /\ u >= 0
      /\ Backed(K, log[i], T)
      /\ \A h \in Replica : leading[h] /\ currentTerm[h] = T => h = i
  BY DEF CallOK
<1>5. /\ m.call = c /\ m.from = i /\ m.to = j /\ m.term = T /\ m.leaderCommit = lc
      /\ m.prevLogIndex = prev
  BY DEF Message
<1> HIDE DEF k
<1>6. n \in Nat /\ n > u /\ n <= Len(log[i]) /\ n >= prev + 1
  BY <1>1, <1>2, <1>4
<1> HIDE DEF n
<1>7. Begins(k, log[i]) /\ k \in Seq(Entry)
  BY <1>2, <1>3, <1>6, HistoryEntries DEF Begins
<1>8. Backed(K, k, T)
  BY <1>1, <1>2, <1>4, <1>7, BackedStays
<1>9. lc < Len(k) \/ (Len(m.entries) >= 1 /\ Differs(K, j, T, prev + 2, k[prev + 2].term))
  <2>1. CASE lc <= u
    BY <1>1, <1>3, <1>6, <2>1
  <2>2. CASE prev < u /\ Differs(K, j, T, prev + 2, log[i][prev + 2].term)
    <3>1. prev + 2 \in 1 .. n
      BY <1>1, <1>6, <2>2
    <3>2. k[prev + 2] = log[i][prev + 2]
      BY <1>3, <3>1 DEF Agree
    <3>3. Len(k) = prev + 1 + Len(m.entries)
      BY <1>3, <1>5 DEF Carries
    <3>4. Len(m.entries) \in Nat
      <4>1. \A q \in prev + 2 .. u + 1 : q \in 1 .. Len(log[i])
        BY <1>1, <1>2
      <4>2. \A q \in prev + 2 .. u + 1 : log[i][q] \in Entry
        BY <1>2, <4>1, ElementOfSeq
      <4>3. SubSeq(log[i], prev + 2, u + 1) \in Seq(Entry)
        BY <1>1, <1>2, <4>1, <4>2, SubSeqProperties
      <4>4. m.entries = SubSeq(log[i], prev + 2, u + 1)
        BY DEF Message, FirstSent
      <4> QED
        BY <4>3, <4>4, LenProperties
    <3>5. Len(m.entries) >= 1
      <4>1. prev \in Int /\ u \in Int /\ prev < u /\ n > u /\ Len(k) = n
        BY <1>1, <1>3, <1>6, <2>2
      <4>2. n = prev + 1 + Len(m.entries)
        BY <3>3, <4>1
      <4> QED
        BY <1>6, <3>4, <4>1, <4>2, SomeEntries
    <3> QED
      BY <2>2, <3>2, <3>5
  <2> QED
    BY <2>1, <2>2
<1>10. Len(k) > u
  BY <1>3, <1>6
<1> QED
  BY <1>3, <1>4, <1>5, <1>7, <1>8, <1>9, <1>10 DEF MsgOK

LEMMA SendTold ==
    ASSUME NEW K, NEW E, NEW Acc, NEW K2, NEW E2, NEW Acc2, Follows(K, E, Acc, K2, E2, Acc2),
           NEW g \in starts, Send(g)
    PROVE  Told(K2, Acc2)'
<1>0. PICK first : sent' = sent \cup
        {Message(g.call, first, g.from, g.to, calls[g.call].term, calls[g.call].leaderCommit,
                 nextIndex[g.from][g.to] - 1)}
  BY DEF Send
<1> SUFFICES ASSUME NEW c, c = g.call, NEW i, i = g.from, NEW j, j = g.to,
                    NEW T, T = calls[c].term, NEW u, u = calls[c].upper,
                    NEW lc, lc = calls[c].leaderCommit,
                    NEW prev, prev = nextIndex[i][j] - 1,
                    NEW m, m = Message(c, first, i, j, T, lc, prev)
             PROVE  Told(K2, Acc2)'
  OBVIOUS
<1>1. /\ nextIndex[i][j] - 1 >= -1
      /\ starts' = starts \ {g} /\ sent' = sent \cup {m}
      /\ UNCHANGED <<nodeVars, calls, answers, acked>>
  BY <1>0 DEF Send
<1>2. Shapes /\ Shapes' /\ Past(K, E) /\ Present(K, Acc)
  BY DEF Follows
<1>3. /\ c \in Call /\ calls[c] # Idle /\ calls[c].from = i /\ i \in Replica /\ j \in Peers(i)
  BY <1>2, UnderWay DEF Peers
<1>4. CallOK(K, c) /\ NextOK(Acc)
  BY <1>2, <1>3 DEF Present, CallsOK
<1>5. CallInLog(c) /\ T \in Nat /\ u \in Int /\ lc \in Int /\ u < Len(log[i])
  BY <1>2, <1>3, CallTypes DEF Shapes, FlightShapes, CallShape
<1>6. /\ prev \in Int /\ prev >= -1 /\ prev < Len(log[i])
      /\ nextIndex[i] # None /\ nextIndex[i][j] \in Int /\ nextIndex[i][j] = prev + 1
  <2>1. nextIndex[i] \in [Replica -> Int] /\ j \in Replica
    BY <1>3, <1>5 DEF CallInLog, Peers
  <2>2. nextIndex[i] # None
    BY <2>1, ReplicationAssumption
  <2>3. nextIndex[i][j] <= Len(log[i])
    BY <1>2, <1>3, <2>1, <2>2 DEF Shapes, NextInLog
  <2> QED
    BY <1>1, <1>3, <2>1, <2>2, <2>3, FollowsTypes
<1>7. /\ u >= 0 /\ lc <= u /\ CommitKnown(K, lc + 1, T)
  BY <1>4 DEF CallOK
<1>8. ASSUME ~ IsLate(calls[c]), prev > u PROVE Reached(Acc, j, prev + 1, T)
  <2>1. leading[i] /\ currentTerm[i] = T /\ log[i][u + 1].term = T
    BY <1>3, <1>4, <1>8 DEF IsLate, CallOK
  <2>2. /\ log[i] \in K /\ History(K, E) /\ Len(log[i]) \in Nat
    BY <1>3, FollowsTypes
  <2>3. Len(log[i]) >= 1 /\ log[i][Len(log[i])].term = T
    BY <1>2, <1>3, <2>1 DEF Past, LeaderLog
  <2>4. prev + 1 \in 1 .. Len(log[i]) /\ u + 1 \in 1 .. Len(log[i]) /\ Len(log[i]) \in 1 .. Len(log[i])
        /\ u + 1 <= prev + 1 /\ prev + 1 <= Len(log[i])
    <3>1. u \in Int /\ u >= 0 /\ prev \in Int /\ prev > u /\ prev < Len(log[i])
      BY <1>5, <1>6, <1>7, <1>8
    <3>2. Len(log[i]) \in Nat /\ Len(log[i]) >= 1
      BY <2>2, <2>3
    <3> QED
      BY <3>1, <3>2
  <2>5. /\ log[i][u + 1].term <= log[i][prev + 1].term
        /\ log[i][prev + 1].term <= log[i][Len(log[i])].term
    BY <2>2, <2>4 DEF History
  <2>6. log[i][prev + 1].term \in Nat
    BY <2>2, <2>4, HistoryEntries
  <2>7. log[i][prev + 1].term = T
    <3> SUFFICES ASSUME NEW x \in Nat, T <= x, x <= T PROVE x = T
      BY <2>1, <2>3, <2>5, <2>6
    <3> QED
      BY <1>5
  <2> QED
    BY <1>3, <1>4, <1>6, <2>1, <2>4, <2>7 DEF NextOK
<1>9. MsgOK(K, Acc, m)
  BY <1>2, <1>3, <1>4, <1>5, <1>6, <1>7, <1>8, MessageOK
<1>10. m.call = c /\ m.to = j /\ m.from = i
  BY DEF Message
<1>11. MsgOK(K2, Acc2, m)'
  <2>1. m \in MessageRecord /\ m.to # m.from
    BY <1>1, <1>2 DEF Shapes, FlightShapes, SentShape
  <2> QED
    BY <1>1, <1>3, <1>9, <1>10, <2>1, MsgOKStays DEF SameCall
<1>12. (\A x \in sent : MsgOK(K2, Acc2, x))' /\ (\A a \in answers : AnswerOK(K2, Acc2, a))'
  BY <1>1, <1>11, FlightsStay DEF SameCall
<1>13. /\ AckedOK(K2, Acc2)' /\ CommitsOK(K2)' /\ CountsOK' /\ NextOK(Acc2)'
       /\ \A h \in Replica : Lives(K, h)
  BY <1>1, NodesStay
<1>14. CallsOK(K2, Acc2)'
  <2>1. \A x \in starts' \cup sent' \cup answers' : x.call # None =>
           \E h \in starts \cup sent \cup answers : h.call = x.call /\ h.to = x.to
    BY <1>1, <1>10
  <2> QED
    BY <1>1, <1>13, <2>1, CallsStay
<1>15. OneEach'
  <2>1. OneEach
    BY <1>2 DEF Present
  <2>2. ASSUME NEW h \in starts, h.call = c, h.to = j PROVE h = g
    <3>1. h \in Goroutine /\ g \in Goroutine /\ h.from = i
      BY <1>2, <1>3, <2>2 DEF Shapes, FlightShapes, StartShape
    <3> QED
      BY <2>2, <3>1 DEF Goroutine
  <2>3. \A h \in starts' : h.call = c => h.to # j
    BY <1>1, <2>2
  <2>4. \A h \in sent \cup answers : h.call = c => h.to # j
    BY <2>1 DEF OneEach
  <2> QED
    BY <1>1, <1>10, <2>1, <2>3, <2>4 DEF OneEach
<1> QED
  BY <1>12, <1>13, <1>14, <1>15 DEF Told

LEMMA RetryTold ==
    ASSUME NEW K, NEW E, NEW Acc, NEW K2, NEW E2, NEW Acc2, Follows(K, E, Acc, K2, E2, Acc2),
           NEW a \in answers, NEW own, Retry(a, own), Sound', ~ IsLate(calls[a.call])
    PROVE  Told(K2, Acc2)'
<1> SUFFICES ASSUME NEW c, c = a.call, NEW i, i = a.from, NEW j, j = a.to,
                    NEW T, T = calls[c].term, NEW u, u = calls[c].upper,
                    NEW lc, lc = commitIndex[i], NEW prev, prev = a.prevLogIndex - 1,
                    NEW first \in BOOLEAN, ~ first,
                    NEW m, m = Message(c, first, i, j, T, lc, prev)
             PROVE  Told(K2, Acc2)'
  OBVIOUS
<1>0. own = a.prevLogIndex
  BY RetryIsOwn
<1>1. Shapes /\ Shapes' /\ Past(K, E) /\ Present(K, Acc)
  BY DEF Follows
<1>2. /\ c \in Call /\ calls[c] # Idle /\ calls[c].from = i /\ i \in Replica /\ j \in Peers(i)
      /\ a.prevLogIndex \in Int /\ a.prevLogIndex < Len(log[i])
  BY <1>1, UnderWay DEF Peers, Shapes, FlightShapes, AnswerShape, AnswerRecord
<1>3. leading[i] /\ currentTerm[i] = T
  BY <1>2 DEF IsLate
<1>4. /\ a.success = FALSE /\ a.term <= T /\ a.prevLogIndex >= 0
      /\ answers' = answers \ {a} /\ sent' = sent \cup {m}
      /\ nextIndex' = [nextIndex EXCEPT ![i][j] = @ - 1]
      /\ UNCHANGED <<currentTerm, leading, log, commitIndex, disk, calls, starts, acked>>
  <2>1. a.success \in BOOLEAN
    BY <1>1 DEF Shapes, FlightShapes, AnswerShape, AnswerRecord
  <2> QED
    BY <1>0, <1>3, <2>1 DEF Retry, Refused, electionVars
<1>5. CallOK(K, c) /\ NextOK(Acc) /\ CallInLog(c)
  BY <1>1, <1>2 DEF Present, CallsOK, Shapes, FlightShapes, CallShape
<1>6. T \in Nat /\ u \in Int /\ u < Len(log[i])
  BY <1>1, <1>2, CallTypes
<1>7. /\ prev \in Int /\ prev >= -1 /\ prev < Len(log[i]) /\ prev + 2 = a.prevLogIndex + 1
  BY <1>2, <1>4, FollowsTypes
<1>8. prev < u /\ Differs(K, j, T, prev + 2, log[i][prev + 2].term)
  <2>1. AnswerOK(K, Acc, a)
    BY <1>1 DEF Present
  <2>2. a.prevLogIndex \in 0 .. u /\ Differs(K, j, T, a.prevLogIndex + 1, log[i][a.prevLogIndex + 1].term)
    BY <1>4, <2>1 DEF AnswerOK
  <2> QED
    BY <1>6, <1>7, <2>2
<1>9. lc \in Int /\ CommitKnown(K, lc + 1, T)
  <2>1. CommitOK(K, log[i], commitIndex[i] + 1, currentTerm[i]) /\ lc \in Int
    BY <1>1, <1>2, FollowsTypes DEF Present, CommitsOK
  <2> QED
    BY <1>3, <2>1 DEF CommitOK, CommitKnown
<1>10. MsgOK(K, Acc, m)
  <2>1. ~ (prev > u)
    BY <1>6, <1>7, <1>8
  <2> QED
    BY <1>1, <1>2, <1>5, <1>6, <1>7, <1>8, <1>9, <2>1, MessageOK
<1>11. m.call = c /\ m.to = j /\ m.from = i
  BY DEF Message
<1>12. MsgOK(K2, Acc2, m)'
  <2>1. m \in MessageRecord /\ m.to # m.from
    BY <1>1, <1>4 DEF Shapes, FlightShapes, SentShape
  <2> QED
    BY <1>2, <1>4, <1>10, <1>11, <2>1, MsgOKStays DEF SameCall
<1>13. (\A x \in sent : MsgOK(K2, Acc2, x))' /\ (\A x \in answers : AnswerOK(K2, Acc2, x))'
  BY <1>4, <1>12, FlightsStay DEF SameCall
<1>14. AckedOK(K2, Acc2)' /\ CountsOK'
  BY <1>4, AckedStay, CountsStay
<1>15. CommitsOK(K2)'
  <2>1. \A h \in Replica : Begins(log[h], log'[h])
    BY <1>4, LeaderKeeps
  <2> QED
    BY <1>4, <2>1, CommitsStay
<1>16. CallsOK(K2, Acc2)'
  <2>1. \A x \in starts' \cup sent' \cup answers' : x.call # None =>
           \E h \in starts \cup sent \cup answers : h.call = x.call /\ h.to = x.to
    BY <1>4, <1>11
  <2>2. \A h \in Replica : Lives(K, h)
    BY <1>4 DEF Lives
  <2> QED
    BY <1>4, <2>1, <2>2, CallsStay
<1>17. OneEach'
  <2>1. OneEach
    BY <1>1 DEF Present
  <2>2. \A h \in answers' : h.call = c => h.to # j
    BY <1>4, <2>1 DEF OneEach
  <2>3. \A h \in starts \cup sent : h.call = c => h.to # j
    BY <2>1 DEF OneEach
  <2> QED
    BY <1>4, <1>11, <2>1, <2>2, <2>3 DEF OneEach
<1>18. NextOK(Acc2)'
  <2>1. nextIndex[i] \in [Replica -> Int] /\ j \in Replica /\ nextIndex \in [Replica -> [Replica -> Int] \cup {None}]
    BY <1>1, <1>2, <1>5 DEF CallInLog, Peers, Shapes, NodeTypes
  <2>2. /\ nextIndex'[i] = [nextIndex[i] EXCEPT ![j] = @ - 1]
        /\ \A h \in Replica : h # i => nextIndex'[h] = nextIndex[h]
    BY <1>2, <1>4, <2>1
  <2>3. /\ nextIndex'[i] \in [Replica -> Int]
        /\ nextIndex'[i][j] = nextIndex[i][j] - 1
        /\ \A h \in Replica : h # j => nextIndex'[i][h] = nextIndex[i][h]
    BY <2>1, <2>2
  <2>4. nextIndex'[i] # None /\ nextIndex[i] # None
    BY <2>1, <2>3, ReplicationAssumption
  <2>5. ASSUME nextIndex'[i][j] \in 1 .. Len(log[i]), log[i][nextIndex'[i][j]].term = T
        PROVE  Reached(Acc2, j, nextIndex'[i][j], T)
    <3> SUFFICES ASSUME NEW n, n = nextIndex'[i][j] PROVE Reached(Acc2, j, n, T)
      OBVIOUS
    <3>1. log[i] \in K /\ History(K, E) /\ Len(log[i]) \in Nat
      BY <1>2, FollowsTypes
    <3>2. nextIndex[i][j] = n + 1 /\ n \in Int /\ n >= 1
      BY <2>1, <2>3, <2>5, <3>1
    <3>3. n + 1 <= Len(log[i])
      BY <1>1, <1>2, <2>1, <2>4, <3>2 DEF Shapes, NextInLog
    <3>4. log[i][Len(log[i])].term = T
      BY <1>1, <1>2, <1>3 DEF Past, LeaderLog
    <3>5. /\ n \in 1 .. Len(log[i]) /\ n + 1 \in 1 .. Len(log[i]) /\ Len(log[i]) \in 1 .. Len(log[i])
          /\ n <= n + 1
      BY <3>1, <3>2, <3>3
    <3>6. log[i][n].term <= log[i][n + 1].term /\ log[i][n + 1].term <= log[i][Len(log[i])].term
      BY <3>1, <3>3, <3>5 DEF History
    <3>7. log[i][n + 1].term \in Nat /\ log[i][n].term = T
      BY <2>5, <3>1, <3>5, HistoryEntries
    <3>8. log[i][n + 1].term = T
      BY <1>6, <3>4, <3>6, <3>7
    <3>9. Reached(Acc, j, n + 1, T)
      BY <1>2, <1>3, <1>5, <3>2, <3>5, <3>8 DEF NextOK
    <3>10. PICK p \in Nat : p >= n + 1 /\ <<j, p, T>> \in Acc
      BY <3>9 DEF Reached
    <3>11. p >= n
      BY <3>2, <3>10
    <3>12. Reached(Acc, j, n, T)
      BY <3>10, <3>11 DEF Reached
    <3> QED
      BY <1>6, <2>1, <3>2, <3>12, AcceptedStays
  <2>6. ASSUME NEW h \in Replica, leading'[h]
        PROVE  /\ nextIndex'[h] # None
               /\ \A p \in Peers(h) :
                     /\ nextIndex'[h][p] \in 1 .. Len(log'[h])
                     /\ log'[h][nextIndex'[h][p]].term = currentTerm'[h]
                     => Reached(Acc2, p, nextIndex'[h][p], currentTerm'[h])
    <3>1. leading[h] /\ currentTerm'[h] = currentTerm[h]
      BY <1>4, <2>6
    <3>2. CASE h = i
      <4>1. ASSUME NEW p \in Peers(i), p # j,
                   nextIndex'[i][p] \in 1 .. Len(log'[i]),
                   log'[i][nextIndex'[i][p]].term = currentTerm'[i]
            PROVE  Reached(Acc2, p, nextIndex'[i][p], currentTerm'[i])
        <5>1. nextIndex'[i][p] = nextIndex[i][p]
          BY <2>3, <4>1 DEF Peers
        <5> QED
          BY <1>2, <2>4, <2>6, <3>1, <3>2, <4>1, <5>1, NextStaysOK
      <4> QED
        BY <1>3, <1>4, <2>4, <2>5, <3>2, <4>1
    <3>3. CASE h # i
      <4>1. nextIndex'[h] = nextIndex[h] /\ nextIndex'[h] # None
        BY <1>5, <2>2, <3>1, <3>3 DEF NextOK
      <4> QED
        BY <2>6, <3>1, <4>1, NextStaysOK
    <3> QED
      BY <3>2, <3>3
  <2> QED
    BY <2>6 DEF NextOK, Reached, Peers
<1> QED
  BY <1>13, <1>14, <1>15, <1>16, <1>17, <1>18 DEF Told

LEMMA AppendEntriesStaleTold ==
    ASSUME NEW K, NEW E, NEW Acc, NEW K2, NEW E2, NEW Acc2, Follows(K, E, Acc, K2, E2, Acc2),
           NEW m \in sent, AppendEntriesStale(m)
    PROVE  Told(K2, Acc2)'
<1>1. PICK success :
        /\ currentTerm[m.to] > m.term
        /\ sent' = sent \ {m}
        /\ answers' = answers \cup Answer(m, currentTerm[m.to], success)
        /\ UNCHANGED <<nodeVars, calls, starts, acked>>
  BY DEF AppendEntriesStale
<1>2. Shapes /\ Shapes' /\ Past(K, E) /\ Present(K, Acc)
  BY DEF Follows
<1>3. \A a \in Answer(m, currentTerm[m.to], success) :
        m.call # None /\ a.call = m.call /\ a.to = m.to /\ a.term = currentTerm[m.to]
  BY DEF Answer
<1>4. /\ AckedOK(K2, Acc2)' /\ CommitsOK(K2)' /\ CountsOK' /\ NextOK(Acc2)'
      /\ \A h \in Replica : Lives(K, h)
  BY <1>1, NodesStay
<1>5. ASSUME NEW a \in Answer(m, currentTerm[m.to], success) PROVE AnswerOK(K2, Acc2, a)'
  <2>1. /\ m.call \in Call /\ calls[m.call] # Idle
        /\ m.term \in Nat /\ m.to \in Replica
    BY <1>2, <1>3, UnderWay, TermIsNat DEF MessageRecord
  <2>2. ~ IsLate(calls[m.call]) => m.term = calls[m.call].term
    BY <1>2, <1>3 DEF Present, MsgOK
  <2>3. ~ IsLate(calls[m.call])' => ~ IsLate(calls[m.call])
    BY <1>1, <2>1, NotLateBefore DEF SameCall
  <2>4. ~ (a.term <= m.term)
    BY <1>1, <1>2, <1>3, <2>1, CurrentTermIsNat
  <2> QED
    BY <1>1, <1>3, <2>2, <2>3, <2>4 DEF AnswerOK
<1>6. (\A x \in sent : MsgOK(K2, Acc2, x))' /\ (\A x \in answers : AnswerOK(K2, Acc2, x))'
  BY <1>1, <1>5, FlightsStay DEF SameCall
<1>7. CallsOK(K2, Acc2)'
  <2>1. \A x \in starts' \cup sent' \cup answers' : x.call # None =>
           \E h \in starts \cup sent \cup answers : h.call = x.call /\ h.to = x.to
    BY <1>1, <1>3
  <2> QED
    BY <1>1, <1>4, <2>1, CallsStay
<1>8. OneEach'
  <2>1. OneEach
    BY <1>2 DEF Present
  <2>2. CASE m.call = None
    BY <1>1, <1>3, <2>1, <2>2 DEF OneEach
  <2>3. CASE m.call # None
    <3>1. \A h \in sent' : h.call = m.call => h.to # m.to
      BY <1>1, <2>1, <2>3 DEF OneEach
    <3>2. \A h \in starts \cup answers : h.call = m.call => h.to # m.to
      BY <2>1 DEF OneEach
    <3>3. \A a, b \in Answer(m, currentTerm[m.to], success) : a = b
      BY DEF Answer
    <3> QED
      BY <1>1, <1>3, <2>1, <3>1, <3>2, <3>3 DEF OneEach
  <2> QED
    BY <2>2, <2>3
<1> QED
  BY <1>4, <1>6, <1>7, <1>8 DEF Told

-----------------------------------------------------------------------------
(* Steps in which a goroutine of a call ends. *)

LEMMA ReturnsCounts ==
    ASSUME FlightShapes, NEW c \in Call, calls[c] \in CallRecord, NEW success \in BOOLEAN,
           Returns(c, success), calls'[c] # Idle,
           calls[c].verdict = "won" => WriteQuorum(calls[c].successes)
    PROVE  /\ calls'[c].verdict = "won" => WriteQuorum(calls'[c].successes)
           /\ calls'[c].verdict # "told" => calls[c].verdict # "told"
           /\ \/ calls'[c].successes = calls[c].successes
              \/ success /\ calls[c].entry # None /\ calls'[c].successes = calls[c].successes + 1
<1> DEFINE counts == success /\ calls[c].verdict = "none" /\ calls[c].entry # None
           n == calls[c].successes + IF counts THEN 1 ELSE 0
           verdict == IF counts /\ WriteQuorum(n) THEN "won" ELSE calls[c].verdict
           call == [calls[c] EXCEPT !.successes = n, !.verdict = verdict]
<1>1. calls[c].successes \in Nat
  BY DEF CallRecord
<1>2. calls' = [calls EXCEPT ![c] = Settled(c, call)]
  BY DEF Returns
<1>3. calls'[c] = Settled(c, call)
  BY <1>2 DEF FlightShapes
<1>4. call.successes = n /\ call.verdict = verdict
  BY DEF CallRecord
<1> HIDE DEF call
<1>5. \/ calls'[c] = call
      \/ calls'[c] = [call EXCEPT !.verdict = "failed"] /\ call.verdict = "none"
  BY <1>3 DEF Settled
<1>6. calls'[c].successes = n /\ (calls'[c].verdict = verdict \/ (calls'[c].verdict = "failed" /\ verdict = "none"))
  <2>1. DOMAIN call = DOMAIN calls[c]
    BY DEF call, CallRecord
  <2>2. CASE calls'[c] = call
    BY <1>4, <2>2
  <2>3. CASE calls'[c] = [call EXCEPT !.verdict = "failed"] /\ call.verdict = "none"
    <3>1. call \in [from : Replica, entry : Entry \cup {None}, term : Term, leaderCommit : Int,
                    index : Int, upper : Int, successes : {n}, verdict : {verdict}]
      BY DEF call, CallRecord
    <3>2. calls'[c].verdict = "failed" /\ calls'[c].successes = n
      BY <2>3, <3>1
    <3> QED
      BY <1>4, <2>3, <3>2
  <2> QED
    BY <1>5, <2>2, <2>3
<1>7. CASE counts
  BY <1>1, <1>6, <1>7
<1>8. CASE ~ counts
  BY <1>1, <1>6, <1>8
<1> QED
  BY <1>7, <1>8

LEMMA ReturnsTold ==
    ASSUME NEW K, NEW E, NEW Acc, NEW K2, NEW E2, NEW Acc2, Follows(K, E, Acc, K2, E2, Acc2),
           NEW c \in Call, calls[c] # Idle, NEW success \in BOOLEAN, Returns(c, success),
           acked' = acked, \A i \in Replica : Lives(K, i),
           starts' \subseteq starts, sent' \subseteq sent, answers' \subseteq answers,
           NEW to \in Replica, to # calls[c].from,
           success =>
              /\ \E a \in answers : a.call = c /\ a.to = to
              /\ \A g \in starts' \cup sent' \cup answers' : g.call = c => g.to # to
              /\ SameCall(c) /\ ~ IsLate(calls[c])' /\ calls[c].entry # None =>
                    <<to, calls[c].index + 1, calls[c].term>> \in Acc
    PROVE  CallsOK(K2, Acc2)' /\ OneEach'
           /\ (\A m \in sent : MsgOK(K2, Acc2, m))' /\ (\A a \in answers : AnswerOK(K2, Acc2, a))'
<1>1. Shapes /\ Shapes' /\ Present(K, Acc) /\ FlightShapes
  BY DEF Follows, Shapes
<1>2. calls[c] \in CallRecord
  BY <1>1, CallTypes
<1>3. /\ calls' = [calls EXCEPT ![c] = calls'[c]]
      /\ (calls'[c] = Idle /\ Over(c)) \/ SameCall(c)
  BY <1>1, <1>2, ReturnsCall DEF SameCall
<1>4. \A d \in Call : d # c => calls'[d] = calls[d]
  BY <1>1, <1>3 DEF FlightShapes
<1>5. \A d \in Call : d # c => SameCall(d)
  BY <1>4 DEF SameCall
<1>6. \A g \in starts' \cup sent' \cup answers' : g.call # None => g.call \in Call /\ SameCall(g.call)
  <2>1. ASSUME NEW g \in starts' \cup sent' \cup answers', g.call # None PROVE g.call \in Call
    BY <1>1, <2>1, UnderWay
  <2> QED
    BY <1>3, <1>5, <2>1 DEF Over
<1>7. \A a \in answers : a.call # None
  BY <1>1, UnderWay, ReplicationAssumption
<1>8. /\ \A m \in sent' : MsgOK(K2, Acc2, m)'
      /\ \A a \in answers' : AnswerOK(K2, Acc2, a)'
  <2>1. ASSUME NEW m \in sent' PROVE MsgOK(K2, Acc2, m)'
    BY <1>6, <2>1, FlightsStay
  <2>2. ASSUME NEW a \in answers' PROVE AnswerOK(K2, Acc2, a)'
    BY <1>6, <1>7, <2>2, FlightsStay
  <2> QED
    BY <2>1, <2>2
<1>9. OneEach'
  BY <1>1 DEF Present, OneEach
<1>10. ASSUME NEW d \in Call, d # c, calls'[d] # Idle
       PROVE  CallOK(K2, d)' /\ Counted(Acc2, d)' /\ Fresh(d)'
  <2>1. calls[d] # Idle /\ calls'[d] = calls[d] /\ calls[d].from \in Replica
    BY <1>1, <1>4, <1>10, CallTypes
  <2>2. \A g \in starts' \cup sent' \cup answers' : g.call = d =>
           \E h \in starts \cup sent \cup answers : h.call = d /\ h.to = g.to
    OBVIOUS
  <2>3. \A d2 \in Call \ {d} : calls'[d2] = Idle \/ (calls[d2] # Idle /\ SameCall(d2))
    BY <1>3, <1>4, <1>5
  <2> QED
    BY <2>1, <2>2, <2>3, CallStays
<1>11. ASSUME calls'[c] # Idle
       PROVE  CallOK(K2, c)' /\ Counted(Acc2, c)' /\ Fresh(c)'
  <2>1. SameCall(c) /\ calls[c].from \in Replica
    BY <1>1, <1>3, <1>11, CallTypes
  <2>2. CallOK(K2, c)'
    BY <2>1, CallOKStays
  <2>3. Counted(Acc, c)
    BY <1>1 DEF Present, CallsOK
  <2>4. /\ calls'[c].verdict = "won" => WriteQuorum(calls'[c].successes)
        /\ calls'[c].verdict # "told" => calls[c].verdict # "told"
        /\ \/ calls'[c].successes = calls[c].successes
           \/ success /\ calls[c].entry # None /\ calls'[c].successes = calls[c].successes + 1
    <3>1. calls[c].verdict = "won" => WriteQuorum(calls[c].successes)
      BY <2>3 DEF Counted
    <3> QED
      BY <1>1, <1>2, <1>11, <3>1, ReturnsCounts
  <2>5. Fresh(c)'
    <3>1. \A d \in Call \ {c} : calls'[d] = Idle \/ (calls[d] # Idle /\ SameCall(d))
      BY <1>4, <1>5
    <3> QED
      BY <2>1, <2>4, <3>1, FreshStays
  <2>6. ASSUME ~ IsLate(calls[c])', calls[c].entry # None
        PROVE  \E S \in SUBSET Peers(calls[c].from) :
                  /\ Cardinality(S) + 1 = calls'[c].successes
                  /\ \A g \in starts' \cup sent' \cup answers' : g.call = c => g.to \notin S
                  /\ \A j \in S : <<j, calls[c].index + 1, calls[c].term>> \in Acc2
    <3>1. ~ IsLate(calls[c])
      BY <2>1, <2>6, NotLateBefore
    <3>2. PICK S \in SUBSET Peers(calls[c].from) :
            /\ Cardinality(S) + 1 = calls[c].successes
            /\ \A g \in starts \cup sent \cup answers : g.call = c => g.to \notin S
            /\ \A j \in S : <<j, calls[c].index + 1, calls[c].term>> \in Acc
      BY <2>3, <2>6, <3>1 DEF Counted
    <3>3. calls[c].index + 1 \in Nat /\ calls[c].term \in Nat
      BY <1>1, <2>6, CallTypes
    <3>4. \A j \in Replica : <<j, calls[c].index + 1, calls[c].term>> \in Acc =>
                             <<j, calls[c].index + 1, calls[c].term>> \in Acc2
      BY <3>3, AcceptedStays
    <3>5. S \in SUBSET Replica
      BY DEF Peers
    <3>6. CASE calls'[c].successes = calls[c].successes
      BY <3>2, <3>4, <3>5, <3>6
    <3>7. CASE success /\ calls'[c].successes = calls[c].successes + 1
      <4>1. to \notin S
        BY <3>2, <3>7
      <4>2. IsFiniteSet(S)
        BY <3>5, ReplicationAssumption, FS_Subset
      <4>3. Cardinality(S \cup {to}) = Cardinality(S) + 1
        BY <4>1, <4>2, FS_AddElement
      <4>4. Cardinality(S) \in Nat
        BY <4>2, FS_CardinalityType
      <4>5. Cardinality(S \cup {to}) + 1 = calls'[c].successes
        BY <3>2, <3>7, <4>3, <4>4
      <4>6. S \cup {to} \in SUBSET Peers(calls[c].from)
        BY DEF Peers
      <4>7. \A g \in starts' \cup sent' \cup answers' : g.call = c => g.to \notin S \cup {to}
        BY <3>2, <3>7
      <4>8. \A j \in S \cup {to} : <<j, calls[c].index + 1, calls[c].term>> \in Acc2
        BY <2>1, <2>6, <3>2, <3>4, <3>5, <3>7
      <4> QED
        BY <4>5, <4>6, <4>7, <4>8
    <3> QED
      BY <2>4, <3>6, <3>7
  <2>7. Counted(Acc2, c)'
    BY <2>1, <2>4, <2>6 DEF Counted, Peers, SameCall
  <2> QED
    BY <2>2, <2>5, <2>7
<1>12. CallsOK(K2, Acc2)'
  BY <1>10, <1>11 DEF CallsOK
<1> QED
  BY <1>8, <1>9, <1>12

LEMMA GiveUpTold ==
    ASSUME NEW K, NEW E, NEW Acc, NEW K2, NEW E2, NEW Acc2, Follows(K, E, Acc, K2, E2, Acc2),
           NEW m \in sent \cup answers, GiveUp(m)
    PROVE  Told(K2, Acc2)'
<1>1. /\ m.call # None
      /\ sent' = sent \ {m} /\ answers' = answers \ {m}
      /\ UNCHANGED <<nodeVars, acked, starts>>
      /\ Returns(m.call, FALSE)
  BY DEF GiveUp
<1>2. m.call \in Call /\ calls[m.call] # Idle /\ m.to \in Replica /\ m.to # calls[m.call].from
  BY <1>1, UnderWay DEF Follows
<1>3. /\ AckedOK(K2, Acc2)' /\ CommitsOK(K2)' /\ CountsOK' /\ NextOK(Acc2)'
      /\ \A h \in Replica : Lives(K, h)
  BY <1>1, NodesStay
<1>4. starts' \subseteq starts /\ sent' \subseteq sent /\ answers' \subseteq answers /\ FALSE \in BOOLEAN
  BY <1>1
<1>5. /\ CallsOK(K2, Acc2)' /\ OneEach'
      /\ (\A x \in sent : MsgOK(K2, Acc2, x))' /\ (\A x \in answers : AnswerOK(K2, Acc2, x))'
  BY <1>1, <1>2, <1>3, <1>4, ReturnsTold
<1> QED
  BY <1>3, <1>5 DEF Told

LEMMA AnsweredTold ==
    ASSUME NEW K, NEW E, NEW Acc, NEW K2, NEW E2, NEW Acc2, Follows(K, E, Acc, K2, E2, Acc2),
           NEW a \in answers, Answered(a)
    PROVE  Told(K2, Acc2)'
<1> SUFFICES ASSUME NEW c, c = a.call, NEW i, i = a.from, NEW j, j = a.to,
                    NEW T, T = calls[c].term, NEW u, u = calls[c].upper
             PROVE  Told(K2, Acc2)'
  OBVIOUS
<1>1. Shapes /\ Shapes' /\ Past(K, E) /\ Present(K, Acc)
  BY DEF Follows
<1>2. /\ c \in Call /\ calls[c] # Idle /\ calls[c].from = i /\ i \in Replica /\ j \in Replica
      /\ j # i /\ a.success \in BOOLEAN
  BY <1>1, UnderWay DEF Shapes, FlightShapes, AnswerShape, AnswerRecord
<1>3. /\ answers' = answers \ {a} /\ UNCHANGED <<starts, sent, acked>>
      /\ Returns(c, a.success)
  BY DEF Answered, electionVars
<1>4. /\ UNCHANGED <<log, commitIndex>>
      /\ \/ UNCHANGED <<currentTerm, leading, disk>>
         \/ /\ a.term > currentTerm[i]
            /\ currentTerm' = [currentTerm EXCEPT ![i] = a.term]
            /\ leading' = [leading EXCEPT ![i] = FALSE]
            /\ \A h \in Replica : disk'[h] =
                  IF h = i THEN [log |-> log[h], commitIndex |-> commitIndex[h]] ELSE disk[h]
      /\ \/ nextIndex' = nextIndex
         \/ /\ a.success /\ a.term <= currentTerm[i]
            /\ nextIndex' = [nextIndex EXCEPT ![i][j] = u + 1]
  BY <1>1, AnsweredNode
<1>5. \A h \in Replica : Lives(K, h)
  BY <1>4 DEF Lives
<1>6. \A h \in Replica : leading'[h] => /\ leading[h] /\ currentTerm'[h] = currentTerm[h]
                                        /\ commitIndex'[h] = commitIndex[h]
  <2>1. leading \in [Replica -> BOOLEAN] /\ currentTerm \in [Replica -> Term]
    BY <1>1 DEF Shapes, NodeTypes
  <2> QED
    BY <1>2, <1>4, <2>1
<1>7. AckedOK(K2, Acc2)' /\ CountsOK'
  BY <1>3, <1>6, AckedStay, CountsStay
<1>8. CommitsOK(K2)'
  <2>1. \A h \in Replica : commitIndex'[h] = commitIndex[h] /\ Begins(log[h], log'[h])
    BY <1>4, LeaderKeeps
  <2>2. \A h \in Replica : \/ disk'[h] = disk[h]
                           \/ disk'[h] = [log |-> log'[h], commitIndex |-> commitIndex'[h]]
    BY <1>4
  <2> QED
    BY <2>1, <2>2, CommitsStay
<1>9. AnswerOK(K, Acc, a) /\ OneEach /\ CallOK(K, c) /\ NextOK(Acc)
  BY <1>1, <1>2 DEF Present, CallsOK
<1>10. T \in Nat /\ u \in Int /\ u >= 0 /\ a.term \in Nat /\ currentTerm[i] \in Nat
  BY <1>1, <1>2, <1>9, CallTypes, CurrentTermIsNat, TermIsNat
     DEF CallOK, Shapes, FlightShapes, AnswerShape, AnswerRecord
<1>11. /\ CallsOK(K2, Acc2)' /\ OneEach'
       /\ (\A x \in sent : MsgOK(K2, Acc2, x))' /\ (\A x \in answers : AnswerOK(K2, Acc2, x))'
  <2>1. ASSUME a.success
        PROVE  \A g \in starts' \cup sent' \cup answers' : g.call = c => g.to # j
    BY <1>3, <1>9 DEF OneEach
  <2>2. ASSUME a.success, SameCall(c), ~ IsLate(calls[c])', calls[c].entry # None
        PROVE  <<j, calls[c].index + 1, calls[c].term>> \in Acc
    <3>1. ~ IsLate(calls[c]) /\ leading'[i] /\ currentTerm[i] = T /\ currentTerm'[i] = T
      BY <1>2, <2>2, NotLateBefore
    <3>2. a.term <= T
      <4>1. ~ (a.term > currentTerm[i])
        <5>1. leading \in [Replica -> BOOLEAN]
          BY <1>1 DEF Shapes, NodeTypes
        <5>2. ~ StepDown(i, a.term)
          BY <1>2, <3>1, <5>1 DEF StepDown, electionVars
        <5> QED
          BY <2>2, <5>2 DEF Answered, electionVars
      <4> QED
        BY <1>10, <3>1, <4>1
    <3> QED
      BY <1>9, <2>2, <3>1, <3>2 DEF AnswerOK
  <2>3. starts' \subseteq starts /\ sent' \subseteq sent /\ answers' \subseteq answers
    BY <1>3
  <2> QED
    BY <1>2, <1>3, <1>5, <2>1, <2>2, <2>3, ReturnsTold
<1>12. ASSUME leading[i], nextIndex' = [nextIndex EXCEPT ![i][j] = u + 1],
              a.success, a.term <= currentTerm[i],
              log[i][u + 1].term = currentTerm[i]
       PROVE  Reached(Acc2, j, u + 1, currentTerm[i])
  <2>1. ~ IsLate(calls[c]) /\ currentTerm[i] = T
    BY <1>2, <1>9, <1>12 DEF CallOK, IsLate
  <2>2. <<j, u + 1, T>> \in Acc
    BY <1>9, <1>12, <2>1 DEF AnswerOK
  <2>3. u + 1 \in Nat /\ u + 1 >= u + 1 /\ u + 1 \in Int
    BY <1>10
  <2>4. Reached(Acc, j, u + 1, T)
    BY <2>2, <2>3 DEF Reached
  <2> QED
    BY <1>2, <1>10, <2>1, <2>3, <2>4, AcceptedStays
<1>13. NextOK(Acc2)'
  <2>1. ASSUME NEW h \in Replica, leading'[h]
        PROVE  /\ nextIndex'[h] # None
               /\ \A p \in Peers(h) :
                     /\ nextIndex'[h][p] \in 1 .. Len(log'[h])
                     /\ log'[h][nextIndex'[h][p]].term = currentTerm'[h]
                     => Reached(Acc2, p, nextIndex'[h][p], currentTerm'[h])
    <3>1. leading[h] /\ currentTerm'[h] = currentTerm[h] /\ nextIndex[h] # None
      BY <1>6, <1>9, <2>1 DEF NextOK
    <3>2. CASE nextIndex'[h] = nextIndex[h]
      BY <2>1, <3>1, <3>2, NextStaysOK
    <3>3. CASE /\ h = i /\ a.success /\ a.term <= currentTerm[i]
               /\ nextIndex' = [nextIndex EXCEPT ![i][j] = u + 1]
      <4>1. nextIndex \in [Replica -> [Replica -> Int] \cup {None}] /\ nextIndex[i] \in [Replica -> Int]
        BY <1>1, AnsweredNode
      <4>2. nextIndex'[i] = [nextIndex[i] EXCEPT ![j] = u + 1]
        BY <1>2, <3>3, <4>1
      <4>3. /\ nextIndex'[i] \in [Replica -> Int] /\ nextIndex'[i][j] = u + 1
            /\ \A p \in Replica : p # j => nextIndex'[i][p] = nextIndex[i][p]
        BY <1>2, <1>10, <4>1, <4>2
      <4>4. nextIndex'[i] # None
        BY <4>3, ReplicationAssumption
      <4>5. ASSUME NEW p \in Peers(i), nextIndex'[i][p] \in 1 .. Len(log'[i]),
                   log'[i][nextIndex'[i][p]].term = currentTerm'[i]
            PROVE  Reached(Acc2, p, nextIndex'[i][p], currentTerm'[i])
        <5>1. CASE p = j
          BY <1>4, <1>12, <3>1, <3>3, <4>3, <4>5, <5>1
        <5>2. CASE p # j
          <6>1. nextIndex'[i][p] = nextIndex[i][p]
            BY <4>3, <5>2 DEF Peers
          <6> QED
            BY <2>1, <3>1, <3>3, <4>4, <4>5, <6>1, NextStaysOK
        <5> QED
          BY <5>1, <5>2
      <4> QED
        BY <3>3, <4>4, <4>5
    <3>4. nextIndex'[h] = nextIndex[h] \/ h = i
      BY <1>1, <1>2, <1>4 DEF Shapes, NodeTypes
    <3> QED
      BY <1>4, <3>2, <3>3, <3>4
  <2> QED
    BY <2>1 DEF NextOK, Reached, Peers
<1> QED
  BY <1>7, <1>8, <1>11, <1>13 DEF Told

LEMMA RetryNoOpTold ==
    ASSUME NEW K, NEW E, NEW Acc, NEW K2, NEW E2, NEW Acc2, Follows(K, E, Acc, K2, E2, Acc2),
           NEW c \in Call, RetryNoOp(c), leading[calls[c].from] => ~ IsLate(calls[c])
    PROVE  Told(K2, Acc2)'
<1> SUFFICES ASSUME NEW i, i = calls[c].from, NEW T, T = calls[c].term,
                    NEW u, u = calls[c].upper, NEW n, n = calls[c].leaderCommit
             PROVE  Told(K2, Acc2)'
  OBVIOUS
<1>1. Shapes /\ Shapes' /\ Past(K, E) /\ Present(K, Acc)
  BY DEF Follows
<1>2. /\ calls[c] # Idle /\ calls[c].verdict = "failed"
      /\ UNCHANGED <<nodeVars, sent, answers, acked>>
  BY DEF RetryNoOp
<1>3. /\ calls[c] \in CallRecord /\ i \in Replica /\ T \in Nat /\ u \in Int /\ n \in Int
      /\ u < Len(log[i]) /\ calls[c].index \in Int /\ calls[c].index <= u
  BY <1>1, <1>2, CallTypes
<1>4. /\ AckedOK(K2, Acc2)' /\ CommitsOK(K2)' /\ CountsOK' /\ NextOK(Acc2)'
      /\ \A h \in Replica : Lives(K, h)
  BY <1>2, NodesStay
<1>5. \A g \in starts \cup sent \cup answers : g.call # None => g.call # c
  BY <1>1, <1>2 DEF Shapes, FlightShapes, StartShape, SentShape, AnswerShape
<1>6. calls' \in [Call -> CallRecord \cup {Idle}] /\ calls \in [Call -> CallRecord \cup {Idle}]
  BY <1>1 DEF Shapes, FlightShapes
<1>7. \A d \in Call : d # c => calls'[d] = calls[d]
  BY <1>2, <1>6 DEF RetryNoOp
<1>8. \A a \in starts \cup answers : a.call # None
  BY <1>1, UnderWay, ReplicationAssumption
<1>9. (\A m \in sent : MsgOK(K2, Acc2, m))' /\ (\A a \in answers : AnswerOK(K2, Acc2, a))'
  <2>1. \A m \in sent : m.call # None => SameCall(m.call)
    BY <1>1, <1>5, <1>7, UnderWay DEF SameCall
  <2>2. \A a \in answers : SameCall(a.call)
    BY <1>1, <1>5, <1>7, <1>8, UnderWay DEF SameCall
  <2> QED
    BY <1>2, <2>1, <2>2, FlightsStay
<1>10. \A g \in starts' : g \in starts \/ g.call = c
  <2>1. starts' = starts \/ starts' = starts \cup {[call |-> c, from |-> i, to |-> j] : j \in Peers(i)}
    BY DEF RetryNoOp
  <2>2. \A g \in {[call |-> c, from |-> i, to |-> j] : j \in Peers(i)} : g.call = c
    OBVIOUS
  <2> QED
    BY <2>1, <2>2
<1>11. OneEach'
  <2>1. OneEach
    BY <1>1 DEF Present
  <2>2. c # None
    BY ReplicationAssumption
  <2>3. \A h \in sent \cup answers : h.call # c
    BY <1>5, <2>2
  <2> QED
    BY <1>2, <1>10, <2>1, <2>3 DEF OneEach
<1>12. /\ leading' = leading /\ currentTerm' = currentTerm /\ log' = log
  BY <1>2 DEF nodeVars, electionVars
<1>13. CASE ~ leading[i]
  <2>1. calls'[c] = Idle /\ starts' = starts
    BY <1>2, <1>6, <1>13 DEF RetryNoOp
  <2>2. ASSUME NEW d \in Call, calls'[d] # Idle
        PROVE  CallOK(K2, d)' /\ Counted(Acc2, d)' /\ Fresh(d)'
    <3>1. d # c /\ calls[d] # Idle /\ calls'[d] = calls[d] /\ calls[d].from \in Replica
      BY <1>1, <1>7, <2>1, <2>2, CallTypes
    <3>2. \A h \in Call \ {d} : calls'[h] = Idle \/ (calls[h] # Idle /\ SameCall(h))
      BY <1>7, <2>1 DEF SameCall
    <3>3. \A g \in starts' \cup sent' \cup answers' : g.call = d =>
             \E h \in starts \cup sent \cup answers : h.call = d /\ h.to = g.to
      BY <1>2, <2>1
    <3> QED
      BY <1>2, <1>4, <3>1, <3>2, <3>3, CallStays
  <2> QED
    BY <1>4, <1>9, <1>11, <2>2 DEF Told, CallsOK
<1>14. CASE leading[i]
  <2>1. /\ calls' = [calls EXCEPT ![c] = [@ EXCEPT !.verdict = "none", !.successes = 1,
                                                  !.upper = Len(log[i]) - 1]]
        /\ starts' = starts \cup {[call |-> c, from |-> i, to |-> j] : j \in Peers(i)}
    BY <1>14 DEF RetryNoOp
  <2>2. /\ calls'[c] \in CallRecord
        /\ calls'[c].from = i /\ calls'[c].term = T /\ calls'[c].leaderCommit = n
        /\ calls'[c].index = calls[c].index /\ calls'[c].entry = calls[c].entry
        /\ calls'[c].upper = Len(log[i]) - 1 /\ calls'[c].successes = 1
        /\ calls'[c].verdict = "none"
    <3>1. calls'[c] = [calls[c] EXCEPT !.verdict = "none", !.successes = 1, !.upper = Len(log[i]) - 1]
      BY <1>6, <2>1
    <3>2. Len(log[i]) - 1 \in Int
      BY <1>3, FollowsTypes
    <3>4. PICK x \in CallRecord : x = calls[c]
      BY <1>3
    <3>5. PICK z \in Int : z = Len(log[i]) - 1
      BY <3>2
    <3>6. PICK y : y = calls'[c]
      OBVIOUS
    <3>7. y = [x EXCEPT !.verdict = "none", !.successes = 1, !.upper = z]
      BY <3>1, <3>4, <3>5, <3>6
    <3>8. /\ y \in CallRecord
          /\ y.from = x.from /\ y.term = x.term /\ y.leaderCommit = x.leaderCommit
          /\ y.index = x.index /\ y.entry = x.entry
          /\ y.upper = z /\ y.successes = 1 /\ y.verdict = "none"
      <4>1. y = [from |-> x.from, entry |-> x.entry, term |-> x.term,
                 leaderCommit |-> x.leaderCommit, index |-> x.index, upper |-> z,
                 successes |-> 1, verdict |-> "none"]
        BY <3>7 DEF CallRecord
      <4> QED
        BY <4>1 DEF CallRecord
    <3> QED
      BY <3>4, <3>5, <3>6, <3>8
  <2>3. ~ IsLate(calls[c]) /\ currentTerm[i] = T
    BY <1>14 DEF IsLate
  <2>4. /\ log[i] \in Seq(Entry) /\ Len(log[i]) \in Nat
        /\ Len(log[i]) >= 1 /\ log[i][Len(log[i])].term = T
    BY <1>1, <1>3, <1>14, <2>3, FollowsTypes DEF Past, LeaderLog
  <2>5. /\ CallOK(K, c) /\ Fresh(c)
    BY <1>1, <1>2 DEF Present, CallsOK
  <2>6. /\ T <= currentTerm[i] /\ Backed(K, log[i], T) /\ u >= 0 /\ n <= u
        /\ CommitKnown(K, n + 1, T)
        /\ \A j \in Replica : leading[j] /\ currentTerm[j] = T => j = i
        /\ calls[c].entry # None => /\ calls[c].index >= 0
                                    /\ log[i][calls[c].index + 1] = calls[c].entry
                                    /\ calls[c].entry.term = T
    BY <2>3, <2>5 DEF CallOK
  <2>7. CallOK(K2, c)'
    <3>1. CommitKnown(K2, n + 1, T)'
      BY <1>3, <2>6, CommitKnownStays
    <3>2. CommitKnown(K2, calls[c].leaderCommit + 1, calls[c].term)'
      BY <2>2, <3>1 DEF CommitKnown, CommittedLog
    <3>3. Backed(K2, log[i], T)
      BY <2>6 DEF Backed, Follows
    <3>4. Len(log[i]) - 1 >= 0 /\ n <= Len(log[i]) - 1 /\ Len(log[i]) - 1 + 1 = Len(log[i])
      BY <1>3, <2>4, <2>6
    <3> HIDE DEF CommitKnown
    <3> QED
      BY <1>12, <2>2, <2>3, <2>4, <2>6, <3>2, <3>3, <3>4 DEF CallOK
  <2>8. Counted(Acc2, c)'
    <3>1. {} \in SUBSET Peers(calls'[c].from) /\ Cardinality({}) + 1 = 1
      BY FS_EmptySet
    <3>2. calls'[c].verdict # "won"
      BY <2>2
    <3> QED
      BY <2>2, <3>1, <3>2 DEF Counted, Peers
  <2>9. ASSUME NEW d \in Call, calls'[d] # Idle PROVE Fresh(d)'
    <3>1. calls[d] # Idle /\ Fresh(d)
      BY <1>1, <1>2, <1>7, <2>9 DEF Present, CallsOK
    <3>2. /\ calls'[d].from = calls[d].from /\ calls'[d].term = calls[d].term
          /\ calls'[d].index = calls[d].index /\ calls'[d].entry = calls[d].entry
          /\ calls'[d].verdict # "told" => calls[d].verdict # "told"
      BY <1>2, <1>7, <2>2
    <3>3. \A h \in Call : calls'[h] # Idle =>
            /\ calls[h] # Idle /\ calls'[h].from = calls[h].from /\ calls'[h].term = calls[h].term
            /\ calls'[h].index = calls[h].index /\ calls'[h].entry = calls[h].entry
      BY <1>2, <1>7, <2>2
    <3> QED
      BY <1>2, <1>12, <3>1, <3>2, <3>3 DEF Fresh, IsLate
  <2>10. ASSUME NEW d \in Call, calls'[d] # Idle, d # c
         PROVE  CallOK(K2, d)' /\ Counted(Acc2, d)'
    <3>1. calls[d] # Idle /\ calls'[d] = calls[d] /\ calls[d].from \in Replica /\ SameCall(d)
      BY <1>1, <1>7, <2>10, CallTypes DEF SameCall
    <3>2. \A g \in starts' \cup sent' \cup answers' : g.call = d =>
             \E h \in starts \cup sent \cup answers : h.call = d /\ h.to = g.to
      BY <1>2, <1>10, <2>10
    <3> QED
      BY <1>4, <3>1, <3>2, CallOKStays, CountedStays
  <2>11. CallsOK(K2, Acc2)'
    BY <2>7, <2>8, <2>9, <2>10 DEF CallsOK
  <2> QED
    BY <1>4, <1>9, <1>11, <2>11 DEF Told
<1> QED
  BY <1>13, <1>14

-----------------------------------------------------------------------------
(* The step in which a caller learns of the verdict. *)

LEMMA CommitNode ==
    ASSUME Shapes, Shapes', NEW c \in Call, Commit(c)
    PROVE  /\ calls[c] # Idle /\ calls[c] \in CallRecord /\ calls[c].entry # None
           /\ calls[c].from \in Replica
           /\ calls[c].verdict = "won"
           /\ commitIndex' = [commitIndex EXCEPT ![calls[c].from] = commitIndex[calls[c].from] + 1]
           /\ UNCHANGED <<currentTerm, leading, log, nextIndex, starts, sent, answers>>
           /\ \A j \in Replica : disk'[j] =
                 IF j = calls[c].from THEN [log |-> log'[j], commitIndex |-> commitIndex'[j]]
                 ELSE disk[j]
           /\ acked' = acked \cup {[index |-> calls[c].index, entry |-> calls[c].entry]}
           /\ \A d \in Call : d # c => calls'[d] = calls[d]
           /\ \/ calls'[c] = Idle /\ Over(c)
              \/ /\ SameCall(c) /\ calls'[c].successes = calls[c].successes
                 /\ calls'[c].verdict = "told"
<1>1. calls[c] # Idle /\ calls[c].verdict = "won"
  BY DEF Commit, electionVars
<1>2. calls[c] \in CallRecord /\ CallInLog(c) /\ calls[c].from \in Replica
  BY <1>1, CallTypes DEF Shapes, FlightShapes, CallShape
<1>3. calls[c].entry # None
  BY <1>1, <1>2 DEF CallInLog
<1>4. /\ commitIndex' = [commitIndex EXCEPT ![calls[c].from] = commitIndex[calls[c].from] + 1]
      /\ UNCHANGED <<currentTerm, leading, log, nextIndex, starts, sent, answers>>
      /\ acked' = acked \cup {[index |-> calls[c].index, entry |-> calls[c].entry]}
      /\ PersistToStorage({calls[c].from})
      /\ calls' = [calls EXCEPT ![c] = Settled(c, [calls[c] EXCEPT !.verdict = "told"])]
  BY DEF Commit, electionVars
<1>5. \A j \in Replica : disk'[j] =
         IF j = calls[c].from THEN [log |-> log'[j], commitIndex |-> commitIndex'[j]]
         ELSE disk[j]
  BY <1>4 DEF PersistToStorage, Saved
<1>6. /\ \A d \in Call : d # c => calls'[d] = calls[d]
      /\ calls'[c] = Settled(c, [calls[c] EXCEPT !.verdict = "told"])
  BY <1>4 DEF Shapes, FlightShapes
<1>7. PICK x \in CallRecord : x = calls[c]
  BY <1>2
<1>8. PICK y : y = [x EXCEPT !.verdict = "told"]
  OBVIOUS
<1>9. /\ y.from = x.from /\ y.entry = x.entry /\ y.term = x.term
      /\ y.leaderCommit = x.leaderCommit /\ y.index = x.index /\ y.upper = x.upper
      /\ y.successes = x.successes /\ y.verdict = "told"
  BY <1>8 DEF CallRecord
<1>10. calls'[c] = Settled(c, y)
  BY <1>6, <1>7, <1>8
<1>11. \/ calls'[c] = Idle /\ Over(c)
       \/ calls'[c] = y
  BY <1>9, <1>10 DEF Settled
<1>12. \/ calls'[c] = Idle /\ Over(c)
       \/ /\ SameCall(c) /\ calls'[c].successes = calls[c].successes
          /\ calls'[c].verdict = "told"
  BY <1>7, <1>9, <1>11 DEF SameCall
<1> QED
  BY <1>1, <1>2, <1>3, <1>4, <1>5, <1>6, <1>12

\* Entries of the leader's term of which callers learned are in its log.
LEMMA AckedInLog ==
    ASSUME Shapes, NEW K, NEW E, Past(K, E), NEW Acc, AckedOK(K, Acc),
           NEW i \in Replica, leading[i], NEW a \in acked, a.entry.term = currentTerm[i]
    PROVE  a.index \in Nat /\ a.index + 1 \in 1 .. Len(log[i]) /\ log[i][a.index + 1] = a.entry
<1>1. PICK k \in K : a.index + 1 <= Len(k) /\ k[a.index + 1] = a.entry
  BY DEF AckedOK
<1>2. a.index \in Nat /\ Len(k) \in Nat /\ Len(log[i]) \in Nat
  BY HistoryEntries, LenProperties DEF Shapes, NodeTypes, Past
<1>3. a.index + 1 \in 1 .. Len(k) /\ a.index + 1 \in 1 .. a.index + 1
  BY <1>1, <1>2
<1>4. a.index + 1 <= Len(log[i]) /\ Agree(k, log[i], a.index + 1)
  BY <1>1, <1>3 DEF Past, LeaderLog, Longest
<1>5. a.index + 1 \in 1 .. Len(log[i])
  BY <1>2, <1>4
<1> QED
  BY <1>1, <1>2, <1>3, <1>4, <1>5 DEF Agree

\* There are not more of them than entries from the first of the term to the last of them.
LEMMA AckedCount ==
    ASSUME NEW L \in Nat, NEW n \in 0 .. L, NEW A,
           \A x \in A : x \in Nat /\ x + 1 \in 1 .. L /\ ~ (x + 1 <= n)
    PROVE  /\ IsFiniteSet(A) /\ Cardinality(A) \in Nat
           /\ \A N \in Nat : N > n /\ N <= n + Cardinality(A) => \E x \in A : x + 1 >= N
<1>1. \A x \in A : x \in Nat /\ x >= n /\ x < L
  OBVIOUS
<1>2. IsFiniteSet(A) /\ Cardinality(A) \in Nat
  <2>1. A \in SUBSET (n .. L)
    BY <1>1
  <2>2. n \in Int /\ L \in Int
    OBVIOUS
  <2>3. IsFiniteSet(n .. L)
    BY <2>2, FS_Interval
  <2> QED
    BY <2>1, <2>3, FS_Subset, FS_CardinalityType
<1>3. ASSUME NEW N \in Nat, N > n, N <= n + Cardinality(A), \A x \in A : ~ (x + 1 >= N)
      PROVE  FALSE
  <2>1. PICK b \in Int : b = N - 2
    BY <1>3
  <2>2. A \in SUBSET (n .. b)
    BY <1>1, <1>3, <2>1
  <2>3. n \in Int
    OBVIOUS
  <2>4. IsFiniteSet(n .. b) /\ Cardinality(n .. b) = IF n > b THEN 0 ELSE b - n + 1
    BY <2>3, FS_Interval
  <2>5. Cardinality(A) <= Cardinality(n .. b)
    BY <2>2, <2>4, FS_Subset
  <2> QED
    BY <1>2, <1>3, <2>1, <2>4, <2>5
<1> QED
  BY <1>2, <1>3

\* A verdict in the leadership of its call: a majority has the entry.
LEMMA VerdictMajority ==
    ASSUME NEW K, NEW E, NEW Acc, NEW K2, NEW E2, NEW Acc2, Follows(K, E, Acc, K2, E2, Acc2),
           NEW c \in Call, Commit(c), ~ IsLate(calls[c]),
           NEW i, i = calls[c].from, NEW T, T = calls[c].term,
           NEW x, x = calls[c].index, NEW e, e = calls[c].entry
    PROVE  /\ i \in Replica /\ leading[i] /\ currentTerm[i] = T /\ T \in Nat
           /\ x \in Nat /\ x + 1 \in 1 .. Len(log[i]) /\ log[i][x + 1] = e /\ e.term = T
           /\ \A a \in acked : a.entry.term = T => a.index # x
           /\ \E M \in SUBSET Replica : Majority(M) /\ \A j \in M : <<j, x + 1, T>> \in Acc2
<1>1. Shapes /\ Shapes' /\ Present(K, Acc)
  BY DEF Follows
<1>2. /\ calls[c] # Idle /\ e # None /\ i \in Replica /\ calls[c].verdict = "won"
      /\ UNCHANGED <<currentTerm, leading, log>>
      /\ disk'[i] = [log |-> log'[i], commitIndex |-> commitIndex'[i]]
  BY <1>1, CommitNode
<1>3. /\ T \in Nat /\ x \in Int /\ x >= 0 /\ x <= calls[c].upper /\ calls[c].upper < Len(log[i])
      /\ calls[c].upper \in Int
  BY <1>1, <1>2, CallTypes
<1>4. leading[i] /\ currentTerm[i] = T
  BY DEF IsLate
<1>5. CallOK(K, c) /\ Counted(Acc, c) /\ Fresh(c)
  BY <1>1, <1>2 DEF Present, CallsOK
<1>6. log[i][x + 1] = e /\ e.term = T
  BY <1>2, <1>5 DEF CallOK
<1>7. \A a \in acked : a.entry.term = T => a.index # x
  BY <1>2, <1>5 DEF Fresh
<1>8. x \in Nat /\ x + 1 \in Nat /\ x + 1 \in 1 .. Len(log[i])
  BY <1>2, <1>3, FollowsTypes
<1>9. WriteQuorum(calls[c].successes)
  BY <1>2, <1>5 DEF Counted
<1>10. PICK S \in SUBSET Peers(i) :
         /\ Cardinality(S) + 1 = calls[c].successes
         /\ \A j \in S : <<j, x + 1, T>> \in Acc
  BY <1>2, <1>5 DEF Counted
<1>11. Majority(S \cup {i})
  <2>1. S \in SUBSET Replica /\ i \notin S
    BY DEF Peers
  <2>2. IsFiniteSet(S) /\ Cardinality(Replica) \in Nat
    BY <2>1, ReplicationAssumption, FS_Subset, FS_CardinalityType
  <2>3. Cardinality(S \cup {i}) = Cardinality(S) + 1
    BY <2>1, <2>2, FS_AddElement
  <2>4. Cardinality(S \cup {i}) = Cardinality(Replica) \div 2 + 1
    BY <1>9, <1>10, <2>3 DEF WriteQuorum
  <2> QED
    BY <2>2, <2>4 DEF Majority
<1>12. <<i, x + 1, T>> \in Acc2
  <2>1. Has(log'[i], x + 1, T)
    BY <1>2, <1>6, <1>8 DEF Has
  <2>2. disk'[i].log = log'[i]
    BY <1>2
  <2> QED
    BY <1>2, <1>3, <1>4, <1>8, <2>1, <2>2 DEF Follows, Accepted
<1>13. \A j \in S \cup {i} : <<j, x + 1, T>> \in Acc2
  BY <1>3, <1>8, <1>10, <1>12, AcceptedStays DEF Peers
<1>14. S \cup {i} \in SUBSET Replica
  BY <1>2 DEF Peers
<1> QED
  BY <1>2, <1>3, <1>4, <1>6, <1>7, <1>8, <1>11, <1>13, <1>14

\* Some entry that is known to be committed is at the new commitIndex or behind it.
LEMMA CommitReaches ==
    ASSUME NEW K, NEW E, NEW Acc, NEW K2, NEW E2, NEW Acc2, Follows(K, E, Acc, K2, E2, Acc2),
           NEW c \in Call, Commit(c), ~ IsLate(calls[c]),
           NEW i, i = calls[c].from, NEW T, T = calls[c].term,
           NEW N, N = commitIndex[i] + 2
    PROVE  /\ \E n \in 0 .. Len(log[i]) :
                 /\ \A p \in 1 .. Len(log[i]) : p <= n <=> log[i][p].term # currentTerm[i]
                 /\ N <= n + Cardinality(AckedIn(T)')
           /\ \E a \in acked' : /\ a.entry.term = T /\ a.index \in Nat
                                /\ a.index + 1 \in 1 .. Len(log[i]) /\ a.index + 1 >= N
                                /\ log[i][a.index + 1] = a.entry
<1> SUFFICES ASSUME NEW x, x = calls[c].index, NEW e, e = calls[c].entry,
                    NEW L, L = Len(log[i]), NEW A, A = AckedIn(T), NEW A2, A2 = AckedIn(T)'
             PROVE  /\ \E n \in 0 .. Len(log[i]) :
                          /\ \A p \in 1 .. Len(log[i]) : p <= n <=> log[i][p].term # currentTerm[i]
                          /\ N <= n + Cardinality(AckedIn(T)')
                    /\ \E a \in acked' : /\ a.entry.term = T /\ a.index \in Nat
                                         /\ a.index + 1 \in 1 .. Len(log[i]) /\ a.index + 1 >= N
                                         /\ log[i][a.index + 1] = a.entry
  OBVIOUS
<1>1. Shapes /\ Shapes' /\ Present(K, Acc) /\ Past(K, E)
  BY DEF Follows
<1>2. /\ i \in Replica /\ leading[i] /\ currentTerm[i] = T /\ T \in Nat
      /\ x \in Nat /\ x + 1 \in 1 .. L /\ log[i][x + 1] = e /\ e.term = T
      /\ \A a \in acked : a.entry.term = T => a.index # x
  BY VerdictMajority
<1>3. acked' = acked \cup {[index |-> x, entry |-> e]}
  BY <1>1, CommitNode
<1>4. ASSUME NEW a \in acked', a.entry.term = T
      PROVE  a.index \in Nat /\ a.index + 1 \in 1 .. L /\ log[i][a.index + 1] = a.entry
  <2>1. CASE a \in acked
    BY <1>1, <1>2, <1>4, <2>1, AckedInLog DEF Present
  <2>2. CASE a = [index |-> x, entry |-> e]
    <3>1. a.index = x /\ a.entry = e
      BY <2>2
    <3> QED
      BY <1>2, <3>1
  <2> QED
    BY <1>3, <2>1, <2>2
<1>5. PICK n \in 0 .. Len(log[i]) :
        /\ \A p \in 1 .. Len(log[i]) : p <= n <=> log[i][p].term # currentTerm[i]
        /\ commitIndex[i] + 1 <= n + Cardinality(AckedIn(currentTerm[i]))
  BY <1>1, <1>2 DEF Present, CountsOK
<1>6. L \in Nat /\ n \in 0 .. L /\ n \in Nat /\ commitIndex[i] \in Int /\ N \in Nat
  BY <1>2, FollowsTypes
<1>7. commitIndex[i] + 1 <= n + Cardinality(A)
  BY <1>2, <1>5
<1>8. A2 = A \cup {x} /\ x \notin A
  <2>1. AckedIn(T)' = {a.index : a \in {b \in acked' : b.entry.term = T}}
    BY DEF AckedIn
  <2>2. [index |-> x, entry |-> e].index = x /\ [index |-> x, entry |-> e].entry.term = T
    BY <1>2
  <2>3. {b \in acked' : b.entry.term = T}
          = {b \in acked : b.entry.term = T} \cup {[index |-> x, entry |-> e]}
    BY <1>3, <2>2
  <2>4. AckedIn(T)' = AckedIn(T) \cup {x}
    BY <2>1, <2>2, <2>3 DEF AckedIn
  <2>5. x \notin AckedIn(T)
    BY <1>2 DEF AckedIn
  <2> QED
    BY <2>4, <2>5
<1>9. \A y \in A2 : \E a \in acked' : a.entry.term = T /\ a.index = y
  BY DEF AckedIn
<1>10. \A y \in A2 : y \in Nat /\ y + 1 \in 1 .. L /\ ~ (y + 1 <= n)
  <2> SUFFICES ASSUME NEW y \in A2 PROVE y \in Nat /\ y + 1 \in 1 .. L /\ ~ (y + 1 <= n)
    OBVIOUS
  <2>1. PICK a \in acked' : a.entry.term = T /\ a.index = y
    BY <1>9
  <2>2. y \in Nat /\ y + 1 \in 1 .. L /\ log[i][y + 1].term = T
    BY <1>4, <2>1
  <2> QED
    BY <1>2, <1>5, <2>2
<1>11. /\ IsFiniteSet(A) /\ Cardinality(A) \in Nat
       /\ Cardinality(A2) \in Nat
       /\ N > n /\ N <= n + Cardinality(A2) => \E y \in A2 : y + 1 >= N
  <2>1. \A y \in A : y \in Nat /\ y + 1 \in 1 .. L /\ ~ (y + 1 <= n)
    BY <1>8, <1>10
  <2>2. IsFiniteSet(A) /\ Cardinality(A) \in Nat
    BY <1>6, <2>1, AckedCount
  <2> QED
    BY <1>6, <1>10, <2>2, AckedCount
<1>12. Cardinality(A2) = Cardinality(A) + 1
  <2>1. IsFiniteSet(A) /\ x \notin A
    BY <1>8, <1>11
  <2>2. Cardinality(A \cup {x}) = Cardinality(A) + 1
    BY <2>1, FS_AddElement
  <2> QED
    BY <1>8, <2>2
<1>13. N <= n + Cardinality(A2)
  BY <1>6, <1>7, <1>11, <1>12
<1>14. \E y \in A2 : y + 1 >= N
  <2>1. CASE N > n
    BY <1>11, <1>13, <2>1
  <2>2. CASE ~ (N > n)
    <3>1. x \in A2
      BY <1>8
    <3>2. x + 1 >= N
      BY <1>2, <1>6, <1>10, <2>2, <3>1
    <3> QED
      BY <3>1, <3>2
  <2> QED
    BY <2>1, <2>2
<1>15. \E a \in acked' : /\ a.entry.term = T /\ a.index \in Nat
                         /\ a.index + 1 \in 1 .. Len(log[i]) /\ a.index + 1 >= N
                         /\ log[i][a.index + 1] = a.entry
  <2>1. PICK y \in A2 : y + 1 >= N
    BY <1>14
  <2>2. PICK a \in acked' : a.entry.term = T /\ a.index = y
    BY <1>9, <2>1
  <2> QED
    BY <1>4, <2>1, <2>2
<1> QED
  BY <1>5, <1>13, <1>15

LEMMA CommitAcked ==
    ASSUME NEW K, NEW E, NEW Acc, NEW K2, NEW E2, NEW Acc2, Follows(K, E, Acc, K2, E2, Acc2),
           NEW c \in Call, Commit(c), ~ IsLate(calls[c])
    PROVE  AckedOK(K2, Acc2)' /\ CommitsOK(K2)' /\ CountsOK'
<1> SUFFICES ASSUME NEW i, i = calls[c].from, NEW T, T = calls[c].term,
                    NEW x, x = calls[c].index, NEW e, e = calls[c].entry,
                    NEW new, new = [index |-> x, entry |-> e],
                    NEW N, N = commitIndex[i] + 2
             PROVE  AckedOK(K2, Acc2)' /\ CommitsOK(K2)' /\ CountsOK'
  OBVIOUS
<1>1. Shapes /\ Shapes' /\ Present(K, Acc) /\ Past(K, E) /\ K \subseteq K2
  BY DEF Follows
<1>2. /\ i \in Replica /\ leading[i] /\ currentTerm[i] = T /\ T \in Nat
      /\ x \in Nat /\ x + 1 \in 1 .. Len(log[i]) /\ log[i][x + 1] = e /\ e.term = T
      /\ \E M \in SUBSET Replica : Majority(M) /\ \A j \in M : <<j, x + 1, T>> \in Acc2
  BY VerdictMajority
<1>3. /\ commitIndex' = [commitIndex EXCEPT ![i] = commitIndex[i] + 1]
      /\ UNCHANGED <<currentTerm, leading, log>>
      /\ acked' = acked \cup {new}
      /\ \A j \in Replica : disk'[j] =
            IF j = i THEN [log |-> log'[j], commitIndex |-> commitIndex'[j]] ELSE disk[j]
  BY <1>1, CommitNode
<1>4. new.index = x /\ new.entry = e
  OBVIOUS
<1>5. /\ log[i] \in Seq(Entry) /\ Len(log[i]) \in Nat /\ log[i] \in K /\ History(K, E)
      /\ commitIndex[i] \in Int /\ N \in Nat
  BY <1>2, FollowsTypes
<1>6. /\ commitIndex'[i] + 1 = N
      /\ \A j \in Replica : j # i => commitIndex'[j] = commitIndex[j]
  <2>1. commitIndex'[i] = commitIndex[i] + 1 /\ \A j \in Replica : j # i => commitIndex'[j] = commitIndex[j]
    BY <1>1, <1>2, <1>3 DEF Shapes, NodeTypes
  <2> QED
    BY <1>5, <2>1
<1>7. AckedOK(K2, Acc2)'
  <2>1. x + 1 <= Len(log[i]) /\ log[i] \in K2
    BY <1>1, <1>2, <1>5
  <2>2. \A a \in acked' :
          /\ \E M \in SUBSET Replica :
                Majority(M) /\ \A j \in M : <<j, a.index + 1, a.entry.term>> \in Acc2
          /\ \E k \in K2 : a.index + 1 <= Len(k) /\ k[a.index + 1] = a.entry
    BY <1>2, <1>3, <1>4, <2>1, AckedOKStays
  <2> QED
    BY <2>2 DEF AckedOK, Majority
<1>8. CommitOK(K2, log[i], commitIndex[i] + 1, currentTerm[i])'
  <2>1. PICK a \in acked' : /\ a.entry.term = T /\ a.index \in Nat
                            /\ a.index + 1 \in 1 .. Len(log[i]) /\ a.index + 1 >= N
                            /\ log[i][a.index + 1] = a.entry
    BY CommitReaches
  <2>2. PICK n \in Nat : n = a.index + 1 /\ n \in 1 .. Len(log[i]) /\ n >= N
    BY <2>1
  <2>3. PICK k : k = SubSeq(log[i], 1, n)
    OBVIOUS
  <2>4. n \in 0 .. Len(log[i]) /\ n <= Len(log[i]) /\ N <= Len(log[i])
    BY <1>5, <2>2
  <2>5. k \in K
    BY <1>5, <2>3, <2>4 DEF History
  <2>6. \A r \in 1 .. n : log[i][r] \in Entry
    BY <1>5, <2>4, ElementOfSeq
  <2>7. Len(k) = n /\ \A r \in 1 .. n : k[r] = log[i][r]
    BY <1>5, <2>2, <2>3, <2>6, SubSeqProperties
  <2>8. n \in 1 .. n
    BY <2>2
  <2>9. k[Len(k)] = a.entry /\ Len(k) = a.index + 1
    BY <2>1, <2>2, <2>7, <2>8
  <2>10. a.entry.term <= T
    BY <1>2, <2>1
  <2>11. \E b \in acked' : b.entry.term <= T /\ Len(k) = b.index + 1 /\ k[Len(k)] = b.entry
    BY <2>9, <2>10
  <2>12. Agree(log[i], k, N)
    BY <1>5, <2>2, <2>7 DEF Agree
  <2>13. N <= Len(k) /\ k \in K2
    BY <1>1, <2>2, <2>5, <2>7
  <2>14. \E k2 \in K2 :
           /\ \E b \in acked' : b.entry.term <= T /\ Len(k2) = b.index + 1 /\ k2[Len(k2)] = b.entry
           /\ N <= Len(k2) /\ N <= Len(log[i]) /\ Agree(log[i], k2, N)
    BY <2>4, <2>11, <2>12, <2>13
  <2>15. log'[i] = log[i] /\ currentTerm'[i] = T /\ commitIndex'[i] + 1 = N
    BY <1>2, <1>3, <1>6
  <2> QED
    BY <2>14, <2>15 DEF CommitOK, CommittedLog
<1>9. CommitsOK(K2)'
  <2>1. ASSUME NEW j \in Replica, j # i
        PROVE  CommitOK(K2, log[j], commitIndex[j] + 1, currentTerm[j])'
    <3>1. Begins(log[j], log'[j])
      BY <1>3, FollowsTypes DEF Begins, Agree
    <3> QED
      BY <1>6, <2>1, <3>1, CommitSame
  <2>2. \A j \in Replica : CommitOK(K2, log[j], commitIndex[j] + 1, currentTerm[j])'
    BY <1>8, <2>1
  <2> QED
    BY <1>3, <2>2, CommitsFollow
<1>10. CountsOK'
  <2> SUFFICES ASSUME NEW j \in Replica, leading'[j]
               PROVE  \E n \in 0 .. Len(log'[j]) :
                        /\ \A p \in 1 .. Len(log'[j]) : p <= n <=> log'[j][p].term # currentTerm'[j]
                        /\ commitIndex'[j] + 1 <= n + Cardinality(AckedIn(currentTerm[j])')
    BY DEF CountsOK
  <2>1. leading[j] /\ currentTerm'[j] = currentTerm[j] /\ log'[j] = log[j]
    BY <1>3
  <2>2. CASE j = i
    <3>1. \E n \in 0 .. Len(log[i]) :
            /\ \A p \in 1 .. Len(log[i]) : p <= n <=> log[i][p].term # currentTerm[i]
            /\ N <= n + Cardinality(AckedIn(T)')
      BY CommitReaches
    <3>2. AckedIn(currentTerm[j])' = AckedIn(T)'
      BY <1>2, <2>1, <2>2 DEF AckedIn
    <3> QED
      BY <1>6, <2>1, <2>2, <3>1, <3>2
  <2>3. CASE j # i
    <3>1. currentTerm[j] # T
      BY <1>1, <1>2, <2>1, <2>3 DEF Past, OneLeader
    <3>2. \A a \in acked' : a.entry.term = currentTerm[j] => a \in acked
      BY <1>2, <1>3, <1>4, <3>1
    <3>3. \E n \in 0 .. Len(log'[j]) :
            /\ \A p \in 1 .. Len(log'[j]) : p <= n <=> log'[j][p].term # currentTerm'[j]
            /\ commitIndex'[j] + 1 <= n + Cardinality(AckedIn(currentTerm[j])')
      BY <1>6, <2>1, <2>3, <3>2, CountStays
    <3> QED
      BY <3>3
  <2> QED
    BY <2>2, <2>3
<1> QED
  BY <1>7, <1>9, <1>10

LEMMA CommitTold ==
    ASSUME NEW K, NEW E, NEW Acc, NEW K2, NEW E2, NEW Acc2, Follows(K, E, Acc, K2, E2, Acc2),
           NEW c \in Call, Commit(c), ~ IsLate(calls[c])
    PROVE  Told(K2, Acc2)'
<1> SUFFICES ASSUME NEW i, i = calls[c].from, NEW T, T = calls[c].term,
                    NEW x, x = calls[c].index, NEW e, e = calls[c].entry,
                    NEW new, new = [index |-> x, entry |-> e]
             PROVE  Told(K2, Acc2)'
  OBVIOUS
<1>1. Shapes /\ Shapes' /\ Present(K, Acc) /\ Past(K, E)
  BY DEF Follows
<1>2. /\ calls[c] # Idle /\ e # None /\ i \in Replica /\ calls[c].verdict = "won"
      /\ UNCHANGED <<currentTerm, leading, log, nextIndex, starts, sent, answers>>
      /\ acked' = acked \cup {new}
      /\ \A d \in Call : d # c => calls'[d] = calls[d]
      /\ \/ calls'[c] = Idle /\ Over(c)
         \/ /\ SameCall(c) /\ calls'[c].successes = calls[c].successes
            /\ calls'[c].verdict = "told"
  BY <1>1, CommitNode
<1>3. leading[i] /\ currentTerm[i] = T /\ e.term = T
  BY VerdictMajority
<1>4. new.index = x /\ new.entry = e
  OBVIOUS
<1>5. \A h \in Replica : Lives(K, h)
  BY <1>2 DEF Lives
<1>6. \A d \in Call : d # c => SameCall(d)
  BY <1>2 DEF SameCall
<1>7. \A g \in starts \cup sent \cup answers : g.call # None => g.call \in Call /\ SameCall(g.call)
  <2>1. ASSUME NEW g \in starts \cup sent \cup answers, g.call # None PROVE g.call \in Call
    BY <1>1, <2>1, UnderWay
  <2>2. calls'[c] = Idle /\ Over(c) => \A g \in starts \cup sent \cup answers : g.call # c
    BY <1>2 DEF Over
  <2> QED
    BY <1>2, <1>6, <2>1, <2>2
<1>8. \A a \in answers : a.call # None
  BY <1>1, UnderWay, ReplicationAssumption
<1>9. (\A m \in sent : MsgOK(K2, Acc2, m))' /\ (\A a \in answers : AnswerOK(K2, Acc2, a))'
  <2>1. ASSUME NEW m \in sent PROVE MsgOK(K2, Acc2, m)'
    BY <1>7, <2>1, FlightsStay
  <2>2. ASSUME NEW a \in answers PROVE AnswerOK(K2, Acc2, a)'
    BY <1>7, <1>8, <2>2, FlightsStay
  <2> QED
    BY <1>2, <2>1, <2>2
<1>10. OneEach'
  BY <1>1, <1>2 DEF Present, OneEach
<1>11. ASSUME NEW d \in Call, calls[d] # Idle, SameCall(d), calls'[d].successes = calls[d].successes,
              calls'[d].verdict = "won" => calls[d].verdict = "won",
              calls'[d].verdict # "told" => d # c /\ calls[d].verdict # "told"
       PROVE  CallOK(K2, d)' /\ Counted(Acc2, d)' /\ Fresh(d)'
  <2>1. calls[d].from \in Replica
    BY <1>1, <1>11, CallTypes
  <2>2. CallOK(K2, d)'
    BY <1>5, <1>11, <2>1, CallOKStays
  <2>3. \A g \in starts' \cup sent' \cup answers' : g.call = d =>
           \E h \in starts \cup sent \cup answers : h.call = d /\ h.to = g.to
    BY <1>2
  <2>4. Counted(Acc2, d)'
    BY <1>11, <2>3, CountedStays
  <2>5. ASSUME ~ IsLate(calls[d])', calls[d].entry # None, calls'[d].verdict # "told",
               calls[d].term = T, calls[d].index = x
        PROVE  FALSE
    <3>1. ~ IsLate(calls[d]) /\ leading[calls[d].from] /\ currentTerm[calls[d].from] = T
      BY <1>11, <2>5, NotLateBefore
    <3>2. calls[d].from = i
      BY <1>1, <1>2, <1>3, <2>1, <3>1 DEF Past, OneLeader
    <3>3. Fresh(c)
      BY <1>1, <1>2 DEF Present, CallsOK
    <3> QED
      BY <1>2, <1>11, <2>5, <3>1, <3>2, <3>3 DEF Fresh
  <2>6. ~ IsLate(calls[d])' /\ calls[d].entry # None /\ calls'[d].verdict # "told" =>
           \A a \in acked' : a \in acked \/ a.entry.term # calls[d].term
                                         \/ a.index # calls[d].index
    BY <1>2, <1>3, <1>4, <2>5
  <2>7. \A d2 \in Call \ {d} : calls'[d2] = Idle \/ (calls[d2] # Idle /\ SameCall(d2))
    BY <1>2, <1>6
  <2>8. Fresh(d)'
    BY <1>11, <2>6, <2>7, FreshStays
  <2> QED
    BY <2>2, <2>4, <2>8
<1>12. CallsOK(K2, Acc2)'
  <2> SUFFICES ASSUME NEW d \in Call, calls'[d] # Idle
               PROVE  CallOK(K2, d)' /\ Counted(Acc2, d)' /\ Fresh(d)'
    BY DEF CallsOK
  <2>1. CASE d = c
    BY <1>2, <1>11, <2>1
  <2>2. CASE d # c
    <3>1. calls'[d] = calls[d] /\ SameCall(d) /\ calls[d] # Idle
      BY <1>2, <1>6, <2>2
    <3>2. calls'[d].verdict # "told" => d # c /\ calls[d].verdict # "told"
      BY <2>2, <3>1
    <3> QED
      BY <1>11, <3>1, <3>2
  <2> QED
    BY <2>1, <2>2
<1>13. NextOK(Acc2)'
  BY <1>2, NextsStay
<1>14. AckedOK(K2, Acc2)' /\ CommitsOK(K2)' /\ CountsOK'
  BY CommitAcked
<1> QED
  BY <1>9, <1>10, <1>12, <1>13, <1>14 DEF Told

-----------------------------------------------------------------------------
(* The step in which a follower takes a message. *)

LEMMA AppendEntriesStep ==
    ASSUME Shapes, NEW K, NEW E, Past(K, E), NEW m \in sent, AppendEntries(m), Sound',
           NEW j, j = m.to
    PROVE  /\ j \in Replica /\ m.term \in Nat /\ m.term >= currentTerm[j]
           /\ currentTerm'[j] = m.term /\ ~ leading'[j]
           /\ \A h \in Replica : h # j =>
                 /\ currentTerm'[h] = currentTerm[h] /\ leading'[h] = leading[h]
                 /\ log'[h] = log[h] /\ commitIndex'[h] = commitIndex[h]
           /\ UNCHANGED <<nextIndex, calls, starts, acked>>
           /\ sent' = sent \ {m}
           /\ answers' = answers \cup Answer(m, m.term, Matches(m))
           /\ \A h \in Replica : \/ disk'[h] = disk[h]
                                 \/ disk'[h] = [log |-> log'[h], commitIndex |-> commitIndex'[h]]
           /\ ~ Matches(m) => log'[j] = log[j] /\ commitIndex'[j] = commitIndex[j]
           /\ Matches(m) =>
                 /\ disk'[j].log = log'[j]
                 /\ commitIndex'[j] = FollowerCommit(commitIndex[j], m.leaderCommit, log'[j])
                 /\ \A k \in K : Carries(m, k) =>
                       /\ log'[j] = log[j] \/ log'[j] = k
                       /\ Len(log'[j]) >= Len(k) /\ Len(log'[j]) >= Len(log[j])
                       /\ Agree(k, log'[j], Len(k))
<1> SUFFICES ASSUME NEW merged, merged = MergedLog(log[m.to], m.prevLogIndex, m.entries),
                    NEW n, n = FollowerCommit(commitIndex[j], m.leaderCommit, merged)
             PROVE  /\ j \in Replica /\ m.term \in Nat /\ m.term >= currentTerm[j]
                    /\ currentTerm'[j] = m.term /\ ~ leading'[j]
                    /\ \A h \in Replica : h # j =>
                          /\ currentTerm'[h] = currentTerm[h] /\ leading'[h] = leading[h]
                          /\ log'[h] = log[h] /\ commitIndex'[h] = commitIndex[h]
                    /\ UNCHANGED <<nextIndex, calls, starts, acked>>
                    /\ sent' = sent \ {m}
                    /\ answers' = answers \cup Answer(m, m.term, Matches(m))
                    /\ \A h \in Replica : \/ disk'[h] = disk[h]
                                          \/ disk'[h] = [log |-> log'[h], commitIndex |-> commitIndex'[h]]
                    /\ ~ Matches(m) => log'[j] = log[j] /\ commitIndex'[j] = commitIndex[j]
                    /\ Matches(m) =>
                          /\ disk'[j].log = log'[j]
                          /\ commitIndex'[j] = FollowerCommit(commitIndex[j], m.leaderCommit, log'[j])
                          /\ \A k \in K : Carries(m, k) =>
                                /\ log'[j] = log[j] \/ log'[j] = k
                                /\ Len(log'[j]) >= Len(k) /\ Len(log'[j]) >= Len(log[j])
                                /\ Agree(k, log'[j], Len(k))
  OBVIOUS
<1>1. /\ j \in Replica /\ m.term \in Term /\ m.term >= currentTerm[j]
      /\ currentTerm' = [currentTerm EXCEPT ![j] = m.term]
      /\ leading' = [leading EXCEPT ![j] = FALSE]
      /\ log' = [log EXCEPT ![j] = IF Matches(m) THEN merged ELSE log[j]]
      /\ commitIndex' = [commitIndex EXCEPT ![j] = IF Matches(m) THEN n ELSE commitIndex[j]]
      /\ nextIndex' = nextIndex
      /\ \A h \in Replica : disk'[h] =
            IF h = j /\ (m.term > currentTerm[j] \/ candidate[j] \/ Matches(m))
            THEN [log |-> log'[h], commitIndex |-> commitIndex'[h]] ELSE disk[h]
  BY AppendEntriesNode
<1>2. /\ UNCHANGED <<calls, starts, acked>> /\ sent' = sent \ {m}
      /\ answers' = answers \cup Answer(m, m.term, Matches(m))
  BY DEF AppendEntries
<1>3. /\ currentTerm'[j] = m.term /\ ~ leading'[j]
      /\ log'[j] = IF Matches(m) THEN merged ELSE log[j]
      /\ commitIndex'[j] = IF Matches(m) THEN n ELSE commitIndex[j]
      /\ \A h \in Replica : h # j =>
            /\ currentTerm'[h] = currentTerm[h] /\ leading'[h] = leading[h]
            /\ log'[h] = log[h] /\ commitIndex'[h] = commitIndex[h]
  BY <1>1 DEF Shapes, NodeTypes
<1>4. Matches(m) => disk'[j].log = log'[j]
  <2>1. Matches(m) => disk'[j] = [log |-> log'[j], commitIndex |-> commitIndex'[j]]
    BY <1>1
  <2> QED
    BY <2>1
<1>5. \A h \in Replica : \/ disk'[h] = disk[h]
                         \/ disk'[h] = [log |-> log'[h], commitIndex |-> commitIndex'[h]]
  BY <1>1
<1>6. ASSUME NEW k \in K, Carries(m, k), Matches(m)
      PROVE  /\ merged = log[j] \/ merged = k
             /\ Len(merged) >= Len(k) /\ Len(merged) >= Len(log[j])
             /\ Agree(k, merged, Len(k))
  BY <1>6, AppendEntriesMerges
<1>7. m.term \in Nat
  BY <1>1, TermIsNat
<1> QED
  BY <1>1, <1>2, <1>3, <1>4, <1>5, <1>6, <1>7

\* What is known to be committed by a term is in all logs backed for it, as far as they go.
LEMMA BackedHasCommitted ==
    ASSUME Shapes, NEW K, NEW E, Past(K, E), NEW Acc, Complete(K, Acc), AckedOK(K, Acc),
           NEW k0 \in K, NEW T0 \in Nat, CommittedLog(k0, T0),
           NEW l \in Seq(Entry), NEW T \in Nat, T0 <= T, Backed(K, l, T)
    PROVE  \A r \in 1 .. Len(k0) : r \in 1 .. Len(l) => l[r] = k0[r]
<1>1. PICK a \in acked : a.entry.term <= T0 /\ Len(k0) = a.index + 1 /\ k0[Len(k0)] = a.entry
  BY DEF CommittedLog
<1>2. a.index \in Nat /\ a.entry.term \in Nat /\ Len(k0) \in Nat
  BY HistoryEntries, TermIsNat DEF Shapes, NodeTypes, Entry, Past
<1>3. Len(k0) \in 1 .. Len(k0) /\ k0[Len(k0)].term <= T
  BY <1>1, <1>2
<1>4. ~ Blocked(Acc, Len(k0), k0[Len(k0)].term)
  <2>1. PICK M \in SUBSET Replica :
          Majority(M) /\ \A j \in M : <<j, a.index + 1, a.entry.term>> \in Acc
    BY DEF AckedOK
  <2> QED
    BY <1>1, <2>1, MajoritiesMeet DEF Blocked
<1> QED
  BY <1>3, <1>4, BackedAgrees DEF Past

LEMMA AppendEntriesCommits ==
    ASSUME NEW K, NEW E, NEW Acc, NEW K2, NEW E2, NEW Acc2, Follows(K, E, Acc, K2, E2, Acc2),
           NEW m \in sent, AppendEntries(m), Sound'
    PROVE  CommitsOK(K2)'
<1> SUFFICES ASSUME NEW j, j = m.to, NEW T, T = m.term, NEW lc, lc = m.leaderCommit,
                    NEW prev, prev = m.prevLogIndex,
                    NEW l, l = log[j], NEW l2, l2 = log'[j],
                    NEW n, n = commitIndex[j] + 1, NEW n2, n2 = commitIndex'[j] + 1,
                    NEW T1, T1 = currentTerm[j]
             PROVE  CommitsOK(K2)'
  OBVIOUS
<1>1. Shapes /\ Shapes' /\ Present(K, Acc) /\ Past(K, E) /\ K \subseteq K2
  BY DEF Follows
<1>2. /\ j \in Replica /\ T \in Nat /\ T >= T1 /\ currentTerm'[j] = T
      /\ \A h \in Replica : h # j => log'[h] = log[h] /\ commitIndex'[h] = commitIndex[h]
      /\ acked' = acked
      /\ \A h \in Replica : \/ disk'[h] = disk[h]
                            \/ disk'[h] = [log |-> log'[h], commitIndex |-> commitIndex'[h]]
      /\ ~ Matches(m) => l2 = l /\ n2 = n
      /\ Matches(m) =>
            /\ commitIndex'[j] = FollowerCommit(commitIndex[j], lc, l2)
            /\ \A k \in K : Carries(m, k) =>
                  /\ l2 = l \/ l2 = k
                  /\ Len(l2) >= Len(k) /\ Len(l2) >= Len(l)
                  /\ Agree(k, l2, Len(k))
  BY <1>1, AppendEntriesStep
<1>3. /\ l \in Seq(Entry) /\ Len(l) \in Nat /\ l2 \in Seq(Entry) /\ Len(l2) \in Nat
      /\ T1 \in Nat /\ n \in Nat /\ commitIndex[j] \in Int /\ T1 <= T /\ l \in K /\ History(K, E)
  BY <1>2, FollowsTypes
<1>4. /\ lc \in Int /\ prev \in Int /\ prev >= -1
      /\ m.entries \in Seq(Entry) /\ Len(m.entries) \in Nat
  BY <1>1, LenProperties DEF Shapes, FlightShapes, SentShape, MessageRecord
<1>5. Complete(K, Acc) /\ AckedOK(K, Acc) /\ CommitOK(K, l, n, T1)
  BY <1>1, <1>2 DEF Present, CommitsOK
<1>6. PICK k \in K :
        /\ Carries(m, k)
        /\ Backed(K, k, T)
        /\ CommitKnown(K, lc + 1, T)
        /\ \/ lc < Len(k)
           \/ /\ Len(m.entries) >= 1
              /\ Differs(K, j, T, prev + 2, k[prev + 2].term)
  BY <1>1 DEF Present, MsgOK
<1>7. k \in Seq(Entry) /\ Len(k) \in Nat /\ Len(k) = prev + 1 + Len(m.entries)
  BY <1>3, <1>6, HistoryEntries DEF Carries
<1>8. ASSUME NEW k0 \in K, NEW T0 \in Nat, T0 <= T, CommittedLog(k0, T0)
      PROVE  /\ \A r \in 1 .. Len(k0) : r \in 1 .. Len(k) => k[r] = k0[r]
             /\ Backed(K, l, T) => \A r \in 1 .. Len(k0) : r \in 1 .. Len(l) => l[r] = k0[r]
  BY <1>1, <1>2, <1>3, <1>5, <1>6, <1>7, <1>8, BackedHasCommitted
\* What was committed is kept.
<1>9. n <= Len(l2) /\ Agree(l, l2, n)
  <2>1. CASE l2 = l
    <3>1. n <= Len(l)
      BY <1>3, <1>5 DEF CommitOK
    <3> QED
      BY <2>1, <3>1 DEF Agree
  <2>2. CASE l2 = k /\ Len(l2) >= Len(l)
    <3>1. CASE n = 0
      BY <1>3, <3>1 DEF Agree
    <3>2. CASE n # 0
      <4>1. PICK k0 \in K : CommittedLog(k0, T1) /\ n <= Len(k0) /\ n <= Len(l) /\ Agree(l, k0, n)
        BY <1>5, <3>2 DEF CommitOK
      <4>2. \A r \in 1 .. Len(k0) : r \in 1 .. Len(k) => k[r] = k0[r]
        BY <1>3, <1>8, <4>1
      <4>3. Len(k0) \in Nat
        BY <1>3, HistoryEntries
      <4>4. n <= Len(l2) /\ \A r \in 1 .. n : r \in 1 .. Len(k0) /\ r \in 1 .. Len(k)
        BY <1>3, <1>7, <2>2, <4>1, <4>3
      <4> QED
        BY <2>2, <4>1, <4>2, <4>4 DEF Agree
    <3> QED
      BY <3>1, <3>2
  <2> QED
    BY <1>2, <1>6, <2>1, <2>2
<1>10. CommitOK(K2, l2, n, T)'
  BY <1>2, <1>3, <1>5, <1>9, CommitStays
\* What the message says is committed is in the log.
<1>11. ASSUME Matches(m), lc > commitIndex[j]
       PROVE  n2 \in Nat /\ CommitOK(K2, l2, n2, T)'
  <2>1. /\ l2 = l \/ l2 = k
        /\ Len(l2) >= Len(k) /\ Agree(k, l2, Len(k))
        /\ commitIndex'[j] = IF lc < Len(l2) THEN lc ELSE Len(l2) - 1
    <3>1. ~ (lc <= commitIndex[j])
      BY <1>3, <1>4, <1>11
    <3> QED
      BY <1>2, <1>6, <1>11, <3>1 DEF FollowerCommit
  <2>2. lc >= 0
    BY <1>3, <1>4, <1>11, <1>1, <1>2 DEF Shapes, NodeTypes, CommitIndex
  <2>3. n2 \in Nat /\ n2 <= lc + 1 /\ n2 <= Len(l2)
    BY <1>3, <1>4, <2>1, <2>2
  <2>4. PICK k0 \in K : CommittedLog(k0, T) /\ lc + 1 <= Len(k0)
    BY <1>4, <1>6, <2>2 DEF CommitKnown
  <2>5. T <= T /\ Len(k0) \in Nat
    BY <1>2, <1>3, HistoryEntries
  <2>6. /\ \A r \in 1 .. Len(k0) : r \in 1 .. Len(k) => k[r] = k0[r]
        /\ Backed(K, l, T) => \A r \in 1 .. Len(k0) : r \in 1 .. Len(l) => l[r] = k0[r]
    BY <1>2, <1>8, <2>4, <2>5
  <2>7. n2 <= Len(k0) /\ \A r \in 1 .. n2 : r \in 1 .. Len(k0) /\ r \in 1 .. Len(l2)
    BY <1>3, <1>4, <2>3, <2>4, <2>5
  <2>8. Agree(l2, k0, n2)
    <3>1. CASE lc < Len(k)
      <4>1. \A r \in 1 .. n2 : r \in 1 .. Len(k)
        BY <1>4, <1>7, <2>3, <3>1
      <4> QED
        BY <2>1, <2>6, <2>7, <4>1 DEF Agree
    <3>2. CASE l2 = k
      BY <2>6, <2>7, <3>2 DEF Agree
    <3>3. CASE l2 = l /\ Backed(K, l, T)
      BY <2>6, <2>7, <3>3 DEF Agree
    <3>4. CASE /\ l2 = l /\ Len(m.entries) >= 1
               /\ ~ Has(l, prev + 2, k[prev + 2].term)
      <4>1. Len(l) >= Len(k) /\ Len(m.entries) >= 1
        BY <2>1, <3>4
      <4>2. prev + 2 <= Len(k) /\ prev + 2 >= 1 /\ prev + 2 \in Int
        BY <1>4, <1>7, <4>1
      <4>3. prev + 2 \in 1 .. Len(k) /\ prev + 2 \in 1 .. Len(l)
        BY <1>3, <1>7, <4>1, <4>2
      <4> QED
        BY <2>1, <3>4, <4>3 DEF Agree, Has
    <3>5. Differs(K, j, T, prev + 2, k[prev + 2].term) =>
             Backed(K, l, T) \/ ~ Has(l, prev + 2, k[prev + 2].term)
      <4>1. T1 >= T => T1 = T
        BY <1>2, <1>3
      <4> QED
        BY <4>1 DEF Differs
    <3> QED
      BY <1>6, <2>1, <3>1, <3>2, <3>3, <3>4, <3>5
  <2>9. CommittedLog(k0, T)'
    BY <1>2, <2>4 DEF CommittedLog
  <2> QED
    BY <1>1, <2>3, <2>7, <2>8, <2>9 DEF CommitOK
<1>12. CommitOK(K2, l2, n2, T)'
  <2>1. CASE ~ Matches(m)
    BY <1>2, <1>10, <2>1
  <2>2. CASE Matches(m) /\ lc <= commitIndex[j]
    <3>1. n2 = n
      BY <1>2, <2>2 DEF FollowerCommit
    <3> QED
      BY <1>10, <3>1
  <2>3. CASE Matches(m) /\ lc > commitIndex[j]
    BY <1>11, <2>3
  <2> QED
    BY <1>3, <1>4, <2>1, <2>2, <2>3
<1>13. CommitOK(K2, log[j], commitIndex[j] + 1, currentTerm[j])'
  BY <1>2, <1>12 DEF CommitOK, CommittedLog
<1>14. \A h \in Replica : CommitOK(K2, log[h], commitIndex[h] + 1, currentTerm[h])'
  <2> SUFFICES ASSUME NEW h \in Replica, h # j
               PROVE  CommitOK(K2, log[h], commitIndex[h] + 1, currentTerm[h])'
    BY <1>13
  <2>1. Begins(log[h], log'[h])
    BY <1>2, FollowsTypes DEF Begins, Agree
  <2> QED
    BY <1>2, <2>1, CommitSame
<1> QED
  BY <1>2, <1>14, CommitsFollow

\* The answer of a follower says what holds.
LEMMA AppendEntriesAnswer ==
    ASSUME NEW K, NEW E, NEW Acc, NEW K2, NEW E2, NEW Acc2, Follows(K, E, Acc, K2, E2, Acc2),
           NEW m \in sent, AppendEntries(m), Sound', NEW a \in Answer(m, m.term, Matches(m))
    PROVE  AnswerOK(K2, Acc2, a)'
<1> SUFFICES ASSUME NEW j, j = m.to, NEW i, i = m.from, NEW c, c = m.call,
                    NEW T, T = calls[c].term, NEW u, u = calls[c].upper,
                    NEW x, x = calls[c].index, NEW prev, prev = m.prevLogIndex,
                    NEW l, l = log[j], NEW l2, l2 = log'[j], NEW li, li = log[i],
                    ~ IsLate(calls[c])', a.term <= T
             PROVE  /\ a.success =>
                          /\ <<j, u + 1, T>> \in Acc2
                          /\ calls[c].entry # None => <<j, x + 1, T>> \in Acc2
                    /\ ~ a.success =>
                          /\ prev \in 0 .. u
                          /\ Differs(K2, j, T, prev + 1, li[prev + 1].term)'
  <2>1. /\ m.call # None /\ a.call = m.call /\ a.from = m.from /\ a.to = m.to
        /\ ~ a.success => a.prevLogIndex = m.prevLogIndex
    BY DEF Answer
  <2>2. calls' = calls
    BY DEF AppendEntries
  <2>3. log'[m.from] = log[m.from]
    BY AppendEntriesStep, UnderWay DEF Follows
  <2> QED
    BY <2>1, <2>2, <2>3 DEF AnswerOK, Differs
<1>1. Shapes /\ Shapes' /\ Present(K, Acc) /\ Past(K, E) /\ K \subseteq K2
  BY DEF Follows
<1>2. m.call # None /\ a.term = m.term /\ a.success = Matches(m)
  BY DEF Answer
<1>3. /\ c \in Call /\ calls[c] # Idle /\ calls[c].from = i /\ j \in Replica /\ i \in Replica
      /\ j # i
  BY <1>1, <1>2, UnderWay
<1>4. /\ calls' = calls /\ m.term >= currentTerm[j] /\ currentTerm'[j] = m.term
      /\ ~ Matches(m) => l2 = l
      /\ Matches(m) => /\ disk'[j].log = l2
                       /\ \A k \in K : Carries(m, k) => Len(l2) >= Len(k) /\ Agree(k, l2, Len(k))
  BY <1>1, AppendEntriesStep
<1>5. ~ IsLate(calls[c]) /\ leading[i] /\ currentTerm[i] = T
  BY <1>3, <1>4, NotLateBefore DEF SameCall
<1>6. PICK k \in K :
        /\ Carries(m, k)
        /\ \A h \in Replica : leading[h] /\ currentTerm[h] = m.term => h = m.from /\ Begins(k, log[h])
        /\ m.term = T /\ Len(k) > u
        /\ prev > u => Reached(Acc, j, prev + 1, T)
  BY <1>1, <1>2, <1>5 DEF Present, MsgOK
<1>7. CallOK(K, c)
  BY <1>1, <1>3 DEF Present, CallsOK
<1>8. /\ T \in Nat /\ u \in Int /\ u < Len(li) /\ x \in Int /\ x <= u /\ u >= 0
      /\ li[u + 1].term = T
      /\ calls[c].entry # None => x >= 0 /\ li[x + 1].term = T
  BY <1>1, <1>3, <1>5, <1>7, CallTypes DEF CallOK
<1>9. /\ l \in Seq(Entry) /\ Len(l) \in Nat /\ l2 \in Seq(Entry) /\ Len(l2) \in Nat
      /\ Len(li) \in Nat /\ l \in K /\ History(K, E) /\ currentTerm[j] \in Nat
  BY <1>3, FollowsTypes
<1>10. prev \in Int /\ prev >= -1 /\ m.entries \in Seq(Entry) /\ Len(m.entries) \in Nat
  BY <1>1, LenProperties DEF Shapes, FlightShapes, SentShape, MessageRecord
<1>11. Begins(k, li) /\ Len(k) \in Nat /\ Len(k) = prev + 1 + Len(m.entries)
  BY <1>3, <1>5, <1>6, <1>9, HistoryEntries DEF Carries
<1>12. ASSUME Matches(m), NEW y \in Int, y >= 0, y <= u, li[y + 1].term = T
       PROVE  <<j, y + 1, T>> \in Acc2
  <2>1. y + 1 \in 1 .. Len(k) /\ y + 1 \in Nat
    BY <1>6, <1>8, <1>11, <1>12
  <2>2. k[y + 1] = li[y + 1] /\ k[y + 1] = l2[y + 1] /\ Len(l2) >= Len(k)
    BY <1>4, <1>6, <1>11, <1>12, <2>1 DEF Begins, Agree
  <2>3. y + 1 \in 1 .. Len(l2) /\ l2[y + 1].term = T
    BY <1>9, <1>11, <1>12, <2>1, <2>2
  <2> QED
    BY <1>3, <1>4, <1>6, <1>8, <1>12, <2>1, <2>3 DEF Follows, Accepted, Has
<1>13. ASSUME ~ Matches(m)
       PROVE  /\ prev >= 0
              /\ ~ (prev + 1 \in 1 .. Len(l) /\ l[prev + 1].term = li[prev + 1].term)
  <2>1. prev # -1 /\ ~ (prev < Len(l) /\ l[prev + 1].term = m.prevLogTerm)
    BY <1>13 DEF Matches, HasPrevEntry
  <2>2. prev >= 0 /\ prev + 1 \in 1 .. Len(k) /\ (prev + 1 \in 1 .. Len(l) => prev < Len(l))
    BY <1>9, <1>10, <1>11, <2>1
  <2>3. m.prevLogTerm = k[prev + 1].term /\ k[prev + 1] = li[prev + 1]
    BY <1>6, <1>11, <2>1, <2>2 DEF Carries, Begins, Agree
  <2> QED
    BY <2>1, <2>2, <2>3
<1>14. ASSUME ~ Matches(m), prev > u PROVE FALSE
  <2>1. PICK p \in Nat : p >= prev + 1 /\ <<j, p, T>> \in Acc
    BY <1>6, <1>14 DEF Reached
  <2>2. currentTerm[j] >= T
    BY <1>1, <1>3, <1>8, <2>1 DEF Present, Points
  <2>3. currentTerm[j] = T
    BY <1>4, <1>6, <1>8, <1>9, <2>2
  <2>4. Has(l, p, T)
    BY <1>1, <1>3, <1>5, <1>8, <2>1, <2>3 DEF Present, Points
  <2>5. p \in 1 .. Len(l) /\ l[p].term = T
    BY <2>4 DEF Has
  <2>6. p <= Len(li) /\ Agree(l, li, p)
    BY <1>1, <1>3, <1>5, <1>9, <2>5 DEF Past, LeaderLog, Longest
  <2>7. prev + 1 \in 1 .. p /\ prev + 1 \in 1 .. Len(l)
    <3>1. prev + 1 \in Nat /\ prev + 1 >= 1
      BY <1>8, <1>10, <1>14
    <3> QED
      BY <1>9, <2>1, <2>5, <3>1
  <2> QED
    BY <1>13, <1>14, <2>6, <2>7 DEF Agree
<1>15. ASSUME ~ Matches(m)
       PROVE  prev \in 0 .. u /\ Differs(K2, j, T, prev + 1, li[prev + 1].term)'
  <2>1. prev \in 0 .. u
    BY <1>8, <1>10, <1>13, <1>14, <1>15
  <2>2. ~ Has(l2, prev + 1, li[prev + 1].term)
    BY <1>4, <1>13, <1>15 DEF Has
  <2>3. currentTerm'[j] = T /\ currentTerm'[j] >= T
    BY <1>4, <1>6, <1>8
  <2> QED
    BY <2>1, <2>2, <2>3 DEF Differs
<1>16. u <= u
  BY <1>8
<1> QED
  BY <1>2, <1>8, <1>12, <1>15, <1>16

LEMMA AppendEntriesTold ==
    ASSUME NEW K, NEW E, NEW Acc, NEW K2, NEW E2, NEW Acc2, Follows(K, E, Acc, K2, E2, Acc2),
           NEW m \in sent, AppendEntries(m), Sound'
    PROVE  Told(K2, Acc2)'
<1> SUFFICES ASSUME NEW j, j = m.to, NEW T, T = m.term,
                    NEW A, A = Answer(m, m.term, Matches(m))
             PROVE  Told(K2, Acc2)'
  OBVIOUS
<1>1. Shapes /\ Shapes' /\ Present(K, Acc) /\ Past(K, E)
  BY DEF Follows
<1>2. /\ j \in Replica /\ currentTerm'[j] = T /\ ~ leading'[j]
      /\ \A h \in Replica : h # j =>
            /\ currentTerm'[h] = currentTerm[h] /\ leading'[h] = leading[h]
            /\ log'[h] = log[h] /\ commitIndex'[h] = commitIndex[h]
      /\ UNCHANGED <<nextIndex, calls, starts, acked>>
      /\ sent' = sent \ {m}
      /\ answers' = answers \cup A
      /\ ~ Matches(m) => log'[j] = log[j]
      /\ Matches(m) => \A k \in K : Carries(m, k) =>
            (log'[j] = log[j] \/ log'[j] = k) /\ Len(log'[j]) >= Len(log[j])
  BY <1>1, AppendEntriesStep
<1>3. \A a \in A : m.call # None /\ a.call = m.call /\ a.to = m.to
  BY DEF Answer
<1>4. \A h \in Replica : Lives(K, h)
  <2>1. Lives(K, j)
    <3>1. PICK k \in K :
            /\ Carries(m, k) /\ Backed(K, k, T)
            /\ \A i \in Replica : leading[i] /\ currentTerm[i] = T => Begins(k, log[i])
      BY <1>1 DEF Present, MsgOK
    <3>2. log'[j] = log[j] \/ (log'[j] = k /\ Len(log'[j]) >= Len(log[j]))
      BY <1>2, <3>1
    <3> QED
      BY <1>2, <3>1, <3>2 DEF Lives, Overwritten
  <2> QED
    BY <1>2, <2>1 DEF Lives
<1>5. CallsOK(K2, Acc2)'
  <2>1. \A x \in starts' \cup sent' \cup answers' : x.call # None =>
           \E h \in starts \cup sent \cup answers : h.call = x.call /\ h.to = x.to
    BY <1>2, <1>3
  <2> QED
    BY <1>2, <1>4, <2>1, CallsStay
<1>6. (\A x \in sent : MsgOK(K2, Acc2, x))' /\ (\A x \in answers : AnswerOK(K2, Acc2, x))'
  <2>1. \A d : SameCall(d)
    BY <1>2 DEF SameCall
  <2>2. ASSUME NEW x \in A PROVE AnswerOK(K2, Acc2, x)'
    BY <2>2, AppendEntriesAnswer
  <2> QED
    BY <1>2, <2>1, <2>2, FlightsStay
<1>7. OneEach'
  <2>1. OneEach
    BY <1>1 DEF Present
  <2>2. CASE m.call = None
    BY <1>2, <1>3, <2>1, <2>2 DEF OneEach
  <2>3. CASE m.call # None
    <3>1. \A h \in sent' : h.call = m.call => h.to # m.to
      BY <1>2, <2>1, <2>3 DEF OneEach
    <3>2. \A h \in starts \cup answers : h.call = m.call => h.to # m.to
      BY <2>1 DEF OneEach
    <3>3. \A a, b \in A : a = b
      BY DEF Answer
    <3> QED
      BY <1>2, <1>3, <2>1, <3>1, <3>2, <3>3 DEF OneEach
  <2> QED
    BY <2>2, <2>3
<1>8. AckedOK(K2, Acc2)' /\ CountsOK' /\ NextOK(Acc2)'
  <2>1. \A h \in Replica : leading'[h] =>
          /\ leading[h] /\ currentTerm'[h] = currentTerm[h] /\ commitIndex'[h] = commitIndex[h]
          /\ nextIndex'[h] = nextIndex[h]
    BY <1>2
  <2> QED
    BY <1>2, <2>1, AckedStay, CountsStay, NextsStay
<1>9. CommitsOK(K2)'
  BY AppendEntriesCommits
<1> QED
  BY <1>5, <1>6, <1>7, <1>8, <1>9 DEF Told

-----------------------------------------------------------------------------
(* The step in which the process of a replica ends. *)

LEMMA RebootTold ==
    ASSUME NEW K, NEW E, NEW Acc, NEW K2, NEW E2, NEW Acc2, Follows(K, E, Acc, K2, E2, Acc2),
           NEW i \in Replica, Reboot(i)
    PROVE  Told(K2, Acc2)'
<1>1. Shapes /\ Shapes' /\ Present(K, Acc) /\ Past(K, E)
  BY DEF Follows
<1>2. /\ leading' = [leading EXCEPT ![i] = FALSE]
      /\ log' = [log EXCEPT ![i] = disk[i].log]
      /\ commitIndex' = [commitIndex EXCEPT ![i] = disk[i].commitIndex]
      /\ nextIndex' = [nextIndex EXCEPT ![i] = None]
      /\ calls' = [c \in Call |-> IF calls[c].from = i THEN Idle ELSE calls[c]]
      /\ starts' = {g \in starts : g.from # i}
      /\ sent' = {IF m.from = i THEN [m EXCEPT !.call = None] ELSE m : m \in sent}
      /\ answers' = {a \in answers : a.from # i}
      /\ UNCHANGED <<currentTerm, disk, acked>>
  BY DEF Reboot, Restart
<1>3. /\ ~ leading'[i] /\ log'[i] = disk[i].log /\ commitIndex'[i] = disk[i].commitIndex
      /\ \A j \in Replica : j # i =>
            /\ leading'[j] = leading[j] /\ log'[j] = log[j] /\ commitIndex'[j] = commitIndex[j]
            /\ nextIndex'[j] = nextIndex[j]
  BY <1>1, <1>2 DEF Shapes, NodeTypes
<1>4. \A c \in Call : IF calls[c].from = i THEN calls'[c] = Idle ELSE calls'[c] = calls[c]
  BY <1>2
<1>5. \A c \in Call : calls[c].from # i => SameCall(c)
  BY <1>4 DEF SameCall
<1>6. \A x \in sent' : x.call # None => x \in sent /\ x.from # i
  <2> SUFFICES ASSUME NEW x \in sent', x.call # None PROVE x \in sent /\ x.from # i
    OBVIOUS
  <2>1. PICK m \in sent : x = IF m.from = i THEN [m EXCEPT !.call = None] ELSE m
    BY <1>2
  <2>2. m \in MessageRecord
    BY <1>1, UnderWay
  <2>3. CASE m.from = i
    <3>1. x.call = None
      BY <2>1, <2>2, <2>3 DEF MessageRecord
    <3> QED
      BY <3>1
  <2> QED
    BY <2>1, <2>3
<1>7. ASSUME NEW x \in sent' PROVE MsgOK(K2, Acc2, x)'
  <2>1. PICK m \in sent : x = IF m.from = i THEN [m EXCEPT !.call = None] ELSE m
    BY <1>2
  <2>2. m \in MessageRecord /\ m.to # m.from
    BY <1>1, UnderWay
  <2>3. CASE m.from # i
    <3>1. m.call # None => SameCall(m.call)
      BY <1>1, <1>5, <2>3, UnderWay
    <3> QED
      BY <2>1, <2>3, <3>1, FlightsStay
  <2>4. CASE m.from = i
    <3>1. x = [m EXCEPT !.call = None]
      BY <2>1, <2>4
    <3>2. /\ x \in MessageRecord /\ x.call = None /\ x.from = m.from /\ x.to = m.to
          /\ x.term = m.term /\ x.leaderCommit = m.leaderCommit
          /\ x.prevLogIndex = m.prevLogIndex /\ x.prevLogTerm = m.prevLogTerm
          /\ x.entries = m.entries
      BY <2>2, <3>1 DEF MessageRecord
    <3>3. MsgOK(K, Acc, m)
      BY <1>1 DEF Present
    <3>4. MsgOK(K, Acc, x)
      BY <3>2, <3>3 DEF MsgOK, Carries
    <3> QED
      BY <2>2, <3>2, <3>4, MsgOKStays
  <2> QED
    BY <2>3, <2>4
<1>8. ASSUME NEW a \in answers' PROVE AnswerOK(K2, Acc2, a)'
  <2>1. a \in answers /\ a.from # i
    BY <1>2
  <2>2. SameCall(a.call)
    BY <1>1, <1>5, <2>1, UnderWay
  <2> QED
    BY <2>1, <2>2, FlightsStay
<1>9. CallsOK(K2, Acc2)'
  <2> SUFFICES ASSUME NEW c \in Call, calls'[c] # Idle
               PROVE  CallOK(K2, c)' /\ Counted(Acc2, c)' /\ Fresh(c)'
    BY DEF CallsOK
  <2>1. calls[c] # Idle /\ calls'[c] = calls[c] /\ calls[c].from # i /\ calls[c].from \in Replica
    BY <1>1, <1>4, CallTypes
  <2>2. Lives(K, calls[c].from)
    BY <1>3, <2>1 DEF Lives
  <2>3. \A g \in starts' \cup sent' \cup answers' : g.call = c =>
           \E h \in starts \cup sent \cup answers : h.call = c /\ h.to = g.to
    BY <1>2, <1>6, ReplicationAssumption
  <2>4. \A d \in Call \ {c} : calls'[d] = Idle \/ (calls[d] # Idle /\ SameCall(d))
    BY <1>4, <1>5
  <2> QED
    BY <1>2, <2>1, <2>2, <2>3, <2>4, CallStays
<1>10. OneEach'
  <2>1. OneEach
    BY <1>1 DEF Present
  <2>2. /\ \A g \in starts' \cup answers' : g \in starts \cup answers
        /\ starts' \subseteq starts /\ answers' \subseteq answers
    BY <1>2
  <2>3. \A g \in starts \cup answers : g.call # None
    BY <1>1, UnderWay, ReplicationAssumption
  <2> QED
    BY <1>6, <2>1, <2>2, <2>3 DEF OneEach
<1>11. AckedOK(K2, Acc2)' /\ CountsOK' /\ NextOK(Acc2)'
  <2>1. \A h \in Replica : leading'[h] =>
          /\ leading[h] /\ currentTerm'[h] = currentTerm[h] /\ commitIndex'[h] = commitIndex[h]
          /\ nextIndex'[h] = nextIndex[h]
    BY <1>2, <1>3
  <2> QED
    BY <1>2, <2>1, AckedStay, CountsStay, NextsStay
<1>12. CommitOK(K2, log[i], commitIndex[i] + 1, currentTerm[i])'
  <2> SUFFICES ASSUME NEW l, l = disk[i].log, NEW n, n = disk[i].commitIndex + 1,
                      NEW T, T = currentTerm[i]
               PROVE  CommitOK(K2, log[i], commitIndex[i] + 1, currentTerm[i])'
    OBVIOUS
  <2>1. disk[i] \in [log : Seq(Entry), commitIndex : {m \in Int : m >= -1}]
    BY <1>1 DEF Shapes, NodeTypes, CommitIndex
  <2>2. l \in Seq(Entry) /\ n \in Nat /\ T \in Nat /\ T <= T
    BY <2>1, FollowsTypes
  <2>3. CommitOK(K, l, n, T)
    BY <1>1 DEF Present, CommitsOK
  <2>4. Begins(l, l)
    BY <2>2, LenProperties DEF Begins, Agree
  <2>5. CommitOK(K2, l, n, T)'
    BY <2>2, <2>3, <2>4, CommitStays
  <2>6. log'[i] = l /\ commitIndex'[i] + 1 = n /\ currentTerm'[i] = T
    BY <1>2, <1>3
  <2> QED
    BY <2>5, <2>6 DEF CommitOK, CommittedLog
<1>13. CommitsOK(K2)'
  <2>1. ASSUME NEW j \in Replica, j # i
        PROVE  CommitOK(K2, log[j], commitIndex[j] + 1, currentTerm[j])'
    <3>1. Begins(log[j], log'[j])
      BY <1>3, <2>1, FollowsTypes DEF Begins, Agree
    <3> QED
      BY <1>3, <2>1, <3>1, CommitSame
  <2>2. \A j \in Replica : CommitOK(K2, log[j], commitIndex[j] + 1, currentTerm[j])'
    BY <1>12, <2>1
  <2>3. \A j \in Replica : disk'[j] = disk[j]
    BY <1>2
  <2> QED
    BY <2>2, <2>3, CommitsFollow
<1> QED
  BY <1>7, <1>8, <1>9, <1>10, <1>11, <1>13 DEF Told

-----------------------------------------------------------------------------
(* All steps. *)

\* What a step does to the replicas, and who learns of what.
LEMMA StepMoves ==
    ASSUME Shapes, Shapes', VoteShape, [Next]_vars, Sound', NEW K, NEW E, Past(K, E),
           NEW Acc, Present(K, Acc)
    PROVE  Moves(K) /\ acked \subseteq acked'
<1>1. FilesSaved /\ \A m \in sent : MsgOK(K, Acc, m)
  BY DEF Present
<1>2. CASE UNCHANGED vars
  BY <1>1, <1>2, SameMoves DEF vars, nodeVars, electionVars, callVars
<1>3. ASSUME NEW i \in Replica, NEW c \in Call, NEW asked \in SUBSET Peers(i),
             NEW wins \in BOOLEAN, Election(i, asked, wins, c)
      PROVE  Moves(K) /\ acked \subseteq acked'
  <2>1. ElectionOf(i, asked, c) /\ acked' = acked
    BY <1>3 DEF ElectionOf, Election
  <2> QED
    BY <1>1, <2>1, ElectionMoves
<1>4. ASSUME NEW i \in Replica, NEW c \in Call, WriteCommand(i, c)
      PROVE  Moves(K) /\ acked \subseteq acked'
  <2>1. leading[i] /\ acked' = acked
    BY <1>4 DEF WriteCommand, Sound, Broken
  <2> QED
    BY <1>1, <1>4, <2>1, WriteMoves
<1>5. ASSUME NEW i \in Replica, NEW c \in Call, HeartBeat(i, c)
      PROVE  Moves(K) /\ acked \subseteq acked'
  BY <1>1, <1>5, SameMoves DEF HeartBeat, nodeVars, electionVars
<1>6. ASSUME NEW i \in Replica, Crash(i) \/ CrashInSave(i) \/ Panics(i)
      PROVE  Moves(K) /\ acked \subseteq acked'
  <2>1. Reboot(i) /\ acked' = acked
    BY <1>6, CrashInSaveIsBroken DEF Crash, Panics, Reboot, Restart
  <2> QED
    BY <1>1, <2>1, RebootMoves
<1>7. ASSUME NEW g \in starts, Send(g) PROVE Moves(K) /\ acked \subseteq acked'
  BY <1>1, <1>7, SameMoves DEF Send, nodeVars, electionVars
<1>8. ASSUME NEW m \in sent, Rewritten(m) \/ AppendEntriesStale(m)
      PROVE  Moves(K) /\ acked \subseteq acked'
  BY <1>1, <1>8, RewrittenIsBroken, SameMoves DEF AppendEntriesStale, nodeVars, electionVars
<1>9. ASSUME NEW m \in sent, AppendEntries(m) PROVE Moves(K) /\ acked \subseteq acked'
  <2>1. acked' = acked
    BY <1>9 DEF AppendEntries
  <2> QED
    BY <1>1, <1>9, <2>1, AppendEntriesMoves
<1>10. ASSUME NEW m \in sent \cup answers, GiveUp(m) PROVE Moves(K) /\ acked \subseteq acked'
  BY <1>1, <1>10, SameMoves DEF GiveUp, nodeVars, electionVars
<1>11. ASSUME NEW a \in answers, Answered(a) PROVE Moves(K) /\ acked \subseteq acked'
  <2>1. acked' = acked
    BY <1>11 DEF Answered, electionVars
  <2>2. /\ a.from \in Replica /\ log' = log
        /\ \/ UNCHANGED <<currentTerm, leading, disk>>
           \/ /\ a.term > currentTerm[a.from]
              /\ currentTerm' = [currentTerm EXCEPT ![a.from] = a.term]
              /\ leading' = [leading EXCEPT ![a.from] = FALSE]
              /\ \A j \in Replica : disk'[j] =
                    IF j = a.from THEN [log |-> log[j], commitIndex |-> commitIndex[j]] ELSE disk[j]
    BY <1>11, AnsweredNode
  <2>3. CASE UNCHANGED <<currentTerm, leading, disk>>
    BY <1>1, <2>1, <2>2, <2>3, SameMoves
  <2>4. CASE /\ a.term > currentTerm[a.from]
             /\ currentTerm' = [currentTerm EXCEPT ![a.from] = a.term]
             /\ leading' = [leading EXCEPT ![a.from] = FALSE]
             /\ \A j \in Replica : disk'[j] =
                   IF j = a.from THEN [log |-> log[j], commitIndex |-> commitIndex[j]] ELSE disk[j]
    <3>1. ASSUME NEW j \in Replica
          PROVE  \/ /\ currentTerm'[j] = currentTerm[j] /\ leading'[j] = leading[j]
                    /\ disk'[j].log = disk[j].log \/ disk'[j].log = log[j]
                 \/ currentTerm'[j] >= currentTerm[j] /\ ~ leading'[j] /\ disk'[j].log = log[j]
      <4>1. CASE j = a.from
        <5>1. disk'[j] = [log |-> log[j], commitIndex |-> commitIndex[j]]
          BY <2>4, <4>1
        <5>2. a.term \in Nat /\ currentTerm[j] \in Nat
          BY CurrentTermIsNat, TermIsNat DEF Shapes, FlightShapes, AnswerShape, AnswerRecord
        <5>3. currentTerm'[j] >= currentTerm[j] /\ ~ leading'[j]
          BY <2>4, <4>1, <5>2 DEF Shapes, NodeTypes
        <5> QED
          BY <5>1, <5>3
      <4>2. CASE j # a.from
        BY <2>4, <4>2 DEF Shapes, NodeTypes
      <4> QED
        BY <4>1, <4>2
    <3>2. log' = log
      BY <2>2
    <3> HIDE <2>4
    <3> QED
      BY <1>1, <2>1, <3>1, <3>2, QuietMoves
  <2> QED
    BY <2>2, <2>3, <2>4
<1>12. ASSUME NEW a \in answers, NEW prev, Retry(a, prev) PROVE Moves(K) /\ acked \subseteq acked'
  BY <1>1, <1>12, SameMoves DEF Retry, electionVars
<1>13. ASSUME NEW c \in Call, Commit(c) PROVE Moves(K) /\ acked \subseteq acked'
  <2>1. /\ UNCHANGED <<currentTerm, leading, log>> /\ acked \subseteq acked'
        /\ \A j \in Replica : disk'[j] =
              IF j = calls[c].from THEN [log |-> log'[j], commitIndex |-> commitIndex'[j]]
              ELSE disk[j]
    BY <1>13, CommitNode
  <2>2. \A j \in Replica : disk'[j].log = disk[j].log \/ disk'[j].log = log[j]
    <3> SUFFICES ASSUME NEW j \in Replica
                 PROVE  disk'[j].log = disk[j].log \/ disk'[j].log = log[j]
      OBVIOUS
    <3>1. disk'[j] = [log |-> log'[j], commitIndex |-> commitIndex'[j]] \/ disk'[j] = disk[j]
      BY <2>1
    <3> QED
      BY <2>1, <3>1
  <2> QED
    BY <1>1, <2>1, <2>2, QuietMoves
<1>14. ASSUME NEW c \in Call, RetryNoOp(c) PROVE Moves(K) /\ acked \subseteq acked'
  BY <1>1, <1>14, SameMoves DEF RetryNoOp, nodeVars, electionVars
<1> QED
  BY <1>2, <1>3, <1>4, <1>5, <1>6, <1>7, <1>8, <1>9, <1>10, <1>11, <1>12, <1>13, <1>14 DEF Next

\* What is known of calls, messages and answers stays true.
LEMMA StepTold ==
    ASSUME NEW K, NEW E, NEW Acc, NEW K2, NEW E2, NEW Acc2, Follows(K, E, Acc, K2, E2, Acc2),
           VoteShape, [Next]_vars, Sound'
    PROVE  Told(K2, Acc2)'
<1>1. CASE UNCHANGED vars
  <2>1. UNCHANGED <<nodeVars, calls, starts, sent, answers, acked>>
    BY <1>1 DEF vars, callVars
  <2>2. /\ AckedOK(K2, Acc2)' /\ CommitsOK(K2)' /\ CountsOK' /\ NextOK(Acc2)'
        /\ \A i \in Replica : Lives(K, i)
    BY <2>1, NodesStay
  <2>3. CallsOK(K2, Acc2)'
    BY <2>1, <2>2, CallsStay
  <2>4. \A c : SameCall(c)
    BY <2>1 DEF SameCall
  <2>5. /\ \A m \in sent' : MsgOK(K2, Acc2, m)'
        /\ \A a \in answers' : AnswerOK(K2, Acc2, a)'
    BY <2>1, <2>4, FlightsStay
  <2>6. OneEach'
    BY <2>1 DEF OneEach, Follows, Present
  <2> QED
    BY <2>2, <2>3, <2>5, <2>6 DEF Told
<1>2. ASSUME NEW i \in Replica, NEW c \in Call, NEW asked \in SUBSET Peers(i),
             NEW wins \in BOOLEAN, Election(i, asked, wins, c)
      PROVE  Told(K2, Acc2)'
  <2>1. ElectionOf(i, asked, c)
    BY <1>2 DEF ElectionOf
  <2> QED
    BY <2>1, ElectionTold
<1>3. ASSUME NEW i \in Replica, NEW c \in Call, WriteCommand(i, c) PROVE Told(K2, Acc2)'
  <2>1. leading[i]
    BY <1>3 DEF WriteCommand, Sound, Broken
  <2> QED
    BY <1>3, <2>1, WriteTold
<1>4. ASSUME NEW i \in Replica, NEW c \in Call, HeartBeat(i, c) PROVE Told(K2, Acc2)'
  <2>1. leading[i]
    BY <1>4 DEF HeartBeat, Sound, Broken
  <2> QED
    BY <1>4, <2>1, HeartBeatTold
<1>5. ASSUME NEW i \in Replica, Crash(i) \/ CrashInSave(i) \/ Panics(i) PROVE Told(K2, Acc2)'
  <2>1. Reboot(i)
    BY <1>5, CrashInSaveIsBroken DEF Crash, Panics
  <2> QED
    BY <2>1, RebootTold
<1>6. ASSUME NEW g \in starts, Send(g) PROVE Told(K2, Acc2)'
  BY <1>6, SendTold
<1>7. ASSUME NEW m \in sent, Rewritten(m) \/ AppendEntriesStale(m) PROVE Told(K2, Acc2)'
  BY <1>7, RewrittenIsBroken, AppendEntriesStaleTold
<1>8. ASSUME NEW m \in sent, AppendEntries(m) PROVE Told(K2, Acc2)'
  BY <1>8, AppendEntriesTold
<1>9. ASSUME NEW m \in sent \cup answers, GiveUp(m) PROVE Told(K2, Acc2)'
  BY <1>9, GiveUpTold
<1>10. ASSUME NEW a \in answers, Answered(a) PROVE Told(K2, Acc2)'
  BY <1>10, AnsweredTold
<1>11. ASSUME NEW a \in answers, NEW prev, Retry(a, prev) PROVE Told(K2, Acc2)'
  <2>1. ~ IsLate(calls[a.call])
    <3>1. IsLate(calls[a.call]) => "late retry" \in odd'
      BY <1>11 DEF Retry, electionVars
    <3> QED
      BY <3>1 DEF Sound, Broken
  <2> QED
    BY <1>11, <2>1, RetryTold
<1>12. ASSUME NEW c \in Call, Commit(c) PROVE Told(K2, Acc2)'
  <2>1. ~ IsLate(calls[c])
    <3>1. IsLate(calls[c]) => "late verdict" \in odd'
      BY <1>12 DEF Commit, electionVars
    <3> QED
      BY <3>1 DEF Sound, Broken
  <2> QED
    BY <1>12, <2>1, CommitTold
<1>13. ASSUME NEW c \in Call, RetryNoOp(c) PROVE Told(K2, Acc2)'
  <2>1. leading[calls[c].from] => ~ IsLate(calls[c])
    <3>1. leading[calls[c].from] /\ IsLate(calls[c]) => "late retry" \in odd'
      BY <1>13 DEF RetryNoOp
    <3> QED
      BY <3>1 DEF Sound, Broken
  <2> QED
    BY <1>13, <2>1, RetryNoOpTold
<1> QED
  BY <1>1, <1>2, <1>3, <1>4, <1>5, <1>6, <1>7, <1>8, <1>9, <1>10, <1>11, <1>12, <1>13 DEF Next

-----------------------------------------------------------------------------
(* That new logs have what a majority may have. *)

\* A log that all of a majority would vote for has what a majority may have of earlier terms.
LEMMA VotedIsComplete ==
    ASSUME Shapes, Shapes', NEW K, NEW E, Past(K, E),
           NEW Acc, NEW Acc2, Accepted(Acc, Acc2), Points(K, Acc), Complete(K, Acc),
           NEW i \in Replica, NEW t \in Nat, NEW M \in SUBSET Replica, Majority(M),
           \A j \in M : Grants(j, i) /\ currentTerm'[j] = t,
           NEW k2 \in K, NEW p \in 1 .. Len(k2), k2[p].term < t,
           ~ Blocked(Acc, p, k2[p].term), ~ Blocked(Acc2, p, k2[p].term)'
    PROVE  Has(log[i], p, k2[p].term)
<1> SUFFICES ASSUME NEW l, l = log[i], NEW T, T = k2[p].term PROVE Has(l, p, T)
  OBVIOUS
<1>1. /\ History(K, E) /\ l \in K /\ l \in Seq(Entry) /\ Len(l) \in Nat
      /\ Len(k2) \in Nat /\ T \in Nat /\ p \in Nat /\ p >= 1
      /\ \A q \in 1 .. Len(l) : l[q].term \in Nat
  <2>1. History(K, E) /\ l \in K
    BY DEF Past, Held
  <2>2. l \in Seq(Entry)
    BY DEF Shapes, NodeTypes
  <2> QED
    BY <2>1, <2>2, HistoryEntries, LenProperties
<1>2. PICK j \in M : <<j, p, T>> \in Acc2
  <2>1. \A j \in M : currentTerm'[j] > T
    BY <1>1
  <2> QED
    BY <2>1 DEF Blocked
<1>3. <<j, p, T>> \in Acc
  <2>1. currentTerm'[j] # T
    BY <1>1
  <2> QED
    BY <1>1, <1>2, <2>1 DEF Accepted
<1>4. Has(log[j], p, T)
  BY <1>1, <1>3 DEF Points
<1> SUFFICES ASSUME NEW v, v = log[j] PROVE Has(l, p, T)
  OBVIOUS
<1>5. /\ v \in K /\ v \in Seq(Entry) /\ Len(v) \in Nat
      /\ \A q \in 1 .. Len(v) : v[q].term \in Nat
      /\ p \in 1 .. Len(v) /\ v[p].term = T
  <2>1. v \in K
    BY DEF Past, Held
  <2>2. v \in Seq(Entry)
    BY DEF Shapes, NodeTypes
  <2> QED
    BY <1>1, <1>4, <2>1, <2>2, HistoryEntries, LenProperties DEF Has
<1>6. AtLeastAsUpToDate(LatestLogIndex(l), LatestLogTerm(l), v)
  BY DEF Grants
<1>7. Len(v) >= 1 /\ Len(v) \in 1 .. Len(v) /\ v[p].term <= v[Len(v)].term
  <2>1. Len(v) >= 1 /\ Len(v) \in 1 .. Len(v) /\ p <= Len(v)
    BY <1>1, <1>5
  <2> QED
    BY <1>1, <1>5, <2>1 DEF History
<1>8. Len(l) >= 1 /\ \/ l[Len(l)].term > v[Len(v)].term
                     \/ l[Len(l)].term = v[Len(v)].term /\ Len(l) >= Len(v)
  BY <1>1, <1>5, <1>6, <1>7 DEF AtLeastAsUpToDate, LatestLogIndex, LatestLogTerm
<1>9. Len(l) \in 1 .. Len(l) /\ l[Len(l)].term \in Nat /\ v[Len(v)].term \in Nat
  BY <1>1, <1>5, <1>7, <1>8
<1>10. CASE l[Len(l)].term > T
  <2>1. k2[p].term < l[Len(l)].term
    BY <1>10, <1>9, <1>1
  <2> QED
    BY <1>1, <1>9, <2>1 DEF Complete
<1>11. CASE l[Len(l)].term = T
  <2>1. v[Len(v)].term = T /\ Len(l) >= Len(v)
    BY <1>1, <1>5, <1>7, <1>8, <1>9, <1>11
  <2>2. p <= Len(l) /\ p \in 1 .. Len(l)
    BY <1>1, <1>5, <2>1
  <2>3. Agree(v, l, p)
    BY <1>1, <1>5, <1>9, <1>11, <2>2 DEF History
  <2>4. p \in 1 .. p
    BY <1>1
  <2> QED
    BY <1>5, <2>2, <2>3, <2>4 DEF Agree, Has
<1> QED
  BY <1>1, <1>5, <1>7, <1>8, <1>9, <1>10, <1>11

LEMMA SameComplete ==
    ASSUME Shapes, Shapes', NEW K, NEW E, Past(K, E), Moves(K),
           NEW Acc, NEW Acc2, Accepted(Acc, Acc2), Complete(K, Acc)
    PROVE  Complete(K, Acc2)'
<1>1. ASSUME NEW k \in K, NEW k2 \in K, NEW q \in 1 .. Len(k), NEW p \in 1 .. Len(k2),
             k2[p].term < k[q].term
      PROVE  Has(k, p, k2[p].term) \/ Blocked(Acc2, p, k2[p].term)'
  <2>1. Has(k, p, k2[p].term) \/ Blocked(Acc, p, k2[p].term)
    BY <1>1 DEF Complete
  <2>2. k2[p].term \in Nat /\ p \in Nat
    BY HistoryEntries DEF Past
  <2> QED
    BY <2>1, <2>2, BlockedStays
<1> QED
  BY <1>1 DEF Complete

LEMMA ElectionComplete ==
    ASSUME Shapes, Shapes', NEW K, NEW E, Past(K, E), NEW K2, Logs(K, K2), Moves(K),
           NEW Acc, NEW Acc2, Accepted(Acc, Acc2), Points(K, Acc), Complete(K, Acc),
           VoteShape, Sound', NEW i \in Replica, NEW c \in Call, NEW asked \in SUBSET Peers(i),
           ElectionOf(i, asked, c)
    PROVE  Complete(K2, Acc2)'
<1> SUFFICES ASSUME NEW l, l = log[i], NEW t, t = currentTerm[i] + 1,
                    NEW entry, entry = [term |-> t, by |-> i, operation |-> NoOp]
             PROVE  Complete(K2, Acc2)'
  OBVIOUS
<1>0. PICK reached, saved \in SUBSET Replica : Elects(i, c, t, reached, saved)
  BY ElectionNode
<1>1. \/ log' = log
      \/ /\ log' = [log EXCEPT ![i] = Append(l, entry)]
         /\ \E M \in SUBSET Replica :
               Majority(M) /\ \A j \in M : MayVote(j, t) /\ Grants(j, i) /\ currentTerm'[j] = t
  BY <1>0 DEF Elects
<1>2. t \in Term /\ t \in Nat /\ entry \in Entry /\ entry.term = t
  BY ElectionNode, TermIsNat DEF Entry
<1>3. l \in K /\ History(K, E) /\ \A j \in Replica : log[j] \in K
  BY DEF Past, Held
<1>4. CASE log' = log
  <2>1. K2 = K
    BY <1>3, <1>4 DEF Logs
  <2> QED
    BY <2>1, SameComplete
<1>5. CASE /\ log' = [log EXCEPT ![i] = Append(l, entry)]
           /\ \E M \in SUBSET Replica :
                 Majority(M) /\ \A j \in M : MayVote(j, t) /\ Grants(j, i) /\ currentTerm'[j] = t
  <2>1. PICK M \in SUBSET Replica :
          Majority(M) /\ \A j \in M : MayVote(j, t) /\ Grants(j, i) /\ currentTerm'[j] = t
    BY <1>5
  <2>3. \A k \in K : \A q \in 1 .. Len(k) : k[q].term < t
    BY <1>2, <2>1, TermIsNew
  <2>4. K2 = K \cup {Append(l, entry)}
    <3>1. log'[i] = Append(l, entry) /\ \A j \in Replica : j # i => log'[j] = log[j]
      BY <1>5 DEF Shapes, NodeTypes
    <3> QED
      BY <1>3, <3>1 DEF Logs
  <2>5. ASSUME NEW k2 \in K, NEW p \in 1 .. Len(k2), k2[p].term < t
        PROVE  Has(l, p, k2[p].term) \/ Blocked(Acc2, p, k2[p].term)'
    <3>1. k2[p].term \in Nat /\ p \in Nat
      BY <1>3, HistoryEntries
    <3>2. CASE Blocked(Acc, p, k2[p].term)
      BY <3>1, <3>2, BlockedStays
    <3>3. CASE ~ Blocked(Acc, p, k2[p].term)
      BY <1>2, <2>1, <2>5, <3>3, VotedIsComplete
    <3> QED
      BY <3>2, <3>3
  <2>6. ~ \E k \in K : \E q \in 1 .. Len(k) : k[q].term > t
    <3>1. ASSUME NEW k \in K, NEW q \in 1 .. Len(k) PROVE ~ (k[q].term > t)
      BY <1>2, <1>3, <2>3, HistoryEntries
    <3> QED
      BY <3>1
  <2> QED
    BY <1>2, <1>3, <2>4, <2>5, <2>6, CompleteStays
<1> QED
  BY <1>1, <1>4, <1>5

LEMMA WriteComplete ==
    ASSUME Shapes, Shapes', NEW K, NEW E, Past(K, E), NEW K2, Logs(K, K2), Moves(K),
           NEW Acc, NEW Acc2, Accepted(Acc, Acc2), Points(K, Acc), Complete(K, Acc),
           NEW i \in Replica, NEW c \in Call, WriteCommand(i, c), leading[i]
    PROVE  Complete(K2, Acc2)'
<1> SUFFICES ASSUME NEW l, l = log[i], NEW t, t = currentTerm[i],
                    NEW entry, entry = [term |-> t, by |-> i, operation |-> Write]
             PROVE  Complete(K2, Acc2)'
  OBVIOUS
<1>1. /\ log' = [log EXCEPT ![i] = Append(l, entry)]
      /\ UNCHANGED <<currentTerm, leading, disk>>
  BY DEF WriteCommand, electionVars
<1>2. t \in Nat /\ entry \in Entry /\ entry.term = t
  BY TermIsNat DEF Entry, Shapes, NodeTypes
<1>3. /\ l \in K /\ History(K, E) /\ \A j \in Replica : log[j] \in K
      /\ Len(l) >= 1 /\ l[Len(l)].term = t /\ Longest(K, l, t)
  BY DEF Past, Held, LeaderLog
<1>4. Len(l) \in Nat /\ Len(l) \in 1 .. Len(l)
  <2>1. Len(l) \in Nat
    BY <1>3, HistoryEntries
  <2> QED
    BY <1>3, <2>1
<1>5. K2 = K \cup {Append(l, entry)}
  <2>1. log'[i] = Append(l, entry) /\ \A j \in Replica : j # i => log'[j] = log[j]
    BY <1>1 DEF Shapes, NodeTypes
  <2> QED
    BY <1>3, <2>1 DEF Logs
<1>6. ASSUME NEW k2 \in K, NEW p \in 1 .. Len(k2), k2[p].term < t
      PROVE  Has(l, p, k2[p].term) \/ Blocked(Acc2, p, k2[p].term)'
  <2>1. k2[p].term \in Nat /\ p \in Nat
    BY <1>3, HistoryEntries
  <2>2. Has(l, p, k2[p].term) \/ Blocked(Acc, p, k2[p].term)
    BY <1>3, <1>4, <1>6 DEF Complete
  <2> QED
    BY <2>1, <2>2, BlockedStays
<1>7. ASSUME NEW k \in K, NEW q \in 1 .. Len(k), k[q].term > t
      PROVE  Blocked(Acc2, Len(l) + 1, t)'
  <2>1. k[q].term \in Nat /\ k[q].term \in E
    BY <1>3, HistoryEntries DEF History
  <2>2. PICK M \in SUBSET Replica : Majority(M) /\ \A j \in M : currentTerm[j] >= k[q].term
    <3>1. PICK M \in SUBSET Replica, h \in Replica :
            Majority(M) /\ \A j \in M : HasVoted(j, h, k[q].term)
      BY <2>1 DEF Past, Known
    <3>2. \A j \in M : currentTerm[j] >= k[q].term
      BY <2>1, <3>1, CurrentTermIsNat DEF HasVoted
    <3> QED
      BY <3>1, <3>2
  <2>3. Len(l) + 1 \in Nat
    BY <1>4
  <2>4. ASSUME NEW h \in K, Has(h, Len(l) + 1, t) PROVE FALSE
    <3>1. Len(l) + 1 <= Len(l)
      BY <1>3, <2>4 DEF Has, Longest
    <3> QED
      BY <1>4, <3>1
  <2>5. ASSUME NEW j \in M PROVE currentTerm'[j] > t /\ <<j, Len(l) + 1, t>> \notin Acc2
    <3>1. currentTerm[j] \in Nat
      BY CurrentTermIsNat
    <3>2. currentTerm[j] >= k[q].term
      BY <2>2
    <3>3. currentTerm[j] > t
      BY <1>2, <1>7, <2>1, <3>1, <3>2
    <3>4. currentTerm'[j] = currentTerm[j]
      BY <1>1
    <3>5. currentTerm'[j] > t /\ currentTerm'[j] # t
      BY <1>2, <3>1, <3>3, <3>4
    <3>6. <<j, Len(l) + 1, t>> \notin Acc
      BY <1>2, <2>3, <2>4 DEF Points
    <3> QED
      BY <1>2, <2>3, <3>5, <3>6 DEF Accepted
  <2> QED
    BY <2>2, <2>5 DEF Blocked, Majority
<1> QED
  BY <1>2, <1>3, <1>5, <1>6, <1>7, CompleteStays

\* So do all steps keep the logs complete.
LEMMA StepComplete ==
    ASSUME Shapes, Shapes', VoteShape, [Next]_vars, Sound', NEW K, NEW E, Past(K, E), NEW K2, NEW E2,
           Logs(K, K2), Terms(E, E2), Moves(K),
           NEW Acc, NEW Acc2, Accepted(Acc, Acc2), Points(K, Acc), Complete(K, Acc)
    PROVE  Complete(K2, Acc2)'
<1>1. ASSUME Calm(K) PROVE Complete(K2, Acc2)'
  <2>1. K2 = K
    BY <1>1, CalmKeeps, StepVotesStay
  <2> QED
    BY <2>1, SameComplete
<1>2. ASSUME log' = log PROVE Complete(K2, Acc2)'
  <2>1. K2 = K
    BY <1>2 DEF Logs, Past, Held
  <2> QED
    BY <2>1, SameComplete
<1>3. CASE UNCHANGED vars
  BY <1>2, <1>3 DEF vars, nodeVars, electionVars
<1>4. ASSUME NEW i \in Replica, NEW c \in Call, NEW asked \in SUBSET Peers(i),
             NEW wins \in BOOLEAN, Election(i, asked, wins, c)
      PROVE  Complete(K2, Acc2)'
  <2>1. ElectionOf(i, asked, c)
    BY <1>4 DEF ElectionOf
  <2> QED
    BY <2>1, ElectionComplete
<1>5. ASSUME NEW i \in Replica, NEW c \in Call, WriteCommand(i, c) PROVE Complete(K2, Acc2)'
  <2>1. leading[i]
    BY <1>5 DEF WriteCommand, Sound, Broken
  <2> QED
    BY <1>5, <2>1, WriteComplete
<1>6. ASSUME NEW i \in Replica, Crash(i) \/ CrashInSave(i) \/ Panics(i)
      PROVE  Complete(K2, Acc2)'
  BY <1>1, <1>6, CrashInSaveIsBroken, RebootCalm DEF Crash, Panics
<1>7. ASSUME NEW m \in sent, AppendEntries(m) PROVE Complete(K2, Acc2)'
  BY <1>1, <1>7, AppendEntriesCalm
<1>8. ASSUME NEW a \in answers, Answered(a) \/ \E prev \in ReadAgain(a) : Retry(a, prev)
      PROVE  Complete(K2, Acc2)'
  BY <1>1, <1>8, AnsweredCalm, RetryCalm
<1>9. ASSUME NEW i \in Replica, NEW c \in Call, HeartBeat(i, c) PROVE Complete(K2, Acc2)'
  BY <1>2, <1>9 DEF HeartBeat, nodeVars, electionVars
<1>10. ASSUME NEW g \in starts, Send(g) PROVE Complete(K2, Acc2)'
  BY <1>2, <1>10 DEF Send, nodeVars, electionVars
<1>11. ASSUME NEW m \in sent, Rewritten(m) \/ AppendEntriesStale(m)
       PROVE  Complete(K2, Acc2)'
  BY <1>2, <1>11 DEF Rewritten, AppendEntriesStale, nodeVars, electionVars
<1>12. ASSUME NEW m \in sent \cup answers, GiveUp(m) PROVE Complete(K2, Acc2)'
  BY <1>2, <1>12 DEF GiveUp, nodeVars, electionVars
<1>13. ASSUME NEW c \in Call, Commit(c) \/ RetryNoOp(c) PROVE Complete(K2, Acc2)'
  BY <1>2, <1>13 DEF Commit, RetryNoOp, nodeVars, electionVars
<1> QED
  BY <1>3, <1>4, <1>5, <1>6, <1>7, <1>8, <1>9, <1>10, <1>11, <1>12, <1>13 DEF Next

-----------------------------------------------------------------------------
(* What is known is so in every state of a run that breaks nothing. *)

LEMMA StepPresent ==
    ASSUME Shapes, Shapes', VoteShape, [Next]_vars, Sound', NEW K, NEW E, Past(K, E), NEW K2, NEW E2,
           Logs(K, K2), Terms(E, E2), NEW Acc, NEW Acc2, Accepted(Acc, Acc2), Present(K, Acc)
    PROVE  Past(K2, E2)' /\ Present(K2, Acc2)'
<1>1. Past(K2, E2)'
  BY StepPast
<1>2. Moves(K) /\ acked \subseteq acked'
  BY StepMoves
<1>3. FilesSaved /\ Points(K, Acc) /\ Complete(K, Acc)
  BY DEF Present
<1>4. FilesSaved'
  BY <1>2 DEF Moves, FilesSaved
<1>5. Points(K2, Acc2)'
  BY <1>2, <1>3, PointsStay
<1>6. Complete(K2, Acc2)'
  BY <1>2, <1>3, StepComplete
<1>7. Follows(K, E, Acc, K2, E2, Acc2)
  BY <1>1, <1>2 DEF Follows, Logs
<1>8. Told(K2, Acc2)'
  BY <1>7, StepTold
<1> QED
  BY <1>1, <1>4, <1>5, <1>6, <1>8 DEF Present, Told

LEMMA InitPresent == Init => Present({<< >>}, {})
<1> SUFFICES ASSUME Init PROVE Present({<< >>}, {})
  OBVIOUS
<1>1. Len(<< >>) = 0 /\ \A p \in 1 .. 0 : FALSE
  OBVIOUS
<1>2. FilesSaved
  BY DEF Init, NoFile, FilesSaved
<1>3. Points({<< >>}, {}) /\ Complete({<< >>}, {})
  BY <1>1 DEF Points, Complete
<1>4. CallsOK({<< >>}, {}) /\ OneEach
  BY DEF Init, CallsOK, OneEach
<1>5. AckedOK({<< >>}, {})
  BY DEF Init, AckedOK
<1>6. CommitsOK({<< >>})
  <2>1. \A i \in Replica : commitIndex[i] + 1 = 0 /\ disk[i].commitIndex + 1 = 0
    BY DEF Init, NoFile
  <2> QED
    BY <2>1 DEF CommitsOK, CommitOK
<1>7. CountsOK /\ NextOK({})
  BY DEF Init, CountsOK, NextOK
<1> QED
  BY <1>2, <1>3, <1>4, <1>5, <1>6, <1>7 DEF Init, Present

\* What is known of a run in which the code broke nothing.
HasPresent == Sound => \E K, E, Acc : Past(K, E) /\ Present(K, Acc)

\* What is known of the logs, the files, the calls, the messages and what callers learned, in
\* every state in which Broken is empty: the messages that goroutines of a call share were not
\* mixed, no crash was inside a save, no leader was without a majority, and so on.
THEOREM Invariance == Spec => [](Shapes /\ HasPresent)
<1>1. Init => HasPresent
  BY InitPast, InitPresent DEF HasPresent
<1>2. Shapes /\ Shapes' /\ VoteShape /\ HasPresent /\ [Next]_vars => HasPresent'
  <2> SUFFICES ASSUME Shapes, Shapes', VoteShape, HasPresent, [Next]_vars, Sound'
               PROVE  HasPresent'
    BY DEF HasPresent
  <2>2. PICK K, E, Acc : Past(K, E) /\ Present(K, Acc)
    BY SoundBefore DEF HasPresent
  <2>3. PICK K2, E2 : Logs(K, K2) /\ Terms(E, E2)
    BY DEF Logs, Terms
  <2>4. PICK Acc2 : Accepted(Acc, Acc2)
    BY AcceptedExists
  <2>5. Past(K2, E2)' /\ Present(K2, Acc2)'
    BY <2>2, <2>3, <2>4, StepPresent
  <2> QED
    BY <2>5 DEF HasPresent
<1> QED
  BY <1>1, <1>2, ShapesInvariant, VoteInvariant, PTL DEF Spec

\* No majority is past the term of what somebody learned of without it.
LEMMA AckedNotBlocked ==
    ASSUME NEW K, NEW Acc, AckedOK(K, Acc), NEW a \in acked
    PROVE  ~ Blocked(Acc, a.index + 1, a.entry.term)
<1>1. PICK M \in SUBSET Replica :
        Majority(M) /\ \A j \in M : <<j, a.index + 1, a.entry.term>> \in Acc
  BY DEF AckedOK
<1> QED
  BY <1>1, MajoritiesMeet DEF Blocked

\* As long as Broken is empty, an entry whose caller was told of success is in the files of a
\* majority from then on, through crashes between saves, and in the log of whoever leads in
\* its term or later.
THEOREM AckedEntriesStay == Spec => []AckedStays
<1>1. Shapes /\ HasPresent => AckedStays
  <2> SUFFICES ASSUME Shapes, HasPresent, Sound, NEW a \in acked
               PROVE  /\ 2 * Cardinality({i \in Replica : HasEntry(disk[i].log, a)})
                            > Cardinality(Replica)
                      /\ \A i \in Replica :
                            leading[i] /\ currentTerm[i] >= a.entry.term => HasEntry(log[i], a)
    BY DEF AckedStays, Sound
  <2> SUFFICES ASSUME NEW p, p = a.index + 1, NEW T, T = a.entry.term
               PROVE  /\ 2 * Cardinality({i \in Replica : HasEntry(disk[i].log, a)})
                            > Cardinality(Replica)
                      /\ \A i \in Replica :
                            leading[i] /\ currentTerm[i] >= T => HasEntry(log[i], a)
    OBVIOUS
  <2>1. PICK K, E, Acc : Past(K, E) /\ Present(K, Acc)
    BY DEF HasPresent
  <2>2. Points(K, Acc) /\ Complete(K, Acc) /\ AckedOK(K, Acc) /\ History(K, E)
    BY <2>1 DEF Present, Past
  <2>3. a.index \in Nat /\ p \in Nat /\ p >= 1 /\ T \in Nat
    BY TermIsNat DEF Shapes, NodeTypes, Entry
  <2>4. PICK M \in SUBSET Replica : Majority(M) /\ \A j \in M : <<j, p, T>> \in Acc
    BY <2>2 DEF AckedOK
  <2>5. ~ Blocked(Acc, p, T)
    BY <2>2, AckedNotBlocked
  <2>6. PICK k \in K : p <= Len(k) /\ k[p] = a.entry
    BY <2>2 DEF AckedOK
  <2>7. p \in 1 .. Len(k) /\ p \in 1 .. p /\ k[p].term = T
    <3>1. Len(k) \in Nat
      BY <2>2, HistoryEntries
    <3> QED
      BY <2>3, <2>6, <3>1
  <2>8. ASSUME NEW l \in K, Has(l, p, T) PROVE HasEntry(l, a)
    <3>1. p \in 1 .. Len(l) /\ l[p].term = T
      BY <2>8 DEF Has
    <3>2. Agree(k, l, p)
      BY <2>2, <2>3, <2>7, <3>1 DEF History
    <3>3. l[p] = a.entry
      BY <2>6, <2>7, <3>2 DEF Agree
    <3>4. DOMAIN l = 1 .. Len(l)
      <4>1. l \in Seq(Entry)
        BY <2>2 DEF History
      <4> QED
        BY <4>1, LenProperties
    <3> QED
      BY <3>1, <3>3, <3>4 DEF HasEntry
  <2>9. \A j \in M : HasEntry(disk[j].log, a)
    <3>1. ASSUME NEW j \in M PROVE HasEntry(disk[j].log, a)
      <4>1. Has(disk[j].log, p, T)
        BY <2>2, <2>3, <2>4, <2>5 DEF Points
      <4>2. disk[j].log \in K
        BY <2>1 DEF Past, Held
      <4> QED
        BY <2>8, <4>1, <4>2
    <3> QED
      BY <3>1
  <2>10. 2 * Cardinality({i \in Replica : HasEntry(disk[i].log, a)}) > Cardinality(Replica)
    <3> DEFINE S == {i \in Replica : HasEntry(disk[i].log, a)}
    <3>1. M \subseteq S /\ S \subseteq Replica
      BY <2>9
    <3> HIDE DEF S
    <3>2. IsFiniteSet(Replica) /\ IsFiniteSet(S) /\ IsFiniteSet(M)
      BY <3>1, ReplicationAssumption, FS_Subset
    <3>3. Cardinality(M) <= Cardinality(S)
      BY <3>1, <3>2, FS_Subset
    <3>4. Cardinality(M) \in Nat /\ Cardinality(S) \in Nat /\ Cardinality(Replica) \in Nat
      BY <3>2, FS_CardinalityType
    <3>5. 2 * Cardinality(M) > Cardinality(Replica)
      BY <2>4 DEF Majority
    <3>6. 2 * Cardinality(S) > Cardinality(Replica)
      BY <3>3, <3>4, <3>5
    <3> QED
      BY <3>6 DEF S
  <2>11. ASSUME NEW i \in Replica, leading[i], currentTerm[i] >= T PROVE HasEntry(log[i], a)
    <3>1. /\ log[i] \in K /\ Len(log[i]) >= 1 /\ log[i][Len(log[i])].term = currentTerm[i]
      BY <2>1, <2>11 DEF Past, Held, LeaderLog
    <3>2. currentTerm[i] \in Nat /\ Len(log[i]) \in Nat
      BY <2>2, <3>1, HistoryEntries, CurrentTermIsNat
    <3>3. Len(log[i]) \in 1 .. Len(log[i])
      BY <3>1, <3>2
    <3>4. CASE currentTerm[i] > T
      <4>1. k[p].term < log[i][Len(log[i])].term
        BY <2>3, <2>7, <3>1, <3>2, <3>4
      <4>2. Has(log[i], p, T)
        BY <2>2, <2>5, <2>7, <3>1, <3>3, <4>1 DEF Complete
      <4> QED
        BY <2>8, <3>1, <4>2
    <3>5. CASE currentTerm[i] = T
      <4>1. p \in 1 .. Len(log[i]) /\ log[i][p] = a.entry
        BY <2>1, <2>2, <2>11, <3>5, AckedInLog
      <4>2. Has(log[i], p, T)
        BY <4>1 DEF Has
      <4> QED
        BY <2>8, <3>1, <4>2
    <3> QED
      BY <2>3, <2>11, <3>2, <3>4, <3>5
  <2> QED
    BY <2>10, <2>11
<1> QED
  BY <1>1, Invariance, PTL

\* Two logs that end with what somebody learned of are the same as far as both go.
LEMMA CommittedLogsAgree ==
    ASSUME Shapes, NEW K, NEW E, Past(K, E), NEW Acc, Complete(K, Acc), AckedOK(K, Acc),
           NEW k1 \in K, NEW T1, CommittedLog(k1, T1), NEW k2 \in K, NEW T2, CommittedLog(k2, T2)
    PROVE  \A r \in 1 .. Len(k1) : r \in 1 .. Len(k2) => k1[r] = k2[r]
<1>1. PICK a1 \in acked : Len(k1) = a1.index + 1 /\ k1[Len(k1)] = a1.entry
  BY DEF CommittedLog
<1>2. PICK a2 \in acked : Len(k2) = a2.index + 1 /\ k2[Len(k2)] = a2.entry
  BY DEF CommittedLog
<1> SUFFICES ASSUME NEW t1, t1 = a1.entry.term, NEW t2, t2 = a2.entry.term
             PROVE  \A r \in 1 .. Len(k1) : r \in 1 .. Len(k2) => k1[r] = k2[r]
  OBVIOUS
<1>3. /\ t1 \in Nat /\ t2 \in Nat
      /\ a1.index \in Nat /\ a2.index \in Nat
  BY TermIsNat DEF Shapes, NodeTypes, Entry
<1>4. t1 <= t1 /\ t2 <= t2 /\ Len(k1) >= 1 /\ Len(k2) >= 1 /\ Len(k1) \in Nat /\ Len(k2) \in Nat
  BY <1>1, <1>2, <1>3
<1>5. CommittedLog(k1, t1) /\ CommittedLog(k2, t2)
  BY <1>1, <1>2, <1>4 DEF CommittedLog
<1>6. k1 \in Seq(Entry) /\ k2 \in Seq(Entry)
  BY DEF Past, History
<1>7. Begins(k1, k1) /\ Begins(k2, k2)
  BY <1>4 DEF Begins, Agree
<1>8. Backed(K, k1, t1) /\ Backed(K, k2, t2)
  BY <1>1, <1>2, <1>4, <1>7 DEF Backed
<1>9. CASE t1 <= t2
  <2>1. \A r \in 1 .. Len(k1) : r \in 1 .. Len(k2) => k2[r] = k1[r]
    BY <1>3, <1>5, <1>6, <1>8, <1>9, BackedHasCommitted
  <2> QED
    BY <2>1
<1>10. CASE t2 <= t1
  <2>1. \A r \in 1 .. Len(k2) : r \in 1 .. Len(k1) => k1[r] = k2[r]
    BY <1>3, <1>5, <1>6, <1>8, <1>10, BackedHasCommitted
  <2> QED
    BY <2>1
<1> QED
  BY <1>3, <1>9, <1>10

\* As long as Broken is empty, two replicas that both take an index for committed have the
\* same entry there.
THEOREM CommitsAgree == Spec => []CommittedAgree
<1>1. Shapes /\ HasPresent => CommittedAgree
  <2> SUFFICES ASSUME Shapes, HasPresent, Sound, NEW i \in Replica, NEW j \in Replica,
                      NEW p \in 1 .. commitIndex[i] + 1, p <= commitIndex[j] + 1
               PROVE  /\ p \in DOMAIN log[i] \cap DOMAIN log[j]
                      /\ log[i][p] = log[j][p]
    BY DEF CommittedAgree, Sound
  <2>1. PICK K, E, Acc : Past(K, E) /\ Present(K, Acc)
    BY DEF HasPresent
  <2>2. \A h \in Replica : /\ commitIndex[h] \in Int
                           /\ log[h] \in Seq(Entry) /\ Len(log[h]) \in Nat
                           /\ DOMAIN log[h] = 1 .. Len(log[h])
    BY LenProperties DEF Shapes, NodeTypes, CommitIndex
  <2>3. p \in Nat /\ p >= 1 /\ p <= commitIndex[i] + 1
    BY <2>2
  <2>4. ASSUME NEW h \in Replica, p <= commitIndex[h] + 1
        PROVE  \E k \in K : /\ CommittedLog(k, currentTerm[h])
                            /\ p \in 1 .. Len(k) /\ p \in 1 .. Len(log[h]) /\ log[h][p] = k[p]
    <3>1. commitIndex[h] + 1 # 0
      BY <2>2, <2>3, <2>4
    <3>2. PICK k \in K : /\ CommittedLog(k, currentTerm[h]) /\ commitIndex[h] + 1 <= Len(k)
                         /\ commitIndex[h] + 1 <= Len(log[h])
                         /\ Agree(log[h], k, commitIndex[h] + 1)
      BY <2>1, <3>1 DEF Present, CommitsOK, CommitOK
    <3>3. Len(k) \in Nat
      BY <2>1, HistoryEntries DEF Past
    <3>4. p \in 1 .. commitIndex[h] + 1 /\ p \in 1 .. Len(k) /\ p \in 1 .. Len(log[h])
      BY <2>2, <2>3, <2>4, <3>2, <3>3
    <3> QED
      BY <3>2, <3>4 DEF Agree
  <2>5. PICK k1 \in K : /\ CommittedLog(k1, currentTerm[i])
                        /\ p \in 1 .. Len(k1) /\ p \in 1 .. Len(log[i]) /\ log[i][p] = k1[p]
    BY <2>3, <2>4
  <2>6. PICK k2 \in K : /\ CommittedLog(k2, currentTerm[j])
                        /\ p \in 1 .. Len(k2) /\ p \in 1 .. Len(log[j]) /\ log[j][p] = k2[p]
    BY <2>4
  <2>7. k1[p] = k2[p]
    BY <2>1, <2>5, <2>6, CommittedLogsAgree DEF Present
  <2> QED
    BY <2>2, <2>5, <2>6, <2>7
<1> QED
  BY <1>1, Invariance, PTL
=============================================================================
