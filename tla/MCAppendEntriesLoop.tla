------------------------ MODULE MCAppendEntriesLoop ------------------------
(* AppendEntriesLoop for TLC: every log of up to MaxLog entries. *)
EXTENDS AppendEntriesLoop

CONSTANT MaxLog   \* the longest log

MCTerm == {1, 2}

MCLog == UNION {[1 .. n -> [term : MCTerm]] : n \in 0 .. MaxLog}

MCCommit == -1 .. MaxLog + 1
=============================================================================
