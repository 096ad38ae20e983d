--------------------------- MODULE MCLocalResource ---------------------------
(* Small instances of LocalResource for TLC.                               *)
EXTENDS LocalResource

\* One LPM and one EM table.
MCTwoTables == [t \in 0..3 |-> IF t \in {POF_LPM_TABLE, POF_EM_TABLE} THEN 1 ELSE 0]
\* A single LINEAR table.
MCOneTable == [t \in 0..3 |-> IF t = POF_LINEAR_TABLE THEN 1 ELSE 0]
MCEmBucket == [k \in Keys |-> IF k = "k1" THEN 1 ELSE 0]
MCKeys == {"k1", "k2"}
MCOneKey == {"k1"}
=============================================================================
