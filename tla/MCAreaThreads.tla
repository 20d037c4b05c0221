--------------------------- MODULE MCAreaThreads ---------------------------
EXTENDS AreaThreads

MCNet == {"n1", "n2"}
(* Three threads.  Nets in every area, so that area 3 has no thread; areas *)
(* without nets; no cross nets.                                            *)
MCPartitions == {
  [k \in 0 .. 3 \cup {Cross} |-> IF k = 0 THEN MCNet ELSE {"n1"}],
  [k \in {0, 2} |-> IF k = 0 THEN {"n1"} ELSE {"n2"}],
  [k \in {1, Cross} |-> {"n1"}]}
=============================================================================
