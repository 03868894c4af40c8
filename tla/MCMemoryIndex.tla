--------------------------- MODULE MCMemoryIndex ---------------------------
(* Instances of MemoryIndex for TLC.                                       *)
EXTENDS MemoryIndex, TLC

CONSTANTS d1, d2, m1, m2, m3

OneDoc == {d1}
TwoModels == {m1, m3}
Dims == [m \in Models |-> IF m = m3 THEN 2 ELSE 1]

\* The two models differ in name and dimension only: starting with one of them
\* shows what starting with the other would.
InitM1 == Init /\ config = m1
FromM1 == InitM1 /\ [][Next]_vars /\ Fairness

============================================================================
