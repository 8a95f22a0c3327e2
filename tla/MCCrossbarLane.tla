--------------------------- MODULE MCCrossbarLane ---------------------------
(***************************************************************************)
(* Instances of CrossbarLane for TLC. Producers are model values.          *)
(***************************************************************************)
EXTENDS CrossbarLane

\* A producer whose events the filters pass logs twice, one whose events they
\* reject once.
MCEvents == [p \in Producers |-> IF p \in Passing THEN 2 ELSE 1]
=============================================================================
