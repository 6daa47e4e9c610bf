--------------------------- MODULE MCModelWriter ---------------------------
(* Small instances of ModelWriter: four rows of two sizes, two classes.    *)
EXTENDS ModelWriter, TLC

MCRowSize == [i \in 1..NumRows |-> IF i = NumRows - 1 THEN 2 ELSE 1]
=============================================================================
