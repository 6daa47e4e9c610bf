---------------------------- MODULE MCFileReader ----------------------------
(* Readers of two files of different sizes and an empty one.               *)
EXTENDS FileReader, TLC

CONSTANTS short, long, empty

MCSize == [f \in Files |-> CASE f = short -> 1 [] f = long -> 2 [] f = empty -> 0]

ReaderSymmetry == Permutations(Readers)
=============================================================================
