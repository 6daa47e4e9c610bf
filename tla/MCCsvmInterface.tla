-------------------------- MODULE MCCsvmInterface ---------------------------
(* Data sets for training and for prediction only, with and without a last *)
(* feature that is zero everywhere.                                        *)
EXTENDS CsvmInterface, TLC

MCDataSets == {
    [features |-> 3, last |-> 3, counts |-> <<1, 2>>],
    [features |-> 2, last |-> 1, counts |-> <<1, 1>>],
    [features |-> 1, last |-> 1, counts |-> <<>>]}

\* One that is refused, one that six digits do not hold.
MCGammas == {[n |-> -1, d |-> 1], [n |-> 1, d |-> 3]}

Symmetry == Permutations(Threads) \cup Permutations(Models)
=============================================================================
