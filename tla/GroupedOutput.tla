--------------------------- MODULE GroupedOutput ---------------------------
(***************************************************************************)
(* What a LIBSVM model file promises to whoever reads it back: every       *)
(* support vector is written exactly once, and the rows of one class are   *)
(* all written before the first row of the next class, in the order the    *)
(* header lists the labels.  Within a class the order is free.  The        *)
(* detailed writer is in ModelWriter.                                      *)
(***************************************************************************)
EXTENDS Naturals, Sequences, FiniteSets

CONSTANTS
    Rows,           \* the support vectors, by their index
    NumClasses      \* number of labels in the header

VARIABLES
    label,          \* class of every row, fixed by the data set
    out             \* rows in the file behind the header

Classes == 1..NumClasses

Written(S) == \A i \in S : \E p \in DOMAIN out : out[p] = i

Missing(c) == {i \in Rows : label[i] = c /\ ~Written({i})}

\* Non-empty sequences of distinct elements of S.
Chunks(S) ==
    UNION {{s \in [1..n -> S] : \A p, q \in 1..n : s[p] = s[q] => p = q} :
             n \in 1..Cardinality(S)}

Init ==
    /\ label \in [Rows -> Classes]
    /\ out = <<>>

\* One chunk of rows of class c reaches the file: none of them is there yet,
\* and nothing of an earlier class is missing any more.
WriteChunk(c) ==
    /\ \A b \in 1..(c - 1) : Missing(b) = {}
    /\ \E s \in Chunks(Missing(c)) : out' = out \o s
    /\ UNCHANGED label

Next == \E c \in Classes : WriteChunk(c)

Spec == Init /\ [][Next]_<<label, out>> /\ WF_<<label, out>>(Next)
=============================================================================
