----------------------------- MODULE DataFiles ------------------------------
(***************************************************************************)
(* LIBSVM and ARFF data files: what the writers put into a file, and what  *)
(* the parsers make of one, also of a file that somebody wrote by hand.    *)
(*                                                                         *)
(* Comments and empty lines are left out, since file_reader drops them.    *)
(* The parsers go over the lines in a parallel loop; an exception is kept  *)
(* and thrown again behind it, so that a line that fails fails the file.   *)
(* Numbers are integers, which the eleven written digits hold.             *)
(***************************************************************************)
EXTENDS Integers, SequencesExt

CONSTANT NumThreads

ASSUME NumThreadsAssumption == NumThreads \in Nat \ {0}

NoLabel == -101
Unreadable == -100      \* a token that convert_to refuses
NotFinite == 100        \* infinite or not a number

Error == [is |-> "error"]
Parsed(points, labels) == [is |-> "data", points |-> points, labels |-> labels]
NoLabels == <<>>

\* An entry of a sparse line.
Entry(index, value) == [index |-> index, value |-> value]
Readable(entry) == entry.index # Unreadable /\ entry.value # Unreadable

\* The numbers of a set in ascending order, and the elements of a sequence at
\* such places.
Sorted(S) ==
    [n \in 1..Cardinality(S) |-> CHOOSE k \in S : Cardinality({j \in S : j <= k}) = n]
Picked(s, S) == [n \in 1..Cardinality(S) |-> s[Sorted(S)[n]]]

----------------------------------------------------------------------------
(* Writing.  Each thread formats the rows it gets from the dynamic         *)
(* schedule and prints them at once.                                       *)

\* The orders in which n rows can be in the file: one thread behind the other,
\* and the rows of a thread in theirs.
Orders(n) ==
    {order \in [1..n -> 1..n] :
        /\ IsInjective(order)
        /\ Cardinality({a \in 2..n : order[a] < order[a - 1]}) < NumThreads}

LabelOf(labels, i) == IF labels = NoLabels THEN NoLabel ELSE labels[i]

\* Mutant: the values that are not zero are numbered one after the other.
LibsvmLine_Dense(label, point) ==
    [label |-> label,
     entries |-> LET features == Sorted({f \in DOMAIN point : point[f] # 0})
                 IN  [k \in DOMAIN features |-> Entry(k, point[features[k]])]]

\* format_libsvm_line: zeros are left out.
LibsvmLine(label, point) ==
    [label |-> label,
     entries |-> LET features == Sorted({f \in DOMAIN point : point[f] # 0})
                 IN  [k \in DOMAIN features |-> Entry(features[k], point[features[k]])]]

WriteLibsvm(points, labels, order) ==
    [format |-> "libsvm",
     lines |-> [a \in DOMAIN order |->
                  LibsvmLine(LabelOf(labels, order[a]), points[order[a]])]]

Numeric == [is |-> "numeric", labels |-> <<>>]
Class(labels) == [is |-> "class", labels |-> labels]
Relation == [is |-> "relation", labels |-> <<>>]
Dense(tokens) == [is |-> "dense", tokens |-> tokens]
Sparse(entries) == [is |-> "sparse", entries |-> entries]

\* The labels come in the order of a std::set, and the class last.
WriteArff(points, labels, order) ==
    LET With(s, last) == IF labels = NoLabels THEN s ELSE Append(s, last)
    IN  [format |-> "arff",
         header |-> With(<<Relation>> \o [f \in DOMAIN points[1] |-> Numeric],
                         Class(Sorted(ToSet(labels)))),
         lines |-> [a \in DOMAIN order |->
                      Dense(With(points[order[a]], LabelOf(labels, order[a])))]]

----------------------------------------------------------------------------
(* The LIBSVM parser.                                                      *)

\* Only the last index of a line counts for the number of features.
LastIndex(line) == IF line.entries = <<>> THEN 0 ELSE Last(line.entries).index

\* Mutant: an index that is met twice is not noticed.
EntryFails_Twice(line, k) ==
    LET e == line.entries[k]
    IN  \/ ~Readable(e) \/ e.index = 0
        \/ k > 1 /\ line.entries[k - 1].index > e.index

\* Entry k of a line, if it comes to it.
EntryFails(line, k) ==
    LET e == line.entries[k]
    IN  \/ ~Readable(e) \/ e.index = 0
        \/ k > 1 /\ line.entries[k - 1].index >= e.index

LibsvmLineFails(line) ==
    line.label = Unreadable \/ \E k \in DOMAIN line.entries : EntryFails(line, k)

\* Values are stored before the indices behind them are looked at.
LibsvmOutside(line, num_features) ==
    /\ line.label # Unreadable /\ num_features > 0
    /\ \E k \in DOMAIN line.entries :
         /\ \A j \in 1..k : ~EntryFails(line, j)
         /\ line.entries[k].index > num_features

SomeUnlabelled(lines) == \E i \in DOMAIN lines : lines[i].label = NoLabel

\* A later entry with the same index would overwrite, but is refused.
SparsePoint(entries, num_features) ==
    [f \in 1..num_features |->
        LET At == {k \in DOMAIN entries : entries[k].index = f}
        IN  IF At = {} THEN 0 ELSE entries[Max(At)].value]

\* An unlabelled row without entries is an empty line, which file_reader drops.
LibsvmLines(f) ==
    Picked(f.lines, {i \in DOMAIN f.lines :
                        f.lines[i].label # NoLabel \/ f.lines[i].entries # <<>>})

LibsvmFeatures(lines) == Max({0} \cup {LastIndex(lines[i]) : i \in DOMAIN lines})

ParseLibsvm(f) ==
    LET lines == LibsvmLines(f)
        num_features == LibsvmFeatures(lines)
        labelled == ~SomeUnlabelled(lines)
    IN  IF \/ num_features = 0
           \/ \E i \in DOMAIN lines :
                \/ LastIndex(lines[i]) = Unreadable \/ LibsvmLineFails(lines[i])
                \/ SomeUnlabelled(lines) /\ lines[i].label # NoLabel
        THEN Error
        ELSE Parsed([i \in DOMAIN lines |-> SparsePoint(lines[i].entries, num_features)],
                    IF labelled THEN [i \in DOMAIN lines |-> lines[i].label] ELSE NoLabels)

----------------------------------------------------------------------------
(* The ARFF parser.                                                        *)

ClassesOf(header) == {k \in DOMAIN header : header[k].is = "class"}
Numerics(header) == {k \in DOMAIN header : header[k].is = "numeric"}

\* The relation comes first, if at all; two labels or more, all different.
HeaderFails(f) ==
    LET header == f.header
    IN  \/ \E k \in DOMAIN header :
             \/ header[k].is = "unknown"
             \/ header[k].is = "relation" /\ k # 1
             \/ /\ header[k].is = "class"
                /\ LET labels == header[k].labels
                   IN  \/ Len(labels) < 2
                       \/ Cardinality(ToSet(labels)) # Len(labels)
                       \/ Unreadable \in ToSet(labels)
        \/ Cardinality(ClassesOf(header)) > 1
        \/ Numerics(header) = {}
        \/ f.lines = <<>>

HasLabel(header) == ClassesOf(header) # {}

\* Attributes before the class, counted from zero.
LabelIndex(header) == Cardinality({k \in Numerics(header) : \A c \in ClassesOf(header) : k < c})

HeaderLabels(header) == UNION {ToSet(header[c].labels) : c \in ClassesOf(header)}

NumAttributes(header) == Cardinality(Numerics(header)) + IF HasLabel(header) THEN 1 ELSE 0

\* The label a line gives; in a sparse line the last one.
ArffLabel(header, line) ==
    LET l == LabelIndex(header)
    IN  IF line.is = "dense" THEN line.tokens[l + 1]
        ELSE LET At == {k \in DOMAIN line.entries : line.entries[k].index = l}
             IN  IF At = {} THEN NoLabel ELSE line.entries[Max(At)].value

ArffLabelFails(header, line) ==
    HasLabel(header) /\ ArffLabel(header, line) \notin HeaderLabels(header)

ArffLineFails(header, line) ==
    \/ line.is = "broken"       \* a brace is missing, or @ at its start
    \/ /\ line.is = "dense"
       /\ \/ Len(line.tokens) # NumAttributes(header)
          \/ Unreadable \in ToSet(line.tokens)
    \/ /\ line.is = "sparse"
       /\ \E k \in DOMAIN line.entries :
            ~Readable(line.entries[k]) \/ line.entries[k].index >= NumAttributes(header)
    \/ ArffLabelFails(header, line)

\* Where a sparse line's attribute goes, counted from one.
SparseTarget(header, index) ==
    IF HasLabel(header) /\ index > LabelIndex(header) THEN index ELSE index + 1

\* Where a dense line's attribute goes: the class in front of it is not
\* taken off.
DenseTarget(header, index) == index + 1

\* The label goes to no feature.
ArffPoint(header, line) ==
    LET dense == line.is = "dense"
        entries == IF dense
                   THEN [k \in DOMAIN line.tokens |-> Entry(k - 1, line.tokens[k])]
                   ELSE line.entries
        Target(index) == IF HasLabel(header) /\ index = LabelIndex(header) THEN 0
                         ELSE IF dense THEN DenseTarget(header, index)
                         ELSE SparseTarget(header, index)
    IN  SparsePoint([k \in DOMAIN entries |-> Entry(Target(entries[k].index), entries[k].value)],
                    Cardinality(Numerics(header)))

\* A dense line in which the class is not last.
ArffOutside(f, line) ==
    /\ ~HeaderFails(f)
    /\ line.is = "dense" /\ Len(line.tokens) = NumAttributes(f.header)
    /\ Unreadable \notin ToSet(line.tokens)
    /\ HasLabel(f.header)
    /\ LabelIndex(f.header) < Cardinality(Numerics(f.header))

ParseArff(f) ==
    IF HeaderFails(f) \/ \E i \in DOMAIN f.lines : ArffLineFails(f.header, f.lines[i])
    THEN Error
    ELSE Parsed([i \in DOMAIN f.lines |-> ArffPoint(f.header, f.lines[i])],
                IF HasLabel(f.header)
                THEN [i \in DOMAIN f.lines |-> ArffLabel(f.header, f.lines[i])]
                ELSE NoLabels)

\* The parser of the other format finds no feature or a time that is no index.
Parse(f, format) ==
    IF f.format # format THEN Error
    ELSE IF format = "libsvm" THEN ParseLibsvm(f) ELSE ParseArff(f)

\* Values are stored outside of a data point.
Outside(f, format) ==
    /\ f.format = format
    /\ \E i \in DOMAIN f.lines :
         IF format = "libsvm"
         THEN /\ \A j \in DOMAIN f.lines : LastIndex(f.lines[j]) # Unreadable
              /\ LibsvmOutside(f.lines[i], LibsvmFeatures(LibsvmLines(f)))
         ELSE ArffOutside(f, f.lines[i])
=============================================================================
