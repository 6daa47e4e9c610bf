------------------------------ MODULE DataSet -------------------------------
(***************************************************************************)
(* A program that works with one data set at a time: it constructs it from *)
(* its own points or from a file, maybe scaled, and saves it and its       *)
(* scaling factors for later data sets.  Files may also come from          *)
(* somewhere else.                                                         *)
(*                                                                         *)
(* Points are sequences of integers; the scaling intervals are such that   *)
(* the scaled values are integers again, and rounding is left out.  A      *)
(* constructor that throws leaves the data set the program had.            *)
(***************************************************************************)
EXTENDS DataFiles

CONSTANTS
    Given,          \* points and labels of the program, [points, labels]
    Intervals,      \* scaling intervals, <<lower, upper>>
    HandWritten,    \* data files from somewhere else
    HandFactors,    \* files with scaling factors from somewhere else
    MaxExact,       \* numbers that real_type holds exactly: 2^24 for float
    MaxAbs,         \* bound on the values
    MaxSteps        \* bound on the operations of the program

ASSUME BoundsAssumption ==
    MaxExact \in Nat \ {0} /\ MaxAbs \in 1..(NotFinite - 1) /\ MaxSteps \in Nat

Label == Int \ {NoLabel, Unreadable}

\* Labels of a file may be unreadable, or missing in a LIBSVM file; indices are
\* unsigned.
EntryLists == Seq([index : Nat \cup {Unreadable}, value : Int])
LibsvmFiles == [format : {"libsvm"}, lines : Seq([label : Int, entries : EntryLists])]
ArffFiles ==
    [format : {"arff"},
     header : Seq([is : {"relation", "numeric", "class", "unknown"},
                   labels : Seq(Int \ {NoLabel})]),
     lines : Seq([is : {"dense"}, tokens : Seq(Int)] \cup [is : {"sparse"}, entries : EntryLists]
                 \cup [is : {"broken"}])]
Scaling == [interval : Int \X Int, factors : Seq([feature : Nat, lower : Int, upper : Int])]

ASSUME DataAssumption ==
    /\ Given \subseteq [points : Seq(Seq(Int)), labels : Seq(Label)]
    /\ Intervals \subseteq Int \X Int
    /\ HandWritten \subseteq LibsvmFiles \cup ArffFiles
    /\ HandFactors \subseteq Scaling

Formats == {"libsvm", "arff"}

VARIABLES
    set,            \* the data set
    data_file,      \* a data file
    factor_file,    \* the file with scaling factors
    origin,         \* history: the data set that was saved
    scaled,         \* history: a data set whose scaling factors were saved
    outside,        \* history: a value was stored outside of a data point
    steps

data_vars == <<set, data_file, factor_file, origin, scaled, outside, steps>>

None == [is |-> "none"]
NoScaling == [interval |-> <<>>, factors |-> <<>>]

NumFeatures(points) == Len(points[1])
Column(points, f) == {points[i][f] : i \in DOMAIN points}

----------------------------------------------------------------------------
(* Labels.                                                                 *)

\* label_mapper takes two labels only; the smaller one becomes -1.
Mappable(labels) == Cardinality(ToSet(labels)) = 2

Mapped(labels) ==
    [i \in DOMAIN labels |-> IF labels[i] = Min(ToSet(labels)) THEN -1 ELSE 1]

----------------------------------------------------------------------------
(* Scaling.                                                                *)

Factor(feature, lower, upper) == [feature |-> feature, lower |-> lower, upper |-> upper]

\* No factor for a feature that is zero everywhere.
Factors(points) ==
    Picked([f \in DOMAIN points[1] |->
               Factor(f, Min(Column(points, f)), Max(Column(points, f)))],
           {f \in DOMAIN points[1] :
               ~(Min(Column(points, f)) = 0 /\ Max(Column(points, f)) = 0)})

\* Given factors: no more than features, the greatest feature exists, none twice.
FactorsFit(factors, num_features) ==
    /\ Len(factors) <= num_features
    /\ \A a \in DOMAIN factors : factors[a].feature <= num_features
    /\ \A a, b \in DOMAIN factors : a # b => factors[a].feature # factors[b].feature

\* Division by zero gives no finite value.
ScaledValue(x, interval, factor) ==
    IF factor.lower = factor.upper \/ NotFinite \in {factor.lower, factor.upper}
    THEN NotFinite
    ELSE LET width == factor.upper - factor.lower
             product == (interval[2] - interval[1]) * (x - factor.lower)
         IN  interval[1] + IF width > 0 THEN product \div width ELSE (-product) \div (-width)

\* Mutant: the factors are taken in the order of the features.
Apply_ByPosition(points, interval, factors) ==
    [i \in DOMAIN points |-> [f \in DOMAIN points[i] |->
        IF f \in DOMAIN factors
        THEN ScaledValue(points[i][f], interval, factors[f]) ELSE points[i][f]]]

Apply(points, interval, factors) ==
    [i \in DOMAIN points |-> [f \in DOMAIN points[i] |->
        LET Own == {a \in DOMAIN factors : factors[a].feature = f}
        IN  IF Own = {} THEN points[i][f]
            ELSE ScaledValue(points[i][f], interval, factors[CHOOSE a \in Own : TRUE])]]

ByFeature(factors) ==
    LET features == Sorted({factors[a].feature : a \in DOMAIN factors})
    IN  [n \in DOMAIN features |->
            CHOOSE factor \in ToSet(factors) : factor.feature = features[n]]

\* scale(), with the scaling the data set has.
UsedScaling(points, scaling) ==
    IF scaling.factors = <<>>
    THEN [scaling EXCEPT !.factors = Factors(points)]
    ELSE [scaling EXCEPT !.factors = ByFeature(@)]

Scales(points, scaling) ==
    scaling = NoScaling \/ scaling.factors = <<>> \/ FactorsFit(scaling.factors, NumFeatures(points))

\* The factors' file holds the features as real_type, counted from one: ties go
\* to the even neighbour.
AsReal(n) ==
    IF n <= MaxExact \/ n % 2 = 0 THEN n ELSE IF n % 4 = 1 THEN n - 1 ELSE n + 1

\* Mutant: the index is not counted from one when it is read.
ReadFactors_Shifted(f) == [f EXCEPT !.factors =
    [a \in DOMAIN @ |-> Factor(AsReal(@[a].feature) + 1, @[a].lower, @[a].upper)]]

ReadFactors(f) == [f EXCEPT !.factors =
    [a \in DOMAIN @ |-> Factor(AsReal(@[a].feature), @[a].lower, @[a].upper)]]

\* A hand-written file may have an index of zero, or an interval that is none.
FactorsReadable(f) ==
    /\ f.interval[1] < f.interval[2]
    /\ \A a \in DOMAIN f.factors : AsReal(f.factors[a].feature) # 0

\* A scaling object of the program.
Scalings ==
    {NoScaling}
    \cup {[interval |-> interval, factors |-> <<>>] :
             interval \in {x \in Intervals : x[1] < x[2]}}
    \cup IF factor_file # None /\ FactorsReadable(factor_file)
         THEN {ReadFactors(factor_file)} ELSE {}

----------------------------------------------------------------------------
(* The constructors.                                                       *)

Finite(points) == \A i \in DOMAIN points : NotFinite \notin ToSet(points[i])

Small(points) == \A i \in DOMAIN points : \A f \in DOMAIN points[i] :
    points[i][f] = NotFinite \/ points[i][f] \in -MaxAbs..MaxAbs

\* The points are rectangular, and labelled all or none.
Rectangular(points) ==
    /\ points # <<>> /\ NumFeatures(points) > 0
    /\ \A i \in DOMAIN points : Len(points[i]) = NumFeatures(points)

Accepts(points, labels, scaling) ==
    /\ labels # NoLabels => Len(labels) = Len(points) /\ Mappable(labels)
    /\ Scales(points, scaling)

Constructed(points, labels, scaling) ==
    LET used == UsedScaling(points, scaling)
    IN  [is |-> "set", labels |-> labels, y |-> Mapped(labels), given |-> scaling, raw |-> points,
         scaling |-> IF scaling = NoScaling THEN NoScaling ELSE used,
         points |-> IF scaling = NoScaling THEN points
                    ELSE Apply(points, used.interval, used.factors)]

\* Values that are not finite are not scaled again, and values stay small:
\* these are bounds of the model.
Construct(points, labels, scaling) ==
    /\ scaling # NoScaling => Finite(points)
    /\ LET new == Constructed(points, labels, scaling)
       IN  Small(new.points) /\ set' = new

FromProgram(d, scaling) ==
    /\ Rectangular(d.points) /\ Accepts(d.points, d.labels, scaling)
    /\ Construct(d.points, d.labels, scaling)
    /\ UNCHANGED <<data_file, factor_file, origin, scaled, outside>>

\* The format is given, or comes from the ending of the name.
FromFile(format, scaling) ==
    /\ data_file # None
    /\ LET parsed == Parse(data_file, format)
       IN  /\ parsed # Error
           /\ Accepts(parsed.points, parsed.labels, scaling)
           /\ Construct(parsed.points, parsed.labels, scaling)
    /\ outside' = (outside \/ Outside(data_file, format))
    /\ UNCHANGED <<data_file, factor_file, origin, scaled>>

\* A file that is refused may have been written outside of a point before.
RefuseFile(format) ==
    /\ data_file # None /\ Parse(data_file, format) = Error
    /\ outside' = (outside \/ Outside(data_file, format))
    /\ UNCHANGED <<set, data_file, factor_file, origin, scaled>>

----------------------------------------------------------------------------
(* Files.                                                                  *)

Write(format, points, labels, order) ==
    IF format = "libsvm" THEN WriteLibsvm(points, labels, order)
                         ELSE WriteArff(points, labels, order)

Save(format) ==
    /\ set # None
    /\ \E order \in Orders(Len(set.points)) :
         data_file' = Write(format, set.points, set.labels, order)
    /\ origin' = set
    /\ UNCHANGED <<set, factor_file, scaled, outside>>

SaveFactors ==
    /\ set # None /\ set.scaling # NoScaling
    /\ factor_file' = set.scaling
    /\ scaled' = set
    /\ UNCHANGED <<set, data_file, origin, outside>>

\* Somebody else writes a file.
PlaceFile(f) ==
    /\ data_file' = f
    /\ origin' = None
    /\ UNCHANGED <<set, factor_file, scaled, outside>>

PlaceFactors(f) ==
    /\ factor_file' = f
    /\ scaled' = None
    /\ UNCHANGED <<set, data_file, origin, outside>>

DataInit ==
    /\ set = None
    /\ data_file = None
    /\ factor_file = None
    /\ origin = None
    /\ scaled = None
    /\ outside = FALSE
    /\ steps = 0

Operation ==
    \/ \E scaling \in Scalings :
         \/ \E d \in Given : FromProgram(d, scaling)
         \/ \E format \in Formats : FromFile(format, scaling)
    \/ \E format \in Formats :
         \/ RefuseFile(format)
         \/ Save(format)
    \/ \E f \in HandWritten : PlaceFile(f)
    \/ SaveFactors
    \/ \E f \in HandFactors : PlaceFactors(f)

\* What a program does after a store outside is undefined, and not looked at.
DataNext == ~outside /\ steps < MaxSteps /\ steps' = steps + 1 /\ Operation

DataSpec == DataInit /\ [][DataNext]_data_vars

----------------------------------------------------------------------------
(* What a file says, by the definition of its format.                      *)

Indices(line) == [k \in DOMAIN line.entries |-> line.entries[k].index]

Increasing(s) == \A a, b \in DOMAIN s : a < b => s[a] < s[b]

\* The point that entries describe, some of which are features.
Described(entries, num_features, Feature(_)) ==
    [f \in 1..num_features |->
        IF \E k \in DOMAIN entries : Feature(entries[k].index) = f
        THEN entries[CHOOSE k \in DOMAIN entries : Feature(entries[k].index) = f].value
        ELSE 0]

LibsvmSays(f) ==
    LET lines == LibsvmLines(f)
        All == UNION {ToSet(Indices(lines[i])) : i \in DOMAIN lines}
        WellFormed ==
            /\ All # {} /\ \A x \in All : x > 0
            /\ \A i \in DOMAIN lines :
                 /\ lines[i].label # Unreadable
                 /\ (lines[i].label = NoLabel) = (lines[1].label = NoLabel)
                 /\ Increasing(Indices(lines[i]))
                 /\ \A k \in DOMAIN lines[i].entries : lines[i].entries[k].value # Unreadable
    IN  IF WellFormed
        THEN Parsed([i \in DOMAIN lines |-> Described(lines[i].entries, Max(All), LAMBDA x : x)],
                    IF lines[1].label = NoLabel THEN NoLabels
                    ELSE [i \in DOMAIN lines |-> lines[i].label])
        ELSE Error

\* Attributes are counted from 0, features from 1.
ArffSays(f) ==
    LET named == f.header # <<>> /\ f.header[1].is = "relation"
        attributes == IF named THEN Tail(f.header) ELSE f.header
        numbers == 0..(Len(attributes) - 1)
        classes == {a \in numbers : attributes[a + 1].is = "class"}
        Feature(a) == IF a \in classes THEN 0
                      ELSE Cardinality({b \in numbers \ classes : b <= a})
        Entries(line) == IF line.is = "sparse" THEN line.entries
                         ELSE [k \in DOMAIN line.tokens |-> Entry(k - 1, line.tokens[k])]
        Labels(line) == {e \in ToSet(Entries(line)) : e.index \in classes}
        LabelsFit(line, labels) ==
            Labels(line) # {} /\ \A e \in Labels(line) : e.value \in ToSet(labels)
        WellFormed ==
            /\ \A a \in numbers : attributes[a + 1].is \in {"numeric", "class"}
            /\ Cardinality(classes) <= 1 /\ numbers # classes
            /\ f.lines # <<>>
            /\ \A i \in DOMAIN f.lines :
                 /\ f.lines[i].is # "broken"
                 /\ f.lines[i].is = "dense" => Len(f.lines[i].tokens) = Len(attributes)
                 /\ \A e \in ToSet(Entries(f.lines[i])) : Readable(e) /\ e.index \in numbers
            /\ \A c \in classes :
                 LET labels == attributes[c + 1].labels
                 IN  /\ Unreadable \notin ToSet(labels) /\ Len(labels) > 1 /\ IsInjective(labels)
                     /\ \A i \in DOMAIN f.lines : LabelsFit(f.lines[i], labels)
    IN  IF WellFormed
        THEN Parsed([i \in DOMAIN f.lines |->
                       Described(Entries(f.lines[i]), Cardinality(numbers \ classes), Feature)],
                    IF classes = {} THEN NoLabels
                    ELSE [i \in DOMAIN f.lines |->
                            (CHOOSE e \in Labels(f.lines[i]) : TRUE).value])
        ELSE Error

Says(f, format) ==
    IF f.format # format THEN Error
    ELSE IF format = "libsvm" THEN LibsvmSays(f) ELSE ArffSays(f)

----------------------------------------------------------------------------
(* Properties.                                                             *)

DenseClassNotLast(f) == f.format = "arff" /\ \E i \in DOMAIN f.lines : ArffOutside(f, f.lines[i])

NamedTwice(f) ==
    /\ f.format = "arff"
    /\ \E i \in DOMAIN f.lines :
         /\ f.lines[i].is = "sparse"
         /\ \E a, b \in DOMAIN f.lines[i].entries :
              a # b /\ f.lines[i].entries[a].index = f.lines[i].entries[b].index

\* A file is accepted with just the points and labels that it describes, or
\* refused because some line is wrong: one bad line is enough, in whichever
\* thread, and no value is stored outside of its point when all indices
\* increase, although only the last one of each line is looked at for the
\* size.  Left out: dense ARFF lines in which the class is not last, and sparse
\* ones that name an attribute twice, of which the last value counts.
ReadsWhatFileSays ==
    \A format \in Formats :
        LET f == data_file
        IN  f # None /\ ~DenseClassNotLast(f) /\ ~NamedTwice(f) =>
              /\ Parse(f, format) = Says(f, format)
              /\ Says(f, format) # Error => ~Outside(f, format)

\* Rows of a data set with their labels, whatever their order.
RowsOf(points, labels, y) ==
    LET Row(i) == IF labels = NoLabels THEN <<points[i]>> ELSE <<points[i], labels[i], y[i]>>
    IN  [row \in {Row(i) : i \in DOMAIN points} |->
            Cardinality({i \in DOMAIN points : Row(i) = row})]

\* Whichever threads write it in whichever order, a saved data set is read
\* again with every point next to its own label, and mapped to the same side.
\* A LIBSVM file loses the last features if they are zero everywhere, and the
\* points without a label that are zero everywhere; without any value that is
\* not zero it is refused.
SurvivesItsFile ==
    origin # None =>
        LET s == origin
            format == data_file.format
            dense == format = "arff"
            n == IF dense THEN NumFeatures(s.points)
                 ELSE Max({0} \cup {f \in 1..NumFeatures(s.points) : Column(s.points, f) # {0}})
            Kept(i) == dense \/ s.labels # NoLabels \/ ToSet(s.points[i]) # {0}
            kept == Sorted({i \in DOMAIN s.points : Kept(i)})
            p == Parse(data_file, format)
        IN  IF n = 0 THEN p = Error
            ELSE /\ p # Error
                 /\ NumFeatures(p.points) = n
                 /\ RowsOf(p.points, p.labels, Mapped(p.labels)) =
                    RowsOf([k \in DOMAIN kept |-> SubSeq(s.points[kept[k]], 1, n)],
                         IF s.labels = NoLabels THEN NoLabels
                         ELSE [k \in DOMAIN kept |-> s.labels[kept[k]]],
                         s.y)

\* With factors of its own a data set is scaled to the whole interval, feature
\* by feature, except for features with one value only: zero stays zero, even
\* if it is not in the interval, and another value becomes infinite or NaN.
ScaledIntoRange ==
    set # None /\ set.scaling # NoScaling /\ set.given.factors = <<>> =>
        \A f \in 1..NumFeatures(set.points) :
            LET before == Column(set.raw, f)
                after == Column(set.points, f)
            IN  IF before = {0} THEN after = {0}
                ELSE IF Cardinality(before) = 1 THEN after = {NotFinite}
                ELSE /\ Min(after) = set.scaling.interval[1]
                     /\ Max(after) = set.scaling.interval[2]

\* Factors that were saved scale the same points to the same values again, as
\* a test set needs it, also if some features have none, as long as real_type
\* holds their numbers.
SameScalingAgain ==
    scaled # None /\ NumFeatures(scaled.raw) <= MaxExact =>
        LET again == ReadFactors(factor_file)
        IN  /\ FactorsReadable(factor_file)
            /\ Scales(scaled.raw, again)
            /\ Constructed(scaled.raw, scaled.labels, again).points = scaled.points
=============================================================================
