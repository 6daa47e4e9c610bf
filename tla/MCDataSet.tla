----------------------------- MODULE MCDataSet ------------------------------
(* Data sets of the program, some of which are refused, and files as people *)
(* write them, right and wrong.                                             *)
EXTENDS DataSet

MCGiven == {
    [points |-> <<<<1, 2, 0>>, <<0, 1, 0>>, <<2, 1, 0>>>>, labels |-> <<7, 5, 7>>],
    [points |-> <<<<2, 1>>, <<0, 0>>>>, labels |-> NoLabels],
    [points |-> <<<<0, 1>>, <<2, 1>>>>, labels |-> <<5, 7>>],
    [points |-> <<<<1>>, <<2, 1>>>>, labels |-> NoLabels],
    [points |-> <<<<1>>, <<2>>>>, labels |-> <<5, 5>>],
    [points |-> <<<<0>>, <<0>>>>, labels |-> <<5, 6>>],
    [points |-> <<<<1>>, <<2>>>>, labels |-> <<5, 6, 5>>]}

MCIntervals == {<<-1, 1>>, <<2, 4>>, <<1, 1>>}

Libsvm(lines) == [format |-> "libsvm", lines |-> lines]
Line(label, entries) == [label |-> label, entries |-> entries]
Arff(header, lines) == [format |-> "arff", header |-> header, lines |-> lines]

MCHandWritten == {
    Libsvm(<<Line(5, <<Entry(2, 1)>>), Line(6, <<>>)>>),
    Libsvm(<<Line(5, <<Entry(0, 1), Entry(1, 1)>>), Line(6, <<Entry(1, 1)>>)>>),
    Libsvm(<<Line(5, <<Entry(1, 1), Entry(1, 2)>>), Line(6, <<Entry(2, 1)>>)>>),
    Libsvm(<<Line(5, <<Entry(3, 1), Entry(1, 2)>>), Line(6, <<Entry(2, 1)>>)>>),
    Libsvm(<<Line(NoLabel, <<Entry(1, 1)>>), Line(6, <<Entry(2, 1)>>)>>),
    Libsvm(<<Line(5, <<Entry(1, Unreadable)>>), Line(Unreadable, <<Entry(2, 1)>>)>>),
    Libsvm(<<Line(NoLabel, <<>>)>>),
    Arff(<<Relation, Class(<<5, 6>>), Numeric, Numeric>>,
         <<Sparse(<<Entry(0, 5), Entry(2, 2)>>), Sparse(<<Entry(1, 1), Entry(0, 6)>>)>>),
    Arff(<<Numeric, Class(<<5, 6>>), Numeric>>,
         <<Dense(<<1, 5, 2>>), Sparse(<<Entry(1, 6)>>)>>),
    Arff(<<Relation, Numeric, Numeric>>, <<Dense(<<1, 2>>), Sparse(<<>>)>>),
    Arff(<<Numeric, Class(<<5, 6>>)>>, <<Dense(<<1, 5>>), Dense(<<1, 7>>)>>),
    Arff(<<Numeric, Class(<<5, 6>>)>>, <<Sparse(<<Entry(0, 1)>>), Dense(<<1, 5>>)>>),
    Arff(<<Numeric, Class(<<5, 5>>)>>, <<Dense(<<1, 5>>)>>),
    Arff(<<Numeric, Class(<<5, 6>>), Class(<<5, 6>>)>>, <<Dense(<<1, 5, 5>>)>>),
    Arff(<<Numeric, Relation>>, <<Dense(<<1>>)>>),
    Arff(<<Numeric>>, <<Sparse(<<Entry(1, 1)>>)>>),
    Arff(<<Numeric>>, <<Dense(<<Unreadable>>), [is |-> "broken"]>>),
    Arff(<<Numeric>>, <<>>)}

MCHandFactors == {
    [interval |-> <<-1, 1>>, factors |-> <<Factor(2, 0, 1), Factor(1, 2, 0)>>],
    [interval |-> <<-1, 1>>, factors |-> <<Factor(2, 0, 1), Factor(2, 0, 2)>>],
    [interval |-> <<-1, 1>>, factors |-> <<Factor(0, 0, 1)>>],
    [interval |-> <<1, -1>>, factors |-> <<>>],
    [interval |-> <<2, 4>>, factors |-> <<Factor(3, 1, 2)>>]}
=============================================================================
