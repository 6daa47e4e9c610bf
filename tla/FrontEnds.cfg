SPECIFICATION Spec
CONSTANTS
    p = p
    q = q
    Processes <- MCProcesses
    Calls <- MCCalls
    GivenFiles <- MCGivenFiles
    ReadOnly <- MCReadOnly
    MaxStarts = 3
    Arguments <- MCArguments
    Arrays <- MCArrays
    MaxCalls = 4
    Default = Default
    Reals <- MCReals
    One = 12
    AsFloat <- MCAsFloat
    FeatureNumbers <- MCFeatureNumbers
    OneOver <- MCOneOver
    GivenMembers <- MCGivenMembers
SYMMETRY Symmetry
INVARIANTS
    AttributesDescribeModel
    AnswersForItsFit
    EquivalentTrainsTheSame
PROPERTIES
    SuccessMeansResults
    FailureKeepsFiles
    PredictsWhatItTrained
CHECK_DEADLOCK FALSE
