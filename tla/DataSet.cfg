SPECIFICATION DataSpec
CONSTANTS
    NumThreads = 2
    Given <- MCGiven
    Intervals <- MCIntervals
    HandWritten <- MCHandWritten
    HandFactors <- MCHandFactors
    MaxExact = 2
    MaxAbs = 6
    MaxSteps = 5
INVARIANTS
    ReadsWhatFileSays
    SurvivesItsFile
    ScaledIntoRange
    SameScalingAgain
CHECK_DEADLOCK FALSE
