\* Every definite system of three points with these kernel values.  The loop may
\* also stop on a residual that is not zero, and recomputes the residual in
\* every second iteration.
CONSTANTS
    p = 7
    Gram = {0, 1, 2}
    Costs = {1, 2}
    MaxIters = {1, 2, 3}
    Systems <- MCProblems
    Scalars <- Values
    Vectors <- MCVectors
    Ones <- SvmOnes
    Residual <- SvmResidual
    Product <- SvmProduct
    Add <- VecAdd
    Sub <- VecSub
    Scale <- VecScale
    Inner <- Dot
    Quotient <- Over
    Within <- SvmWithin
    MaxIter <- SvmMaxIter
    NumPoints = 3
    Tolerated = {0, 2}
    RestartInterval = 2
SPECIFICATION Spec
INVARIANTS
    ResidualIsTrue
    ConvergesInTime
    NaNOnlyFromExactStart
    ReducedSolvesFull
PROPERTY DirectionsConjugate
