\* Two threads and two models; the linear and the radial kernel, of which the
\* polynomial one differs in parameters that are left out.
CONSTANTS
    Threads = {t1, t2}
    Models = {m1, m2}
    DataSets <- MCDataSets
    GivenGammas <- MCGammas
    KernelTypes = {"linear", "rbf"}
SYMMETRY Symmetry
SPECIFICATION Spec
INVARIANTS
    SharedVectorFits
    PredictsAsTrained
    SurvivesItsFile
PROPERTIES
    FitsWithCheckedGamma
    DefaultGammaFollowsData
CHECK_DEADLOCK FALSE
