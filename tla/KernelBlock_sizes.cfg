CONSTANT Configurations <- Supported
SPECIFICATION Spec
INVARIANTS
    MatrixIsProduct
    AddsItsEntries
