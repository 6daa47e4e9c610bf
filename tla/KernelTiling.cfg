CONSTANT Configurations <- MCConfigurations
SPECIFICATION FairTilingSpec
INVARIANTS
    EveryEntryOnce
PROPERTY Termination
