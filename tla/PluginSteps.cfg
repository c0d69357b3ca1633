CONSTANTS
    Known <- MCKnown
    Plugins <- MCPlugins
    MaxTroubles = 2
SPECIFICATION Spec
INVARIANT TypeOK
INVARIANT CleanedIsClean
INVARIANT CleanupIsNeverStuck
PROPERTY FlawedHasNoEffect
 
PROPERTY VerifiedIsInPlace
CHECK_DEADLOCK FALSE
