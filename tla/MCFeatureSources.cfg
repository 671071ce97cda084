SPECIFICATION FeatureSpec
CONSTANTS
    Events <- MCEvents
INVARIANTS
    OwnTimeExcluded
