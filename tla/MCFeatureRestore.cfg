SPECIFICATION FeatureSpec
CONSTANTS
    Events <- MCEvents
INVARIANTS
    CheckpointsRestore
