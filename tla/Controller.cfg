SPECIFICATION Spec
CONSTANTS
    IntMax = 15
    Targets <- MCTargets
    Rates <- MCRates
    Velocity = 2
    ErrorLimit = 2
    Beats = 2
INVARIANTS
    ErrorMeansStopped
PROPERTIES
    MovesTowardTarget
    Arrives
