\* Claim of source.rs: the predicates handed to a source are applied to every row, so filtering there is safe.
SPECIFICATION Spec
CONSTANTS
    Spelling <- MCSpelling
    Sources <- MCReadTwice
    Compiled <- MCCompiled
    Stores <- MCStores
    Functions <- MCFunctions
    Typed <- MCTyped
    Long <- MCLong
    Instants <- MCInstants
    Zones <- MCZones
    Durations <- MCDurations
    Types <- MCTypes
    Bounds <- MCBounds
    Values <- MCValues
    Written <- MCWritten
    UnitsOf <- MCUnitsOf
INVARIANT FilteringIsSafe
CHECK_DEADLOCK FALSE
