SPECIFICATION Spec
CONSTANTS
    Spelling <- MCSpelling
    Sources <- MCSources
    Compiled <- MCCompiled
    Stores <- MCStores
    Functions <- MCFunctions
    Typed <- MCTyped
    Long <- MCLong
    Instants <- MCInstants
    Zones <- MCZones
    Durations <- MCDurations
    Types <- MCTypes
    Bounds <- MCBounds
    Values <- MCValues
    Written <- MCWritten
    UnitsOf <- MCUnitsOf
INVARIANTS
    CompilesWhatIsWritten
    PackagesStayApart
    StrataRespectDependencies
    NeverUnbound
    DerivedAreTyped
    DerivesTheMeaning
    CompiledAgrees
    ResultsAreTyped
    RefusedCallsFail
    TextsComeBack
    ConformanceIsSound
    BoundsAreBounds
    FieldsAreTyped
CHECK_DEADLOCK FALSE
