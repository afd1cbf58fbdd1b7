SPECIFICATION Spec
INVARIANTS
    TypeOK
    OutputsConfigured
    HalfwayOff
    CompleteMeansConfigured
