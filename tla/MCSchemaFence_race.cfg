SPECIFICATION Spec
CONSTANTS
    p1 = p1
    p2 = p2
    p3 = p3
    Procs <- RaceProcs
    Version <- RaceVersion
    MinVersion <- RaceVersion
    Build <- RaceBuild
    Found <- Fresh
PROPERTY
    VersionKept
