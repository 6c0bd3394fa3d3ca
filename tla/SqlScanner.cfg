SPECIFICATION Spec
CONSTANTS
    MaxBody = 5
    MaxPieces = 4
    MaxDepth = 2
    Bodies <- MCBodies
    Sqls <- MCSqls
    Known <- MCKnown
INVARIANTS
    DepthAgrees
    ScriptsRefused
    ParametersInPlace
