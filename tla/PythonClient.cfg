SPECIFICATION Spec
CONSTANTS
    c1 = c1
    c2 = c2
    Calls = {c1, c2}
    Menu <- MCMenu
    Openings <- MCOpenings
    Answers <- MCAnswers
    MaxRows = 2
    Null = Null
    None = None
    GivenToken = GivenToken
VIEW MCView
INVARIANTS
    TypeOK
    OutcomeTellsEffect
    NoBareStatement
    LoginRenews
    RowsFaithful
PROPERTIES
    KeepsPromise
