SPECIFICATION Spec
CONSTANT MaxVersion = 4
INVARIANTS
    TypeOK
    NothingLost
    ReturnTellsStorage
    NeverMixed
