SPECIFICATION LifeSpec
INVARIANTS
    ProcessOnlyWhenActivated
