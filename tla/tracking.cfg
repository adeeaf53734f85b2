CONSTANT Users = {u1, u2, u3}
SPECIFICATION FairSpec
INVARIANTS
    TypeOK
    OneStage
    NobodyForgotten
PROPERTIES
    AbortIsFinal
    EventuallyTracked
