\* Three workers, so that a notification can go astray between two others.
CONSTANTS
    Workers = {w1, w2, w3}
    Producers = {p1, p2}
    Owner = o
    Tasks = {t1, t2, t3}
    None = none
SPECIFICATION FairSpec
INVARIANTS
    ExactlyOnePlace
    DestroyedMeansDone
    WorkConserving
PROPERTIES
    EveryTaskRuns
    DestructorReturns
