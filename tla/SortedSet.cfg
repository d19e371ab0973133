\* Seven members: the first size at which a removal from the lower side of a tree
\* of height 4 rotates at the root. Two scores: every tie and every change of
\* order by an update.
CONSTANTS
    Names = {1, 2, 3, 4, 5, 6, 7}
    Scores = {1, 2}
    Null = null
SPECIFICATION FairSpec
INVARIANTS
    IndexesAgree
    Balanced
    AuxiliaryExact
    OffsetExact
    QueryExact
PROPERTIES
    EveryCallReturns
