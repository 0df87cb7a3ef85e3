\* two rows, pages of one, three writes, two pulls that overlap or not
SPECIFICATION PagingSpec
CONSTANTS
    s1 = s1
    s2 = s2
    Nothing = Nothing
    Ids = {1, 2}
    Polls = {s1, s2}
    PageLimit = 1
    MaxTime = 2
    MaxSkew = 1
    MaxWrites = 3
    MaxPulls = 2
INVARIANTS PagingTypeOK NothingTwice
PROPERTIES NothingSkipped ImplementsFeed PullEnds
CHECK_DEADLOCK FALSE
