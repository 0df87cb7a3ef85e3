\* two sends under way, two turns of up to two calls
SPECIFICATION ChatFairSpec
CONSTANTS
    s1 = s1
    s2 = s2
    create = create
    delete = delete
    Nothing = Nothing
    Sends = {s1, s2}
    Tools = {create, delete}
    HighImpact = {delete}
    Offers <- MCOffers
    MaxTurns = 2
    MaxRetries = 1
    MaxChanges = 1
INVARIANTS ChatTypeOK HighImpactIsAgreed AnswersReachTheAsker
PROPERTIES StoppedIsSilent LoadingEnds
CHECK_DEADLOCK FALSE
