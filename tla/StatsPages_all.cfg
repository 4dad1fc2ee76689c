CONSTANTS
    gm = gm  bob = bob  b1 = b1
    r1 = r1  r2 = r2
    q1 = q1  q2 = q2
    Accounts = {gm, bob}
    Hidden = {gm}
    Viewers = {gm}
    Boards = {b1}
    Roster = Roster
    Policy = Policy
    Requests = {r1, r2}
    Queries = {q1, q2}
    CacheTime = 2
    QueryTime = 1
    Backoff = 2
    Uses <- AllUses
    MaxTime = 3
    None = None
SPECIFICATION FairSpec
INVARIANTS TypeOK AnswersFitTheVisitor OneQueryPerTopic NobodyWaitsForTheDead
PROPERTIES AnswersAreFresh NeverBackInTime FailuresBackOff EveryRequestEnds
