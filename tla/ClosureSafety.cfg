\* One closure of each feed, three attempts by daemon and admin, two upsets.
SPECIFICATION Spec
CONSTANTS
    d1 = d1
    m1 = m1
    Closures = {d1, m1}
    FeedOf <- MCFeedOf
    Dates <- MCDates
    Retention = 0
    MaxDay = 1
    Plans <- MCPlans
INVARIANTS
    ClosureTypeOK
    ListFollowsFeeds
    NoQuietRemoval
    CacheFollowsAttempts
\* The bounds are used up.
CHECK_DEADLOCK FALSE
