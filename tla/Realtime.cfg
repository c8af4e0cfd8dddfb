\* Dated and zoneless stories over two feeds, two symbols; one client with a
\* queue of two; the process may restart.
SPECIFICATION FairSpec
CONSTANTS
    Watchlist <- Two
    Feeds = {"f1", "f2"}
    Stories = {1, 2}
    FeedOf <- TwoFeeds
    About <- Topics
    Severe = {1, 2}
    Undated = {}
    Naive = {1}
    KeyLen = 1
    Clients = {"c"}
    QueueMax = 2
    Circle = 4
    MaxRestarts = 1
INVARIANTS TypeOK QueueIsNewest NoGap
PROPERTIES GoneIsForgotten SevereIsTold
CHECK_DEADLOCK FALSE
