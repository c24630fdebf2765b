SPECIFICATION Spec
CONSTANTS
    Feeds <- MCDirectFeeds
    Items <- MCItems
    FeedOf <- MCDirectFeedOf
    MaxItems = 1
    Markets <- MCMarkets
    Specs <- MCSpecs
    Threshold = 1
    Prices = {1, 2}
    TopicOf <- MCTopicOf
    NoTopic = "-"
    Direct <- MCDirect
    TierOf <- MCTierOf
    L1Scores = {8}
    L2Scores = {4}
    Confidences = {0, 100}
    L2Active = TRUE
    L1Threshold = 4
    L2Threshold = 7
    MinScore = 7
    Mapping <- MCMapping
    Excluded = {"BTC"}
    Moves <- MCMoves
    Rsis = {50, 70}
    OddsWindow = 1
    CorrWindow = 1
    StaleAfter = 1
    KeepFor = 3
    PollEvery = 1
    RssEvery = 1
    MaxTime = 2
    MaxFaults = 0
CHECK_DEADLOCK FALSE
INVARIANT DirectSourceReachesGate
