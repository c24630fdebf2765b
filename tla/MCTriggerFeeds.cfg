SPECIFICATION FairSpec
CONSTANTS
    Feeds <- MCFeeds
    Items <- MCTwoItems
    FeedOf <- MCFeedOf
    MaxItems = 1
    Markets <- MCMarkets
    Specs <- MCSpecs
    Threshold = 1
    Prices = {1}
    TopicOf <- MCTopicOf
    NoTopic = "-"
    Direct <- MCDirect
    TierOf <- MCTierOf
    L1Scores = {8}
    L2Scores = {4}
    Confidences = {0}
    L2Active = TRUE
    L1Threshold = 4
    L2Threshold = 7
    MinScore = 7
    Mapping <- MCOneTrigger
    Excluded = {"BTC"}
    Moves = {0, 5}
    Rsis = {50}
    OddsWindow = 1
    CorrWindow = 1
    StaleAfter = 1
    KeepFor = 1
    PollEvery = 1
    RssEvery = 1
    MaxTime = 3
    MaxFaults = 2
CHECK_DEADLOCK FALSE
PROPERTIES PublishedIsStored
