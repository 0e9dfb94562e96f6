SPECIFICATION FairSpec
CONSTANTS
    MAX_LOG_RANGE_BLOCKS = 3
    StartBlock = 0
    BlockContents <- Contents
    MaxBlock = 4
    MaxLogs = 6
    MAX_CONCURRENT_JOBS = 2
    c1 = c1
    c2 = c2
    s1 = s1
    Consumers = {c1, c2}
    Services = {s1}
    MaxResults = 2
    Failures <- AllFailures
    NoItem = NoItem
INVARIANTS
    TypeOK
    EveryJobOnce
    NoResultLost
PROPERTIES
    JobsAreAnswered
