SPECIFICATION Telemetry
CONSTANTS
    None = None
    Bucket <- MCBucket
    InTable <- MCInTable
    Profile <- MCProfile
    Reply <- MCReply
    ContentType <- MCContentType
    Scenes <- MCScenes
    QueueDepth = 1
    MaxFaults = 1
    MetricScenes <- MCMetricScenes
    Scrapers <- MCScrapers
INVARIANTS
    LossIsCounted
    PinnedCallsReachExport
    ScrapesAreRight
    PlansAreHonest

    
    
CHECK_DEADLOCK FALSE
