SPECIFICATION FairSpec
CONSTANTS
    Questions <- MCQuestions
    Ancestors <- MCAncestors
    Hash <- MCHash
    Answers <- MCAnswers
    Fillers = {t1, t2}
    MaxEvents = 3
    Reaper = reaper
    Applier = applier
    MemShards = 2
    Caps = {0, 1}
    MemOpts <- MCMemOpts
    MaxTime = 1
    LmdbKeys <- MCLmdbKeys
    MaxN = 2
    Dirs = {d1, d2, d3, d4}
    Configs <- MCConfigs
    Setting <- MCSetting
INVARIANTS
    EntriesAreCounted
    
    
    DirtyCoversUnsynced
PROPERTIES
    CallsReturnAndSync
CHECK_DEADLOCK FALSE
