CONSTANTS
    Posts <- MCPosts
    Pages <- MCPages
    Labels <- MCLabels
    Categories <- MCLabels
    Configs <- MCConfigs
    Versions <- MCVersions
    Unreadable = Unreadable
    SiteHash <- MCSiteHash
    MetaHash <- MCMetaHash
    MaxArchives = 1
    MaxEdits = 1
    MaxDrops = 1
    MaxStops = 1
SPECIFICATION MCFairSpec
INVARIANTS PublishedIsFresh NothingLeftBehind FullRebuildWritesAll NoOpWritesOnlyIndex TypeOK IInv
PROPERTIES EveryBuildEnds BuildPublishes
