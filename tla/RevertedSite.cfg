CONSTANTS
    Posts <- MCPosts
    Pages <- MCPages
    Labels <- MCLabels
    Categories <- MCLabels
    Configs <- MCConfigs
    Versions <- MCVersions
    Unreadable = Unreadable
    SiteHash <- MCSiteHash
    MetaHash <- MCMetaHash
    MaxArchives = 1
    MaxEdits = 4
    MaxDrops = 0
    MaxStops = 0
SPECIFICATION MCSpec
INVARIANT SiteTxtForcesRebuild
