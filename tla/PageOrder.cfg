CONSTANTS
    Posts <- MCPosts
    Pages <- MCTwoPages
    Labels <- MCLabels
    Categories <- MCLabels
    Configs <- MCConfigs
    Versions <- MCVersions
    Unreadable = Unreadable
    SiteHash <- MCSiteHash
    MetaHash <- MCMetaHash
    MaxArchives = 1
    MaxEdits = 1
    MaxDrops = 0
    MaxStops = 0
SPECIFICATION MCSpec
INVARIANT SidebarFollowsPagesLst
