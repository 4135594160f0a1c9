CONSTANTS
    Posts <- MCPosts
    Pages <- MCPages
    Labels <- MCLabels
    Categories <- MCLabels
    Configs <- MCConfigs
    Versions <- MCVersions
    Unreadable = Unreadable
    SiteHash <- MCSiteHash
    MetaHash <- MCMetaHash
    MaxArchives = 2
    NewSource <- MCNewSource
    SlugNumber <- MCSlugNumber
    StarterPosts <- MCStarterPosts
    StarterPages <- MCStarterPages
    StarterSource <- MCNewSource
    MaxCommands = 1
    MaxEdits = 1
    MaxEvents = 2
SPECIFICATION MCSpec
INVARIANT DraftsAreNotPublished
