CONSTANTS
    Processes = {p1, p2}
    Seeds <- MCSeeds
    Feed <- MCFeed
    Releases <- MCReleases
    None = None
    Partial = Partial
    MaxDowns = 1
    MaxFailures = 1
SPECIFICATION FairSpec
INVARIANTS
    DraftsWhole
PROPERTIES
    SeedsStayUnderMining
    SeedsReturn
