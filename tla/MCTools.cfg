INIT ToolsInit
NEXT MCNext
CONSTANT None = None
CONSTANT Cps <- MCCps
CONSTANT WinPct <- MCWinPct
CONSTANT Places <- MCPlaces
CONSTANT Facts <- MCFacts
CONSTANT Searches <- MCSearches
CONSTANT Deeper <- MCDeeper
CONSTANT Quick <- MCQuick
CONSTANT Requests <- MCRequests
CONSTANT AskedDepth <- MCDepth
CONSTANT RawCap <- MCRawCap
CONSTANT MoveCap <- MCMoveCap
CONSTANT Lists <- MCLists
CONSTANT Posts <- MCPosts
CONSTANT Calls <- MCCalls
CONSTANT Times <- MCTimes
CONSTANT Tops <- MCTops
CONSTANT GameRequests <- MCGameRequests
CONSTANT Saturated <- MCSaturated
CONSTANT MayWin = {}
INVARIANTS EngineBestIsNotBlamed StableMeansUnanimous ClaimIsNotMatched LossIsTheReplys
ClaimsLeaveNoWinBehind RankedByOutcome SegmentsTileTheGame NoMistakeIsLost
