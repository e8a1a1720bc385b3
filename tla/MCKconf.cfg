SPECIFICATION MSpec
CONSTANTS
  Cases <- MCCases
  SCROLL_OFFSET = 1
  MIN_WIDTH = 8
  Terms <- MCTerms
  TextMax = 3
  StrayMax = 1
  InfoLines = 8
INVARIANTS ParsedAsWritten FinalizedAsWritten LoopIffCycle CacheCoherent LoadReplaces ValuesLegal RoundTrip  OnScreen QuitKeepsAll
PROPERTIES UpToDate ListIsScroll
