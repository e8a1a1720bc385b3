SPECIFICATION MSpec
CONSTANTS
  Cases <- MCLoopCases
  SCROLL_OFFSET = 1
  MIN_WIDTH = 8
  Terms <- MCTerms
  TextMax = 3
  StrayMax = 1
  InfoLines = 8
INVARIANT LoopsMarked
