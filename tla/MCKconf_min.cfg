SPECIFICATION MSpec
CONSTANTS
  Cases <- MCMinCases
  SCROLL_OFFSET = 1
  MIN_WIDTH = 8
  Terms <- MCTerms
  TextMax = 3
  StrayMax = 1
  InfoLines = 8
INVARIANT MinIsFull
