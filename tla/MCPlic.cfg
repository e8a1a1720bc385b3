SPECIFICATION LiveSpec
CONSTANTS
  SOURCES = 2
  CONTEXTS = 2
  Prios = {1, 2}
  Threshs = {0, 1}
INVARIANTS OneServer BestIsHighest
PROPERTY Served
