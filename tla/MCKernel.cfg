SPECIFICATION EitherSpec
CONSTANTS
  DEPTH = 4
  TMO = 3
  Trigger <- MCTrigger
  SOURCES = 1
  CONTEXTS = 2
  UART_IRQ = 1
  LINE = 7
  Inputs <- MCInputs
  MaxChars = 9
  HAS_S = TRUE
  HAS_U = TRUE
  HALF = 4
  MaxTime = 10
  Deadlines = {0, 2, 5, 9, 13}
  PayloadInstrs <- Software
INVARIANTS StreamIntact OnlyKnownTraps TimerExact NoPhantomSei
PROPERTIES AllStored Delivered
