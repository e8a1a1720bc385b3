SPECIFICATION Spec
CONSTANTS
  HAS_S = TRUE
  HAS_U = TRUE
  Irqs = {5, 7}
  Deleg = {5}
  Lines = {7}
  Pcs = {0, 1}
  Instrs <- Software
INVARIANTS FrameIntact IrqAsSpecified
