CONSTANTS
  Irq = {3, 5}
  Soft = {32}
  Pci = pci
  Stdio = stdio
  Free = free
SPECIFICATION Spec
INVARIANTS
  HandlersSound
  WorkNeverUnseen
