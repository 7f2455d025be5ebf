CONSTANTS
  Irq = {3}
  Soft = {32}
  Pci = pci
  Stdio = stdio
  Free = free
SPECIFICATION FairSpec
PROPERTIES
  InterruptServed
